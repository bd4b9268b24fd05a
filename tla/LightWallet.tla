------------------------------ MODULE LightWallet ------------------------------
(***************************************************************************)
(* Registration of Monero and Wownero accounts at the light-wallet server  *)
(* (LWS): POST /wallet/lws/register and /wallet/lws/provision_subaddrs,    *)
(* and the client calls they are made of.  One address: requests meet only *)
(* in the account they register.  Every call to the LWS is a step of its   *)
(* own and may fail, or take effect and lose its answer; the process may   *)
(* crash between any two of them.                                          *)
(*                                                                         *)
(* The LWS is external and modelled from what the client relies on: it     *)
(* adds accounts at the tip, scans forward block by block and attributes a *)
(* payment to a subaddress only when its index was provisioned by then.    *)
(***************************************************************************)
EXTENDS Integers, FiniteSetsExt

CONSTANTS Requests,      \* concurrent HTTP requests
          Paid,          \* payments to the address: [height, minor]
          MaxMinors,     \* MAX_PROVISION_MINORS
          MaxDepth,      \* how deep a restore may start, in blocks
          Capacities,    \* values of the LWS option --max-subaddresses
          None,
          MaxTip, MaxFaults, MaxCrashes   \* bounds of the model

ConstantsOK ==
    /\ MaxMinors \in Nat \ {0} /\ MaxDepth \in Nat /\ MaxTip \in Nat /\ Capacities \subseteq Nat
    /\ Paid \subseteq [height : 0..MaxTip, minor : Nat]

VARIABLES
    tip,       \* chain height
    account,   \* the account at the LWS, or NoAccount
    capacity,  \* --max-subaddresses of the running LWS
    cached,    \* subaddr_capacity: what max_subaddresses() probed, or None
    enabled,   \* FEATURE_XMR_SUBADDR_PROVISIONING
    call,      \* the requests
    faults, crashes

vars == <<tip, account, capacity, cached, enabled, call, faults, crashes>>

Attempts == 3

Heights == 0..MaxTip
Ranges == {r \in (0..MaxMinors) \X (0..MaxMinors) : r[1] <= r[2]}
NoAccount == [scan |-> -1, ranges |-> {}, seen |-> {}, intact |-> TRUE]
Account == [scan : 0..MaxTip + 1, ranges : SUBSET Ranges, seen : SUBSET Paid, intact : BOOLEAN]

Steps == {"idle", "lookup", "add", "probe", "provision", "current", "rescan", "ok", "error"}

\* kind: "import" has a birthday, "register" has none, "widen" only provisions.
\* held is the provisioning result import_account holds back while it rescans;
\* ceiling the confirmed index an answer reports.
Call == [at : Steps, kind : {"import", "register", "widen"}, start : Heights,
         width : 0..MaxMinors, tries : 0..Attempts, fresh : BOOLEAN, held : {"ok", "error"},
         ceiling : (0..MaxMinors) \cup {None}]

NoCall == [at |-> "idle", kind |-> "register", start |-> 0, width |-> 0, tries |-> 0,
           fresh |-> FALSE, held |-> "ok", ceiling |-> None]

TypeOK ==
    /\ tip \in Heights
    /\ account \in Account \cup {NoAccount}
    /\ capacity \in Capacities /\ cached \in Capacities \cup {None} /\ enabled \in BOOLEAN
    /\ call \in [Requests -> Call]
    /\ faults \in 0..MaxFaults /\ crashes \in 0..MaxCrashes

Init ==
    /\ tip = 1 /\ account = NoAccount
    /\ capacity \in Capacities /\ cached = None /\ enabled \in BOOLEAN
    /\ call = [r \in Requests |-> NoCall]
    /\ faults = 0 /\ crashes = 0

Registered == account # NoAccount

-------------------------------------------------------------------------------
(* Pure parts.                                                              *)

Larger(a, b) == IF a > b THEN a ELSE b
Smaller(a, b) == IF a < b THEN a ELSE b

\* min_start_height, with the policy's days already turned into blocks.
MinStartHeight == Larger(tip - MaxDepth, 0)

\* effective_provision_minors: a client may raise the default, never enable.
EffectiveProvisionMinors(requested) ==
    IF enabled THEN Larger(MaxMinors, Smaller(requested, MaxMinors)) ELSE 0

\* provision_width_for: an index becomes a width.
ProvisionWidthFor(maxMinor) == IF enabled THEN Smaller(maxMinor + 1, MaxMinors) ELSE 0

\* A slip: the highest index of any range.
ConfirmedWidest(ranges) ==
    IF \A x \in ranges : x[1] > 0 THEN None
    ELSE (CHOOSE x \in ranges : \A y \in ranges : y[2] <= x[2])[2]

\* The ends of the ranges that start at an index; an inverted range is dropped.
Ends(ranges, a) == {x[2] : x \in {y \in ranges : y[1] = a /\ y[1] <= y[2]}}

\* The loop over the ranges in the order of their starts: the ceiling once the ranges
\* that start at or below a were met.  One that starts past the next index is a gap,
\* and so are all that follow it.
Ceilings(ranges) ==
    LET ceiling[a \in 0..MaxMinors] ==
            IF a = 0 THEN Max(Ends(ranges, 0))
            ELSE IF a > ceiling[a - 1] + 1 THEN ceiling[a - 1]
            ELSE Max(Ends(ranges, a) \cup {ceiling[a - 1]})
    IN ceiling

\* confirmed_minor_max: the end of the run of ranges that starts at 0.
ConfirmedMinorMax(ranges) ==
    IF Ends(ranges, 0) = {} THEN None ELSE Ceilings(ranges)[MaxMinors]

-------------------------------------------------------------------------------
(* The handlers.                                                            *)

Set(r, c) == call' = [call EXCEPT ![r] = c]

Outcomes == {"done", "lost", "failed"}

\* A call that fails, or whose answer is lost, uses up a fault.
Cost(o) == faults' = faults + (IF o = "done" THEN 0 ELSE 1) /\ faults' <= MaxFaults

NoFault == UNCHANGED faults

\* register: the restore gate comes first; a request without a birthday has none.
Register(r) ==
    /\ call[r].at = "idle"
    /\ \E requested \in {0, MaxMinors} :
       LET asked == [NoCall EXCEPT !.at = "lookup", !.width = EffectiveProvisionMinors(requested)]
       IN \/ Set(r, asked)
          \/ \E h \in Heights : /\ h >= MinStartHeight
                                /\ Set(r, [asked EXCEPT !.kind = "import", !.start = h])
    /\ NoFault /\ UNCHANGED <<tip, account, capacity, cached, enabled, crashes>>

\* provision_subaddrs: the route exists only with the flag on.
ProvisionSubaddrs(r) ==
    /\ call[r].at = "idle" /\ enabled
    /\ \E m \in 0..MaxMinors :
       Set(r, [NoCall EXCEPT !.at = "probe", !.kind = "widen", !.width = ProvisionWidthFor(m)])
    /\ NoFault /\ UNCHANGED <<tip, account, capacity, cached, enabled, crashes>>

\* What follows the account's existence: provisioning if any is wanted, then, for an
\* account this request added on import, the rescan; otherwise the answer.
AfterProvision(c) ==
    IF c.kind = "import" /\ c.fresh THEN [c EXCEPT !.at = "current", !.tries = 0]
    ELSE [c EXCEPT !.at = c.held]

\* A slip: an import goes straight to its rescan and leaves the subaddresses for the
\* next registration.
AfterAddUnprovisioned(c) ==
    IF c.width > 0 /\ c.kind = "register" THEN [c EXCEPT !.at = "probe"] ELSE AfterProvision(c)

AfterAdd(c) == IF c.width > 0 THEN [c EXCEPT !.at = "probe"] ELSE AfterProvision(c)

\* account_scan_height, which decides whether to add.
LookUp(r) ==
    /\ call[r].at = "lookup"
    /\ \E o \in {"done", "failed"} :
       /\ Cost(o)
       /\ Set(r, CASE o = "failed" -> [call[r] EXCEPT !.at = "error"]
                   [] o = "done" /\ Registered -> AfterAdd(call[r])
                   [] OTHER -> [call[r] EXCEPT !.at = "add"])
    /\ UNCHANGED <<tip, account, capacity, cached, enabled, crashes>>

\* admin_add_account: at the tip; adding twice is an error of the LWS.
AddAccount(r) ==
    /\ call[r].at = "add"
    /\ \E o \in Outcomes :
       LET taken == o # "failed" /\ ~Registered
       IN /\ Cost(o)
          /\ account' = IF taken THEN [NoAccount EXCEPT !.scan = tip] ELSE account
          /\ Set(r, IF taken /\ o = "done" THEN AfterAdd([call[r] EXCEPT !.fresh = TRUE])
                    ELSE [call[r] EXCEPT !.at = "error"])
    /\ UNCHANGED <<tip, capacity, cached, enabled, crashes>>

\* ensure_subaddr_capacity: the ceiling is probed once per process.
Probe(r) ==
    /\ call[r].at = "probe"
    /\ \E o \in {"done", "failed"} :
       /\ Cost(o)
       /\ o = "failed" => cached = None
       /\ cached' = IF cached = None /\ o = "done" THEN capacity ELSE cached
       /\ Set(r, IF o = "done" /\ cached' >= call[r].width
                 THEN [call[r] EXCEPT !.at = "provision", !.tries = 0]
                 ELSE AfterProvision([call[r] EXCEPT !.held = "error"]))
    /\ UNCHANGED <<tip, account, capacity, enabled, crashes>>

\* A registration requires the confirmed run to cover the ask; an on-demand request
\* reports whatever was confirmed.
Covers(c, confirmed) == c.kind = "widen" \/ confirmed + 1 >= c.width

\* One attempt of provision_account0_with_retry.
Provision(r) ==
    /\ call[r].at = "provision"
    /\ \E o \in Outcomes :
       LET c == call[r]
           upsert == o # "failed" /\ Registered /\ capacity >= c.width
           ranges == IF upsert THEN account.ranges \cup {<<0, c.width - 1>>} ELSE account.ranges
           confirmed == ConfirmedMinorMax(ranges)
       IN /\ Cost(o)
          /\ account' = [account EXCEPT !.ranges = ranges]
          /\ Set(r, IF upsert /\ o = "done"
                    THEN AfterProvision([c EXCEPT !.ceiling = confirmed,
                             !.held = IF Covers(c, confirmed) THEN "ok" ELSE "error"])
                    ELSE IF c.tries + 1 < Attempts THEN [c EXCEPT !.tries = @ + 1]
                    ELSE AfterProvision([c EXCEPT !.held = "error"]))
    /\ UNCHANGED <<tip, capacity, cached, enabled, crashes>>

\* rescan_back_to reads the scan height once.
Current(r) ==
    /\ call[r].at = "current"
    /\ \E o \in {"done", "failed"} :
       /\ Cost(o)
       /\ Set(r, IF o = "failed" THEN [call[r] EXCEPT !.at = "error"]
                 ELSE IF call[r].start >= account.scan THEN [call[r] EXCEPT !.at = call[r].held]
                 ELSE [call[r] EXCEPT !.at = "rescan", !.tries = 0])
    /\ UNCHANGED <<tip, account, capacity, cached, enabled, crashes>>

\* The LWS goes back to the height; what a rescan that does not lower it leaves is
\* undefined ("can leave the account inactive or corrupt LMDB state").
Rescanned(h) ==
    IF h < account.scan THEN {[account EXCEPT !.scan = h]}
    ELSE {[account EXCEPT !.scan = h], [account EXCEPT !.intact = FALSE]}

\* One attempt of the rescan; the height is not read again between attempts.
Rescan(r) ==
    /\ call[r].at = "rescan"
    /\ \E o \in Outcomes :
       /\ Cost(o)
       /\ account' \in IF o = "failed" THEN {account} ELSE Rescanned(call[r].start)
       /\ Set(r, IF o = "done" THEN [call[r] EXCEPT !.at = call[r].held]
                 ELSE IF call[r].tries + 1 < Attempts THEN [call[r] EXCEPT !.tries = @ + 1]
                 ELSE [call[r] EXCEPT !.at = "error"])
    /\ UNCHANGED <<tip, capacity, cached, enabled, crashes>>

Running(r) == call[r].at \notin {"idle", "ok", "error"}

\* The process dies: requests in flight end without an answer, the probe is forgotten.
Crash ==
    /\ crashes < MaxCrashes /\ crashes' = crashes + 1
    /\ call' = [r \in Requests |-> IF Running(r) THEN [call[r] EXCEPT !.at = "error"] ELSE call[r]]
    /\ cached' = None
    /\ UNCHANGED <<tip, account, capacity, enabled, faults>>

-------------------------------------------------------------------------------
(* The light-wallet server and the chain (external).                        *)

\* A block is scanned: payments to the primary address and to provisioned indices
\* are attributed.
Scan ==
    /\ Registered /\ account.intact /\ account.scan <= tip
    /\ account' = [account EXCEPT !.scan = @ + 1,
           !.seen = @ \cup {p \in Paid : /\ p.height = account.scan
                                         /\ \/ p.minor = 0
                                            \/ \E x \in account.ranges :
                                               x[1] <= p.minor /\ p.minor <= x[2]}]
    /\ UNCHANGED <<tip, capacity, cached, enabled, call, faults, crashes>>

Mine ==
    /\ tip < MaxTip /\ tip' = tip + 1
    /\ UNCHANGED <<account, capacity, cached, enabled, call, faults, crashes>>

\* The LWS comes back with another --max-subaddresses; the backend keeps its probe.
LwsRestart ==
    /\ capacity' \in Capacities \ {capacity}
    /\ faults < MaxFaults /\ faults' = faults + 1
    /\ UNCHANGED <<tip, account, cached, enabled, call, crashes>>

\* Another client of the LWS provisions a range apart from the first one.
ProvisionedElsewhere ==
    /\ Registered
    /\ account' = [account EXCEPT !.ranges = @ \cup {<<MaxMinors, MaxMinors>>}]
    /\ UNCHANGED <<tip, capacity, cached, enabled, call, faults, crashes>>

Next ==
    \/ \E r \in Requests :
          \/ Register(r) \/ ProvisionSubaddrs(r) \/ LookUp(r) \/ AddAccount(r) \/ Probe(r)
          \/ Provision(r) \/ Current(r) \/ Rescan(r)
    \/ Crash \/ Scan \/ Mine \/ LwsRestart \/ ProvisionedElsewhere

Spec == Init /\ [][Next]_vars

-------------------------------------------------------------------------------
(* Properties.                                                              *)

\* Everything paid between a birthday and the scan height, to the primary address
\* or to an index below the width, was attributed.
Complete(c) ==
    \A p \in Paid :
       (c.start <= p.height /\ p.height < account.scan /\ p.minor < Larger(c.width, 1))
       => p \in account.seen

\* An import that added its account and was answered with success has lost nothing:
\* the subaddresses were in place before the scan passed over their payments.
ImportedComplete ==
    \A r \in Requests :
       (call[r].at = "ok" /\ call[r].kind = "import" /\ call[r].fresh) => Complete(call[r])

\* The ceiling an answer reports is scanned: every index up to it is provisioned at
\* the LWS (confirmed_minor_max).
CeilingScanned ==
    \A r \in Requests : (call[r].at = "ok" /\ call[r].ceiling # None) =>
       \A m \in 0..call[r].ceiling : \E x \in account.ranges : x[1] <= m /\ m <= x[2]

\* What an answer of the restore and registration endpoints promises is scanned.
ScansWhatItPromises == ImportedComplete /\ CeilingScanned
===============================================================================
