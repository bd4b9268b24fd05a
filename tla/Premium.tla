-------------------------------- MODULE Premium --------------------------------
(***************************************************************************)
(* Premium time: invoices minted at one of several payment processors, and *)
(* their activation, which reads the processor (pull, no webhook) and      *)
(* consumes the invoice and extends the window in one transaction.  The    *)
(* operator switches rails on and off by restarting, which also drops the  *)
(* requests in flight.  Time is counted in plan units.                     *)
(***************************************************************************)
EXTENDS Integers, FiniteSets

CONSTANTS Users, Invoices,
          Rails,      \* processor kinds; the primary is always tried first
          Primary,
          Plans,      \* lengths of the plans
          Slots,      \* requests in flight
          MaxPending, \* MAX_PENDING
          MaxTime,    \* bound on the clock
          MaxOutages  \* lost answers of processors, restarts and rail changes

ConstantsOK ==
    /\ "nobody" \notin Users /\ Invoices \subseteq Nat \ {0} /\ IsFiniteSet(Invoices)
    /\ Primary \in Rails /\ Plans \subseteq Nat \ {0}
    /\ MaxPending \in Nat /\ MaxTime \in Nat /\ MaxOutages \in Nat

VARIABLES
    rails,     \* the configured rails
    processor, \* Invoices -> the processor's invoice
    rows,      \* Invoices -> row of premium_invoices
    until,     \* premium_until; 0 is NULL
    now,
    req,       \* Slots -> request in flight
    used,      \* time during which a user held premium
    outages

vars == <<rails, processor, rows, until, now, req, used, outages>>

NoOne == "nobody"
\* The statuses of a processor, as map_status reads them: anything unknown is pending.
Statuses == {"pending", "detected", "settled", "expired", "invalid"}
ProcessorInvoice == [status : Statuses \cup {"none"}, rail : Rails, bind : Users \cup {NoOne}]
Row == [user : Users \cup {NoOne}, rail : Rails, days : Plans \cup {0}, consumed : BOOLEAN]
NoRow == [user |-> NoOne, rail |-> Primary, days |-> 0, consumed |-> FALSE]
Request == [pc : {"idle", "select", "insert", "poll", "consume"}, user : Users \cup {NoOne},
            rail : Rails, days : Plans \cup {0}, inv : Invoices \cup {0}]
NoRequest == [pc |-> "idle", user |-> NoOne, rail |-> Primary, days |-> 0, inv |-> 0]

TypeOK ==
    /\ rails \subseteq Rails
    /\ processor \in [Invoices -> ProcessorInvoice]
    /\ rows \in [Invoices -> Row]
    /\ until \in [Users -> Nat] /\ now \in 1..MaxTime
    /\ req \in [Slots -> Request]
    /\ used \in [Users -> Nat] /\ outages \in 0..MaxOutages

Init ==
    /\ rails = Rails
    /\ processor = [i \in Invoices |-> [status |-> "none", rail |-> Primary, bind |-> NoOne]]
    /\ rows = [i \in Invoices |-> NoRow]
    /\ until = [u \in Users |-> 0] /\ now = 1
    /\ req = [s \in Slots |-> NoRequest]
    /\ used = [u \in Users |-> 0] /\ outages = 0

Ends(s) == req' = [req EXCEPT ![s] = NoRequest]

-------------------------------------------------------------------------------
(* Minting an invoice.                                                     *)

\* count_unconsumed_premium_invoices: expired invoices count as well.
Pending(u) == Cardinality({i \in Invoices : rows[i].user = u /\ ~rows[i].consumed})

InvoiceCounts(s, u, r, days) ==
    /\ req[s].pc = "idle" /\ Pending(u) < MaxPending
    /\ r \in rails
    /\ req' = [req EXCEPT ![s] = [NoRequest EXCEPT !.pc = "select", !.user = u, !.rail = r,
                                                  !.days = days]]
    /\ UNCHANGED <<rails, processor, rows, until, now, used, outages>>

\* create_invoice at the selected rail, bound to the user; its answer may be lost.
InvoiceCreates(s) ==
    /\ req[s].pc = "select"
    /\ \E i \in Invoices :
       /\ processor[i].status = "none" /\ \A j \in Invoices : j < i => processor[j].status # "none"
       /\ processor' = [processor EXCEPT ![i] =
              [status |-> "pending", rail |-> req[s].rail, bind |-> req[s].user]]
       /\ \/ req' = [req EXCEPT ![s].pc = "insert", ![s].inv = i] /\ UNCHANGED outages
          \/ outages < MaxOutages /\ outages' = outages + 1 /\ Ends(s)
    /\ UNCHANGED <<rails, rows, until, now, used>>

\* insert_premium_invoice; the payer learns of the invoice only after it.
InvoiceInserts(s) ==
    /\ req[s].pc = "insert"
    /\ rows' = [rows EXCEPT ![req[s].inv] =
           [user |-> req[s].user, rail |-> req[s].rail, days |-> req[s].days, consumed |-> FALSE]]
    /\ Ends(s)
    /\ UNCHANGED <<rails, processor, until, now, used, outages>>

-------------------------------------------------------------------------------
(* Activation.                                                             *)

\* A slip: the primary processor is asked about every invoice.
RailPrimary(i) == Primary

\* for_invoice: the rail that minted the invoice.
RailFor(i) == rows[i].rail

\* The row must be the caller's and unspent, and its rail configured; otherwise the
\* request ends here and the invoice stays redeemable.
ActivateReads(s, u, i) ==
    /\ req[s].pc = "idle" /\ rows[i].user = u /\ ~rows[i].consumed
    /\ RailFor(i) \in rails
    /\ req' = [req EXCEPT ![s] = [pc |-> "poll", user |-> u, rail |-> RailFor(i),
                                  days |-> rows[i].days, inv |-> i]]
    /\ UNCHANGED <<rails, processor, rows, until, now, used, outages>>

\* A slip: a payment that was merely seen grants.
GrantsSeen(i) == processor[i].status \in {"detected", "settled"}

\* Only a settled invoice grants.
Grants(i) == processor[i].status = "settled"

\* What get_invoice makes of the processor's answer; a processor knows its own
\* invoices only.
Confirmed(s) ==
    LET i == req[s].inv
    IN processor[i].rail = req[s].rail /\ Grants(i) /\ processor[i].bind = req[s].user

\* The answer may be lost; anything but a confirmation ends the request.
ActivatePolls(s) ==
    /\ req[s].pc = "poll"
    /\ \/ Confirmed(s) /\ req' = [req EXCEPT ![s].pc = "consume"] /\ UNCHANGED outages
       \/ ~Confirmed(s) /\ Ends(s) /\ UNCHANGED outages
       \/ outages < MaxOutages /\ outages' = outages + 1 /\ Ends(s)
    /\ UNCHANGED <<rails, processor, rows, until, now, used>>

Later(a, b) == IF a > b THEN a ELSE b

\* A slip: a renewal restarts the window.
ExtendedFromNow(t, days) == now + days

\* GREATEST(COALESCE(premium_until, NOW()), NOW()) + days
Extended(t, days) == Later(t, now) + days

\* A slip: the consuming UPDATE does not ask whether the row is unspent.
UnspentNotAsked(i) == TRUE

\* The guard of the consuming UPDATE.
Unspent(i) == ~rows[i].consumed

\* activate_premium: consume and extend commit together or not at all.
ActivateConsumes(s) ==
    LET i == req[s].inv
    IN /\ req[s].pc = "consume"
       /\ IF Unspent(i)
          THEN /\ rows' = [rows EXCEPT ![i].consumed = TRUE]
               /\ until' = [until EXCEPT ![req[s].user] = Extended(@, req[s].days)]
          ELSE UNCHANGED <<rows, until>>
       /\ Ends(s)
       /\ UNCHANGED <<rails, processor, now, used, outages>>

-------------------------------------------------------------------------------
(* The surroundings (external).                                            *)

\* The processor's view moves on: seen, settled, or expired; a paid invoice that was
\* seen may be marked invalid.
Moves == {<<"pending", "detected">>, <<"detected", "settled">>, <<"pending", "settled">>,
          <<"pending", "expired">>, <<"detected", "invalid">>}

ProcessorMoves(i) ==
    /\ rows[i] # NoRow
    /\ \E m \in Moves : /\ processor[i].status = m[1]
                        /\ processor' = [processor EXCEPT ![i].status = m[2]]
    /\ UNCHANGED <<rails, rows, until, now, req, used, outages>>

TimePasses ==
    /\ now < MaxTime /\ now' = now + 1
    /\ used' = [u \in Users |-> IF until[u] > now THEN used[u] + 1 ELSE used[u]]
    /\ UNCHANGED <<rails, processor, rows, until, req, outages>>

\* A restart with other rails drops the requests in flight.
Restart ==
    /\ outages < MaxOutages /\ outages' = outages + 1
    /\ rails' \in SUBSET Rails
    /\ req' = [s \in Slots |-> NoRequest]
    /\ UNCHANGED <<processor, rows, until, now, used>>

\* The operator brings a rail back.
RailReturns ==
    /\ rails # Rails /\ rails' = Rails
    /\ UNCHANGED <<processor, rows, until, now, req, used, outages>>

Minting(s) == InvoiceCreates(s) \/ InvoiceInserts(s)
Activating(s) == ActivatePolls(s) \/ ActivateConsumes(s)

Next ==
    \/ \E s \in Slots, u \in Users :
          \/ \E r \in Rails, days \in Plans : InvoiceCounts(s, u, r, days)
          \/ \E i \in Invoices : ActivateReads(s, u, i)
    \/ \E s \in Slots : Minting(s) \/ Activating(s)
    \/ \E i \in Invoices : ProcessorMoves(i)
    \/ TimePasses \/ Restart \/ RailReturns

\* The payer keeps asking for what was paid, requests run, rails return.
Fairness ==
    /\ \A s \in Slots : WF_vars(Minting(s)) /\ WF_vars(Activating(s))
    /\ \A i \in Invoices : SF_vars(\E s \in Slots, u \in Users : ActivateReads(s, u, i))
    /\ WF_vars(RailReturns)

Spec == Init /\ [][Next]_vars /\ Fairness

-------------------------------------------------------------------------------
(* Properties.                                                             *)

\* The units of time user u bought, each named by its invoice.
Units(u) == UNION {{i} \X (1..rows[i].days) : i \in {j \in Invoices : rows[j].user = u
                                                                     /\ rows[j].consumed}}
Bought(u) == Cardinality(Units(u))

\* Premium time is neither lost nor granted twice: what a user bought is what was used
\* and what is left, whichever activations race, renew early or come after a lapse
\* (activate_premium).
BoughtIsKept == \A u \in Users : Bought(u) = used[u] + Later(until[u] - now, 0)

\* Only a settled invoice, polled at the rail that minted it and bound to its user,
\* ever buys time.
PaidOnly ==
    \A i \in Invoices : rows[i].consumed =>
        /\ processor[i].status = "settled" /\ processor[i].rail = rows[i].rail
        /\ processor[i].bind = rows[i].user

\* Premium time is exactly what settled invoices bought.
PremiumIsPaidTime == BoughtIsKept /\ PaidOnly

\* What was paid is credited in the end, although rails are switched off, processors
\* do not answer and the process restarts between the poll and the transaction.
PaidIsCredited ==
    \A i \in Invoices : processor[i].status = "settled" ~> rows[i].consumed
===============================================================================
