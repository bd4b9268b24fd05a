------------------------------- MODULE Electrum -------------------------------
(***************************************************************************)
(* The Electrum client of BTC and LTC: one call tries the primary server   *)
(* behind a circuit breaker and then the fallbacks in any order; a batch   *)
(* drives one call per address with bounded concurrency under a deadline.  *)
(* Slot 0 is a call of its own, slots 1..Batch are the addresses of the    *)
(* batch endpoints (balance_multi, utxos_multi), which report on both.     *)
(*                                                                         *)
(* Time moves in ticks of ten seconds and is kept as ages and remaining    *)
(* times, so that it needs no bound: the exchange timeout and the cooldown *)
(* are three ticks, the batch deadline two; a server that is up or down is *)
(* heard of within one.                                                    *)
(***************************************************************************)
EXTENDS Integers, Sequences, FiniteSets, SequencesExt

CONSTANTS Batch,        \* addresses in a batch
          Window,       \* BATCH_CONCURRENCY
          Fallbacks,    \* fallback servers
          Balances,     \* balances a server may report
          MaxU64,       \* the largest u64
          MaxFaults     \* how often servers change state or refuse a request

ConstantsOK ==
    /\ Batch \in Nat /\ Window \in Nat \ {0} /\ MaxU64 \in Nat /\ Balances \subseteq 0..MaxU64
    /\ "primary" \notin Fallbacks

VARIABLES
    server,    \* "up", "down" (refuses) or "silent" (accepts and says nothing)
    failures,  \* primary_fail_count, from the threshold on not counted further
    cooldown,  \* ticks until primary_cooldown_until_ms
    call,      \* Slots -> call
    batch,     \* "idle" or "running"
    elapsed,   \* ticks since the batch began
    finished,  \* slots of the batch in the order their calls ended
    answer,    \* of the last batch
    healthy,   \* ticks the primary has been up without refusing anything, up to Healed
    faults

vars == <<server, failures, cooldown, call, batch, elapsed, finished, answer, healthy, faults>>

Threshold == 2
Cooldown == 3
IoTimeout == 3
Deadline == 2
Healed == Cooldown + 1

Servers == Fallbacks \cup {"primary"}
Members == 1..Batch
Slots == 0..Batch

\* at names the server being tried; age is the time since the call began (the
\* breaker's now, counted up to the timeout), waited the time this attempt takes,
\* left the untried fallbacks.
Call == [at : Servers \cup {"idle", "ok", "error"}, age : 0..IoTimeout,
         waited : 0..IoTimeout, left : SUBSET Fallbacks, value : Balances \cup {0}]
NoCall == [at |-> "idle", age |-> 0, waited |-> 0, left |-> {}, value |-> 0]

NoAnswer == [kind |-> "none", tags |-> <<>>, sum |-> 0]
Overflow == -1

TypeOK ==
    /\ server \in [Servers -> {"up", "down", "silent"}]
    /\ failures \in 0..Threshold /\ cooldown \in 0..Cooldown
    /\ call \in [Slots -> Call]
    /\ batch \in {"idle", "running"} /\ elapsed \in 0..Deadline
    /\ finished \in Seq(Members) /\ IsInjective(finished)
    /\ answer.kind \in {"none", "ok", "error", "deadline"}
    /\ healthy \in 0..Healed /\ faults \in 0..MaxFaults

Init ==
    /\ server = [s \in Servers |-> "up"]
    /\ failures = 0 /\ cooldown = 0
    /\ call = [c \in Slots |-> NoCall]
    /\ batch = "idle" /\ elapsed = 0 /\ finished = <<>> /\ answer = NoAnswer
    /\ healthy = Healed /\ faults = 0

-------------------------------------------------------------------------------
(* The circuit breaker.                                                     *)

\* A slip: a tripped breaker stays tripped until a success.
PrimaryTripped == failures >= Threshold

\* primary_in_cooldown
PrimaryInCooldown == cooldown > 0

\* The cooldown is counted from the start of the call, not from its failure.
RecordPrimaryFailure(age) ==
    /\ failures' = IF failures < Threshold THEN failures + 1 ELSE failures
    /\ cooldown' = IF failures + 1 < Threshold THEN cooldown
                   ELSE IF age < Cooldown THEN Cooldown - age ELSE 0

RecordPrimarySuccess == failures' = 0 /\ cooldown' = 0

-------------------------------------------------------------------------------
(* One call.                                                                *)

\* The next server of a call: an untried fallback, or the error of the last attempt.
NextTry(c) ==
    IF c.left = {} THEN {[c EXCEPT !.at = "error", !.age = 0, !.waited = 0]}
    ELSE {[c EXCEPT !.at = s, !.left = @ \ {s}, !.waited = 0] : s \in c.left}

\* Where a call begins: a primary in cooldown is skipped if there is a fallback.
FirstTry ==
    LET fresh == [NoCall EXCEPT !.left = Fallbacks]
    IN IF PrimaryInCooldown /\ Fallbacks # {} THEN NextTry(fresh)
       ELSE {[fresh EXCEPT !.at = "primary"]}

Begin(c) == \E t \in FirstTry : call' = [call EXCEPT ![c] = t]

Trying(c) == call[c].at \in Servers

Ended(c) == finished' = IF c \in Members THEN Append(finished, c) ELSE finished

\* The server answers.
Answered(c) ==
    /\ Trying(c) /\ server[call[c].at] = "up"
    /\ IF call[c].at = "primary" THEN RecordPrimarySuccess ELSE UNCHANGED <<failures, cooldown>>
    /\ \E v \in Balances : call' = [call EXCEPT ![c] = [NoCall EXCEPT !.at = "ok", !.value = v]]
    /\ Ended(c) /\ UNCHANGED <<server, batch, elapsed, answer, healthy, faults>>

\* The connection is refused, the exchange has timed out, or the answer is an RPC
\* error: all three count against the primary and move on to the next server.
Failed(c) ==
    /\ Trying(c)
    /\ \/ server[call[c].at] = "down" /\ UNCHANGED faults
       \/ server[call[c].at] = "silent" /\ call[c].waited = IoTimeout /\ UNCHANGED faults
       \/ server[call[c].at] = "up" /\ faults < MaxFaults /\ faults' = faults + 1
    /\ IF call[c].at = "primary" THEN RecordPrimaryFailure(call[c].age) /\ healthy' = 0
       ELSE UNCHANGED <<failures, cooldown, healthy>>
    /\ \E t \in NextTry(call[c]) :
       /\ call' = [call EXCEPT ![c] = t]
       /\ IF t.at = "error" THEN Ended(c) ELSE UNCHANGED finished
    /\ UNCHANGED <<server, batch, elapsed, answer>>

\* A call outside the batch (get_balance, get_history, get_tip_height ...).
Single ==
    /\ ~Trying(0) /\ Begin(0)
    /\ UNCHANGED <<server, failures, cooldown, batch, elapsed, finished, answer, healthy, faults>>

-------------------------------------------------------------------------------
(* A batch.                                                                 *)

BeginBatch ==
    /\ batch = "idle" /\ Batch > 0
    /\ batch' = "running" /\ elapsed' = 0 /\ finished' = <<>> /\ answer' = NoAnswer
    /\ UNCHANGED <<server, failures, cooldown, call, healthy, faults>>

\* buffered(n) yields in input order: a slot starts when at most n - 1 slots before
\* it are not yet yielded.
Yielded == IF \A i \in Members : call[i].at = "ok" THEN Batch
           ELSE (CHOOSE i \in Members :
                    call[i].at # "ok" /\ \A j \in 1..i - 1 : call[j].at = "ok") - 1

Query(i) ==
    /\ batch = "running" /\ call[i].at = "idle" /\ i <= Yielded + Window
    /\ Begin(i)
    /\ UNCHANGED <<server, failures, cooldown, batch, elapsed, finished, answer, healthy, faults>>

\* A slip: results are taken as they come in (buffer_unordered).
ResultsUnordered == finished

\* Results in input order, as the slots they answer.
Results == [i \in Members |-> i]

\* get_utxos_tagged: addresses zipped with results.
Tagged == [i \in Members |-> <<i, Results[i]>>]

\* A slip: the sum wraps.
SumBalancesWrapped(values) ==
    LET total[i \in 0..Batch] ==
            IF i = 0 THEN 0 ELSE (total[i - 1] + values[i]) % (MaxU64 + 1)
    IN total[Batch]

\* The running total of sum_balances: checked addition, and an overflow ends it.
Totals(values) ==
    LET total[i \in 0..Batch] ==
            IF i = 0 THEN 0
            ELSE IF total[i - 1] = Overflow \/ total[i - 1] + values[i] > MaxU64 THEN Overflow
            ELSE total[i - 1] + values[i]
    IN total

SumBalances(values) == Totals(values)[Batch]

Close(a) ==
    /\ batch' = "idle" /\ answer' = a /\ elapsed' = 0 /\ finished' = <<>>
    /\ call' = [c \in Slots |-> IF c \in Members THEN NoCall ELSE call[c]]
    /\ UNCHANGED <<server, failures, cooldown, healthy, faults>>

\* All addresses answered; a sum that does not fit is an error.
BatchDone ==
    /\ batch = "running" /\ Yielded = Batch
    /\ LET sum == SumBalances([i \in Members |-> call[Results[i]].value])
       IN Close(IF sum = Overflow THEN [NoAnswer EXCEPT !.kind = "error"]
                ELSE [kind |-> "ok", tags |-> Tagged, sum |-> sum])

\* The first error, in input order, fails the batch; the calls in flight are dropped.
BatchFailed ==
    /\ batch = "running" /\ Yielded < Batch /\ call[Yielded + 1].at = "error"
    /\ Close([NoAnswer EXCEPT !.kind = "error"])

\* The deadline drops the calls in flight: what they were waiting for is not recorded.
BatchDeadline ==
    /\ batch = "running" /\ elapsed = Deadline
    /\ Close([NoAnswer EXCEPT !.kind = "deadline"])

-------------------------------------------------------------------------------
(* Time and the servers (external).                                         *)

Sooner(a, b) == IF a < b THEN a ELSE b

\* Time passes only when what is due has happened: a server that is up or down is
\* heard of within a tick, a timeout has fired, the slots of the window are in flight
\* and a decided batch has been answered.
Settled ==
    /\ \A c \in Slots : Trying(c) =>
          call[c].waited < (IF server[call[c].at] = "silent" THEN IoTimeout ELSE 1)
    /\ batch = "running" =>
       /\ elapsed < Deadline /\ Yielded < Batch /\ call[Yielded + 1].at # "error"
       /\ \A i \in Members : i <= Yielded + Window => call[i].at # "idle"

Tick ==
    /\ Settled
    /\ cooldown' = IF cooldown > 0 THEN cooldown - 1 ELSE 0
    /\ elapsed' = IF batch = "running" THEN elapsed + 1 ELSE 0
    /\ call' = [c \in Slots |-> IF Trying(c)
                   THEN [call[c] EXCEPT !.age = Sooner(@ + 1, IoTimeout), !.waited = @ + 1]
                   ELSE call[c]]
    /\ healthy' = IF server["primary"] = "up" THEN Sooner(healthy + 1, Healed) ELSE 0
    /\ UNCHANGED <<server, failures, batch, finished, answer, faults>>

Change ==
    /\ faults < MaxFaults /\ faults' = faults + 1
    /\ \E s \in Servers, x \in {"up", "down", "silent"} : server' = [server EXCEPT ![s] = x]
    /\ healthy' = IF server'["primary"] = server["primary"] THEN healthy ELSE 0
    /\ UNCHANGED <<failures, cooldown, call, batch, elapsed, finished, answer>>

Next ==
    \/ \E c \in Slots : Answered(c) \/ Failed(c)
    \/ \E i \in Members : Query(i)
    \/ Single \/ BeginBatch \/ BatchDone \/ BatchFailed \/ BatchDeadline \/ Tick \/ Change

Spec == Init /\ [][Next]_vars

-------------------------------------------------------------------------------
(* Properties.                                                              *)

Sum[i \in 0..Batch] == IF i = 0 THEN 0 ELSE Sum[i - 1] + call[i].value

\* A batch answer is exact: its total is the sum of what the servers reported and never
\* wraps, and every output is tagged with the address that owns it, whichever address
\* was answered first.
BatchExact ==
    [][(answer' # answer /\ answer'.kind = "ok") =>
          /\ answer'.sum = Sum[Batch]
          /\ \A i \in Members : answer'.tags[i] = <<i, i>>]_vars

\* The breaker heals: a primary that has been up for longer than the cooldown serves
\* the next call, whatever calls that began during the outage recorded afterwards, and
\* however much longer they took.
PrimaryServesAgain == healthy = Healed => \A t \in FirstTry : t.at = "primary"
===============================================================================
