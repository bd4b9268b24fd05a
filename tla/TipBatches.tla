------------------------------ MODULE TipBatches ------------------------------
(***************************************************************************)
(* How a poll of the tip workers shares its attention between rows.  Every *)
(* poll of src/src/infra/db/social_tips.rs takes the oldest BATCH_SIZE     *)
(* rows that were not checked within the rate window, and stamps each row  *)
(* it processed; a cycle runs once per tick of its interval in             *)
(* src/src/main.rs.  Here the poll is get_settled_tips_for_reorg_check:    *)
(* its rows, the settled tips, are ordered by sweep_confirmed_at and stay. *)
(* A row is the number of its settlement.                                  *)
(***************************************************************************)
EXTENDS Integers, FiniteSets

CONSTANTS
    MaxSettled,    \* bound: tips settled in a behaviour
    BatchSize,     \* BATCH_SIZE, scaled
    RateWindow,    \* the rate limit of a row, in clock ticks
    CyclePeriod    \* ticks between two cycles

VARIABLES
    settled,       \* tips settled so far: rows 1..settled
    sinceCheck,    \* ticks since last_confirmation_check, RateWindow + 1 when more
    checkedOnce,   \* rows some cycle re-probed since they settled
    untilCycle     \* ticks left to the next cycle

vars == <<settled, sinceCheck, checkedOnce, untilCycle>>

Rows == 1..MaxSettled
Expired == RateWindow + 1

TypeOK ==
    /\ settled \in 0..MaxSettled
    /\ sinceCheck \in [Rows -> 0..Expired]
    /\ checkedOnce \subseteq 1..settled
    /\ untilCycle \in 0..CyclePeriod

Init ==
    /\ settled = 0
    /\ sinceCheck = [r \in Rows |-> Expired]
    /\ checkedOnce = {}
    /\ untilCycle = CyclePeriod

\* last_confirmation_check < NOW() - the window.
Eligible == {r \in 1..settled : sinceCheck[r] > RateWindow}

\* ORDER BY sweep_confirmed_at ASC LIMIT BATCH_SIZE.
Batch == {r \in Eligible : Cardinality({q \in Eligible : q < r}) < BatchSize}

\* The confirm cycle settles one more tip; it stamped the row at its last check
\* of it at most a moment ago, or long ago.
Settle ==
    /\ settled < MaxSettled
    /\ settled' = settled + 1
    /\ \E age \in 0..Expired : sinceCheck' = [sinceCheck EXCEPT ![settled + 1] = age]
    /\ UNCHANGED <<checkedOnce, untilCycle>>

Tick ==
    /\ untilCycle > 0
    /\ untilCycle' = untilCycle - 1
    /\ sinceCheck' = [r \in Rows |-> IF sinceCheck[r] = Expired THEN Expired
                                                                ELSE sinceCheck[r] + 1]
    /\ UNCHANGED <<settled, checkedOnce>>

\* reorg_cycle_inner: every row of the batch is re-probed and stamped.
Cycle ==
    /\ untilCycle = 0
    /\ untilCycle' = CyclePeriod
    /\ sinceCheck' = [r \in Rows |-> IF r \in Batch THEN 0 ELSE sinceCheck[r]]
    /\ checkedOnce' = checkedOnce \union Batch
    /\ UNCHANGED settled

Next == Settle \/ Tick \/ Cycle

\* The interval timer of main.rs never stops.
Spec == Init /\ [][Next]_vars /\ WF_vars(Tick) /\ WF_vars(Cycle)

\* Every settled tip is re-probed at some time after it settled: a reorg that
\* orphans its sweep is noticed (run_sweep_reorg_cycle).
EverySettledTipRechecked == \A r \in Rows : r <= settled ~> r \in checkedOnce
===============================================================================
