----------------------------- MODULE TipLifecycle -----------------------------
(***************************************************************************)
(* What the lifecycle of a tip promises, without the database, the workers *)
(* or the chain: where a tip may go from where it is, and that a claim is  *)
(* only ever opened on a tip whose funding was verified to cover its       *)
(* amount.  Tips are independent of each other.  This is the lifecycle of  *)
(* the migration that creates social_tips, with the reorg revert (claimed  *)
(* to claiming) and the garbage collection of an unconfirmed tip that the  *)
(* code adds.                                                              *)
(***************************************************************************)
CONSTANTS Tips

VARIABLES
    phase,         \* phase[t]: where the tip is
    covered        \* covered[t]: its funding was seen to cover its amount

Edges ==
    {<<"absent", "draft">>, <<"absent", "pending_confirmation">>,
     <<"draft", "pending_confirmation">>, <<"draft", "cancelled">>,
     <<"pending_confirmation", "cancelled">>, <<"pending_confirmation", "clawed_back">>,
     <<"pending_confirmation", "funding_mismatch">>,
     <<"pending", "clawed_back">>, <<"claiming", "clawed_back">>,
     <<"funding_mismatch", "clawed_back">>, <<"cancelled", "clawed_back">>,
     <<"claiming", "claimed">>, <<"claimed", "claiming">>}

Init ==
    /\ phase = [t \in Tips |-> "absent"]
    /\ covered = [t \in Tips |-> FALSE]

\* A tip moves along an edge; coverage is not in question.
Move(t) ==
    /\ <<phase[t], phase'[t]>> \in Edges
    /\ covered'[t] = covered[t]

\* The only door to pending: the funding covers the amount.
Offer(t) ==
    /\ phase[t] = "pending_confirmation" /\ phase'[t] = "pending"
    /\ covered'[t]

\* The only door to claiming from outside: a covered tip.
Open(t) ==
    /\ phase[t] = "pending" /\ phase'[t] = "claiming"
    /\ covered[t] /\ covered'[t]

Stay(t) == phase'[t] = phase[t] /\ covered'[t] = covered[t]

Next == \A t \in Tips : Move(t) \/ Offer(t) \/ Open(t) \/ Stay(t)

Spec == Init /\ [][Next]_<<phase, covered>>
===============================================================================
