-------------------------------- MODULE SignIns --------------------------------
(***************************************************************************)
(* What a sign-in promises, without requests, tables or accounts: it is    *)
(* one right that is passed from token to token by rotation.  At any time  *)
(* at most one token is good for it; a token that has left use never comes *)
(* back, and neither does a sign-in that is over.  Sign-ins are            *)
(* independent of each other and named after their first token.            *)
(***************************************************************************)
CONSTANT Tokens

VARIABLES
    right,   \* right[l]: "none" before the sign-in, "held", then "over"
    good,    \* good[l]: the tokens that are good for the sign-in
    spent    \* the tokens that have left use

Init ==
    /\ right = [l \in Tokens |-> "none"]
    /\ good = [l \in Tokens |-> {}]
    /\ spent = {}

\* A token that was never in use.
New(i) == i \notin spent /\ \A l \in Tokens : i \notin good[l]

Stay(l) == right'[l] = right[l] /\ good'[l] = good[l]

Begin(l) ==
    /\ right[l] = "none" /\ right'[l] = "held"
    /\ New(l) /\ good'[l] = {l}

\* The token leaves use and the right to the next one is kept: a rotation has begun.
Take(l) ==
    /\ right[l] = "held" /\ right'[l] = "held"
    /\ good[l] # {} /\ good'[l] = {} /\ good[l] \subseteq spent'

\* The rotation ends with a new token.
Give(l) ==
    /\ right[l] = "held" /\ right'[l] = "held"
    /\ good[l] = {} /\ \E i \in Tokens : New(i) /\ good'[l] = {i}

End(l) ==
    /\ right[l] = "held" /\ right'[l] = "over"
    /\ good'[l] = {} /\ good[l] \subseteq spent'

Next ==
    /\ spent \subseteq spent'
    /\ \A l \in Tokens : Stay(l) \/ Begin(l) \/ Take(l) \/ Give(l) \/ End(l)

Spec == Init /\ [][Next]_<<right, good, spent>>
===============================================================================
