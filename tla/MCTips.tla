-------------------------------- MODULE MCTips --------------------------------
(***************************************************************************)
(* Instances of TipSystem for TLC.  Funding transactions are 1 and 2, sweep *)
(* ids 3, 4 and 5; alice sends, bob and carol claim.                       *)
(***************************************************************************)
EXTENDS TipSystem, FiniteSetsExt, TLC

CONSTANTS alice, bob, carol, t1

MCTipIds == {t1}
OneReplica == {"r1"}
TwoReplicas == {"r1", "r2"}

MCSender == [t \in Tips |-> alice]
PublicTip == [t \in Tips |-> NoUser]

Bitcoin == [t \in Tips |-> "btc"]
Monero == [t \in Tips |-> "xmr"]
Grin == [t \in Tips |-> "grin"]

Two == [t \in Tips |-> 2]
One == [t \in Tips |-> 1]
Zero == [t \in Tips |-> 0]
FirstOutput == [t \in Tips |-> 1]

\* Output 1 carries the declared amount, output 2 half of it.
AmountOf(f) == IF f = 1 THEN 2 ELSE 1
MCWorth == [S \in SUBSET FundTxs |-> MapThenSumSet(AmountOf, S)]

\* Competing sweeps of output 1; with output 2 swept on its own by 4.
Competing == [x \in SweepTxs |-> {1}]
Separate == [x \in SweepTxs |-> IF x = 4 THEN {2} ELSE {1}]
WithStranger == [x \in SweepTxs |-> IF x = 5 THEN {} ELSE {1}]

Claimers == Permutations({bob, carol})
===============================================================================
