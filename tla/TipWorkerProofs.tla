---------------------------- MODULE TipWorkerProofs ----------------------------
(***************************************************************************)
(* Theorems about the money-out workers of TipSystem: what they read at    *)
(* different times still holds when they write.                            *)
(***************************************************************************)
EXTENDS TipSystemProofs

-------------------------------------------------------------------------------
(* The depth gate.  On assets whose height is read with or after the       *)
(* spends, the winner's block is never above the height it is measured by. *)

MinedBelowTip == \A t \in Tips : \A x \in Txs : mined[t][x] <= height

WinnerBelowHeight ==
    \A w \in Replicas :
        /\ settle[w].pc # "kernel"
        /\ settle[w].h <= height
        /\ settle[w].pc = "height" => settle[w].winH <= height
        /\ settle[w].pc = "decide" => settle[w].winH <= settle[w].h

DepthInv == MinedBelowTip /\ WinnerBelowHeight /\ SettledDeep

\* Blocks and reorganisations keep every transaction at or below the tip.
LEMMA ChainKeepsMinedBelow ==
    ASSUME ChainTypeOK, MinedBelowTip, ChainNext
    PROVE  MinedBelowTip' /\ height <= height' /\ height' \in Int
<1>1. ASSUME NEW t \in Tips, NEW S \in SUBSET Txs, NewBlock(t, S)
      PROVE  MinedBelowTip' /\ height <= height' /\ height' \in Int
    BY <1>1 DEF NewBlock, ChainTypeOK, MinedBelowTip
<1>2. ASSUME NEW k \in 1..MaxHeight, Reorg(k)
      PROVE  MinedBelowTip' /\ height <= height' /\ height' \in Int
    BY <1>2 DEF Reorg, ChainTypeOK, MinedBelowTip
<1> QED
    BY <1>1, <1>2 DEF ChainNext

\* The money-out workers keep the heights they read at or below the chain's,
\* and the winner at or below the height it is measured by.
LEMMA SweepsKeepDepth ==
    ASSUME \A t \in Tips : Asset[t] # "grin",
           TypeOK, MinedBelowTip, WinnerBelowHeight, NEW w \in Replicas, SweepStep(w),
           UNCHANGED height
    PROVE  WinnerBelowHeight'
<1> DEFINE t == settle[w].tip
           Below(job) == /\ job.pc # "kernel"
                         /\ job.h <= height
                         /\ job.pc = "height" => job.winH <= height
                         /\ job.pc = "decide" => job.winH <= job.h
<1>0. /\ settle[w] \in SettleJob /\ settle \in [Replicas -> SettleJob] /\ Below(settle[w])
      /\ settle[w].pc # "idle" => t \in Tips
      /\ height \in 0..MaxHeight /\ 0 <= height
    BY DEF TypeOK, SweepTypeOK, ChainTypeOK, WinnerBelowHeight
<1>a. ASSUME NEW job, settle' = [settle EXCEPT ![w] = job], Below(job)
      PROVE  WinnerBelowHeight'
    BY <1>0, <1>a DEF WinnerBelowHeight
<1>1. ASSUME NEW s \in Tips, SettleSelect(w, s)
      PROVE  WinnerBelowHeight'
  <2> DEFINE job == [SettleIdle EXCEPT
                       !.pc = IF Asset[s] = "grin" THEN "height" ELSE "spends",
                       !.tip = s, !.rec = tips[s].sweepTx]
  <2>1. Below(job)
    BY <1>0 DEF SettleIdle
  <2> HIDE DEF Below
  <2> QED
    BY <1>1, <1>a, <2>1 DEF SettleSelect
<1>2. CASE SettleReadHeight(w)
  <2> DEFINE job == [settle[w] EXCEPT
                       !.pc = IF Asset[t] = "grin" THEN "spends" ELSE "decide", !.h = height]
  <2>1. settle[w].winH <= height
    BY <1>0, <1>2 DEF SettleReadHeight
  <2>2. Below(job)
    BY <1>0, <2>1 DEF SettleJob
  <2> HIDE DEF Below
  <2> QED
    BY <1>2, <1>a, <2>2 DEF SettleReadHeight
<1>3. CASE SettleReadSpends(w)
  <2> DEFINE job == [settle[w] EXCEPT
                       !.pc = IF Asset[t] = "btc" THEN "height" ELSE "decide",
                       !.h = IF Asset[t] = "xmr" THEN height ELSE 0,
                       !.winTx = Winner(t), !.winH = BlockOf(t, Winner(t))]
  <2>1. t \in Tips /\ Asset[t] \in {"btc", "xmr"}
    BY <1>0, <1>3, TipAssumption DEF SettleReadSpends
  <2>2. Winner(t) \in SweepTxs \union {NoTx}
    BY <2>1, WinnerIsASpend, OutputTypes DEF Winner, TypeOK
  <2>3. BlockOf(t, Winner(t)) <= height
    BY <1>0, <2>1, <2>2 DEF BlockOf, MinedBelowTip, Txs
  <2>4. Below(job)
    BY <1>0, <2>1, <2>3 DEF SettleJob
  <2> HIDE DEF Below
  <2> QED
    BY <1>3, <1>a, <2>4 DEF SettleReadSpends
<1>4. CASE SettleWrites(w)
  <2>1. Below(SettleIdle) /\ Below([SettleIdle EXCEPT !.pc = "stamp", !.tip = t])
    BY <1>0 DEF SettleIdle
  <2> HIDE DEF Below
  <2> QED
    BY <1>4, <1>a, <2>1 DEF SettleWrites
<1>5. CASE \/ SettleProbeFails(w) \/ SettleWaits(w) \/ SettleStamps(w)
           \/ SettleAborts(w) \/ SettlePanics(w)
  <2>1. Below(SettleIdle)
    BY <1>0 DEF SettleIdle
  <2> HIDE DEF Below
  <2> QED
    BY <1>5, <1>a, <2>1
    DEF SettleProbeFails, SettleWaits, SettleStamps, SettleAborts, SettlePanics
<1>6. CASE SettleReadOutputs(w)
    BY <1>0, <1>6 DEF SettleReadOutputs
<1>7. CASE SettleReadKernel(w)
    BY <1>0, <1>7 DEF SettleReadKernel
<1>8. CASE UNCHANGED settle
    BY <1>8 DEF WinnerBelowHeight
<1> QED
    BY <1>1, <1>2, <1>3, <1>4, <1>5, <1>6, <1>7, <1>8
    DEF SweepStep, RecheckSelect, RecheckReadSpends, RecheckReadOutputs, RecheckReadKernel,
        RecheckKeeps, RecheckReverts, RecheckStamps, RecheckAborts, RecheckPanics

\* A settlement measured by DeepEnough on such a job is deep.
LEMMA GateMeasuresDepth ==
    ASSUME TypeOK, WinnerBelowHeight, NEW w \in Replicas,
           settle[w].pc = "decide", DeepEnough(settle[w])
    PROVE  height - settle[w].winH + 1 >= SweepDepth[settle[w].tip]
<1>1. /\ settle[w].h \in Int /\ settle[w].winH \in Int /\ height \in Int
      /\ SweepDepth[settle[w].tip] \in Int
    BY SweepAssumption DEF TypeOK, ChainTypeOK, SweepTypeOK, SettleJob
<1>2. settle[w].winH <= settle[w].h /\ settle[w].h <= height
    BY DEF WinnerBelowHeight
<1> QED
    BY <1>1, <1>2 DEF DeepEnough, AsU64

\* Every step keeps DepthInv when no tip is a grin voucher.
LEMMA StepKeepsDepth ==
    ASSUME \A t \in Tips : Asset[t] # "grin", SafetyInv, DepthInv, [Next]_vars
    PROVE  DepthInv'
<1>1. /\ TypeOK /\ RowsMove /\ MinedBelowTip /\ WinnerBelowHeight /\ SettledDeep
      /\ height \in Int
    BY StepKeepsSafety DEF SafetyInv, DepthInv, TypeOK, ChainTypeOK
<1>2. height <= height' /\ height' \in Int /\ MinedBelowTip'
  <2>1. CASE ChainNext
    BY <1>1, <2>1, ChainKeepsMinedBelow DEF TypeOK
  <2>2. CASE UNCHANGED chainVars
    BY <1>1, <2>2 DEF chainVars, MinedBelowTip
  <2> QED
    BY <2>1, <2>2 DEF Next, vars, chainVars
<1>3. WinnerBelowHeight'
  <2>1. CASE (\E w \in Replicas : SweepStep(w)) /\ UNCHANGED <<chainVars, fund>>
    BY <1>1, <2>1, SweepsKeepDepth DEF chainVars
  <2>2. CASE UNCHANGED settle
    <3>1. \A w \in Replicas : settle[w].h \in Int /\ settle[w].winH \in Int
      BY <1>1 DEF TypeOK, SweepTypeOK, SettleJob
    <3> QED
      BY <1>1, <1>2, <2>2, <3>1 DEF WinnerBelowHeight
  <2> QED
    BY <2>1, <2>2
    DEF Next, vars, workerVars, sweepVars, LockStep, LockConnectionBreaks, LeakedConnectionCloses
<1>4. SettledDeep'
  <2> SUFFICES ASSUME NEW t \in Tips, tips'[t].settled
               PROVE  height' - tips'[t].sweepHeight + 1 >= SweepDepth[t]
    BY DEF SettledDeep
  <2>1. RowMoves(t, tips[t], tips'[t])
    BY <1>1 DEF RowsMove
  <2>2. SweepDepth[t] \in Int /\ tips[t].sweepHeight \in Int
    BY <1>1, SweepAssumption DEF TypeOK, TipsTypeOK, Row
  <2>3. CASE tips[t].settled /\ tips'[t].sweepHeight = tips[t].sweepHeight
    BY <1>1, <1>2, <2>2, <2>3 DEF SettledDeep
  <2>4. CASE Settled(t, tips[t], tips'[t])
    <3>1. PICK w \in Replicas : /\ settle[w].pc = "decide" /\ settle[w].tip = t
                               /\ settle[w].winH = tips'[t].sweepHeight
                               /\ DeepEnough(settle[w])
      BY <2>4 DEF Settled
    <3>2. height - settle[w].winH + 1 >= SweepDepth[t]
      BY <1>1, <3>1, GateMeasuresDepth
    <3>3. settle[w].winH \in Int
      BY <1>1 DEF TypeOK, SweepTypeOK, SettleJob
    <3> QED
      BY <1>1, <1>2, <2>2, <3>1, <3>2, <3>3
  <2>5. SettledIffClaimed
    BY DEF SafetyInv
  <2> QED
    BY <2>1, <2>3, <2>4, <2>5
    DEF RowMoves, Stamped, Moved, Opened, Recorded, Judged, Reverted, SameMoney, SettledIffClaimed
<1> QED
    BY <1>2, <1>3, <1>4 DEF DepthInv

\* On btc, ltc, xmr and wow a tip is settled only on a block buried as deep as
\* its asset requires, although height and spends are read at different times
\* and blocks arrive in between.  (On grin the height is read first, and the
\* statement is false.)
THEOREM SettlementsAreDeep ==
    ASSUME \A t \in Tips : Asset[t] # "grin"
    PROVE  Spec => []SettledDeep
<1>1. Init => DepthInv
    BY ChainBoundAssumption
    DEF Init, ChainInit, TipsInit, NoRow, SweepInit, SettleIdle, DepthInv, MinedBelowTip,
        WinnerBelowHeight, SettledDeep
<1>2. SafetyInv /\ DepthInv /\ [Next]_vars => DepthInv'
    BY StepKeepsDepth
<1>3. DepthInv => SettledDeep
    BY DEF DepthInv
<1> QED
    BY <1>1, <1>2, <1>3, SafetyInvariant, PTL DEF Spec

-------------------------------------------------------------------------------
(* The claim race.  While the chain only grows, the winner pick_winner saw *)
(* once is the winner for ever: a later block cannot come before it.       *)

\* x is the sweep pick_winner prefers to every other confirmed one.
Wins(t, x) ==
    /\ x \in Spends(t)
    /\ \A y \in Spends(t) : \/ mined[t][x] < mined[t][y]
                            \/ mined[t][x] = mined[t][y] /\ x <= y

RowsOnWinner ==
    \A t \in Tips : tips[t].settled => /\ Wins(t, tips[t].sweepTx)
                                       /\ tips[t].sweepHeight = mined[t][tips[t].sweepTx]

JobsOnWinner ==
    \A w \in Replicas :
        settle[w].winTx # NoTx => /\ Wins(settle[w].tip, settle[w].winTx)
                                  /\ settle[w].winH = mined[settle[w].tip][settle[w].winTx]

\* A probe that named a winner is at work on a tip, and none asks for kernels.
ProbesAddresses ==
    \A w \in Replicas :
        settle[w].pc # "kernel" /\ (settle[w].winTx # NoTx => settle[w].pc # "idle")

WinnerInv ==
    MinedBelowTip /\ ProbesAddresses /\ (reorgs = 0 => RowsOnWinner /\ JobsOnWinner)

\* pick_winner's answer wins, and nothing else does.
LEMMA WinnerUnique ==
    ASSUME ChainTypeOK, NEW t \in Tips
    PROVE  /\ Spends(t) # {} => Wins(t, PickWinner(t, Spends(t)))
           /\ \A x : Wins(t, x) => Spends(t) # {} /\ x = PickWinner(t, Spends(t))
<1>a. Spends(t) \in SUBSET SweepTxs
    BY DEF Spends
<1>b. \A x \in SweepTxs : x \in Nat /\ mined[t][x] \in Nat
    BY TxAssumption DEF ChainTypeOK, Txs
<1>0. \A x \in Spends(t) : x \in Nat /\ mined[t][x] \in Nat
    BY <1>a, <1>b
<1>1. Spends(t) # {} => Wins(t, PickWinner(t, Spends(t)))
    BY <1>a, WinnerIsASpend DEF Wins
<1>2. ASSUME NEW x, NEW y, Wins(t, x), Wins(t, y)
      PROVE  x = y
    BY <1>0, <1>2 DEF Wins
<1>3. \A x : Wins(t, x) => Spends(t) # {}
    BY DEF Wins
<1> QED
    BY <1>1, <1>2, <1>3

\* A block does not change who won.
LEMMA BlockKeepsWinners ==
    ASSUME ChainTypeOK, MinedBelowTip, NEW s \in Tips, NEW S \in SUBSET Txs, NewBlock(s, S),
           NEW t \in Tips, NEW x, Wins(t, x)
    PROVE  Wins(t, x)' /\ mined'[t][x] = mined[t][x]
<1>0. /\ x \in SweepTxs /\ mined[t][x] > 0 /\ x \in Txs /\ Inputs[x] # {}
      /\ height \in Int /\ mined[t][x] \in Int /\ mined[t][x] <= height
    BY DEF Wins, Spends, ChainTypeOK, MinedBelowTip, Txs
<1>1. \A y \in Txs : \/ mined'[t][y] = mined[t][y]
                     \/ mined'[t][y] = height + 1 /\ mined[t][y] = 0
    BY DEF NewBlock, Includable, ChainTypeOK
<1>2. mined'[t][x] = mined[t][x]
    BY <1>0, <1>1
<1>3. ASSUME NEW y \in SweepTxs, mined'[t][y] > 0, Inputs[y] # {}
      PROVE  \/ mined'[t][x] < mined'[t][y]
             \/ mined'[t][x] = mined'[t][y] /\ x <= y
  <2>1. y \in Txs
    BY DEF Txs
  <2>2. CASE mined'[t][y] = mined[t][y]
    BY <1>2, <1>3, <2>2 DEF Wins, Spends
  <2>3. CASE mined'[t][y] = height + 1
    BY <1>0, <1>2, <2>3
  <2> QED
    BY <1>1, <2>1, <2>2, <2>3
<1> QED
    BY <1>0, <1>2, <1>3 DEF Wins, Spends

\* A confirm cycle that reads the spends of an address while the chain holds still
\* comes out with the winner.
LEMMA SweepsKeepProbes ==
    ASSUME \A t \in Tips : Asset[t] # "grin",
           TypeOK, ProbesAddresses, NEW w \in Replicas, SweepStep(w), UNCHANGED chainVars
    PROVE  ProbesAddresses' /\ (JobsOnWinner => JobsOnWinner')
<1> DEFINE t == settle[w].tip
           Addresses(job) == job.pc # "kernel" /\ (job.winTx # NoTx => job.pc # "idle")
           Holds(job) == job.winTx # NoTx => Wins(job.tip, job.winTx)
                                             /\ job.winH = mined[job.tip][job.winTx]
<1>0. /\ settle[w] \in SettleJob /\ settle \in [Replicas -> SettleJob] /\ Addresses(settle[w])
      /\ settle[w].pc # "idle" => t \in Tips
      /\ JobsOnWinner => Holds(settle[w])
      /\ height \in 0..MaxHeight
    BY DEF TypeOK, SweepTypeOK, ChainTypeOK, ProbesAddresses, JobsOnWinner
<1>a. ASSUME NEW job, settle' = [settle EXCEPT ![w] = job], Addresses(job),
             JobsOnWinner => Holds(job)
      PROVE  ProbesAddresses' /\ (JobsOnWinner => JobsOnWinner')
  <2>1. \A v \in Replicas : settle'[v] = IF v = w THEN job ELSE settle[v]
    BY <1>0, <1>a
  <2>2. ProbesAddresses'
    BY <1>a, <2>1 DEF ProbesAddresses
  <2>3. \A s, x : Wins(s, x)' <=> Wins(s, x)
    BY DEF chainVars, Wins, Spends
  <2>4. ASSUME JobsOnWinner
        PROVE  JobsOnWinner'
    <3> SUFFICES ASSUME NEW v \in Replicas, settle'[v].winTx # NoTx
                 PROVE  /\ Wins(settle'[v].tip, settle'[v].winTx)
                        /\ settle'[v].winH = mined[settle'[v].tip][settle'[v].winTx]
      BY <2>3 DEF JobsOnWinner, chainVars
    <3> QED
      BY <1>a, <2>1, <2>4 DEF JobsOnWinner
  <2> QED
    BY <2>2, <2>4
<1>1. ASSUME NEW s \in Tips, SettleSelect(w, s)
      PROVE  ProbesAddresses' /\ (JobsOnWinner => JobsOnWinner')
  <2> DEFINE job == [SettleIdle EXCEPT
                       !.pc = IF Asset[s] = "grin" THEN "height" ELSE "spends",
                       !.tip = s, !.rec = tips[s].sweepTx]
  <2>1. Addresses(job) /\ Holds(job)
    BY DEF SettleIdle
  <2> HIDE DEF Addresses, Holds
  <2> QED
    BY <1>1, <1>a, <2>1 DEF SettleSelect
<1>2. CASE SettleReadHeight(w)
  <2> DEFINE job == [settle[w] EXCEPT
                       !.pc = IF Asset[t] = "grin" THEN "spends" ELSE "decide", !.h = height]
  <2>1. /\ job.pc \in {"spends", "decide"} /\ job.winTx = settle[w].winTx /\ job.tip = t
        /\ job.winH = settle[w].winH
    BY <1>0 DEF SettleJob
  <2>2. settle' = [settle EXCEPT ![w] = job]
    BY <1>2 DEF SettleReadHeight
  <2> HIDE DEF job
  <2>3. Addresses(job) /\ (JobsOnWinner => Holds(job))
    BY <1>0, <2>1
  <2> HIDE DEF Addresses, Holds
  <2> QED
    BY <1>a, <2>2, <2>3
<1>3. CASE SettleReadSpends(w)
  <2> DEFINE job == [settle[w] EXCEPT
                       !.pc = IF Asset[t] = "btc" THEN "height" ELSE "decide",
                       !.h = IF Asset[t] = "xmr" THEN height ELSE 0,
                       !.winTx = Winner(t), !.winH = BlockOf(t, Winner(t))]
  <2>1. /\ job.pc \in {"height", "decide"} /\ job.winTx = Winner(t) /\ job.tip = t
        /\ job.winH = BlockOf(t, Winner(t))
    BY <1>0 DEF SettleJob
  <2>2. settle' = [settle EXCEPT ![w] = job]
    BY <1>3 DEF SettleReadSpends
  <2>3. t \in Tips
    BY <1>0, <1>3 DEF SettleReadSpends
  <2> HIDE DEF job
  <2>4. Winner(t) # NoTx => Wins(t, Winner(t)) /\ BlockOf(t, Winner(t)) = mined[t][Winner(t)]
    BY <2>3, WinnerUnique DEF Winner, BlockOf, TypeOK
  <2>5. Addresses(job) /\ Holds(job)
    BY <2>1, <2>4
  <2> HIDE DEF Addresses, Holds
  <2> QED
    BY <1>a, <2>2, <2>5
<1>4. CASE \/ SettleWrites(w) \/ SettleProbeFails(w) \/ SettleWaits(w) \/ SettleStamps(w)
           \/ SettleAborts(w) \/ SettlePanics(w)
  <2>1. /\ Addresses(SettleIdle) /\ Holds(SettleIdle)
        /\ Addresses([SettleIdle EXCEPT !.pc = "stamp", !.tip = t])
        /\ Holds([SettleIdle EXCEPT !.pc = "stamp", !.tip = t])
    BY DEF SettleIdle
  <2> HIDE DEF Addresses, Holds
  <2> QED
    BY <1>4, <1>a, <2>1
    DEF SettleWrites, SettleProbeFails, SettleWaits, SettleStamps, SettleAborts, SettlePanics
<1>5. CASE SettleReadOutputs(w) \/ SettleReadKernel(w)
    BY <1>0, <1>5 DEF SettleReadOutputs, SettleReadKernel
<1>6. CASE UNCHANGED settle
    BY <1>6 DEF ProbesAddresses, JobsOnWinner, Wins, Spends, chainVars
<1> QED
    BY <1>1, <1>2, <1>3, <1>4, <1>5, <1>6
    DEF SweepStep, RecheckSelect, RecheckReadSpends, RecheckReadOutputs, RecheckReadKernel,
        RecheckKeeps, RecheckReverts, RecheckStamps, RecheckAborts, RecheckPanics

\* Every step keeps WinnerInv when no tip is a grin voucher.
LEMMA StepKeepsWinners ==
    ASSUME \A t \in Tips : Asset[t] # "grin", SafetyInv, WinnerInv, [Next]_vars
    PROVE  WinnerInv'
<1>0. /\ TypeOK /\ RowsMove /\ SettledIffClaimed /\ MinedBelowTip /\ ProbesAddresses
      /\ reorgs \in Nat
    BY StepKeepsSafety DEF SafetyInv, WinnerInv, TypeOK, ChainTypeOK
<1>1. ASSUME UNCHANGED chainVars
      PROVE  reorgs = 0 => RowsOnWinner'
  <2> SUFFICES ASSUME reorgs = 0, NEW t \in Tips, tips'[t].settled
               PROVE  /\ Wins(t, tips'[t].sweepTx)
                      /\ tips'[t].sweepHeight = mined[t][tips'[t].sweepTx]
    BY <1>1 DEF RowsOnWinner, chainVars, Wins, Spends
  <2>1. RowMoves(t, tips[t], tips'[t]) /\ RowsOnWinner /\ JobsOnWinner
    BY <1>0 DEF RowsMove, WinnerInv
  <2>2. CASE /\ tips[t].settled /\ tips'[t].sweepHeight = tips[t].sweepHeight
             /\ tips'[t].sweepTx = tips[t].sweepTx
    BY <2>1, <2>2 DEF RowsOnWinner
  <2>3. CASE Settled(t, tips[t], tips'[t])
    BY <2>1, <2>3 DEF Settled, JobsOnWinner
  <2> QED
    BY <1>0, <2>1, <2>2, <2>3
    DEF RowMoves, Stamped, Moved, Opened, Recorded, Judged, Reverted, SameMoney,
        SettledIffClaimed
<1>2. CASE ChainNext /\ UNCHANGED <<tips, workerVars>>
  <2>1. MinedBelowTip'
    BY <1>0, <1>2, ChainKeepsMinedBelow DEF TypeOK
  <2>2. ProbesAddresses'
    BY <1>0, <1>2 DEF ProbesAddresses, workerVars
  <2>3. ASSUME reorgs' = 0
        PROVE  RowsOnWinner' /\ JobsOnWinner'
    <3>1. PICK s \in Tips, S \in SUBSET Txs : NewBlock(s, S)
      BY <1>0, <1>2, <2>3 DEF ChainNext, Reorg
    <3>2. RowsOnWinner /\ JobsOnWinner
      BY <2>3, <3>1 DEF WinnerInv, NewBlock
    <3>3. \A t \in Tips : \A x : Wins(t, x) => Wins(t, x)' /\ mined'[t][x] = mined[t][x]
      BY <1>0, <3>1, BlockKeepsWinners DEF TypeOK
    <3>4. \A w \in Replicas : settle[w].winTx # NoTx => settle[w].tip \in Tips
      BY <1>0 DEF ProbesAddresses, TypeOK, SweepTypeOK
    <3>5. tips' = tips /\ settle' = settle
      BY <1>2 DEF workerVars
    <3>6. RowsOnWinner'
      BY <3>2, <3>3, <3>5 DEF RowsOnWinner
    <3>7. JobsOnWinner'
      BY <3>2, <3>3, <3>4, <3>5 DEF JobsOnWinner
    <3> QED
      BY <3>6, <3>7
  <2> QED
    BY <2>1, <2>2, <2>3 DEF WinnerInv
<1>3. CASE (\E w \in Replicas : SweepStep(w)) /\ UNCHANGED <<chainVars, fund>>
  <2>1. UNCHANGED chainVars
    BY <1>3
  <2>2. ProbesAddresses' /\ (JobsOnWinner => JobsOnWinner')
    BY <1>0, <1>3, <2>1, SweepsKeepProbes
  <2>3. MinedBelowTip' /\ reorgs' = reorgs
    BY <1>0, <2>1 DEF chainVars, MinedBelowTip
  <2> QED
    BY <1>1, <2>1, <2>2, <2>3 DEF WinnerInv
<1>4. CASE UNCHANGED <<chainVars, settle>>
  <2>1. UNCHANGED chainVars
    BY <1>4
  <2>2. MinedBelowTip' /\ ProbesAddresses' /\ reorgs' = reorgs
    BY <1>0, <1>4 DEF chainVars, MinedBelowTip, ProbesAddresses
  <2>3. JobsOnWinner => JobsOnWinner'
    BY <1>4 DEF chainVars, JobsOnWinner, Wins, Spends
  <2> QED
    BY <1>1, <2>1, <2>2, <2>3 DEF WinnerInv
<1> QED
    BY <1>2, <1>3, <1>4
    DEF Next, vars, chainVars, workerVars, sweepVars, LockStep, LockConnectionBreaks,
        LeakedConnectionCloses

\* On btc, ltc, xmr and wow, for any number of claimers, sweeps and replicas: while
\* no reorganisation happened, a settled tip names the one sweep pick_winner would
\* name now, and its block, although the winner was read some steps, and some
\* blocks, before the row was written.
THEOREM SettlementsOnWinner ==
    ASSUME \A t \in Tips : Asset[t] # "grin"
    PROVE  Spec => []SettledOnWinner
<1>1. Init => WinnerInv
    BY DEF Init, ChainInit, TipsInit, NoRow, SweepInit, SettleIdle, WinnerInv, MinedBelowTip,
           ProbesAddresses, RowsOnWinner, JobsOnWinner
<1>2. SafetyInv /\ WinnerInv /\ [Next]_vars => WinnerInv'
    BY StepKeepsWinners
<1>3. SafetyInv /\ WinnerInv => SettledOnWinner
    BY WinnerUnique DEF SafetyInv, TypeOK, WinnerInv, RowsOnWinner, SettledOnWinner
<1> QED
    BY <1>1, <1>2, <1>3, SafetyInvariant, PTL DEF Spec

-------------------------------------------------------------------------------
(* The reorg lock.                                                         *)

\* While its connection is not broken, a reorg cycle at work holds the lock.
HoldsReorgLock == \A w \in Replicas : recheck[w].pc # "idle" => lock["reorg"] = w

\* What a reorg cycle has SELECTed is still settled on the txid it SELECTed.
Probing == {"spends", "kernel", "keep", "revert"}
ProbeCurrent ==
    \A w \in Replicas :
        recheck[w].pc \in Probing =>
            /\ tips[recheck[w].tip].settled
            /\ tips[recheck[w].tip].sweepTx = recheck[w].rec

LockInv == HoldsReorgLock /\ ProbeCurrent

\* Every step keeps the reorg lock with the one replica whose cycle is running.
LEMMA StepKeepsLock ==
    ASSUME LockLoss = FALSE, TypeOK, HoldsReorgLock, [Next]_vars
    PROVE  HoldsReorgLock'
<1>0. /\ recheck \in [Replicas -> RecheckJob]
      /\ lock \in [Cycles -> Replicas \union {Free, Leaked}]
      /\ Free \notin Replicas /\ Leaked \notin Replicas /\ "reorg" \in Cycles
    BY SweepAssumption DEF TypeOK, SweepTypeOK, Cycles
<1>1. ASSUME NEW w \in Replicas, SweepStep(w)
      PROVE  HoldsReorgLock'
  <2>1. CASE UNCHANGED recheck /\ lock'["reorg"] = lock["reorg"]
    BY <2>1 DEF HoldsReorgLock
  <2>2. ASSUME NEW job, recheck' = [recheck EXCEPT ![w] = job], job.pc = "idle",
               lock'["reorg"] = lock["reorg"] \/ lock["reorg"] = w
        PROVE  HoldsReorgLock'
    BY <1>0, <2>2 DEF HoldsReorgLock
  <2>3. ASSUME NEW job, recheck' = [recheck EXCEPT ![w] = job], recheck[w].pc # "idle",
               UNCHANGED lock
        PROVE  HoldsReorgLock'
    BY <1>0, <2>3 DEF HoldsReorgLock
  <2>4. ASSUME NEW s \in Tips, RecheckSelect(w, s)
        PROVE  HoldsReorgLock'
    BY <1>0, <2>4 DEF RecheckSelect, Acquire, HoldsReorgLock
  <2>5. CASE RecheckReadSpends(w) \/ RecheckReadOutputs(w) \/ RecheckReadKernel(w)
    BY <2>3, <2>5 DEF RecheckReadSpends, RecheckReadOutputs, RecheckReadKernel
  <2>6. CASE RecheckKeeps(w) \/ RecheckStamps(w) \/ RecheckAborts(w) \/ RecheckPanics(w)
    <3>1. RecheckIdle.pc = "idle"
      BY DEF RecheckIdle
    <3> QED
      BY <1>0, <2>2, <2>6, <3>1
      DEF RecheckKeeps, RecheckStamps, RecheckAborts, RecheckPanics, Release
  <2>7. CASE RecheckReverts(w)
    <3>1. RecheckIdle.pc = "idle" /\ recheck[w].pc # "idle"
      BY <2>7 DEF RecheckIdle, RecheckReverts
    <3> QED
      BY <1>0, <2>2, <2>3, <2>7, <3>1 DEF RecheckReverts, Release
  <2>8. ASSUME UNCHANGED recheck,
               UNCHANGED lock \/ Acquire("confirm", w) \/ Release("confirm", w)
               \/ SettlePanics(w)
        PROVE  HoldsReorgLock'
    BY <1>0, <2>1, <2>8 DEF Acquire, Release, SettlePanics
  <2>9. CASE SettleWrites(w)
    BY <2>8, <2>9 DEF SettleWrites
  <2> QED
    BY <1>1, <2>4, <2>5, <2>6, <2>7, <2>8, <2>9
    DEF SweepStep, SettleSelect, SettleReadHeight, SettleReadSpends, SettleReadOutputs,
        SettleReadKernel, SettleProbeFails, SettleWaits, SettleStamps, SettleAborts, SettlePanics
<1>2. ASSUME NEW c \in Cycles, LockStep(c)
      PROVE  HoldsReorgLock'
    BY <1>0, <1>2 DEF LockStep, LockConnectionBreaks, LeakedConnectionCloses, HoldsReorgLock
<1>3. CASE UNCHANGED <<recheck, lock>>
    BY <1>3 DEF HoldsReorgLock
<1> QED
    BY <1>1, <1>2, <1>3 DEF Next, vars, workerVars, sweepVars

\* Every step keeps a probed row settled on the txid that was probed, as long
\* as the reorg lock is exclusive.
LEMMA StepKeepsProbe ==
    ASSUME SafetyInv, LockInv, [Next]_vars
    PROVE  ProbeCurrent'
<1> SUFFICES ASSUME NEW w \in Replicas, recheck'[w].pc \in Probing
             PROVE  /\ tips'[recheck'[w].tip].settled
                    /\ tips'[recheck'[w].tip].sweepTx = recheck'[w].rec
    BY DEF ProbeCurrent
<1>0. TypeOK /\ RowsMove /\ SettledIffClaimed /\ HoldsReorgLock /\ ProbeCurrent
    BY StepKeepsSafety DEF SafetyInv, LockInv
<1>1. CASE \E s \in Tips : RecheckSelect(w, s)
    BY <1>0, <1>1 DEF RecheckSelect, NeedsReorgCheck, TypeOK, SweepTypeOK
<1>2. CASE /\ recheck[w].pc \in Probing
           /\ recheck'[w].tip = recheck[w].tip /\ recheck'[w].rec = recheck[w].rec
  <2> DEFINE t == recheck[w].tip
  <2>1. t \in Tips /\ tips[t].settled /\ tips[t].sweepTx = recheck[w].rec
    BY <1>0, <1>2 DEF ProbeCurrent, Probing, TypeOK, SweepTypeOK
  <2>2. RowMoves(t, tips[t], tips'[t])
    BY <1>0, <2>1 DEF RowsMove
  <2>3. ~Reverted(t, tips[t], tips'[t])
    <3> SUFFICES ASSUME NEW v \in Replicas, recheck[v].pc = "revert",
                        recheck'[v].pc \in {"stamp", "idle"}
                 PROVE  FALSE
      BY DEF Reverted
    <3>1. v = w
      BY <1>0, <1>2 DEF HoldsReorgLock, Probing
    <3> QED
      BY <3>1 DEF Probing
  <2>4. Stamped(tips[t], tips'[t])
    BY <1>0, <2>1, <2>2, <2>3
    DEF RowMoves, Moved, Opened, Recorded, Judged, Settled, SettledIffClaimed
  <2> QED
    BY <1>2, <2>1, <2>4 DEF Stamped, SameMoney
<1>3. \/ \E s \in Tips : RecheckSelect(w, s)
      \/ /\ recheck[w].pc \in Probing
         /\ recheck'[w].tip = recheck[w].tip /\ recheck'[w].rec = recheck[w].rec
  <2>0. recheck \in [Replicas -> RecheckJob] /\ recheck[w] \in RecheckJob
    BY <1>0 DEF TypeOK, SweepTypeOK
  <2>1. CASE recheck'[w] = recheck[w]
    BY <2>1
  <2>2. ASSUME NEW v \in Replicas, SweepStep(v), recheck'[w] # recheck[w]
        PROVE  \/ \E s \in Tips : RecheckSelect(w, s)
               \/ /\ recheck[w].pc \in Probing
                  /\ recheck'[w].tip = recheck[w].tip /\ recheck'[w].rec = recheck[w].rec
    <3>1. v = w
      BY <2>0, <2>2
      DEF SweepStep, SettleSelect, SettleReadHeight, SettleReadSpends, SettleReadOutputs,
          SettleReadKernel, SettleProbeFails, SettleWaits, SettleWrites, SettleStamps,
          SettleAborts, SettlePanics, RecheckSelect, RecheckReadSpends, RecheckReadOutputs,
          RecheckReadKernel, RecheckKeeps, RecheckReverts, RecheckStamps, RecheckAborts,
          RecheckPanics
    <3>2. CASE RecheckReadSpends(w) \/ RecheckReadOutputs(w) \/ RecheckReadKernel(w)
      BY <2>0, <3>2 DEF RecheckReadSpends, RecheckReadOutputs, RecheckReadKernel, RecheckJob,
         Probing
    <3>3. CASE RecheckKeeps(w) \/ RecheckStamps(w) \/ RecheckAborts(w) \/ RecheckPanics(w)
      BY <2>0, <3>3
      DEF RecheckKeeps, RecheckStamps, RecheckAborts, RecheckPanics, RecheckIdle, Probing
    <3>4. CASE RecheckReverts(w)
      <4> DEFINE job == [RecheckIdle EXCEPT !.pc = "stamp", !.tip = recheck[w].tip]
      <4>1. job.pc = "stamp" /\ RecheckIdle.pc = "idle"
        BY DEF RecheckIdle
      <4>2. \/ recheck' = [recheck EXCEPT ![w] = job]
            \/ recheck' = [recheck EXCEPT ![w] = RecheckIdle]
        BY <3>4 DEF RecheckReverts
      <4> HIDE DEF job
      <4> QED
        BY <2>0, <4>1, <4>2 DEF Probing
    <3> QED
      BY <2>2, <3>1, <3>2, <3>3, <3>4
      DEF SweepStep, SettleSelect, SettleReadHeight, SettleReadSpends, SettleReadOutputs,
          SettleReadKernel, SettleProbeFails, SettleWaits, SettleWrites, SettleStamps,
          SettleAborts, SettlePanics
  <2> QED
    BY <2>1, <2>2
    DEF Next, vars, workerVars, sweepVars, LockStep, LockConnectionBreaks, LeakedConnectionCloses
<1> QED
    BY <1>1, <1>2, <1>3

\* As long as no connection that holds the reorg lock breaks, whatever the number
\* of replicas: a row the reorg cycle is about to revert is settled, on the txid
\* whose absence the cycle saw.
THEOREM RevertsAreCurrent ==
    ASSUME LockLoss = FALSE
    PROVE  Spec => []RevertsWhatItProbed
<1>1. Init => LockInv
    BY DEF Init, SweepInit, RecheckIdle, LockInv, HoldsReorgLock, ProbeCurrent, Probing
<1>2. SafetyInv /\ LockInv /\ [Next]_vars => LockInv'
    BY StepKeepsLock, StepKeepsProbe DEF LockInv, SafetyInv
<1>3. LockInv => RevertsWhatItProbed
    BY DEF LockInv, ProbeCurrent, Probing, RevertsWhatItProbed
<1> QED
    BY <1>1, <1>2, <1>3, SafetyInvariant, PTL DEF Spec

-------------------------------------------------------------------------------
(* The offer.  update_tip_confirmations overwrites the count of whatever   *)
(* row it names.  With one money-in worker its poll keeps offered rows out *)
(* of its reach; a second replica may still hold such a row from before.   *)

SingleReplica == \A v, w \in Replicas : v = w

Offered == {"pending", "claiming", "claimed"}
Counting == {"countHeight", "countRead", "countWrite"}
Verifying == {"verifyRead", "verdict"}

OffersCounted ==
    \A t \in Tips : tips[t].status \in Offered => tips[t].confs >= ConfsRequired[t]

\* What is being counted is not offered, what is being verified was counted.
JobsCounted ==
    \A w \in Replicas :
        /\ fund[w].pc \in Counting => tips[fund[w].tip].status \notin Offered
        /\ fund[w].pc \in Verifying =>
             tips[fund[w].tip].confs >= ConfsRequired[fund[w].tip]

OfferInv == OffersCounted /\ JobsCounted

\* A job of the money-in worker is over, starts on a row of its poll, or goes on
\* with its row while the table stays as it is.
LEMMA FundJobsGoOn ==
    ASSUME TypeOK, NEW w \in Replicas, FundStep(w)
    PROVE  \/ fund'[w].pc = "idle"
           \/ /\ tips' = tips
              /\ fund'[w].tip \in Tips
              /\ \/ fund'[w].pc = "countHeight" /\ NeedsCount(fund'[w].tip)
                 \/ fund'[w].pc = "verifyRead" /\ NeedsVerify(fund'[w].tip)
                 \/ /\ fund'[w].tip = fund[w].tip
                    /\ \/ fund[w].pc \in Counting /\ fund'[w].pc \in Counting
                       \/ fund[w].pc \in Verifying /\ fund'[w].pc \in Verifying
<1>0. /\ fund[w] \in FundJob /\ fund \in [Replicas -> FundJob]
      /\ fund[w].pc # "idle" => fund[w].tip \in Tips
    BY DEF TypeOK, FundTypeOK
<1>a. ASSUME NEW job, fund' = [fund EXCEPT ![w] = job]
      PROVE  fund'[w] = job
    BY <1>0, <1>a
<1>1. ASSUME NEW t \in Tips, CountSelect(w, t)
      PROVE  /\ fund'[w].pc = "countHeight" /\ fund'[w].tip = t /\ NeedsCount(t)
             /\ tips' = tips
  <2> DEFINE job == [FundIdle EXCEPT !.pc = "countHeight", !.tip = t]
  <2>1. job.pc = "countHeight" /\ job.tip = t
    BY DEF FundIdle
  <2> HIDE DEF job
  <2> QED
    BY <1>1, <1>a, <2>1 DEF CountSelect, job
<1>2. ASSUME NEW t \in Tips, VerifySelect(w, t)
      PROVE  /\ fund'[w].pc = "verifyRead" /\ fund'[w].tip = t /\ NeedsVerify(t)
             /\ tips' = tips
  <2> DEFINE job == [FundIdle EXCEPT !.pc = "verifyRead", !.tip = t]
  <2>1. job.pc = "verifyRead" /\ job.tip = t
    BY DEF FundIdle
  <2> HIDE DEF job
  <2> QED
    BY <1>2, <1>a, <2>1 DEF VerifySelect, job
<1>3. CASE CountHeight(w) \/ CountRead(w)
  <2>1. /\ fund[w].pc \in Counting /\ fund'[w].pc \in Counting /\ fund'[w].tip = fund[w].tip
        /\ tips' = tips
    BY <1>0, <1>3 DEF CountHeight, CountRead, FundJob, Counting
  <2> QED
    BY <1>0, <2>1 DEF Counting
<1>4. CASE \/ \E sent \in 0..MaxAmount : VerifyReadAddress(w, sent)
           \/ VerifyReadVoucher(w) \/ VerifyError(w)
  <2>1. /\ fund[w].pc \in Verifying /\ fund'[w].pc \in Verifying /\ fund'[w].tip = fund[w].tip
        /\ tips' = tips
    <3>1. /\ fund[w].pc = "verifyRead" /\ tips' = tips
          /\ \E c, n : fund' = [fund EXCEPT ![w] =
                         [fund[w] EXCEPT !.pc = "verdict", !.verdict = c, !.observed = n]]
      <4>1. CASE VerifyError(w)
        <5>1. [fund[w] EXCEPT !.pc = "verdict", !.verdict = "touch"]
                = [fund[w] EXCEPT !.pc = "verdict", !.verdict = "touch",
                                  !.observed = fund[w].observed]
          BY <1>0 DEF FundJob
        <5> QED
          BY <4>1, <5>1 DEF VerifyError
      <4>2. CASE VerifyReadVoucher(w)
        BY <4>2 DEF VerifyReadVoucher
      <4>3. CASE \E sent \in 0..MaxAmount : VerifyReadAddress(w, sent)
        BY <4>3 DEF VerifyReadAddress
      <4> QED
        BY <1>4, <4>1, <4>2, <4>3
    <3> QED
      BY <1>0, <3>1 DEF FundJob, Verifying
  <2> QED
    BY <1>0, <2>1 DEF Verifying
<1>5. CASE CountWrite(w) \/ VerifyWrite(w) \/ FundAbort(w)
  <2>1. fund' = [fund EXCEPT ![w] = FundIdle] /\ FundIdle.pc = "idle"
    BY <1>5 DEF CountWrite, VerifyWrite, FundAbort, FundIdle
  <2> QED
    BY <1>a, <2>1
<1> QED
    BY <1>1, <1>2, <1>3, <1>4, <1>5 DEF FundStep

\* Every step of a system with one replica keeps OfferInv.
LEMMA StepKeepsOffers ==
    ASSUME SingleReplica, SafetyInv, OfferInv, [Next]_vars
    PROVE  OfferInv'
<1>0. /\ TypeOK /\ RowsMove /\ OffersCounted /\ JobsCounted
      /\ \A t \in Tips : tips[t].confs \in Nat /\ ConfsRequired[t] \in Nat
      /\ \A w \in Replicas : fund[w].pc # "idle" => fund[w].tip \in Tips
    BY StepKeepsSafety, TipAssumption
    DEF SafetyInv, OfferInv, TypeOK, TipsTypeOK, FundTypeOK, Row
<1>1. ASSUME NEW t \in Tips, tips[t].status \notin Offered, tips'[t].status \in Offered
      PROVE  \E w \in Replicas : fund[w].pc = "verdict" /\ fund[w].tip = t
  <2>1. RowMoves(t, tips[t], tips'[t])
    BY <1>0 DEF RowsMove
  <2> QED
    BY <1>1, <2>1
    DEF RowMoves, Stamped, Moved, QuietEdges, Opened, Recorded, Judged, Settled, Reverted, Offered
<1>2. ASSUME NEW t \in Tips, tips'[t].confs # tips[t].confs
      PROVE  /\ tips'[t].status = tips[t].status
             /\ \E w \in Replicas : fund[w].pc = "countWrite" /\ fund[w].tip = t
    BY <1>0, <1>2 DEF RowsMove, RowMoves, CountKept
<1>3. OffersCounted'
  <2> SUFFICES ASSUME NEW t \in Tips, tips'[t].status \in Offered
               PROVE  tips'[t].confs >= ConfsRequired[t]
    BY DEF OffersCounted
  <2>1. tips'[t].confs = tips[t].confs
    BY <1>0, <1>2 DEF JobsCounted, Counting
  <2>2. CASE tips[t].status \in Offered
    BY <1>0, <2>1, <2>2 DEF OffersCounted
  <2>3. CASE tips[t].status \notin Offered
    BY <1>0, <1>1, <2>1, <2>3 DEF JobsCounted, Verifying
  <2> QED
    BY <2>2, <2>3
<1>4. ASSUME NEW w \in Replicas
      PROVE  /\ fund'[w].pc \in Counting => tips'[fund'[w].tip].status \notin Offered
             /\ fund'[w].pc \in Verifying =>
                  tips'[fund'[w].tip].confs >= ConfsRequired[fund'[w].tip]
  <2>1. CASE fund' = fund
    <3>1. ASSUME fund[w].pc \in Counting
          PROVE  tips'[fund[w].tip].status \notin Offered
      BY <1>0, <1>1, <3>1 DEF JobsCounted, Counting, SingleReplica
    <3>2. ASSUME fund[w].pc \in Verifying
          PROVE  tips'[fund[w].tip].confs >= ConfsRequired[fund[w].tip]
      BY <1>0, <1>2, <3>2 DEF JobsCounted, Verifying, SingleReplica
    <3> QED
      BY <2>1, <3>1, <3>2
  <2>2. CASE FundStep(w)
    <3> USE DEF Counting, Verifying
    <3>1. CASE fund'[w].pc = "idle"
      BY <3>1
    <3>2. CASE /\ tips' = tips /\ fund'[w].tip \in Tips
               /\ fund'[w].pc = "countHeight" /\ NeedsCount(fund'[w].tip)
      <4>1. PICK t \in Tips : t = fund'[w].tip
        BY <3>2
      <4>2. tips[t].status \notin Offered
        BY <1>0, <3>2, <4>1 DEF NeedsCount, OffersCounted, Offered
      <4> QED
        BY <3>2, <4>1, <4>2
    <3>3. CASE /\ tips' = tips /\ fund'[w].pc = "verifyRead" /\ NeedsVerify(fund'[w].tip)
      BY <3>3 DEF NeedsVerify
    <3>4. CASE /\ tips' = tips /\ fund'[w].tip = fund[w].tip
               /\ \/ fund[w].pc \in Counting /\ fund'[w].pc \in Counting
                  \/ fund[w].pc \in Verifying /\ fund'[w].pc \in Verifying
      BY <1>0, <3>4 DEF JobsCounted
    <3> QED
      BY <1>0, <2>2, <3>1, <3>2, <3>3, <3>4, FundJobsGoOn
  <2> QED
    BY <2>1, <2>2 DEF Next, vars, workerVars, SingleReplica
<1> QED
    BY <1>3, <1>4 DEF OfferInv, JobsCounted

\* With one replica, a tip that was offered keeps a count that meets its
\* threshold until it is clawed back, whatever the chain does to the funding
\* after the offer: the claim's own condition on the count (mark_tip_claiming)
\* never locks a recipient out.  With two replicas the statement is false.
THEOREM OffersStayClaimable ==
    ASSUME SingleReplica
    PROVE  Spec => []OfferStaysClaimable
<1>1. Init => OfferInv
    BY DEF Init, TipsInit, NoRow, FundInit, FundIdle, OfferInv, OffersCounted, JobsCounted,
           Offered, Counting, Verifying
<1>2. SafetyInv /\ OfferInv /\ [Next]_vars => OfferInv'
    BY StepKeepsOffers
<1>3. OfferInv => OfferStaysClaimable
    BY DEF OfferInv, OffersCounted, Offered, OfferStaysClaimable
<1> QED
    BY <1>1, <1>2, <1>3, SafetyInvariant, PTL DEF Spec

-------------------------------------------------------------------------------
(* Funds that are held.  What a sweep spends was mined before it, so what  *)
(* was sent from an address is part of what it received.                   *)

\* The inputs of a confirmed sweep are in earlier blocks.
SpendsAfterFunding ==
    \A t \in Tips : \A x \in SweepTxs :
        mined[t][x] > 0 =>
            \A f \in Inputs[x] : 0 < mined[t][f] /\ mined[t][f] < mined[t][x]

\* What outputs carry together is the sum of what they carry apart.
WorthAdds ==
    \A S, T \in SUBSET FundTxs :
        S \intersect T = {} => Worth[S \union T] = Worth[S] + Worth[T]

\* Blocks and reorganisations keep sweeps above the outputs they spend.
LEMMA ChainKeepsSpends ==
    ASSUME ChainTypeOK, MinedBelowTip, SpendsAfterFunding, ChainNext
    PROVE  SpendsAfterFunding'
<1> SUFFICES ASSUME NEW t \in Tips, NEW x \in SweepTxs, mined'[t][x] > 0, NEW f \in Inputs[x]
             PROVE  0 < mined'[t][f] /\ mined'[t][f] < mined'[t][x]
    BY DEF SpendsAfterFunding
<1>0. /\ f \in FundTxs /\ f \in Txs /\ x \in Txs /\ height \in Int
      /\ mined[t][f] \in Int /\ mined[t][x] \in Int
      /\ mined[t][f] <= height /\ mined[t][x] >= 0
      /\ mined[t][x] > 0 => 0 < mined[t][f] /\ mined[t][f] < mined[t][x]
    BY TxAssumption DEF Txs, ChainTypeOK, MinedBelowTip, SpendsAfterFunding
<1>1. ASSUME NEW s \in Tips, NEW S \in SUBSET Txs, NewBlock(s, S)
      PROVE  0 < mined'[t][f] /\ mined'[t][f] < mined'[t][x]
  <2>1. \A y \in Txs : \/ mined'[t][y] = mined[t][y]
                       \/ mined'[t][y] = height + 1 /\ mined[t][y] = 0 /\ y \in S /\ t = s
    BY <1>1 DEF NewBlock, Includable, ChainTypeOK
  <2>2. CASE mined'[t][x] = mined[t][x]
    BY <1>0, <2>1, <2>2
  <2>3. CASE mined'[t][x] = height + 1 /\ x \in S /\ t = s
    <3>1. f \in Unspent(t)
      BY <1>1, <2>3 DEF NewBlock, Includable
    <3>2. mined[t][f] > 0
      BY <3>1 DEF Unspent, Funded
    <3> QED
      BY <1>0, <2>1, <2>3, <3>2
  <2> QED
    BY <1>0, <2>1, <2>2, <2>3
<1>2. ASSUME NEW k \in 1..MaxHeight, Reorg(k)
      PROVE  0 < mined'[t][f] /\ mined'[t][f] < mined'[t][x]
  <2>1. /\ mined'[t][x] = IF mined[t][x] > k THEN 0 ELSE mined[t][x]
        /\ mined'[t][f] = IF mined[t][f] > k THEN 0 ELSE mined[t][f]
    BY <1>0, <1>2 DEF Reorg
  <2> QED
    BY <1>0, <2>1
<1> QED
    BY <1>1, <1>2 DEF ChainNext

\* What the address still holds is what it received less what was sent.
LEMMA HeldIsReceivedLessSent ==
    ASSUME WorthAdds, SpendsAfterFunding, NEW t \in Tips
    PROVE  Worth[Funded(t)] = Worth[Unspent(t)] + Worth[Spent(t)]
<1>1. Spent(t) \subseteq Funded(t)
    BY DEF Spent, Spends, Funded, SpendsAfterFunding
<1>2. /\ Unspent(t) \in SUBSET FundTxs /\ Spent(t) \in SUBSET FundTxs
      /\ Unspent(t) \intersect Spent(t) = {} /\ Unspent(t) \union Spent(t) = Funded(t)
    BY <1>1 DEF Unspent, Spent, Funded
<1> QED
    BY <1>2 DEF WorthAdds

\* A fresh verdict "verified" is on funds the address holds.
LEMMA VerdictsNeedFunds ==
    ASSUME \A t \in Tips : Asset[t] = "xmr", WorthAdds, TypeOK, SpendsAfterFunding,
           NEW w \in Replicas, NEW v \in Replicas, FundStep(v),
           fund[w].verdict = "none", fund'[w].verdict = "verified"
    PROVE  Worth[Unspent(fund[w].tip)] >= Amount[fund[w].tip]
<1>0. fund[w] \in FundJob /\ fund \in [Replicas -> FundJob] /\ FundIdle.verdict = "none"
    BY DEF TypeOK, FundTypeOK, FundIdle
<1>1. PICK sent \in 0..MaxAmount : VerifyReadAddress(w, sent)
  <2>1. v = w
    BY <1>0
    DEF FundStep, CountSelect, VerifySelect, CountHeight, CountRead, CountWrite,
        VerifyReadAddress, VerifyReadVoucher, VerifyError, VerifyWrite, FundAbort
  <2>2. ~\E t \in Tips : CountSelect(w, t) \/ VerifySelect(w, t)
    BY <1>0 DEF CountSelect, VerifySelect, FundIdle
  <2>3. ~(CountHeight(w) \/ CountRead(w) \/ VerifyError(w))
    BY <1>0 DEF CountHeight, CountRead, VerifyError, FundJob
  <2>4. ~(CountWrite(w) \/ VerifyWrite(w) \/ FundAbort(w))
    BY <1>0 DEF CountWrite, VerifyWrite, FundAbort
  <2>5. ~VerifyReadVoucher(w)
    BY DEF VerifyReadVoucher, TypeOK, FundTypeOK
  <2> QED
    BY <2>1, <2>2, <2>3, <2>4, <2>5 DEF FundStep
<1> DEFINE t == fund[w].tip
           verdict == ClassifyFundingAmount(Worth[Funded(t)], sent, Amount[t])
<1>2. t \in Tips /\ sent = Worth[Spent(t)]
    BY <1>1 DEF VerifyReadAddress, SentSums, TypeOK, FundTypeOK
<1>3. verdict = "verified"
  <2>1. PICK n, c : fund' = [fund EXCEPT ![w] = [fund[w] EXCEPT
                       !.pc = "verdict", !.verdict = c, !.observed = n]] /\ c = verdict
    BY <1>1 DEF VerifyReadAddress
  <2>2. fund'[w].verdict = c
    BY <1>0, <2>1 DEF FundJob
  <2> QED
    BY <2>1, <2>2
<1>4. PICK received \in 0..MaxAmount : received = Worth[Funded(t)]
    BY <1>2, OutputTypes
<1>5. Worth[Unspent(t)] \in 0..MaxAmount /\ Amount[t] \in 1..MaxAmount
    BY <1>2, TxAssumption, TipAssumption DEF Unspent, Funded
<1>6. received = Worth[Unspent(t)] + sent
    BY <1>2, <1>4, HeldIsReceivedLessSent
<1>7. Saturate(received - sent) >= Amount[t]
    BY <1>3, <1>4, <1>5 DEF ClassifyFundingAmount, Saturate
<1> QED
    BY <1>4, <1>5, <1>6, <1>7 DEF Saturate

\* On xmr and wow, where what was sent from an address is always known: no tip is
\* judged funded on money that was swept away before the verdict, with any number
\* of replicas, receipts and sweeps, and across reorganisations
\* (verify_funding_amount, classify_funding_amount).
THEOREM VerdictsOnHeldFunds ==
    ASSUME \A t \in Tips : Asset[t] = "xmr", WorthAdds
    PROVE  Spec => VerdictOnHeldFunds
<1> DEFINE Held == \A w \in Replicas :
                     fund[w].verdict = "none" /\ fund'[w].verdict = "verified" =>
                         Worth[Unspent(fund[w].tip)] >= Amount[fund[w].tip]
           SpendInv == MinedBelowTip /\ SpendsAfterFunding
<1>1. Init => SpendInv
    BY ChainBoundAssumption, TxAssumption
    DEF Init, ChainInit, MinedBelowTip, SpendsAfterFunding, Txs
<1>2. TypeOK /\ SpendInv /\ [Next]_vars => SpendInv'
  <2> SUFFICES ASSUME TypeOK, SpendInv, [Next]_vars
               PROVE  SpendInv'
    OBVIOUS
  <2>1. CASE ChainNext
    BY <2>1, ChainKeepsMinedBelow, ChainKeepsSpends DEF TypeOK
  <2>2. CASE UNCHANGED chainVars
    BY <2>2 DEF chainVars, MinedBelowTip, SpendsAfterFunding
  <2> QED
    BY <2>1, <2>2 DEF Next, vars, chainVars
<1>3. TypeOK /\ SpendInv /\ [Next]_vars => [Held]_vars
  <2> SUFFICES ASSUME TypeOK, SpendInv, [Next]_vars, NEW w \in Replicas,
                      fund[w].verdict = "none", fund'[w].verdict = "verified"
               PROVE  Worth[Unspent(fund[w].tip)] >= Amount[fund[w].tip]
    OBVIOUS
  <2>1. fund' # fund
    OBVIOUS
  <2>2. PICK v \in Replicas : FundStep(v)
    BY <2>1 DEF Next, vars, workerVars
  <2> QED
    BY <2>2, VerdictsNeedFunds
<1> QED
    BY <1>1, <1>2, <1>3, TypeCorrect, PTL DEF Spec, VerdictOnHeldFunds
===============================================================================
