---------------------------- MODULE TipSystemProofs ----------------------------
(***************************************************************************)
(* Theorems about TipSystem, for every set of tips, users, replicas and    *)
(* transactions: types, the money-in and money-out safety properties, and  *)
(* the refinement of TipLifecycle.                                         *)
(***************************************************************************)
EXTENDS TipSystem, NaturalsInduction, WellFoundedInduction, TLAPS

-------------------------------------------------------------------------------
(* Lemmas about the operators of the model.                                *)

\* A nonempty set of naturals has a smallest element.
LEMMA LeastNatural ==
    ASSUME NEW S \in SUBSET Nat, S # {}
    PROVE  \E m \in S : \A n \in S : m <= n
<1>1. IsWellFoundedOn(OpToRel(<, Nat), Nat)
    BY NatLessThanWellFounded
<1>2. PICK m \in S : \A n \in S : ~ (<<n, m>> \in OpToRel(<, Nat))
    BY <1>1, WFMin
<1>3. \A n \in S : ~ (n < m)
    BY <1>2 DEF OpToRel
<1> QED
    BY <1>3

\* pick_winner answers with one of the spends it is given, and no other is in an
\* earlier block, or in the same block under a smaller txid.
LEMMA WinnerIsASpend ==
    ASSUME ChainTypeOK, NEW t \in Tips, NEW S \in SUBSET SweepTxs, S # {}
    PROVE  /\ PickWinner(t, S) \in S
           /\ \A y \in S :
                \/ mined[t][PickWinner(t, S)] < mined[t][y]
                \/ mined[t][PickWinner(t, S)] = mined[t][y] /\ PickWinner(t, S) <= y
<1> DEFINE Heights == {h \in Nat : \E x \in S : mined[t][x] = h}
<1>1. S \subseteq Nat /\ \A x \in S : mined[t][x] \in Nat
    BY TxAssumption DEF ChainTypeOK, Txs
<1> Heights \in SUBSET Nat /\ Heights # {}
    BY <1>1
<1> HIDE DEF Heights
<1>2. PICK h \in Heights : \A g \in Heights : h <= g
    BY LeastNatural
<1> USE DEF Heights
<1> DEFINE Earliest == {x \in S : mined[t][x] = h}
<1> Earliest \in SUBSET Nat /\ Earliest # {}
    BY <1>1, <1>2
<1> HIDE DEF Earliest
<1>3. PICK x \in Earliest : \A y \in Earliest : x <= y
    BY LeastNatural
<1> USE DEF Earliest
<1>4. \A y \in S : \/ mined[t][x] < mined[t][y]
                   \/ mined[t][x] = mined[t][y] /\ x <= y
    BY <1>1, <1>2, <1>3
<1> QED
    BY <1>3, <1>4 DEF PickWinner

\* The sets of outputs read off the chain consist of funding transactions.
LEMMA OutputTypes ==
    ASSUME NEW t \in Tips
    PROVE  /\ Funded(t) \in SUBSET FundTxs
           /\ Spends(t) \in SUBSET SweepTxs
           /\ Spent(t) \in SUBSET FundTxs
           /\ Unspent(t) \in SUBSET FundTxs
           /\ Worth[Funded(t)] \in 0..MaxAmount
           /\ Worth[Spent(t)] \in 0..MaxAmount
<1>1. Spent(t) \in SUBSET FundTxs
    BY TxAssumption DEF Spent, Spends
<1> QED
    BY <1>1, TxAssumption DEF Funded, Spends, Unspent

-------------------------------------------------------------------------------
(* Type correctness.                                                       *)

\* No statement detaches the funding transaction of a tip.
FundingKept == \A t \in Tips : tips[t].fundingTx # NoTx => tips'[t].fundingTx # NoTx

\* A statement that writes a row of the right type, and leaves its funding
\* attached, keeps the table well typed.
LEMMA UpdateKeepsType ==
    ASSUME TipsTypeOK, NEW t \in Tips, NEW row \in Row, NEW cond,
           row.fundingTx = NoTx => tips[t].fundingTx = NoTx,
           Update(t, row) \/ UpdateWhere(cond, t, row)
    PROVE  TipsTypeOK' /\ FundingKept
    BY DEF TipsTypeOK, FundingKept, Update, UpdateWhere

\* Callers, the garbage collector and the clock write well-typed rows.
LEMMA CallersKeepTypes ==
    ASSUME TipsTypeOK, NEW t \in Tips, ApiStep(t) \/ GcStep \/ RateWindowElapses(t) \/ Ages(t)
    PROVE  TipsTypeOK' /\ FundingKept
<1> tips[t] \in Row
    BY DEF TipsTypeOK
<1>a. \A r \in Tips : LET row == [tips[r] EXCEPT !.status = "cancelled"]
                     IN  row \in Row /\ row.fundingTx = tips[r].fundingTx
  <2> TAKE r \in Tips
  <2>1. tips[r] \in Row
    BY DEF TipsTypeOK
  <2> QED
    BY <2>1 DEF Row, Statuses
<1>8. CASE CancelOldDrafts
    BY <1>8, <1>a DEF CancelOldDrafts, TipsTypeOK, FundingKept
<1>9. CASE CancelStuckPendingConfirmation
    BY <1>9, <1>a DEF CancelStuckPendingConfirmation, TipsTypeOK, FundingKept
<1> USE UpdateKeepsType, TxAssumption DEF Row, Statuses, NoTx
<1>1. CASE CreateDraft(t)
    BY <1>1 DEF CreateDraft
<1>2. ASSUME NEW f \in FundTxs, CreateFunded(t, f)
      PROVE  TipsTypeOK' /\ FundingKept
  <2> DEFINE row == [tips[t] EXCEPT !.status = "pending_confirmation", !.fundingTx = f]
  <2>1. row \in Row /\ row.fundingTx = f /\ f # NoTx
    OBVIOUS
  <2> HIDE DEF row, Row
  <2>2. Update(t, row)
    BY <1>2 DEF CreateFunded, row
  <2> QED
    BY <2>1, <2>2
<1>3. CASE \E u \in Users : CancelDraft(t, u)
    BY <1>3 DEF CancelDraft
<1>4. ASSUME NEW u \in Users, NEW f \in FundTxs, AttachFunding(t, u, f)
      PROVE  TipsTypeOK' /\ FundingKept
  <2> DEFINE row == [tips[t] EXCEPT !.status = "pending_confirmation", !.fundingTx = f]
  <2>1. row \in Row /\ row.fundingTx = f /\ f # NoTx
    OBVIOUS
  <2> HIDE DEF row, Row
  <2>2. UpdateWhere(tips[t].status = "draft" /\ tips[t].fundingTx = NoTx, t, row)
    BY <1>4 DEF AttachFunding, row
  <2> QED
    BY <2>1, <2>2
<1>5. CASE \E u \in Users : Claim(t, u)
    BY <1>5 DEF Claim
<1>6. ASSUME NEW u \in Users, NEW x \in SweepTxs, ConfirmSweep(t, u, x)
      PROVE  TipsTypeOK' /\ FundingKept
  <2> DEFINE row == [tips[t] EXCEPT !.sweepTx = x, !.claimedBy = IF @ = NoUser THEN u ELSE @]
  <2>1. row \in Row /\ row.fundingTx = tips[t].fundingTx
    OBVIOUS
  <2> QED
    BY <1>6, <2>1 DEF ConfirmSweep
<1>7. CASE \E u \in Users : Clawback(t, u)
    BY <1>7 DEF Clawback
<1>10. CASE RateWindowElapses(t)
  <2>1. [tips[t] EXCEPT !.checked = FALSE] \in Row
    OBVIOUS
  <2> QED
    BY <1>10, <2>1 DEF RateWindowElapses
<1>11. CASE Ages(t)
    BY <1>11 DEF Ages
<1> QED
    BY <1>1, <1>2, <1>3, <1>4, <1>5, <1>6, <1>7, <1>8, <1>9, <1>10, <1>11
    DEF ApiStep, GcStep

\* A confirmation count is a number of blocks of the chain.
LEMMA ConfirmationsBounded ==
    ASSUME NEW m \in 0..MaxHeight, NEW h \in 0..MaxHeight
    PROVE  Confirmations(m, h) \in 0..MaxHeight
    BY ChainBoundAssumption DEF Confirmations

\* The money-in worker keeps its jobs and the rows well typed.
LEMMA FundingKeepsTypes ==
    ASSUME ChainTypeOK, TipsTypeOK, FundTypeOK, NEW w \in Replicas, FundStep(w)
    PROVE  TipsTypeOK' /\ FundTypeOK'
<1> DEFINE t == fund[w].tip
<1>0. /\ fund[w] \in FundJob /\ FundIdle \in FundJob
      /\ fund[w].pc # "idle" => t \in Tips /\ tips[t] \in Row
    BY ChainBoundAssumption DEF FundJob, FundIdle, FundTypeOK, TipsTypeOK
<1>a. ASSUME NEW job \in FundJob, fund' = [fund EXCEPT ![w] = job], FundingKept,
             job.pc # "idle" => job.tip \in Tips,
             job.pc \in {"countHeight", "countRead"} => tips'[job.tip].fundingTx # NoTx
      PROVE  FundTypeOK'
    BY <1>a DEF FundTypeOK, FundingKept
<1>b. ASSUME UNCHANGED tips
      PROVE  TipsTypeOK' /\ FundingKept
    BY <1>b DEF TipsTypeOK, FundingKept
<1>1. ASSUME NEW s \in Tips, CountSelect(w, s) \/ VerifySelect(w, s)
      PROVE  TipsTypeOK' /\ FundTypeOK'
  <2>1. CASE CountSelect(w, s)
    <3> DEFINE counting == [FundIdle EXCEPT !.pc = "countHeight", !.tip = s]
    <3>1. counting \in FundJob /\ counting.tip = s
        BY <1>0 DEF FundJob
    <3> QED
        BY <2>1, <1>a, <1>b, <3>1 DEF CountSelect, NeedsCount
  <2>2. CASE VerifySelect(w, s)
    <3> DEFINE verifying == [FundIdle EXCEPT !.pc = "verifyRead", !.tip = s]
    <3>1. verifying \in FundJob /\ verifying.tip = s /\ verifying.pc = "verifyRead"
        BY <1>0 DEF FundJob
    <3> QED
        BY <2>2, <1>a, <1>b, <3>1 DEF VerifySelect
  <2> QED
    BY <1>1, <2>1, <2>2
<1>2. CASE CountHeight(w)
  <2> DEFINE job == [fund[w] EXCEPT !.pc = "countRead", !.h = height]
  <2>1. height \in 0..MaxHeight
    BY DEF ChainTypeOK
  <2>2. job \in FundJob /\ job.tip = t
    BY <1>0, <2>1 DEF FundJob
  <2> QED
    BY <1>0, <1>2, <1>a, <1>b, <2>2 DEF CountHeight, FundTypeOK
<1>3. CASE CountRead(w)
  <2>0. Voucher[t] \in Txs /\ tips[t].fundingTx \in Txs /\ t \in Tips
    BY <1>0, <1>3, TipAssumption DEF CountRead, FundTypeOK, Txs, Row
  <2>1. CountedBlock(t) \in 0..MaxHeight
    BY <2>0, ChainBoundAssumption DEF CountedBlock, ChainTypeOK
  <2>2. Confirmations(CountedBlock(t), fund[w].h) \in 0..MaxHeight
    BY <1>0, <2>1, ConfirmationsBounded DEF FundJob
  <2> DEFINE job == [fund[w] EXCEPT !.pc = "countWrite", !.h = 0,
                                    !.n = Confirmations(CountedBlock(t), fund[w].h)]
  <2>3. job \in FundJob /\ job.tip = t /\ job.pc = "countWrite"
    <3>1. 0 \in 0..MaxHeight
        BY ChainBoundAssumption
    <3> QED
        BY <1>0, <2>2, <3>1 DEF FundJob
  <2> QED
    BY <1>0, <1>3, <1>a, <1>b, <2>3 DEF CountRead
<1>4. CASE CountWrite(w)
  <2> DEFINE row == [tips[t] EXCEPT !.confs = fund[w].n, !.checked = TRUE]
  <2>1. row \in Row /\ row.fundingTx = tips[t].fundingTx
    BY <1>0, <1>4 DEF CountWrite, FundJob, Row
  <2>2. TipsTypeOK' /\ FundingKept
    BY <1>0, <1>4, <2>1, UpdateKeepsType DEF CountWrite, UpdateConfirmations
  <2> QED
    BY <1>0, <1>4, <1>a, <2>2 DEF CountWrite, FundIdle
<1>5. ASSUME NEW sent \in 0..MaxAmount, VerifyReadAddress(w, sent)
      PROVE  TipsTypeOK' /\ FundTypeOK'
  <2> DEFINE received == Worth[Funded(t)]
             verdict == ClassifyFundingAmount(received, sent, Amount[t])
             job == [fund[w] EXCEPT !.pc = "verdict", !.verdict = verdict,
                                    !.observed = Saturate(received - sent)]
  <2>1. received \in 0..MaxAmount
    BY <1>0, <1>5, OutputTypes DEF VerifyReadAddress
  <2>2. Saturate(received - sent) \in 0..MaxAmount
    BY <2>1, ChainBoundAssumption DEF Saturate
  <2>3. verdict \in {"none", "verified", "short", "touch"}
    BY DEF ClassifyFundingAmount
  <2>4. job \in FundJob /\ job.tip = t /\ job.pc = "verdict"
    BY <1>0, <2>2, <2>3 DEF FundJob
  <2> QED
    BY <1>0, <1>5, <1>a, <1>b, <2>4 DEF VerifyReadAddress
<1>6. CASE VerifyReadVoucher(w)
  <2> DEFINE present == VoucherPresent(t)
             job == [fund[w] EXCEPT !.pc = "verdict",
                                    !.verdict = IF present THEN "verified" ELSE "touch",
                                    !.observed = IF present THEN Amount[t] ELSE 0]
  <2>1. 0 \in 0..MaxAmount /\ Amount[t] \in 0..MaxAmount
    BY <1>0, <1>6, TipAssumption, ChainBoundAssumption DEF VerifyReadVoucher
  <2>2. job \in FundJob /\ job.tip = t /\ job.pc = "verdict"
    BY <1>0, <2>1 DEF FundJob
  <2> QED
    BY <1>0, <1>6, <1>a, <1>b, <2>2 DEF VerifyReadVoucher
<1>7. CASE VerifyError(w)
    BY <1>0, <1>7, <1>a, <1>b DEF VerifyError, FundJob
<1>8. CASE VerifyWrite(w)
  <2>0. t \in Tips /\ tips[t] \in Row /\ fund[w].observed \in 0..MaxAmount
    BY <1>0, <1>8 DEF VerifyWrite, FundJob
  <2>1. [tips[t] EXCEPT !.status = "pending", !.verified = TRUE,
                        !.observed = fund[w].observed] \in Row
    BY <2>0 DEF Row, Statuses
  <2>2. [tips[t] EXCEPT !.status = "funding_mismatch", !.verified = TRUE,
                        !.observed = fund[w].observed] \in Row
    BY <2>0 DEF Row, Statuses
  <2>3. [tips[t] EXCEPT !.checked = TRUE] \in Row
    BY <2>0 DEF Row
  <2>4. TipsTypeOK' /\ FundingKept
    BY <1>8, <2>0, <2>1, <2>2, <2>3, UpdateKeepsType
    DEF VerifyWrite, MarkVerified, MarkMismatch, Touch, Row
  <2> QED
    BY <1>0, <1>8, <1>a, <2>4 DEF VerifyWrite, FundIdle
<1>9. CASE FundAbort(w)
    BY <1>0, <1>9, <1>a, <1>b DEF FundAbort, FundIdle
<1> QED
    BY <1>1, <1>2, <1>3, <1>4, <1>5, <1>6, <1>7, <1>8, <1>9 DEF FundStep

\* The stamps and the revert of the money-out workers write well-typed rows.
LEMMA StampsKeepTypes ==
    ASSUME TipsTypeOK, NEW t \in Tips,
           Touch(t) \/ StampDmSent(t) \/ StampReorgNotified(t) \/ RevertSweepOnReorg(t)
    PROVE  TipsTypeOK' /\ FundingKept
<1>0. tips[t] \in Row
    BY DEF TipsTypeOK
<1>1. CASE Touch(t)
  <2>1. [tips[t] EXCEPT !.checked = TRUE] \in Row
    BY <1>0 DEF Row
  <2> QED
    BY <1>0, <1>1, <2>1, UpdateKeepsType DEF Touch, Row
<1>2. CASE StampDmSent(t)
  <2>1. [tips[t] EXCEPT !.dmSent = TRUE] \in Row
    BY <1>0 DEF Row
  <2> QED
    BY <1>0, <1>2, <2>1, UpdateKeepsType DEF StampDmSent, Row
<1>3. CASE StampReorgNotified(t)
  <2>1. [tips[t] EXCEPT !.reorgNotified = TRUE] \in Row
    BY <1>0 DEF Row
  <2> QED
    BY <1>0, <1>3, <2>1, UpdateKeepsType DEF StampReorgNotified, Row
<1>4. CASE RevertSweepOnReorg(t)
  <2>1. 0 \in 0..MaxHeight
    BY ChainBoundAssumption
  <2>2. [tips[t] EXCEPT !.status = "claiming", !.settled = FALSE,
                        !.sweepHeight = 0, !.dmSent = FALSE] \in Row
    BY <1>0, <2>1 DEF Row, Statuses
  <2> QED
    BY <1>0, <1>4, <2>2, UpdateKeepsType DEF RevertSweepOnReorg, Row
<1> QED
    BY <1>1, <1>2, <1>3, <1>4

\* A settlement writes a well-typed row.
LEMMA SettlementsKeepTypes ==
    ASSUME TipsTypeOK, NEW t \in Tips, NEW x \in SweepTxs, NEW h \in 0..MaxHeight,
           ConfirmSweepOnchain(t, x, h) \/ ClearClaimedByOnSettle(t, x, h)
    PROVE  TipsTypeOK' /\ FundingKept
<1>0. tips[t] \in Row
    BY DEF TipsTypeOK
<1>1. CASE ConfirmSweepOnchain(t, x, h)
  <2>1. [tips[t] EXCEPT !.status = "claimed", !.settled = TRUE,
                        !.sweepTx = x, !.sweepHeight = h] \in Row
    BY <1>0 DEF Row, Statuses
  <2> QED
    BY <1>0, <1>1, <2>1, UpdateKeepsType DEF ConfirmSweepOnchain, Row
<1>2. CASE ClearClaimedByOnSettle(t, x, h)
  <2>1. [tips[t] EXCEPT !.status = "claimed", !.settled = TRUE, !.sweepTx = x,
                        !.sweepHeight = h, !.claimedBy = NoUser] \in Row
    BY <1>0 DEF Row, Statuses
  <2> QED
    BY <1>0, <1>2, <2>1, UpdateKeepsType DEF ClearClaimedByOnSettle, Row
<1> QED
    BY <1>1, <1>2

\* The confirm cycle keeps its jobs, its lock and the rows well typed.
LEMMA SettlingKeepsTypes ==
    ASSUME ChainTypeOK, TipsTypeOK, SweepTypeOK, NEW w \in Replicas,
           \/ \E t \in Tips : SettleSelect(w, t)
           \/ SettleReadHeight(w) \/ SettleReadSpends(w) \/ SettleReadOutputs(w)
           \/ SettleReadKernel(w) \/ SettleProbeFails(w) \/ SettleWaits(w)
           \/ SettleWrites(w) \/ SettleStamps(w) \/ SettleAborts(w) \/ SettlePanics(w)
    PROVE  TipsTypeOK' /\ FundingKept /\ SweepTypeOK'
<1> DEFINE t == settle[w].tip
           rec == settle[w].rec
           Done == TipsTypeOK' /\ FundingKept /\ SweepTypeOK'
<1>0. /\ settle[w] \in SettleJob /\ SettleIdle \in SettleJob
      /\ settle[w].pc # "idle" => t \in Tips
      /\ 0 \in 0..MaxHeight /\ height \in 0..MaxHeight
    BY ChainBoundAssumption DEF SettleJob, SettleIdle, SweepTypeOK, ChainTypeOK
<1>a. ASSUME NEW job \in SettleJob, settle' = [settle EXCEPT ![w] = job], UNCHANGED recheck,
             job.pc # "idle" => job.tip \in Tips,
             job.pc = "kernel" => job.rec # NoTx,
             lock' \in [Cycles -> Replicas \union {Free, Leaked}]
      PROVE  SweepTypeOK'
    BY <1>a DEF SweepTypeOK
<1>b. ASSUME UNCHANGED tips
      PROVE  TipsTypeOK' /\ FundingKept
    BY <1>b DEF TipsTypeOK, FundingKept
<1>c. ASSUME UNCHANGED lock \/ Acquire("confirm", w) \/ Release("confirm", w)
      PROVE  lock' \in [Cycles -> Replicas \union {Free, Leaked}]
    BY <1>c DEF SweepTypeOK, Acquire, Release, Cycles
<1>d. SettleIdle.pc = "idle"
    BY DEF SettleIdle
<1>1. ASSUME NEW s \in Tips, SettleSelect(w, s)
      PROVE  Done
  <2> DEFINE job == [SettleIdle EXCEPT
                       !.pc = IF Asset[s] = "grin" THEN "height" ELSE "spends",
                       !.tip = s, !.rec = tips[s].sweepTx]
  <2>1. tips[s].sweepTx \in SweepTxs \union {NoTx}
    BY DEF TipsTypeOK, Row
  <2>2. job \in SettleJob /\ job.tip = s /\ job.pc # "kernel"
    BY <1>0, <2>1 DEF SettleIdle, SettleJob
  <2> QED
    BY <1>1, <1>a, <1>b, <1>c, <2>2 DEF SettleSelect
<1>2. CASE SettleReadHeight(w)
  <2> DEFINE job == [settle[w] EXCEPT
                       !.pc = IF Asset[t] = "grin" THEN "spends" ELSE "decide", !.h = height]
  <2>1. job \in SettleJob /\ job.tip = t /\ job.pc # "kernel"
    BY <1>0 DEF SettleJob
  <2> QED
    BY <1>0, <1>2, <1>a, <1>b, <1>c, <2>1 DEF SettleReadHeight
<1>3. CASE SettleReadSpends(w)
  <2> DEFINE job == [settle[w] EXCEPT
                       !.pc = IF Asset[t] = "btc" THEN "height" ELSE "decide",
                       !.h = IF Asset[t] = "xmr" THEN height ELSE 0,
                       !.winTx = Winner(t), !.winH = BlockOf(t, Winner(t))]
  <2>1. t \in Tips
    BY <1>0, <1>3 DEF SettleReadSpends
  <2>2. Winner(t) \in SweepTxs \union {NoTx}
    BY <2>1, WinnerIsASpend, OutputTypes DEF Winner
  <2>3. BlockOf(t, Winner(t)) \in 0..MaxHeight
    BY <1>0, <2>1, <2>2 DEF BlockOf, ChainTypeOK, Txs
  <2>4. job \in SettleJob /\ job.tip = t /\ job.pc # "kernel"
    <3>1. (IF Asset[t] = "xmr" THEN height ELSE 0) \in 0..MaxHeight
        BY <1>0, ChainBoundAssumption
    <3> QED
        BY <1>0, <2>2, <2>3, <3>1 DEF SettleJob
  <2> QED
    BY <1>3, <1>a, <1>b, <1>c, <2>1, <2>4 DEF SettleReadSpends
<1>4. CASE SettleReadOutputs(w)
  <2> DEFINE job == [settle[w] EXCEPT !.pc = IF AsksKernel(t, rec) THEN "kernel" ELSE "decide"]
  <2>1. job \in SettleJob /\ job.tip = t /\ job.rec = rec
    BY <1>0 DEF SettleJob
  <2>2. job.pc = "kernel" => job.rec # NoTx
    BY <1>0, <2>1 DEF AsksKernel, SettleJob
  <2> QED
    BY <1>0, <1>4, <1>a, <1>b, <1>c, <2>1, <2>2 DEF SettleReadOutputs
<1>5. CASE SettleReadKernel(w)
  <2> DEFINE job == [settle[w] EXCEPT
                       !.pc = "decide", !.winTx = IF mined[t][rec] > 0 THEN rec ELSE NoTx,
                       !.winH = mined[t][rec]]
  <2>1. mined[t][rec] \in 0..MaxHeight
    BY <1>0, <1>5 DEF SettleReadKernel, SweepTypeOK, SettleJob, ChainTypeOK, Txs
  <2>2. job \in SettleJob /\ job.tip = t /\ job.pc # "kernel"
    BY <1>0, <2>1 DEF SettleJob
  <2> QED
    BY <1>0, <1>5, <1>a, <1>b, <1>c, <2>2 DEF SettleReadKernel
<1>6. CASE SettleProbeFails(w) \/ SettleWaits(w) \/ SettleStamps(w)
  <2>1. Touch(t) \/ StampDmSent(t)
    BY <1>6 DEF SettleProbeFails, SettleWaits, SettleStamps
  <2>2. t \in Tips
    BY <1>0, <1>6 DEF SettleProbeFails, SettleWaits, SettleStamps
  <2>3. TipsTypeOK' /\ FundingKept
    BY <2>1, <2>2, StampsKeepTypes
  <2> QED
    BY <1>0, <1>6, <1>a, <1>c, <1>d, <2>3 DEF SettleProbeFails, SettleWaits, SettleStamps
<1>7. CASE SettleWrites(w)
  <2> DEFINE x == settle[w].winTx
             job == [SettleIdle EXCEPT !.pc = "stamp", !.tip = t]
  <2>1. t \in Tips /\ x \in SweepTxs /\ settle[w].winH \in 0..MaxHeight
    BY <1>0, <1>7 DEF SettleWrites, SettleJob
  <2>2. ConfirmSweepOnchain(t, x, settle[w].winH) \/ ClearClaimedByOnSettle(t, x, settle[w].winH)
    BY <1>7 DEF SettleWrites
  <2>3. TipsTypeOK' /\ FundingKept
    BY <2>1, <2>2, SettlementsKeepTypes
  <2>4. job \in SettleJob /\ job.tip = t /\ job.pc # "kernel"
    BY <1>0, <2>1 DEF SettleIdle, SettleJob
  <2>5. \/ settle' = [settle EXCEPT ![w] = job] /\ UNCHANGED lock
        \/ settle' = [settle EXCEPT ![w] = SettleIdle] /\ Release("confirm", w)
    BY <1>7 DEF SettleWrites
  <2>6. UNCHANGED recheck
    BY <1>7 DEF SettleWrites
  <2> QED
    BY <1>0, <1>a, <1>c, <1>d, <2>1, <2>3, <2>4, <2>5, <2>6
<1>8. CASE SettleAborts(w)
    BY <1>0, <1>8, <1>a, <1>b, <1>c, <1>d DEF SettleAborts
<1>9. CASE SettlePanics(w)
  <2>1. lock' \in [Cycles -> Replicas \union {Free, Leaked}]
    BY <1>9 DEF SettlePanics, SweepTypeOK
  <2> QED
    BY <1>0, <1>9, <1>a, <1>b, <1>d, <2>1 DEF SettlePanics
<1> QED
    BY <1>1, <1>2, <1>3, <1>4, <1>5, <1>6, <1>7, <1>8, <1>9

\* The reorg cycle keeps its jobs, its lock and the rows well typed.
LEMMA RecheckingKeepsTypes ==
    ASSUME TipsTypeOK, SweepTypeOK, NEW w \in Replicas,
           \/ \E t \in Tips : RecheckSelect(w, t)
           \/ RecheckReadSpends(w) \/ RecheckReadOutputs(w) \/ RecheckReadKernel(w)
           \/ RecheckKeeps(w) \/ RecheckReverts(w) \/ RecheckStamps(w)
           \/ RecheckAborts(w) \/ RecheckPanics(w)
    PROVE  TipsTypeOK' /\ FundingKept /\ SweepTypeOK'
<1> DEFINE t == recheck[w].tip
           rec == recheck[w].rec
           Done == TipsTypeOK' /\ FundingKept /\ SweepTypeOK'
<1>0. /\ recheck[w] \in RecheckJob /\ RecheckIdle \in RecheckJob
      /\ recheck[w].pc # "idle" => t \in Tips
      /\ RecheckIdle.pc = "idle"
    BY DEF RecheckJob, RecheckIdle, SweepTypeOK
<1>a. ASSUME NEW job \in RecheckJob, recheck' = [recheck EXCEPT ![w] = job], UNCHANGED settle,
             job.pc # "idle" => job.tip \in Tips,
             job.pc = "kernel" => job.rec # NoTx,
             lock' \in [Cycles -> Replicas \union {Free, Leaked}]
      PROVE  SweepTypeOK'
    BY <1>a DEF SweepTypeOK
<1>b. ASSUME UNCHANGED tips
      PROVE  TipsTypeOK' /\ FundingKept
    BY <1>b DEF TipsTypeOK, FundingKept
<1>c. ASSUME UNCHANGED lock \/ Acquire("reorg", w) \/ Release("reorg", w)
      PROVE  lock' \in [Cycles -> Replicas \union {Free, Leaked}]
    BY <1>c DEF SweepTypeOK, Acquire, Release, Cycles
<1>1. ASSUME NEW s \in Tips, RecheckSelect(w, s)
      PROVE  Done
  <2> DEFINE job == [pc |-> "spends", tip |-> s, rec |-> tips[s].sweepTx]
  <2>1. tips[s].sweepTx \in SweepTxs \union {NoTx}
    BY DEF TipsTypeOK, Row
  <2>2. job \in RecheckJob
    BY <2>1 DEF RecheckJob
  <2> QED
    BY <1>1, <1>a, <1>b, <1>c, <2>2 DEF RecheckSelect
<1>2. CASE RecheckReadSpends(w)
  <2> DEFINE job == [recheck[w] EXCEPT
                       !.pc = IF rec \in Spends(t) \union {NoTx} THEN "keep" ELSE "revert"]
  <2>1. job \in RecheckJob /\ job.tip = t /\ job.pc # "kernel"
    BY <1>0 DEF RecheckJob
  <2> QED
    BY <1>0, <1>2, <1>a, <1>b, <1>c, <2>1 DEF RecheckReadSpends
<1>3. CASE RecheckReadOutputs(w)
  <2> DEFINE job == [recheck[w] EXCEPT !.pc = IF AsksKernel(t, rec) THEN "kernel" ELSE "revert"]
  <2>1. job \in RecheckJob /\ job.tip = t /\ job.rec = rec
    BY <1>0 DEF RecheckJob
  <2>2. rec # NoTx
    BY <1>3 DEF RecheckReadOutputs
  <2> QED
    BY <1>0, <1>3, <1>a, <1>b, <1>c, <2>1, <2>2 DEF RecheckReadOutputs
<1>4. CASE RecheckReadKernel(w)
  <2> DEFINE job == [recheck[w] EXCEPT !.pc = IF mined[t][rec] > 0 THEN "keep" ELSE "revert"]
  <2>1. job \in RecheckJob /\ job.tip = t /\ job.pc # "kernel"
    BY <1>0 DEF RecheckJob
  <2> QED
    BY <1>0, <1>4, <1>a, <1>b, <1>c, <2>1 DEF RecheckReadKernel
<1>5. CASE RecheckKeeps(w) \/ RecheckStamps(w)
  <2>1. t \in Tips /\ (Touch(t) \/ StampReorgNotified(t))
    BY <1>0, <1>5 DEF RecheckKeeps, RecheckStamps
  <2>2. TipsTypeOK' /\ FundingKept
    BY <2>1, StampsKeepTypes
  <2> QED
    BY <1>0, <1>5, <1>a, <1>c, <2>2 DEF RecheckKeeps, RecheckStamps
<1>6. CASE RecheckReverts(w)
  <2> DEFINE job == [RecheckIdle EXCEPT !.pc = "stamp", !.tip = t]
  <2>1. t \in Tips /\ RevertSweepOnReorg(t) /\ UNCHANGED settle
    BY <1>0, <1>6 DEF RecheckReverts
  <2>2. TipsTypeOK' /\ FundingKept
    BY <2>1, StampsKeepTypes
  <2>3. job \in RecheckJob /\ job.tip = t /\ job.pc # "kernel"
    BY <2>1 DEF RecheckIdle, RecheckJob
  <2>4. \/ recheck' = [recheck EXCEPT ![w] = job] /\ UNCHANGED lock
        \/ recheck' = [recheck EXCEPT ![w] = RecheckIdle] /\ Release("reorg", w)
    BY <1>6 DEF RecheckReverts
  <2> QED
    BY <1>0, <1>a, <1>c, <2>1, <2>2, <2>3, <2>4
<1>7. CASE RecheckAborts(w)
    BY <1>0, <1>7, <1>a, <1>b, <1>c DEF RecheckAborts
<1>8. CASE RecheckPanics(w)
  <2>1. lock' \in [Cycles -> Replicas \union {Free, Leaked}]
    BY <1>8 DEF RecheckPanics, SweepTypeOK
  <2> QED
    BY <1>0, <1>8, <1>a, <1>b, <2>1 DEF RecheckPanics
<1> QED
    BY <1>1, <1>2, <1>3, <1>4, <1>5, <1>6, <1>7, <1>8

\* Blocks and reorganisations keep the chain well typed.
LEMMA ChainKeepsTypes ==
    ASSUME ChainTypeOK, ChainNext
    PROVE  ChainTypeOK'
<1>1. ASSUME NEW t \in Tips, NEW S \in SUBSET Txs, NewBlock(t, S)
      PROVE  ChainTypeOK'
    BY <1>1, ChainBoundAssumption DEF NewBlock, ChainTypeOK
<1>2. ASSUME NEW k \in 1..MaxHeight, Reorg(k)
      PROVE  ChainTypeOK'
    BY <1>2, ChainBoundAssumption DEF Reorg, ChainTypeOK
<1> QED
    BY <1>1, <1>2 DEF ChainNext

\* One step keeps every variable in its type.
LEMMA StepKeepsTypes ==
    ASSUME TypeOK, [Next]_vars
    PROVE  TypeOK'
<1> USE DEF TypeOK
<1>a. ASSUME UNCHANGED chainVars
      PROVE  ChainTypeOK'
    BY <1>a DEF ChainTypeOK, chainVars
<1>b. ASSUME UNCHANGED sweepVars
      PROVE  SweepTypeOK'
    BY <1>b DEF SweepTypeOK, sweepVars
<1>c. ASSUME UNCHANGED fund, FundingKept
      PROVE  FundTypeOK'
    BY <1>c DEF FundTypeOK, FundingKept
<1>d. ASSUME UNCHANGED tips
      PROVE  TipsTypeOK' /\ FundingKept
    BY <1>d DEF TipsTypeOK, FundingKept
<1>1. CASE (\E t \in Tips : ApiStep(t)) /\ UNCHANGED <<chainVars, workerVars>>
    BY <1>1, <1>a, <1>b, <1>c, CallersKeepTypes DEF workerVars, sweepVars
<1>2. CASE GcStep /\ UNCHANGED <<chainVars, workerVars>>
  <2>1. PICK t \in Tips : TRUE
    BY <1>2 DEF GcStep, CancelOldDrafts, CancelStuckPendingConfirmation
  <2> QED
    BY <1>2, <1>a, <1>b, <1>c, <2>1, CallersKeepTypes DEF workerVars, sweepVars
<1>3. CASE ClockStep /\ UNCHANGED <<chainVars, workerVars>>
    BY <1>3, <1>a, <1>b, <1>c, CallersKeepTypes DEF ClockStep, workerVars, sweepVars
<1>4. CASE (\E w \in Replicas : FundStep(w)) /\ UNCHANGED <<chainVars, sweepVars>>
    BY <1>4, <1>a, <1>b, FundingKeepsTypes
<1>5. CASE (\E w \in Replicas : SweepStep(w)) /\ UNCHANGED <<chainVars, fund>>
    BY <1>5, <1>a, <1>c, SettlingKeepsTypes, RecheckingKeepsTypes DEF SweepStep
<1>6. CASE (\E c \in Cycles : LockStep(c)) /\ UNCHANGED <<chainVars, fund>>
  <2>1. SweepTypeOK' /\ UNCHANGED tips
    BY <1>6 DEF LockStep, LockConnectionBreaks, LeakedConnectionCloses, SweepTypeOK
  <2> QED
    BY <1>6, <1>a, <1>c, <1>d, <2>1
<1>7. CASE ChainNext /\ UNCHANGED <<tips, workerVars>>
    BY <1>7, <1>b, <1>c, <1>d, ChainKeepsTypes DEF workerVars, sweepVars
<1>8. CASE UNCHANGED vars
    BY <1>8, <1>a, <1>b, <1>c, <1>d DEF vars, chainVars, sweepVars
<1> QED
    BY <1>1, <1>2, <1>3, <1>4, <1>5, <1>6, <1>7, <1>8 DEF Next

\* Types at the start.
LEMMA InitTypes == Init => TypeOK
<1> SUFFICES ASSUME Init PROVE TypeOK
    OBVIOUS
<1>1. ChainTypeOK
    BY ChainBoundAssumption DEF Init, ChainInit, ChainTypeOK
<1>2. TipsTypeOK
  <2>1. NoRow \in Row
    BY ChainBoundAssumption DEF NoRow, Row, Statuses
  <2> QED
    BY <2>1 DEF Init, TipsInit, TipsTypeOK
<1>3. FundTypeOK
    BY ChainBoundAssumption DEF Init, FundInit, FundTypeOK, FundIdle, FundJob
<1>4. SweepTypeOK
    BY ChainBoundAssumption DEF Init, SweepInit, SweepTypeOK, SettleIdle, SettleJob, RecheckIdle,
       RecheckJob
<1> QED
    BY <1>1, <1>2, <1>3, <1>4 DEF TypeOK

\* Rows, in-flight jobs, advisory locks and the observed chain keep their types
\* in every behaviour: no worker ever acts on a row, a txid or a block it did not
\* read (NULL columns are never dereferenced).
THEOREM TypeCorrect == Spec => []TypeOK
    BY InitTypes, StepKeepsTypes, PTL DEF Spec

-------------------------------------------------------------------------------
(* Safety.  Everything rests on one relation, RowMoves: what one step, of  *)
(* whichever actor, may do to one row.  That the steps respect it needs    *)
(* two facts about jobs in flight, JobsSound; the properties then follow   *)
(* from the relation alone.                                                *)

\* The columns that say whether the tip is covered and settled.
SameMoney(r, q) ==
    /\ q.verified = r.verified /\ q.observed = r.observed
    /\ q.settled = r.settled /\ q.sweepHeight = r.sweepHeight

\* Moves of a row before it is offered, and out of the race: no money column.
QuietEdges ==
    {<<"absent", "draft">>, <<"absent", "pending_confirmation">>,
     <<"draft", "pending_confirmation">>, <<"draft", "cancelled">>,
     <<"pending_confirmation", "cancelled">>, <<"pending_confirmation", "clawed_back">>,
     <<"pending", "clawed_back">>, <<"claiming", "clawed_back">>,
     <<"funding_mismatch", "clawed_back">>, <<"cancelled", "clawed_back">>}

Stamped(r, q) == q.status = r.status /\ SameMoney(r, q) /\ q.sweepTx = r.sweepTx

Moved(r, q) ==
    /\ <<r.status, q.status>> \in QuietEdges
    /\ ~r.settled
    /\ SameMoney(r, q) /\ q.sweepTx = r.sweepTx

Opened(r, q) ==
    /\ r.status \in {"pending", "claiming"} /\ q.status = "claiming"
    /\ ~r.settled
    /\ SameMoney(r, q) /\ q.sweepTx = r.sweepTx

Recorded(r, q) ==
    /\ r.status = "claiming" /\ q.status = "claiming"
    /\ ~r.settled
    /\ r.sweepTx = NoTx \/ q.sweepTx = r.sweepTx
    /\ SameMoney(r, q)

\* The money-in worker of some replica holds the verdict.
Judged(t, r, q) ==
    /\ \E w \in Replicas : fund[w].pc = "verdict" /\ fund[w].tip = t
    /\ r.status = "pending_confirmation" /\ ~r.verified
    /\ q.verified
    /\ \/ q.status = "pending" /\ q.observed >= Amount[t]
       \/ q.status = "funding_mismatch" /\ q.observed < Amount[t]
    /\ q.settled = r.settled /\ q.sweepHeight = r.sweepHeight /\ q.sweepTx = r.sweepTx

\* The confirm cycle of some replica holds the sweep the row is settled on.
Settled(t, r, q) ==
    /\ \E w \in Replicas :
         /\ settle[w].pc = "decide" /\ settle[w].tip = t
         /\ settle[w].winTx = q.sweepTx /\ settle[w].winH = q.sweepHeight
         /\ DeepEnough(settle[w])
    /\ r.status = "claiming" /\ ~r.settled
    /\ q.status = "claimed" /\ q.settled
    /\ q.sweepTx # NoTx /\ q.sweepHeight # 0
    /\ q.verified = r.verified /\ q.observed = r.observed

\* The reorg cycle of some replica ends its probe of the row with it.
Reverted(t, r, q) ==
    /\ \E w \in Replicas : /\ recheck[w].pc = "revert" /\ recheck[w].tip = t
                           /\ recheck'[w].pc \in {"stamp", "idle"}
    /\ r.status = "claimed" /\ r.settled
    /\ q.status = "claiming" /\ ~q.settled /\ q.sweepHeight = 0 /\ q.sweepTx = r.sweepTx
    /\ q.verified = r.verified /\ q.observed = r.observed

\* Only the counting pass of some replica writes the confirmations.
CountKept(t, r, q) ==
    \/ q.confs = r.confs
    \/ /\ q.status = r.status
       /\ \E w \in Replicas : fund[w].pc = "countWrite" /\ fund[w].tip = t

\* What one step may do to the row of t.
RowMoves(t, r, q) ==
    /\ CountKept(t, r, q)
    /\ \/ Stamped(r, q)
       \/ Moved(r, q)
       \/ Opened(r, q)
       \/ Recorded(r, q)
       \/ Judged(t, r, q)
       \/ Settled(t, r, q)
       \/ Reverted(t, r, q)

RowsMove == \A t \in Tips : RowMoves(t, tips[t], tips'[t])

\* A verdict in flight agrees with the amount it observed.
VerdictSound ==
    \A w \in Replicas :
        /\ fund[w].verdict = "verified" => fund[w].observed >= Amount[fund[w].tip]
        /\ fund[w].verdict = "short" => fund[w].observed < Amount[fund[w].tip]

\* A winner in flight was read in a block.
WinnerSound == \A w \in Replicas : settle[w].winTx # NoTx => settle[w].winH # 0

JobsSound == VerdictSound /\ WinnerSound

-------------------------------------------------------------------------------
(* The statements respect the relation.                                    *)

\* One guarded UPDATE moves one row and leaves the others.
LEMMA UpdateMoves ==
    ASSUME TipsTypeOK, NEW t \in Tips, NEW row, NEW cond,
           cond => RowMoves(t, tips[t], row),
           UpdateWhere(cond, t, row)
    PROVE  RowsMove
<1>1. \A s \in Tips : tips'[s] = tips[s] \/ (s = t /\ cond /\ tips'[s] = row)
    BY DEF UpdateWhere, Update, TipsTypeOK
<1>2. \A s \in Tips : RowMoves(s, tips[s], tips[s])
    BY DEF RowMoves, CountKept, Stamped, SameMoney
<1> QED
    BY <1>1, <1>2 DEF RowsMove

\* The same for an UPDATE whose guard is the action's own.
LEMMA PlainUpdateMoves ==
    ASSUME TipsTypeOK, NEW t \in Tips, NEW row, RowMoves(t, tips[t], row), Update(t, row)
    PROVE  RowsMove
    BY UpdateMoves DEF UpdateWhere

\* An HTTP handler of api/tips.rs moves a row only as RowMoves allows.
LEMMA CallersMoveRows ==
    ASSUME TipsTypeOK, SettledIffClaimed, NEW t \in Tips,
           ApiStep(t) \/ RateWindowElapses(t) \/ Ages(t)
    PROVE  RowsMove
<1>0. tips[t] \in Row /\ (tips[t].settled <=> tips[t].status = "claimed")
    BY DEF TipsTypeOK, SettledIffClaimed
<1>1. CASE CreateDraft(t)
  <2> DEFINE row == [tips[t] EXCEPT !.status = "draft"]
  <2>1. Moved(tips[t], row) /\ CountKept(t, tips[t], row)
    BY <1>0, <1>1 DEF CreateDraft, Moved, QuietEdges, SameMoney, CountKept, Row
  <2> QED
    BY <1>1, <2>1, PlainUpdateMoves DEF CreateDraft, RowMoves
<1>2. ASSUME NEW f \in FundTxs, CreateFunded(t, f)
      PROVE  RowsMove
  <2> DEFINE row == [tips[t] EXCEPT !.status = "pending_confirmation", !.fundingTx = f]
  <2>1. Moved(tips[t], row) /\ CountKept(t, tips[t], row)
    BY <1>0, <1>2 DEF CreateFunded, Moved, QuietEdges, SameMoney, CountKept, Row
  <2> QED
    BY <1>2, <2>1, PlainUpdateMoves DEF CreateFunded, RowMoves
<1>3. ASSUME NEW u \in Users, CancelDraft(t, u)
      PROVE  RowsMove
  <2> DEFINE row == [tips[t] EXCEPT !.status = "cancelled"]
  <2>1. Moved(tips[t], row) /\ CountKept(t, tips[t], row)
    BY <1>0, <1>3 DEF CancelDraft, Moved, QuietEdges, SameMoney, CountKept, Row
  <2> QED
    BY <1>3, <2>1, PlainUpdateMoves DEF CancelDraft, RowMoves
<1>4. ASSUME NEW u \in Users, NEW f \in FundTxs, AttachFunding(t, u, f)
      PROVE  RowsMove
  <2> DEFINE fresh == tips[t].status = "draft" /\ tips[t].fundingTx = NoTx
             row == [tips[t] EXCEPT !.status = "pending_confirmation", !.fundingTx = f]
  <2>1. fresh => Moved(tips[t], row) /\ CountKept(t, tips[t], row)
    BY <1>0 DEF Moved, QuietEdges, SameMoney, CountKept, Row
  <2> QED
    BY <1>4, <2>1, UpdateMoves DEF AttachFunding, RowMoves
<1>5. ASSUME NEW u \in Users, Claim(t, u)
      PROVE  RowsMove
  <2> DEFINE row == [tips[t] EXCEPT !.status = "claiming", !.claimedBy = u]
  <2>1. Opened(tips[t], row) /\ CountKept(t, tips[t], row)
    BY <1>0, <1>5 DEF Claim, Claimable, Opened, SameMoney, CountKept, Row
  <2> QED
    BY <1>5, <2>1, PlainUpdateMoves DEF Claim, RowMoves
<1>6. ASSUME NEW u \in Users, NEW x \in SweepTxs, ConfirmSweep(t, u, x)
      PROVE  RowsMove
  <2> DEFINE row == [tips[t] EXCEPT !.sweepTx = x, !.claimedBy = IF @ = NoUser THEN u ELSE @]
  <2>1. Recordable(t, x) => Recorded(tips[t], row) /\ CountKept(t, tips[t], row)
    BY <1>0 DEF Recordable, Recorded, SameMoney, CountKept, Row
  <2> QED
    BY <1>6, <2>1, UpdateMoves DEF ConfirmSweep, RowMoves
<1>7. ASSUME NEW u \in Users, Clawback(t, u)
      PROVE  RowsMove
  <2> DEFINE row == [tips[t] EXCEPT !.status = "clawed_back"]
  <2>1. Moved(tips[t], row) /\ CountKept(t, tips[t], row)
    BY <1>0, <1>7 DEF Clawback, Moved, QuietEdges, SameMoney, CountKept, Row
  <2> QED
    BY <1>7, <2>1, PlainUpdateMoves DEF Clawback, RowMoves
<1>8. CASE RateWindowElapses(t)
  <2> DEFINE row == [tips[t] EXCEPT !.checked = FALSE]
  <2>1. Stamped(tips[t], row) /\ CountKept(t, tips[t], row)
    BY <1>0 DEF Stamped, SameMoney, CountKept, Row
  <2> QED
    BY <1>8, <2>1, PlainUpdateMoves DEF RateWindowElapses, RowMoves
<1>9. CASE Ages(t)
  <2> DEFINE row == [tips[t] EXCEPT !.aged = TRUE]
  <2>1. Stamped(tips[t], row) /\ CountKept(t, tips[t], row)
    BY <1>0 DEF Stamped, SameMoney, CountKept, Row
  <2> QED
    BY <1>9, <2>1, PlainUpdateMoves DEF Ages, RowMoves
<1> QED
    BY <1>1, <1>2, <1>3, <1>4, <1>5, <1>6, <1>7, <1>8, <1>9 DEF ApiStep

\* So does a garbage-collection pass of gc.rs, and the passing of time.
LEMMA GcMovesRows ==
    ASSUME TipsTypeOK, SettledIffClaimed, GcStep
    PROVE  RowsMove
<1>1. ASSUME NEW t \in Tips, tips[t].status \in {"draft", "pending_confirmation"}
      PROVE  /\ Moved(tips[t], [tips[t] EXCEPT !.status = "cancelled"])
             /\ CountKept(t, tips[t], [tips[t] EXCEPT !.status = "cancelled"])
    BY <1>1 DEF TipsTypeOK, SettledIffClaimed, Moved, QuietEdges, SameMoney, CountKept, Row
<1>2. \A t \in Tips : RowMoves(t, tips[t], tips[t])
    BY DEF RowMoves, CountKept, Stamped, SameMoney
<1>3. \A t \in Tips : \/ tips'[t] = tips[t]
                      \/ /\ tips[t].status \in {"draft", "pending_confirmation"}
                         /\ tips'[t] = [tips[t] EXCEPT !.status = "cancelled"]
    BY DEF GcStep, CancelOldDrafts, CancelStuckPendingConfirmation
<1> QED
    BY <1>1, <1>2, <1>3 DEF RowsMove, RowMoves

\* Stamps that change no column of the lifecycle.
LEMMA StampsMoveRows ==
    ASSUME TipsTypeOK, NEW t \in Tips, Touch(t) \/ StampDmSent(t) \/ StampReorgNotified(t)
    PROVE  RowsMove
<1>0. tips[t] \in Row
    BY DEF TipsTypeOK
<1>1. \A row \in {[tips[t] EXCEPT !.checked = TRUE], [tips[t] EXCEPT !.dmSent = TRUE],
                 [tips[t] EXCEPT !.reorgNotified = TRUE]} :
        Stamped(tips[t], row) /\ CountKept(t, tips[t], row)
    BY <1>0 DEF Stamped, SameMoney, CountKept, Row
<1> QED
    BY <1>1, UpdateMoves DEF RowMoves, Touch, StampDmSent, StampReorgNotified

\* A step that leaves the table alone respects RowMoves.
LEMMA RowsStutter ==
    ASSUME UNCHANGED tips
    PROVE  RowsMove
    BY DEF RowsMove, RowMoves, CountKept, Stamped, SameMoney

\* The money-in worker moves rows only as RowMoves allows: the verdict it
\* writes is the one it computed (VerdictSound).
LEMMA FundingMovesRows ==
    ASSUME TipsTypeOK, FundTypeOK, JobsSound, NEW w \in Replicas, FundStep(w)
    PROVE  RowsMove
<1> DEFINE t == fund[w].tip
<1>1. CASE CountWrite(w)
  <2> DEFINE row == [tips[t] EXCEPT !.confs = fund[w].n, !.checked = TRUE]
  <2>1. t \in Tips /\ tips[t] \in Row
    BY <1>1 DEF CountWrite, FundTypeOK, TipsTypeOK
  <2>2. Stamped(tips[t], row) /\ CountKept(t, tips[t], row)
    BY <1>1, <2>1 DEF CountWrite, CountKept, Stamped, SameMoney, CountKept, Row
  <2> QED
    BY <1>1, <2>1, <2>2, UpdateMoves DEF CountWrite, UpdateConfirmations, RowMoves
<1>2. CASE VerifyWrite(w)
  <2>1. t \in Tips /\ tips[t] \in Row
    BY <1>2 DEF VerifyWrite, FundTypeOK, TipsTypeOK
  <2>2. CASE fund[w].verdict = "verified" /\ MarkVerified(t, fund[w].observed)
    <3> DEFINE row == [tips[t] EXCEPT !.status = "pending", !.verified = TRUE,
                                      !.observed = fund[w].observed]
    <3>1. fund[w].observed >= Amount[t]
      BY <2>2 DEF JobsSound, VerdictSound
    <3>2. AwaitsVerdict(t) => Judged(t, tips[t], row) /\ CountKept(t, tips[t], row)
      BY <1>2, <2>1, <3>1 DEF VerifyWrite, AwaitsVerdict, CountKept, Judged, Row
    <3> QED
      BY <2>1, <2>2, <3>2, UpdateMoves DEF MarkVerified, RowMoves
  <2>3. CASE fund[w].verdict = "short" /\ MarkMismatch(t, fund[w].observed)
    <3> DEFINE row == [tips[t] EXCEPT !.status = "funding_mismatch", !.verified = TRUE,
                                      !.observed = fund[w].observed]
    <3>1. fund[w].observed < Amount[t]
      BY <2>3 DEF JobsSound, VerdictSound
    <3>2. AwaitsVerdict(t) => Judged(t, tips[t], row) /\ CountKept(t, tips[t], row)
      BY <1>2, <2>1, <3>1 DEF VerifyWrite, AwaitsVerdict, CountKept, Judged, Row
    <3> QED
      BY <2>1, <2>3, <3>2, UpdateMoves DEF MarkMismatch, RowMoves
  <2>4. CASE Touch(t)
    BY <2>1, <2>4, StampsMoveRows
  <2> QED
    BY <1>2, <2>2, <2>3, <2>4 DEF VerifyWrite
<1>3. CASE UNCHANGED tips
    BY <1>3, RowsStutter
<1> QED
    BY <1>1, <1>2, <1>3
    DEF FundStep, CountSelect, VerifySelect, CountHeight, CountRead, VerifyReadAddress,
        VerifyReadVoucher, VerifyError, FundAbort

\* The money-out workers move rows only as RowMoves allows: the winner they
\* write has a block (WinnerSound).
LEMMA SweepsMoveRows ==
    ASSUME TipsTypeOK, SweepTypeOK, JobsSound, NEW w \in Replicas, SweepStep(w)
    PROVE  RowsMove
<1>1. CASE SettleWrites(w)
  <2> DEFINE t == settle[w].tip
             x == settle[w].winTx
             h == settle[w].winH
             kept == [tips[t] EXCEPT !.status = "claimed", !.settled = TRUE,
                                     !.sweepTx = x, !.sweepHeight = h]
             cleared == [tips[t] EXCEPT !.status = "claimed", !.settled = TRUE,
                                        !.sweepTx = x, !.sweepHeight = h, !.claimedBy = NoUser]
  <2>1. t \in Tips /\ tips[t] \in Row
    BY <1>1 DEF SettleWrites, SweepTypeOK, TipsTypeOK
  <2>2. x # NoTx /\ h # 0
    BY <1>1 DEF SettleWrites, JobsSound, WinnerSound
  <2>3. settle[w].pc = "decide" /\ DeepEnough(settle[w])
    BY <1>1 DEF SettleWrites
  <2>4. Settleable(t) => Settled(t, tips[t], kept) /\ CountKept(t, tips[t], kept)
    BY <2>1, <2>2, <2>3 DEF CountKept, Settleable, Settled, Row
  <2>5. Settleable(t) => Settled(t, tips[t], cleared) /\ CountKept(t, tips[t], cleared)
    BY <2>1, <2>2, <2>3 DEF CountKept, Settleable, Settled, Row
  <2>6. ConfirmSweepOnchain(t, x, h) \/ ClearClaimedByOnSettle(t, x, h)
    BY <1>1 DEF SettleWrites
  <2> QED
    BY <2>1, <2>4, <2>5, <2>6, UpdateMoves
    DEF ConfirmSweepOnchain, ClearClaimedByOnSettle, RowMoves
<1>2. CASE RecheckReverts(w)
  <2> DEFINE t == recheck[w].tip
             row == [tips[t] EXCEPT !.status = "claiming", !.settled = FALSE,
                                    !.sweepHeight = 0, !.dmSent = FALSE]
  <2>1. t \in Tips /\ tips[t] \in Row
    BY <1>2 DEF RecheckReverts, SweepTypeOK, TipsTypeOK
  <2>2. recheck[w].pc = "revert" /\ recheck'[w].pc \in {"stamp", "idle"}
    <3> DEFINE job == [RecheckIdle EXCEPT !.pc = "stamp", !.tip = t]
    <3>1. /\ recheck[w].pc = "revert"
          /\ \/ recheck' = [recheck EXCEPT ![w] = job]
             \/ recheck' = [recheck EXCEPT ![w] = RecheckIdle]
      BY <1>2 DEF RecheckReverts
    <3>2. recheck \in [Replicas -> RecheckJob]
      BY DEF SweepTypeOK
    <3>3. job.pc = "stamp" /\ RecheckIdle.pc = "idle"
      BY DEF RecheckIdle
    <3> HIDE DEF job
    <3> QED
      BY <3>1, <3>2, <3>3
  <2>3. Revertible(t) => Reverted(t, tips[t], row) /\ CountKept(t, tips[t], row)
    BY <2>1, <2>2 DEF CountKept, Revertible, Reverted, Row
  <2> QED
    BY <1>2, <2>1, <2>3, UpdateMoves DEF RecheckReverts, RevertSweepOnReorg, RowMoves
<1>3. CASE SettleProbeFails(w) \/ SettleWaits(w) \/ SettleStamps(w)
    BY <1>3, StampsMoveRows DEF SettleProbeFails, SettleWaits, SettleStamps, SweepTypeOK
<1>4. CASE RecheckKeeps(w) \/ RecheckStamps(w)
    BY <1>4, StampsMoveRows DEF RecheckKeeps, RecheckStamps, SweepTypeOK
<1>5. CASE UNCHANGED tips
    BY <1>5, RowsStutter
<1> QED
    BY <1>1, <1>2, <1>3, <1>4, <1>5
    DEF SweepStep, SettleSelect, SettleReadHeight, SettleReadSpends, SettleReadOutputs,
        SettleReadKernel, SettleAborts, SettlePanics, RecheckSelect, RecheckReadSpends,
        RecheckReadOutputs, RecheckReadKernel, RecheckAborts, RecheckPanics

\* Every step of the system respects the relation.
LEMMA StepMovesRows ==
    ASSUME TypeOK, JobsSound, SettledIffClaimed, [Next]_vars
    PROVE  RowsMove
<1> USE DEF TypeOK
<1>1. CASE \E t \in Tips : ApiStep(t)
    BY <1>1, CallersMoveRows
<1>2. CASE GcStep
    BY <1>2, GcMovesRows
<1>3. CASE ClockStep
    BY <1>3, CallersMoveRows DEF ClockStep
<1>4. CASE \E w \in Replicas : FundStep(w)
    BY <1>4, FundingMovesRows
<1>5. CASE \E w \in Replicas : SweepStep(w)
    BY <1>5, SweepsMoveRows
<1>6. CASE UNCHANGED tips
    BY <1>6, RowsStutter
<1> QED
    BY <1>1, <1>2, <1>3, <1>4, <1>5, <1>6
    DEF Next, vars, LockStep, LockConnectionBreaks, LeakedConnectionCloses

-------------------------------------------------------------------------------
(* The facts about jobs in flight.                                         *)

\* A verdict in flight keeps agreeing with the amount it was computed from
\* (classify_funding_amount, grin_amount_from_presence).
LEMMA FundingKeepsVerdicts ==
    ASSUME TypeOK, VerdictSound, NEW w \in Replicas, FundStep(w)
    PROVE  VerdictSound'
<1> DEFINE t == fund[w].tip
           Sound(job) == /\ job.verdict = "verified" => job.observed >= Amount[job.tip]
                         /\ job.verdict = "short" => job.observed < Amount[job.tip]
<1>0. fund[w] \in FundJob /\ fund \in [Replicas -> FundJob] /\ Sound(fund[w])
    BY DEF TypeOK, FundTypeOK, VerdictSound
<1>a. ASSUME NEW job, fund' = [fund EXCEPT ![w] = job], Sound(job)
      PROVE  VerdictSound'
    BY <1>0, <1>a DEF VerdictSound
<1>1. CASE CountHeight(w)
  <2> DEFINE job == [fund[w] EXCEPT !.pc = "countRead", !.h = height]
  <2>1. Sound(job)
    BY <1>0 DEF FundJob
  <2> HIDE DEF Sound
  <2> QED
    BY <1>1, <1>a, <2>1 DEF CountHeight
<1>2. CASE CountRead(w)
  <2> DEFINE job == [fund[w] EXCEPT !.pc = "countWrite", !.h = 0,
                                    !.n = Confirmations(CountedBlock(t), fund[w].h)]
  <2>1. Sound(job)
    BY <1>0 DEF FundJob
  <2> HIDE DEF Sound
  <2> QED
    BY <1>2, <1>a, <2>1 DEF CountRead
<1>3. ASSUME NEW sent \in 0..MaxAmount, VerifyReadAddress(w, sent)
      PROVE  VerdictSound'
  <2> DEFINE received == Worth[Funded(t)]
             verdict == ClassifyFundingAmount(received, sent, Amount[t])
             job == [fund[w] EXCEPT !.pc = "verdict", !.verdict = verdict,
                                    !.observed = Saturate(received - sent)]
  <2>1. t \in Tips
    BY <1>3 DEF VerifyReadAddress, TypeOK, FundTypeOK
  <2>2. received \in Nat /\ sent \in Nat /\ Amount[t] \in Nat
    BY <2>1, OutputTypes, TipAssumption, ChainBoundAssumption
  <2>3. /\ verdict = "verified" => Saturate(received - sent) >= Amount[t]
        /\ verdict = "short" => Saturate(received - sent) < Amount[t]
    <3> HIDE DEF received
    <3> QED
      BY <2>2 DEF ClassifyFundingAmount, Saturate
  <2> HIDE DEF verdict, received
  <2>4. Sound(job)
    BY <1>0, <2>3 DEF FundJob
  <2> HIDE DEF Sound
  <2> QED
    BY <1>3, <1>a, <2>4 DEF VerifyReadAddress, verdict, received
<1>4. CASE VerifyReadVoucher(w)
  <2> DEFINE present == VoucherPresent(t)
             job == [fund[w] EXCEPT !.pc = "verdict",
                                    !.verdict = IF present THEN "verified" ELSE "touch",
                                    !.observed = IF present THEN Amount[t] ELSE 0]
  <2>1. t \in Tips /\ Amount[t] \in Nat
    BY <1>4, TipAssumption, ChainBoundAssumption DEF VerifyReadVoucher, TypeOK, FundTypeOK
  <2>2. Sound(job)
    BY <1>0, <2>1 DEF FundJob
  <2> HIDE DEF Sound
  <2> QED
    BY <1>4, <1>a, <2>2 DEF VerifyReadVoucher
<1>5. CASE VerifyError(w)
  <2> DEFINE job == [fund[w] EXCEPT !.pc = "verdict", !.verdict = "touch"]
  <2>1. Sound(job)
    BY <1>0 DEF FundJob
  <2> HIDE DEF Sound
  <2> QED
    BY <1>5, <1>a, <2>1 DEF VerifyError
<1>6. ASSUME NEW s \in Tips, CountSelect(w, s) \/ VerifySelect(w, s)
      PROVE  VerdictSound'
  <2>1. /\ Sound([FundIdle EXCEPT !.pc = "countHeight", !.tip = s])
        /\ Sound([FundIdle EXCEPT !.pc = "verifyRead", !.tip = s])
    BY DEF FundIdle
  <2> HIDE DEF Sound
  <2> QED
    BY <1>6, <1>a, <2>1 DEF CountSelect, VerifySelect
<1>7. CASE CountWrite(w) \/ VerifyWrite(w) \/ FundAbort(w)
  <2>1. Sound(FundIdle)
    BY DEF FundIdle
  <2> HIDE DEF Sound
  <2> QED
    BY <1>7, <1>a, <2>1 DEF CountWrite, VerifyWrite, FundAbort
<1> QED
    BY <1>1, <1>2, <1>3, <1>4, <1>5, <1>6, <1>7 DEF FundStep

\* A sweep on chain was mined in some block.
LEMMA WinnerIsMined ==
    ASSUME ChainTypeOK, NEW t \in Tips, Winner(t) # NoTx
    PROVE  BlockOf(t, Winner(t)) # 0
<1>1. Spends(t) # {} /\ Winner(t) = PickWinner(t, Spends(t))
    BY DEF Winner
<1>2. Winner(t) \in Spends(t)
    BY <1>1, WinnerIsASpend, OutputTypes
<1> QED
    BY <1>2 DEF Spends, BlockOf

\* A winner in flight keeps its block (pick_winner, get_kernel).
LEMMA SweepsKeepWinners ==
    ASSUME TypeOK, WinnerSound, NEW w \in Replicas, SweepStep(w)
    PROVE  WinnerSound'
<1> DEFINE t == settle[w].tip
           rec == settle[w].rec
           Sound(job) == job.winTx # NoTx => job.winH # 0
<1>0. settle[w] \in SettleJob /\ settle \in [Replicas -> SettleJob] /\ Sound(settle[w])
    BY DEF TypeOK, SweepTypeOK, WinnerSound
<1>a. ASSUME NEW job, settle' = [settle EXCEPT ![w] = job], Sound(job)
      PROVE  WinnerSound'
    BY <1>0, <1>a DEF WinnerSound
<1>1. ASSUME NEW s \in Tips, SettleSelect(w, s)
      PROVE  WinnerSound'
  <2> DEFINE job == [SettleIdle EXCEPT
                       !.pc = IF Asset[s] = "grin" THEN "height" ELSE "spends",
                       !.tip = s, !.rec = tips[s].sweepTx]
  <2>1. Sound(job)
    BY DEF SettleIdle
  <2> HIDE DEF Sound
  <2> QED
    BY <1>1, <1>a, <2>1 DEF SettleSelect
<1>2. CASE SettleReadHeight(w)
  <2> DEFINE job == [settle[w] EXCEPT
                       !.pc = IF Asset[t] = "grin" THEN "spends" ELSE "decide", !.h = height]
  <2>1. Sound(job)
    BY <1>0 DEF SettleJob
  <2> HIDE DEF Sound
  <2> QED
    BY <1>2, <1>a, <2>1 DEF SettleReadHeight
<1>3. CASE SettleReadSpends(w)
  <2> DEFINE job == [settle[w] EXCEPT
                       !.pc = IF Asset[t] = "btc" THEN "height" ELSE "decide",
                       !.h = IF Asset[t] = "xmr" THEN height ELSE 0,
                       !.winTx = Winner(t), !.winH = BlockOf(t, Winner(t))]
  <2>1. t \in Tips
    BY <1>3 DEF SettleReadSpends, TypeOK, SweepTypeOK
  <2>2. Winner(t) # NoTx => BlockOf(t, Winner(t)) # 0
    BY <2>1, WinnerIsMined DEF TypeOK
  <2>3. Sound(job)
    BY <1>0, <2>2 DEF SettleJob
  <2> HIDE DEF Sound
  <2> QED
    BY <1>3, <1>a, <2>3 DEF SettleReadSpends
<1>4. CASE SettleReadOutputs(w)
  <2> DEFINE job == [settle[w] EXCEPT !.pc = IF AsksKernel(t, rec) THEN "kernel" ELSE "decide"]
  <2>1. Sound(job)
    BY <1>0 DEF SettleJob
  <2> HIDE DEF Sound
  <2> QED
    BY <1>4, <1>a, <2>1 DEF SettleReadOutputs
<1>5. CASE SettleReadKernel(w)
  <2> DEFINE job == [settle[w] EXCEPT
                       !.pc = "decide", !.winTx = IF mined[t][rec] > 0 THEN rec ELSE NoTx,
                       !.winH = mined[t][rec]]
  <2>1. Sound(job)
    BY <1>0 DEF SettleJob
  <2> HIDE DEF Sound
  <2> QED
    BY <1>5, <1>a, <2>1 DEF SettleReadKernel
<1>6. CASE SettleWrites(w)
  <2>1. Sound(SettleIdle) /\ Sound([SettleIdle EXCEPT !.pc = "stamp", !.tip = t])
    BY DEF SettleIdle
  <2> HIDE DEF Sound
  <2> QED
    BY <1>6, <1>a, <2>1 DEF SettleWrites
<1>7. CASE \/ SettleProbeFails(w) \/ SettleWaits(w) \/ SettleStamps(w)
           \/ SettleAborts(w) \/ SettlePanics(w)
  <2>1. Sound(SettleIdle)
    BY DEF SettleIdle
  <2> HIDE DEF Sound
  <2> QED
    BY <1>7, <1>a, <2>1
    DEF SettleProbeFails, SettleWaits, SettleStamps, SettleAborts, SettlePanics
<1>8. CASE UNCHANGED settle
    BY <1>8 DEF WinnerSound
<1> QED
    BY <1>1, <1>2, <1>3, <1>4, <1>5, <1>6, <1>7, <1>8
    DEF SweepStep, RecheckSelect, RecheckReadSpends, RecheckReadOutputs, RecheckReadKernel,
        RecheckKeeps, RecheckReverts, RecheckStamps, RecheckAborts, RecheckPanics

\* Both facts about jobs in flight are kept by every step.
LEMMA StepKeepsJobsSound ==
    ASSUME TypeOK, JobsSound, [Next]_vars
    PROVE  JobsSound'
<1>1. ASSUME UNCHANGED fund
      PROVE  VerdictSound'
    BY <1>1 DEF JobsSound, VerdictSound
<1>2. ASSUME UNCHANGED settle
      PROVE  WinnerSound'
    BY <1>2 DEF JobsSound, WinnerSound
<1>3. CASE (\E w \in Replicas : FundStep(w)) /\ UNCHANGED <<chainVars, sweepVars>>
    BY <1>2, <1>3, FundingKeepsVerdicts DEF JobsSound, sweepVars
<1>4. CASE (\E w \in Replicas : SweepStep(w)) /\ UNCHANGED <<chainVars, fund>>
    BY <1>1, <1>4, SweepsKeepWinners DEF JobsSound
<1>5. CASE UNCHANGED <<fund, settle>>
    BY <1>1, <1>2, <1>5 DEF JobsSound
<1> QED
    BY <1>3, <1>4, <1>5
    DEF Next, vars, workerVars, LockStep, LockConnectionBreaks, LeakedConnectionCloses

-------------------------------------------------------------------------------
(* The properties.                                                         *)

\* What the invariants need of each other.
SafetyInv == TypeOK /\ JobsSound /\ SettledIffClaimed /\ ClaimGate

\* The empty table and idle workers satisfy the inductive invariant.
LEMMA InitSafety == Init => SafetyInv
<1> SUFFICES ASSUME Init PROVE SafetyInv
    OBVIOUS
<1>1. JobsSound
    BY DEF Init, FundInit, FundIdle, SweepInit, SettleIdle, JobsSound, VerdictSound, WinnerSound
<1>2. SettledIffClaimed
    BY DEF Init, TipsInit, NoRow, SettledIffClaimed
<1>3. ClaimGate
    BY DEF Init, TipsInit, NoRow, ClaimGate
<1> QED
    BY <1>1, <1>2, <1>3, InitTypes DEF SafetyInv

\* A row that moves within the relation keeps its settlement columns together.
LEMMA MovesKeepSettlement ==
    ASSUME TipsTypeOK, SettledIffClaimed, RowsMove
    PROVE  SettledIffClaimed'
<1> SUFFICES ASSUME NEW t \in Tips
             PROVE  /\ tips'[t].settled <=> tips'[t].status = "claimed"
                    /\ tips'[t].settled <=> tips'[t].sweepHeight # 0
                    /\ tips'[t].settled => tips'[t].sweepTx # NoTx
    BY DEF SettledIffClaimed
<1>1. RowMoves(t, tips[t], tips'[t])
    BY DEF RowsMove
<1>2. /\ tips[t].settled <=> tips[t].status = "claimed"
      /\ tips[t].settled <=> tips[t].sweepHeight # 0
      /\ tips[t].settled => tips[t].sweepTx # NoTx
    BY DEF SettledIffClaimed
<1> QED
    BY <1>1, <1>2
    DEF RowMoves, Stamped, Moved, Opened, Recorded, Judged, Settled, Reverted, SameMoney, QuietEdges

\* A row that moves within the relation passes the claim gate.
LEMMA MovesKeepGate ==
    ASSUME TipsTypeOK, ClaimGate, RowsMove
    PROVE  ClaimGate'
<1> DEFINE Gate(t, r) ==
      /\ r.status \in {"pending", "claiming", "claimed"} => r.verified /\ r.observed >= Amount[t]
      /\ r.status = "funding_mismatch" => r.verified /\ r.observed < Amount[t]
      /\ r.status \in {"absent", "draft", "pending_confirmation"} => ~r.verified
<1>1. ASSUME NEW t \in Tips
      PROVE  Gate(t, tips'[t])
  <2>1. RowMoves(t, tips[t], tips'[t]) /\ Gate(t, tips[t])
    BY DEF RowsMove, ClaimGate
  <2> QED
    BY <2>1
    DEF RowMoves, Stamped, Moved, Opened, Recorded, Judged, Settled, Reverted, SameMoney, QuietEdges
<1> QED
    BY <1>1 DEF ClaimGate

\* Every step keeps the inductive invariant.
LEMMA StepKeepsSafety ==
    ASSUME SafetyInv, [Next]_vars
    PROVE  SafetyInv' /\ RowsMove
<1>1. RowsMove
    BY StepMovesRows DEF SafetyInv
<1>2. TypeOK' /\ JobsSound'
    BY StepKeepsTypes, StepKeepsJobsSound DEF SafetyInv
<1>3. SettledIffClaimed' /\ ClaimGate'
    BY <1>1, MovesKeepSettlement, MovesKeepGate DEF SafetyInv, TypeOK
<1> QED
    BY <1>1, <1>2, <1>3 DEF SafetyInv

\* The inductive invariant: types, jobs in flight, the settlement columns and
\* the claim gate, in every reachable state of the tip subsystem.
THEOREM SafetyInvariant == Spec => []SafetyInv
    BY InitSafety, StepKeepsSafety, PTL DEF Spec

\* No interleaving of replicas, callers, garbage collection and chain opens a tip
\* that was not verified to cover its amount, or calls a covered one a mismatch.
THEOREM ClaimGateHolds == Spec => []ClaimGate
<1>1. SafetyInv => ClaimGate
    BY DEF SafetyInv
<1> QED
    BY <1>1, SafetyInvariant, PTL

\* The columns that say "settled" never disagree.
THEOREM SettlementConsistent == Spec => []SettledIffClaimed
<1>1. SafetyInv => SettledIffClaimed
    BY DEF SafetyInv
<1> QED
    BY <1>1, SafetyInvariant, PTL

\* A recorded sweep txid is replaced only by a settlement.
THEOREM RecorderKept == Spec => FirstRecorderWins
<1>1. ASSUME SafetyInv, [Next]_vars
      PROVE  \A t \in Tips : tips[t].sweepTx # NoTx /\ tips'[t].sweepTx # tips[t].sweepTx
               => tips[t].status = "claiming" /\ tips'[t].status = "claimed"
  <2>1. RowsMove
    BY <1>1, StepKeepsSafety
  <2> QED
    BY <2>1
    DEF RowsMove, RowMoves, Stamped, Moved, Opened, Recorded, Judged, Settled, Reverted
<1> QED
    BY <1>1, SafetyInvariant, PTL DEF Spec, FirstRecorderWins

-------------------------------------------------------------------------------
(* Refinement.                                                             *)

\* The tip subsystem implements the abstract lifecycle.
THEOREM LifecycleImplemented == Spec => LifecycleRefined
<1> DEFINE cov(t, r) == r.verified /\ r.observed >= Amount[t]
<1>1. ASSUME Init
      PROVE  Lifecycle!Init
  <2>1. \A t \in Tips : tips[t].status = "absent" /\ cov(t, tips[t]) = FALSE
    BY <1>1 DEF Init, TipsInit, NoRow
  <2> HIDE DEF cov
  <2>2. [t \in Tips |-> cov(t, tips[t])] = [t \in Tips |-> FALSE]
    BY <2>1
  <2>3. [t \in Tips |-> tips[t].status] = [t \in Tips |-> "absent"]
    BY <2>1
  <2> USE DEF cov
  <2> QED
    BY <2>2, <2>3 DEF Lifecycle!Init
<1>2. ASSUME SafetyInv, [Next]_vars
      PROVE  Lifecycle!Next
  <2> SUFFICES ASSUME NEW t \in Tips
               PROVE  Lifecycle!Move(t) \/ Lifecycle!Offer(t) \/ Lifecycle!Open(t)
                      \/ Lifecycle!Stay(t)
    BY DEF Lifecycle!Next
  <2>1. RowMoves(t, tips[t], tips'[t])
    BY <1>2, StepKeepsSafety DEF RowsMove
  <2>2. ClaimGate /\ ClaimGate' /\ SettledIffClaimed
    BY <1>2, StepKeepsSafety DEF SafetyInv
  <2>3. CASE Stamped(tips[t], tips'[t]) \/ Recorded(tips[t], tips'[t])
    BY <2>3 DEF Stamped, Recorded, SameMoney, Lifecycle!Stay
  <2>4. CASE Moved(tips[t], tips'[t])
    BY <2>4 DEF Moved, QuietEdges, SameMoney, Lifecycle!Move, Lifecycle!Edges
  <2>5. CASE Opened(tips[t], tips'[t])
    BY <2>2, <2>5 DEF Opened, SameMoney, ClaimGate, Lifecycle!Open, Lifecycle!Stay
  <2>6. CASE Judged(t, tips[t], tips'[t])
    <3>1. CASE tips'[t].status = "pending"
      BY <2>6, <3>1 DEF Judged, Lifecycle!Offer
    <3>2. CASE tips'[t].status = "funding_mismatch"
      <4>1. ~cov(t, tips[t])
        BY <2>6 DEF Judged
      <4>2. ~cov(t, tips'[t])
        <5>1. TypeOK'
            BY <1>2, StepKeepsSafety DEF SafetyInv
        <5>2. tips'[t].observed \in Int /\ Amount[t] \in Int
            BY <5>1, TipAssumption DEF TypeOK, TipsTypeOK, Row
        <5> QED
            BY <2>6, <3>2, <5>2 DEF Judged
      <4>3. (cov(t, tips'[t])) = (cov(t, tips[t]))
        BY <4>1, <4>2
      <4> QED
        BY <2>6, <3>2, <4>3 DEF Judged, Lifecycle!Move, Lifecycle!Edges
    <3> QED
      BY <2>6, <3>1, <3>2 DEF Judged
  <2>7. CASE Settled(t, tips[t], tips'[t]) \/ Reverted(t, tips[t], tips'[t])
    BY <2>7 DEF Settled, Reverted, Lifecycle!Move, Lifecycle!Edges
  <2> QED
    BY <2>1, <2>3, <2>4, <2>5, <2>6, <2>7 DEF RowMoves
<1> QED
    BY <1>1, <1>2, SafetyInvariant, PTL DEF Spec, LifecycleRefined, Lifecycle!Spec
===============================================================================
