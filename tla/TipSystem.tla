------------------------------- MODULE TipSystem -------------------------------
(***************************************************************************)
(* The whole tip subsystem: callers, garbage collection, the money-in and  *)
(* money-out workers of every replica, the chain, and time.                *)
(***************************************************************************)
EXTENDS FundingWorker, SweepReconciler

vars == <<height, mined, reorgs, tips, fund, settle, recheck, lock>>
workerVars == <<fund, settle, recheck, lock>>

Init == ChainInit /\ TipsInit /\ FundInit /\ SweepInit

\* The HTTP handlers.
ApiStep(t) ==
    \/ CreateDraft(t)
    \/ \E f \in FundTxs : CreateFunded(t, f)
    \/ \E u \in Users : CancelDraft(t, u)
    \/ \E u \in Users, f \in FundTxs : AttachFunding(t, u, f)
    \/ \E u \in Users : Claim(t, u)
    \/ \E u \in Users, x \in SweepTxs : ConfirmSweep(t, u, x)
    \/ \E u \in Users : Clawback(t, u)

\* The draft and lifecycle garbage-collection cycles.
GcStep == CancelOldDrafts \/ CancelStuckPendingConfirmation

ClockStep == \E t \in Tips : RateWindowElapses(t) \/ Ages(t)

Next ==
    \/ (\E t \in Tips : ApiStep(t)) /\ UNCHANGED <<chainVars, workerVars>>
    \/ GcStep /\ UNCHANGED <<chainVars, workerVars>>
    \/ ClockStep /\ UNCHANGED <<chainVars, workerVars>>
    \/ (\E w \in Replicas : FundStep(w)) /\ UNCHANGED <<chainVars, sweepVars>>
    \/ (\E w \in Replicas : SweepStep(w)) /\ UNCHANGED <<chainVars, fund>>
    \/ (\E c \in Cycles : LockStep(c)) /\ UNCHANGED <<chainVars, fund>>
    \/ ChainNext /\ UNCHANGED <<tips, workerVars>>

Spec == Init /\ [][Next]_vars

-------------------------------------------------------------------------------
(* Safety.                                                                 *)

\* Every variable stays in its type: rows, in-flight jobs, locks and chain.
TypeOK == ChainTypeOK /\ TipsTypeOK /\ FundTypeOK /\ SweepTypeOK

\* Money in: a tip is offered, claimed or settled only on funding the verifier
\* saw to cover the declared amount, and is a mismatch only on a smaller
\* receipt, whatever a stale verdict of another replica, a clawback or the
\* garbage collector does in between (social_tips.rs: mark_tip_funding_*).
ClaimGate ==
    \A t \in Tips :
        /\ tips[t].status \in {"pending", "claiming", "claimed"} =>
             tips[t].verified /\ tips[t].observed >= Amount[t]
        /\ tips[t].status = "funding_mismatch" =>
             tips[t].verified /\ tips[t].observed < Amount[t]
        /\ tips[t].status \in {"absent", "draft", "pending_confirmation"} => ~tips[t].verified

\* Money out: the settlement columns move together.  A row is claimed exactly
\* while sweep_confirmed_at, the sweep txid and its block are set, so clawback,
\* claim and confirm-sweep, which test sweep_confirmed_at, and the two polls,
\* which also test the status, never disagree on what is settled.
SettledIffClaimed ==
    \A t \in Tips :
        /\ tips[t].settled <=> tips[t].status = "claimed"
        /\ tips[t].settled <=> tips[t].sweepHeight # 0
        /\ tips[t].settled => tips[t].sweepTx # NoTx

\* The block a tip was settled on is buried at least as deep as its asset
\* requires, although the height and the spend were read at different times
\* (process_awaiting_tip's depth gate).
SettledDeep ==
    \A t \in Tips :
        tips[t].settled => height - tips[t].sweepHeight + 1 >= SweepDepth[t]

\* While no reorganisation happened, a settled tip names the sweep a fresh probe
\* of its address would pick: racing sweeps, replaced sweeps and the order in
\* which replicas read the chain do not change the winner (pick_winner).
SettledOnWinner ==
    \A t \in Tips :
        reorgs = 0 /\ tips[t].settled =>
            /\ Spends(t) # {}
            /\ tips[t].sweepTx = PickWinner(t, Spends(t))
            /\ tips[t].sweepHeight = mined[t][tips[t].sweepTx]

\* The reorg cycle reverts what it probed: when it is about to revert a row, the
\* row is still settled on the txid whose absence it saw.
RevertsWhatItProbed ==
    \A w \in Replicas :
        recheck[w].pc = "revert" =>
            /\ tips[recheck[w].tip].settled
            /\ tips[recheck[w].tip].sweepTx = recheck[w].rec

\* A tip that was offered keeps the confirmations it was offered on, so it stays
\* claimable until it is settled or clawed back.
OfferStaysClaimable ==
    \A t \in Tips :
        tips[t].status \in {"pending", "claiming"} => tips[t].confs >= ConfsRequired[t]

-------------------------------------------------------------------------------
(* What a step may never do.                                               *)

\* First recorder wins: a recorded sweep txid is replaced only by the
\* settlement that found the winner on chain.
FirstRecorderWins ==
    [][\A t \in Tips : tips[t].sweepTx # NoTx /\ tips'[t].sweepTx # tips[t].sweepTx
         => tips[t].status = "claiming" /\ tips'[t].status = "claimed"]_vars

\* The verifier concludes that a tip is covered only while the address holds the
\* amount: one funded and swept before the verdict is never offered
\* (FundingVerification::Drained).
VerdictOnHeldFunds ==
    [][\A w \in Replicas :
         fund[w].verdict = "none" /\ fund'[w].verdict = "verified" =>
             Worth[Unspent(fund[w].tip)] >= Amount[fund[w].tip]]_vars

\* The rows implement the abstract lifecycle.
Lifecycle == INSTANCE TipLifecycle WITH
    phase <- [t \in Tips |-> tips[t].status],
    covered <- [t \in Tips |-> tips[t].verified /\ tips[t].observed >= Amount[t]]

\* Every behaviour of the subsystem is one TipLifecycle allows: nothing leaves
\* clawed_back, only the verifier opens pending, only a covered tip is opened
\* for claiming, claimed is entered from and left to claiming alone.
LifecycleRefined == Lifecycle!Spec

-------------------------------------------------------------------------------
(* Liveness.  The spawn loops of main.rs tick for ever and survive a panic, *)
(* so every step of a worker is taken eventually; 30 seconds always pass;   *)
(* the connection pool closes idle connections.  Outages, failed statements *)
(* and panics eventually cease: nothing settles during one that lasts.      *)

FundOk(A) == A /\ UNCHANGED <<chainVars, sweepVars>>
SweepOk(A) == A /\ UNCHANGED <<chainVars, fund>>

CountWork(w) == CountHeight(w) \/ CountRead(w) \/ CountWrite(w)
VerifyWork(w) ==
    \/ \E sent \in 0..MaxAmount : VerifyReadAddress(w, sent)
    \/ VerifyReadVoucher(w)
    \/ VerifyWrite(w)
SettleWork(w) ==
    \/ SettleReadHeight(w) \/ SettleReadSpends(w) \/ SettleReadOutputs(w) \/ SettleReadKernel(w)
    \/ SettleWaits(w) \/ SettleWrites(w) \/ SettleStamps(w)
RecheckWork(w) ==
    \/ RecheckReadSpends(w) \/ RecheckReadOutputs(w) \/ RecheckReadKernel(w)
    \/ (recheck[w].pc = "keep" /\ RecheckKeeps(w))
    \/ RecheckReverts(w) \/ RecheckStamps(w)

\* A step only an outage, a failed statement, a panic or a restart explains.
FaultStep ==
    /\ \/ \E w \in Replicas : FundOk(FundAbort(w) \/ VerifyError(w))
       \/ \E w \in Replicas : SweepOk(\/ SettleProbeFails(w) \/ SettleAborts(w) \/ SettlePanics(w)
                                      \/ RecheckKeeps(w) \/ RecheckAborts(w) \/ RecheckPanics(w))
       \/ \E c \in Cycles : SweepOk(LockConnectionBreaks(c))
    /\ ~\E w \in Replicas : \/ FundOk(CountWork(w) \/ VerifyWork(w))
                           \/ SweepOk(SettleWork(w) \/ RecheckWork(w))

WorkersRun ==
    /\ \A w \in Replicas :
         /\ WF_vars(FundOk(\E t \in Tips : CountSelect(w, t) \/ VerifySelect(w, t)))
         /\ WF_vars(FundOk(CountWork(w)))
         /\ WF_vars(FundOk(VerifyWork(w)))
         /\ WF_vars(SweepOk(\E t \in Tips : SettleSelect(w, t)))
         /\ WF_vars(SweepOk(SettleWork(w)))
         /\ WF_vars(SweepOk(\E t \in Tips : RecheckSelect(w, t)))
         /\ WF_vars(SweepOk(RecheckWork(w)))
    /\ \A c \in Cycles : WF_vars(SweepOk(LeakedConnectionCloses(c)))
    /\ \A t \in Tips : WF_vars(RateWindowElapses(t) /\ UNCHANGED <<chainVars, workerVars>>)

FairSpec == Spec /\ WorkersRun /\ <>[][~FaultStep]_vars

\* Claimers report the sweep that was mined, as the client does after it
\* broadcast it.
ClaimersReport ==
    \A t \in Tips :
        WF_vars((\E u \in Users, x \in Spends(t) : ConfirmSweep(t, u, x))
                /\ UNCHANGED <<chainVars, workerVars>>)

ReportingSpec == FairSpec /\ ClaimersReport

\* The attached funding is confirmed deep enough, covers the amount, and nothing
\* was spent from the address.
FullyFunded(t) ==
    /\ IF Asset[t] = "grin" THEN Confirmations(mined[t][Voucher[t]], height) >= ConfsRequired[t]
       ELSE Confirmations(mined[t][tips[t].fundingTx], height) >= ConfsRequired[t]
    /\ Worth[Funded(t)] >= Amount[t]
    /\ Spent(t) = {}

\* A funded tip does not wait for ever: while its funding stands, it is verified
\* (or given up by its sender or the garbage collector).
FundedTipOffered ==
    \A t \in Tips :
        LET waiting == tips[t].status = "pending_confirmation" /\ FullyFunded(t)
        IN  waiting ~> ~waiting

\* Some confirmed sweep of the tip is as deep as its asset requires.
DeeplySwept(t) == \E x \in Spends(t) : height - mined[t][x] + 1 >= SweepDepth[t]

\* A claim whose funds were swept settles, unless the sender claws it back or
\* the sweep leaves the chain.
SweptTipSettles ==
    \A t \in Tips :
        LET swept == tips[t].status = "claiming" /\ DeeplySwept(t)
        IN  swept ~> ~swept

\* A settlement whose sweep was orphaned is taken back, unless the sweep returns.
OrphanedSettlementReverts ==
    \A t \in Tips :
        LET orphaned == tips[t].status = "claimed" /\ tips[t].sweepTx \notin Spends(t)
        IN  orphaned ~> ~orphaned
===============================================================================
