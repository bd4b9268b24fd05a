--------------------------- MODULE SweepReconciler ---------------------------
(***************************************************************************)
(* The money-out workers of src/src/tips/sweep_reconciler.rs: the confirm  *)
(* cycle settles claiming tips whose sweep is deep enough, the reorg cycle *)
(* takes a settlement back when its sweep left the chain.  Each cycle runs *)
(* in every replica under its own PostgreSQL advisory lock; the two run    *)
(* concurrently with each other, with the callers and with the chain.      *)
(* Rows of a batch are processed one by one, as in FundingWorker; the lock *)
(* is taken with the SELECT and given back with the row's last statement.  *)
(***************************************************************************)
EXTENDS SocialTips

CONSTANTS
    SweepDepth,    \* SweepDepth[t]: sweep_confirm_threshold of the tip's asset
    Wrap,          \* 2^64, scaled: the modulus of a cast to u64
    LockLoss       \* whether the connection holding a lock may break

Cycles == {"confirm", "reorg"}
Free == "free"     \* nobody holds the lock
Leaked == "leaked" \* an idle pooled connection still holds it

ASSUME SweepAssumption ==
    /\ SweepDepth \in [Tips -> 1..MaxHeight]
    /\ Wrap \in Nat /\ Wrap > 2 * MaxHeight
    /\ LockLoss \in BOOLEAN
    /\ {Free, Leaked} \intersect Replicas = {}

VARIABLES
    settle,        \* settle[w]: what the confirm cycle of replica w is doing
    recheck,       \* recheck[w]: what the reorg cycle of replica w is doing
    lock           \* lock[c]: holder of the advisory lock of cycle c

sweepVars == <<settle, recheck, lock>>

SettleJob == [pc : {"idle", "height", "spends", "kernel", "decide", "stamp"},
              tip : Tips \union {NoTip}, rec : SweepTxs \union {NoTx}, h : 0..MaxHeight,
              winTx : SweepTxs \union {NoTx}, winH : 0..MaxHeight]
SettleIdle == [pc |-> "idle", tip |-> NoTip, rec |-> NoTx, h |-> 0, winTx |-> NoTx, winH |-> 0]

RecheckJob == [pc : {"idle", "spends", "kernel", "keep", "revert", "stamp"},
               tip : Tips \union {NoTip}, rec : SweepTxs \union {NoTx}]
RecheckIdle == [pc |-> "idle", tip |-> NoTip, rec |-> NoTx]

SweepTypeOK ==
    /\ settle \in [Replicas -> SettleJob]
    /\ recheck \in [Replicas -> RecheckJob]
    /\ lock \in [Cycles -> Replicas \union {Free, Leaked}]
    /\ \A w \in Replicas :
         /\ settle[w].pc # "idle" => settle[w].tip \in Tips
         /\ settle[w].pc = "kernel" => settle[w].rec # NoTx
         /\ recheck[w].pc # "idle" => recheck[w].tip \in Tips
         /\ recheck[w].pc = "kernel" => recheck[w].rec # NoTx

SweepInit ==
    /\ settle = [w \in Replicas |-> SettleIdle]
    /\ recheck = [w \in Replicas |-> RecheckIdle]
    /\ lock = [c \in Cycles |-> Free]

-------------------------------------------------------------------------------
(* Probing the chain.                                                      *)

\* A slip: the latest confirmed spend wins.
PickLatest(t, S) ==
    CHOOSE x \in S : \A y \in S :
        \/ mined[t][x] > mined[t][y]
        \/ mined[t][x] = mined[t][y] /\ x <= y

\* pick_winner: the earliest block, then the smallest txid.
PickWinner(t, S) ==
    CHOOSE x \in S : \A y \in S :
        \/ mined[t][x] < mined[t][y]
        \/ mined[t][x] = mined[t][y] /\ x <= y

\* The winner among the confirmed spends, and the block of a txid.
Winner(t) == IF Spends(t) = {} THEN NoTx ELSE PickWinner(t, Spends(t))
BlockOf(t, x) == IF x = NoTx THEN 0 ELSE mined[t][x]

\* probe_grin_spends, its first half: only a voucher output that is gone, with a
\* recorded sweep to date the spend by, makes the probe ask for the kernel.
AsksKernel(t, rec) == Voucher[t] \notin Unspent(t) /\ rec # NoTx

\* `as u64` of a signed difference: a negative one comes out huge.
AsU64(n) == IF n < 0 THEN n + Wrap ELSE n

\* Slips: a block too early, a block too late.
DeepEnoughEarly(job) == AsU64(job.h - job.winH + 2) >= SweepDepth[job.tip]
DeepEnoughLate(job) == AsU64(job.h - job.winH) > SweepDepth[job.tip]

\* The depth gate of process_awaiting_tip.
DeepEnough(job) == AsU64(job.h - job.winH + 1) >= SweepDepth[job.tip]

-------------------------------------------------------------------------------
(* The advisory lock.                                                      *)

\* pg_try_advisory_lock on a pinned connection; a cycle that fails skips.
Acquire(c, w) ==
    /\ lock[c] = Free
    /\ lock' = [lock EXCEPT ![c] = w]

\* pg_advisory_unlock: on a broken connection there is nothing to give back.
Release(c, w) == lock' = [lock EXCEPT ![c] = IF @ = w THEN Free ELSE @]

\* The server side drops the pinned connection: PostgreSQL frees its locks, and
\* the cycle does not notice.
LockConnectionBreaks(c) ==
    /\ LockLoss
    /\ lock[c] \in Replicas
    /\ lock' = [lock EXCEPT ![c] = Free]
    /\ UNCHANGED <<tips, settle, recheck>>

\* A panic unwinds past release_advisory_lock: the connection returns to the
\* pool with the lock still held, until the pool closes it.
SettlePanics(w) ==
    /\ settle[w].pc # "idle"
    /\ settle' = [settle EXCEPT ![w] = SettleIdle]
    /\ lock' = [lock EXCEPT !["confirm"] = IF @ = w THEN Leaked ELSE @]
    /\ UNCHANGED <<tips, recheck>>

RecheckPanics(w) ==
    /\ recheck[w].pc # "idle"
    /\ recheck' = [recheck EXCEPT ![w] = RecheckIdle]
    /\ lock' = [lock EXCEPT !["reorg"] = IF @ = w THEN Leaked ELSE @]
    /\ UNCHANGED <<tips, settle>>

LeakedConnectionCloses(c) ==
    /\ lock[c] = Leaked
    /\ lock' = [lock EXCEPT ![c] = Free]
    /\ UNCHANGED <<tips, settle, recheck>>

-------------------------------------------------------------------------------
(* The confirm cycle: run_confirm_cycle and process_awaiting_tip.          *)

\* grin reads the height first, btc/ltc the history, xmr/wow both at once.
SettleSelect(w, t) ==
    /\ settle[w].pc = "idle"
    /\ NeedsSettle(t)
    /\ Acquire("confirm", w)
    /\ settle' = [settle EXCEPT ![w] =
                    [SettleIdle EXCEPT !.pc = IF Asset[t] = "grin" THEN "height" ELSE "spends",
                                       !.tip = t, !.rec = tips[t].sweepTx]]
    /\ UNCHANGED <<tips, recheck>>

SettleReadHeight(w) ==
    /\ settle[w].pc = "height"
    /\ settle' = [settle EXCEPT ![w] = [@ EXCEPT
                    !.pc = IF Asset[settle[w].tip] = "grin" THEN "spends" ELSE "decide",
                    !.h = height]]
    /\ UNCHANGED <<tips, recheck, lock>>

\* probe_electrum_spends and probe_lws_spends: the address's confirmed spends.
SettleReadSpends(w) ==
    LET t == settle[w].tip
    IN  /\ settle[w].pc = "spends"
        /\ Asset[t] # "grin"
        /\ settle' = [settle EXCEPT ![w] = [@ EXCEPT
                        !.pc = IF Asset[t] = "btc" THEN "height" ELSE "decide",
                        !.h = IF Asset[t] = "xmr" THEN height ELSE 0,
                        !.winTx = Winner(t),
                        !.winH = BlockOf(t, Winner(t))]]
        /\ UNCHANGED <<tips, recheck, lock>>

\* probe_grin_spends: get_outputs, then get_kernel of the recorded sweep.
SettleReadOutputs(w) ==
    LET t == settle[w].tip
    IN  /\ settle[w].pc = "spends"
        /\ Asset[t] = "grin"
        /\ settle' = [settle EXCEPT ![w] = [@ EXCEPT
                        !.pc = IF AsksKernel(t, settle[w].rec) THEN "kernel" ELSE "decide"]]
        /\ UNCHANGED <<tips, recheck, lock>>

SettleReadKernel(w) ==
    LET t == settle[w].tip
        rec == settle[w].rec
    IN  /\ settle[w].pc = "kernel"
        /\ settle' = [settle EXCEPT ![w] = [@ EXCEPT
                        !.pc = "decide",
                        !.winTx = IF mined[t][rec] > 0 THEN rec ELSE NoTx,
                        !.winH = mined[t][rec]]]
        /\ UNCHANGED <<tips, recheck, lock>>

\* A failed probe only stamps the row.
SettleProbeFails(w) ==
    /\ settle[w].pc \in {"height", "spends", "kernel"}
    /\ Touch(settle[w].tip)
    /\ settle' = [settle EXCEPT ![w] = SettleIdle]
    /\ Release("confirm", w)
    /\ UNCHANGED recheck

\* No confirmed spend, or not deep enough yet.
SettleWaits(w) ==
    /\ settle[w].pc = "decide"
    /\ settle[w].winTx = NoTx \/ ~DeepEnough(settle[w])
    /\ Touch(settle[w].tip)
    /\ settle' = [settle EXCEPT ![w] = SettleIdle]
    /\ Release("confirm", w)
    /\ UNCHANGED recheck

\* The settling UPDATE.  The claimer is kept when the winner is the txid that
\* was recorded when the row was SELECTed.  A row already settled, or clawed
\* back meanwhile, matches nothing and ends the job; a settled row that is not
\* stamped yet is stamped next.
SettleWrites(w) ==
    LET t == settle[w].tip
        x == settle[w].winTx
    IN  /\ settle[w].pc = "decide"
        /\ x # NoTx
        /\ DeepEnough(settle[w])
        /\ IF settle[w].rec = x THEN ConfirmSweepOnchain(t, x, settle[w].winH)
                                ELSE ClearClaimedByOnSettle(t, x, settle[w].winH)
        /\ IF Settleable(t) /\ ~tips[t].dmSent
           THEN /\ settle' = [settle EXCEPT ![w] = [SettleIdle EXCEPT !.pc = "stamp", !.tip = t]]
                /\ UNCHANGED lock
           ELSE /\ settle' = [settle EXCEPT ![w] = SettleIdle]
                /\ Release("confirm", w)
        /\ UNCHANGED recheck

\* send_sweep_confirmed_dm_if_needed.
SettleStamps(w) ==
    /\ settle[w].pc = "stamp"
    /\ StampDmSent(settle[w].tip)
    /\ settle' = [settle EXCEPT ![w] = SettleIdle]
    /\ Release("confirm", w)
    /\ UNCHANGED recheck

\* A failed statement, or a restart of the process (which frees its locks).
SettleAborts(w) ==
    /\ settle[w].pc # "idle"
    /\ settle' = [settle EXCEPT ![w] = SettleIdle]
    /\ Release("confirm", w)
    /\ UNCHANGED <<tips, recheck>>

-------------------------------------------------------------------------------
(* The reorg cycle: run_reorg_cycle and process_settled_tip.               *)

\* A slip: the reorg cycle does not take its lock.
RecheckSelectUnlocked(w, t) ==
    /\ recheck[w].pc = "idle"
    /\ NeedsReorgCheck(t)
    /\ recheck' = [recheck EXCEPT ![w] = [pc |-> "spends", tip |-> t, rec |-> tips[t].sweepTx]]
    /\ UNCHANGED <<tips, settle, lock>>

RecheckSelect(w, t) ==
    /\ recheck[w].pc = "idle"
    /\ NeedsReorgCheck(t)
    /\ Acquire("reorg", w)
    /\ recheck' = [recheck EXCEPT ![w] = [pc |-> "spends", tip |-> t, rec |-> tips[t].sweepTx]]
    /\ UNCHANGED <<tips, settle>>

\* The probe of an address; a row without a recorded txid is not probed.
RecheckReadSpends(w) ==
    LET t == recheck[w].tip
        rec == recheck[w].rec
    IN  /\ recheck[w].pc = "spends"
        /\ Asset[t] # "grin" \/ rec = NoTx
        /\ recheck' = [recheck EXCEPT ![w] = [@ EXCEPT
                         !.pc = IF rec \in Spends(t) \union {NoTx} THEN "keep" ELSE "revert"]]
        /\ UNCHANGED <<tips, settle, lock>>

\* The probe of a grin voucher.
RecheckReadOutputs(w) ==
    LET t == recheck[w].tip
        rec == recheck[w].rec
    IN  /\ recheck[w].pc = "spends"
        /\ Asset[t] = "grin" /\ rec # NoTx
        /\ recheck' = [recheck EXCEPT ![w] = [@ EXCEPT
                         !.pc = IF AsksKernel(t, rec) THEN "kernel" ELSE "revert"]]
        /\ UNCHANGED <<tips, settle, lock>>

RecheckReadKernel(w) ==
    /\ recheck[w].pc = "kernel"
    /\ recheck' = [recheck EXCEPT ![w] = [@ EXCEPT
                     !.pc = IF mined[recheck[w].tip][recheck[w].rec] > 0
                               THEN "keep" ELSE "revert"]]
    /\ UNCHANGED <<tips, settle, lock>>

\* Still confirmed, or the probe failed: only the stamp of the check.
RecheckKeeps(w) ==
    /\ recheck[w].pc \in {"spends", "kernel", "keep"}
    /\ Touch(recheck[w].tip)
    /\ recheck' = [recheck EXCEPT ![w] = RecheckIdle]
    /\ Release("reorg", w)
    /\ UNCHANGED settle

RecheckReverts(w) ==
    LET t == recheck[w].tip
    IN  /\ recheck[w].pc = "revert"
        /\ RevertSweepOnReorg(t)
        /\ IF Revertible(t) /\ ~tips[t].reorgNotified
           THEN /\ recheck' = [recheck EXCEPT ![w] = [RecheckIdle EXCEPT !.pc = "stamp", !.tip = t]]
                /\ UNCHANGED lock
           ELSE /\ recheck' = [recheck EXCEPT ![w] = RecheckIdle]
                /\ Release("reorg", w)
        /\ UNCHANGED settle

\* send_reorg_dm_if_needed.
RecheckStamps(w) ==
    /\ recheck[w].pc = "stamp"
    /\ StampReorgNotified(recheck[w].tip)
    /\ recheck' = [recheck EXCEPT ![w] = RecheckIdle]
    /\ Release("reorg", w)
    /\ UNCHANGED settle

RecheckAborts(w) ==
    /\ recheck[w].pc # "idle"
    /\ recheck' = [recheck EXCEPT ![w] = RecheckIdle]
    /\ Release("reorg", w)
    /\ UNCHANGED <<tips, settle>>

SweepStep(w) ==
    \/ \E t \in Tips : SettleSelect(w, t) \/ RecheckSelect(w, t)
    \/ SettleReadHeight(w)
    \/ SettleReadSpends(w)
    \/ SettleReadOutputs(w)
    \/ SettleReadKernel(w)
    \/ SettleProbeFails(w)
    \/ SettleWaits(w)
    \/ SettleWrites(w)
    \/ SettleStamps(w)
    \/ SettleAborts(w)
    \/ SettlePanics(w)
    \/ RecheckReadSpends(w)
    \/ RecheckReadOutputs(w)
    \/ RecheckReadKernel(w)
    \/ RecheckKeeps(w)
    \/ RecheckReverts(w)
    \/ RecheckStamps(w)
    \/ RecheckAborts(w)
    \/ RecheckPanics(w)

LockStep(c) == LockConnectionBreaks(c) \/ LeakedConnectionCloses(c)
===============================================================================
