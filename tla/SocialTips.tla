------------------------------ MODULE SocialTips ------------------------------
(***************************************************************************)
(* The social_tips table and everything that writes it: one operator per   *)
(* SQL statement of src/src/infra/db/social_tips.rs, one action per HTTP   *)
(* handler of src/src/api/tips.rs and per garbage-collection pass of       *)
(* src/src/tips/gc.rs.  Every statement is one guarded UPDATE of one row,  *)
(* atomic in PostgreSQL; the workers that issue the other statements after *)
(* reading a chain are in FundingWorker and SweepReconciler.               *)
(*                                                                         *)
(* Columns the program never updates (sender, asset, amount, recipient and *)
(* the confirmation threshold) are constants of the tip.  NULL is NoTx,    *)
(* NoUser, 0 or FALSE.  Timestamps are the facts the program reads off     *)
(* them: settled is sweep_confirmed_at IS NOT NULL, dmSent and             *)
(* reorgNotified the two notification stamps, checked is a                 *)
(* last_confirmation_check less than 30 seconds old, aged a created_at     *)
(* more than 7 days old.                                                   *)
(***************************************************************************)
EXTENDS TipChain

CONSTANTS
    Users,         \* authenticated callers
    NoUser,        \* NULL in a user column
    Sender,        \* Sender[t]: sender_user_id
    Recipient,     \* Recipient[t]: recipient_user_id, NoUser for a public tip
    Asset,         \* Asset[t]: "btc" (and ltc), "xmr" (and wow) or "grin"
    Amount,        \* Amount[t]: the declared amount
    ConfsRequired, \* ConfsRequired[t]: confirmations_required
    Voucher,       \* Voucher[t]: the output grin_commitment names
    Replicas,      \* server processes sharing the database
    NoTip          \* a worker between two rows

ASSUME TipAssumption ==
    /\ NoUser \notin Users
    /\ NoTip \notin Tips
    /\ Sender \in [Tips -> Users]
    /\ Recipient \in [Tips -> Users \union {NoUser}]
    /\ Asset \in [Tips -> {"btc", "xmr", "grin"}]
    /\ Amount \in [Tips -> 1..MaxAmount]
    /\ ConfsRequired \in [Tips -> 0..MaxHeight]
    /\ Voucher \in [Tips -> FundTxs]
    /\ \A t \in Tips : ConfsRequired[t] = 0 <=> Asset[t] = "btc"

VARIABLE tips      \* tips[t]: the row of tip t, status "absent" before INSERT

\* TipStatus::as_str, and the absence of the row.
Statuses == {"absent", "draft", "pending_confirmation", "pending", "claiming",
             "claimed", "clawed_back", "cancelled", "funding_mismatch"}

\* SocialTipRow, its mutable columns.
Row == [status : Statuses, fundingTx : FundTxs \union {NoTx}, confs : 0..MaxHeight,
        verified : BOOLEAN, observed : 0..MaxAmount, claimedBy : Users \union {NoUser},
        sweepTx : SweepTxs \union {NoTx}, settled : BOOLEAN, sweepHeight : 0..MaxHeight,
        dmSent : BOOLEAN, reorgNotified : BOOLEAN, checked : BOOLEAN, aged : BOOLEAN]

NoRow == [status |-> "absent", fundingTx |-> NoTx, confs |-> 0, verified |-> FALSE,
          observed |-> 0, claimedBy |-> NoUser, sweepTx |-> NoTx, settled |-> FALSE,
          sweepHeight |-> 0, dmSent |-> FALSE, reorgNotified |-> FALSE,
          checked |-> FALSE, aged |-> FALSE]

TipsTypeOK == tips \in [Tips -> Row]
TipsInit == tips = [t \in Tips |-> NoRow]

Exists(t) == tips[t].status # "absent"
IsPublic(t) == Recipient[t] = NoUser

\* UPDATE social_tips SET ... WHERE id = t.
Update(t, row) == tips' = [tips EXCEPT ![t] = row]

\* The same with more conditions in its WHERE: a row that fails one is left alone.
UpdateWhere(cond, t, row) == IF cond THEN Update(t, row) ELSE UNCHANGED tips

-------------------------------------------------------------------------------
(* HTTP handlers.  A call whose guard fails answers 400 or 404 and changes *)
(* nothing.                                                                *)

\* create_social_tip without a funding txid: INSERT a draft.
CreateDraft(t) ==
    /\ tips[t].status = "absent"
    /\ Update(t, [tips[t] EXCEPT !.status = "draft"])

\* create_social_tip with a funding txid: the tip starts at pending_confirmation,
\* the verifier and not the caller makes it claimable.
CreateFunded(t, f) ==
    /\ tips[t].status = "absent"
    /\ Update(t, [tips[t] EXCEPT !.status = "pending_confirmation", !.fundingTx = f])

\* cancel_draft_social_tip.
CancelDraft(t, u) ==
    /\ u = Sender[t]
    /\ tips[t].status = "draft"
    /\ Update(t, [tips[t] EXCEPT !.status = "cancelled"])

\* attach_funding_to_tip: attach and advance a draft; the same txid again is
\* accepted and changes nothing.
AttachFunding(t, u, f) ==
    LET fresh == tips[t].status = "draft" /\ tips[t].fundingTx = NoTx
    IN  /\ u = Sender[t]
        /\ fresh \/ tips[t].fundingTx = f
        /\ UpdateWhere(fresh, t, [tips[t] EXCEPT !.status = "pending_confirmation",
                                                 !.fundingTx = f])

\* The WHERE clause of mark_tip_claiming.
Claimable(t, u) ==
    /\ tips[t].status \in {"pending", "claiming"}
    /\ tips[t].confs >= ConfsRequired[t]
    /\ tips[t].verified
    /\ ~tips[t].settled
    /\ IsPublic(t) \/ Recipient[t] = u

\* claim_social_tip / mark_tip_claiming: every caller it admits is handed the
\* encrypted key, and the last one is the recorded claimer.
Claim(t, u) ==
    /\ Claimable(t, u)
    /\ Update(t, [tips[t] EXCEPT !.status = "claiming", !.claimedBy = u])

\* A slip: the statement without its "first recorder" condition.
RecordableByAnybody(t, x) == tips[t].status = "claiming" /\ ~tips[t].settled /\ IsPublic(t)

\* The WHERE clause of confirm_tip_sweep.
Recordable(t, x) ==
    /\ tips[t].status = "claiming"
    /\ ~tips[t].settled
    /\ IsPublic(t)
    /\ tips[t].sweepTx \in {NoTx, x}

\* confirm_sweep / confirm_tip_sweep: record the first reported sweep txid.
\* When the UPDATE matches nothing, a claiming or claimed row is read back and
\* the call still answers 200; the row is unchanged.
ConfirmSweep(t, u, x) ==
    /\ tips[t].status \in {"claiming", "claimed"}
    /\ UpdateWhere(Recordable(t, x), t,
                   [tips[t] EXCEPT !.sweepTx = x,
                                   !.claimedBy = IF @ = NoUser THEN u ELSE @])

\* clawback_social_tip.
Clawback(t, u) ==
    /\ u = Sender[t]
    /\ tips[t].status \in {"pending", "pending_confirmation", "claiming",
                           "funding_mismatch", "cancelled"}
    /\ ~tips[t].settled
    /\ Update(t, [tips[t] EXCEPT !.status = "clawed_back"])

-------------------------------------------------------------------------------
(* Statements issued by the funding worker.                                *)

\* A slip: the counting poll goes on after the threshold is met.
NeedsCountForEver(t) ==
    /\ tips[t].status \in {"pending", "pending_confirmation"}
    /\ ConfsRequired[t] > 0
    /\ tips[t].fundingTx # NoTx
    /\ ~tips[t].checked

\* WHERE of get_tips_pending_confirmation.
NeedsCount(t) ==
    /\ tips[t].status \in {"pending", "pending_confirmation"}
    /\ ConfsRequired[t] > 0
    /\ tips[t].confs < ConfsRequired[t]
    /\ tips[t].fundingTx # NoTx
    /\ ~tips[t].checked

\* A slip: > for >= in the verification poll.
NeedsVerifyAbove(t) ==
    /\ tips[t].status = "pending_confirmation"
    /\ ~tips[t].verified
    /\ tips[t].confs > ConfsRequired[t]
    /\ ~tips[t].checked

\* WHERE of get_tips_awaiting_amount_verification.
NeedsVerify(t) ==
    /\ tips[t].status = "pending_confirmation"
    /\ ~tips[t].verified
    /\ tips[t].confs >= ConfsRequired[t]
    /\ ~tips[t].checked

\* update_tip_confirmations: WHERE id = $1 only.
UpdateConfirmations(t, n) ==
    UpdateWhere(Exists(t), t, [tips[t] EXCEPT !.confs = n, !.checked = TRUE])

\* touch_tip_last_check.
Touch(t) == UpdateWhere(Exists(t), t, [tips[t] EXCEPT !.checked = TRUE])

\* A slip: the verdict's UPDATE does not look at the status again.
AwaitsVerdictAnywhere(t) == Exists(t) /\ ~tips[t].verified

\* mark_tip_funding_verified and mark_tip_funding_mismatch share their guard.
AwaitsVerdict(t) == tips[t].status = "pending_confirmation" /\ ~tips[t].verified

MarkVerified(t, n) ==
    UpdateWhere(AwaitsVerdict(t), t,
                [tips[t] EXCEPT !.status = "pending", !.verified = TRUE, !.observed = n])

MarkMismatch(t, n) ==
    UpdateWhere(AwaitsVerdict(t), t,
                [tips[t] EXCEPT !.status = "funding_mismatch", !.verified = TRUE, !.observed = n])

-------------------------------------------------------------------------------
(* Statements issued by the sweep reconciler.                              *)

\* WHERE of get_tips_awaiting_sweep_confirmation.
NeedsSettle(t) ==
    /\ tips[t].status = "claiming"
    /\ ~tips[t].settled
    /\ tips[t].verified
    /\ ~tips[t].checked

\* WHERE of get_settled_tips_for_reorg_check.
NeedsReorgCheck(t) ==
    /\ tips[t].status = "claimed"
    /\ tips[t].settled
    /\ tips[t].sweepHeight # 0
    /\ ~tips[t].checked

\* WHERE shared by confirm_sweep_onchain and clear_claimed_by_on_settle.
Settleable(t) == tips[t].status = "claiming" /\ ~tips[t].settled

\* confirm_sweep_onchain, called with claimed_by = None: keeps the claimer.
ConfirmSweepOnchain(t, x, h) ==
    UpdateWhere(Settleable(t), t,
                [tips[t] EXCEPT !.status = "claimed", !.settled = TRUE,
                                !.sweepTx = x, !.sweepHeight = h])

\* A slip: sweep_txid = COALESCE(sweep_txid, $2).
ClearClaimedByKeepingTxid(t, x, h) ==
    UpdateWhere(Settleable(t), t,
                [tips[t] EXCEPT !.status = "claimed", !.settled = TRUE, !.sweepHeight = h,
                                !.sweepTx = IF @ = NoTx THEN x ELSE @, !.claimedBy = NoUser])

\* clear_claimed_by_on_settle: the same, and forgets the claimer.
ClearClaimedByOnSettle(t, x, h) ==
    UpdateWhere(Settleable(t), t,
                [tips[t] EXCEPT !.status = "claimed", !.settled = TRUE,
                                !.sweepTx = x, !.sweepHeight = h, !.claimedBy = NoUser])

\* A slip: the status the revert leads to, for the one it starts from.
RevertibleClaiming(t) == tips[t].status = "claiming" /\ tips[t].settled

\* The WHERE clause of revert_sweep_on_reorg.
Revertible(t) == tips[t].status = "claimed" /\ tips[t].settled

\* A slip: the block of the orphaned sweep stays.
RevertKeepingHeight(t) ==
    UpdateWhere(Revertible(t), t,
                [tips[t] EXCEPT !.status = "claiming", !.settled = FALSE, !.dmSent = FALSE])

\* revert_sweep_on_reorg: sweep_txid is kept on purpose.
RevertSweepOnReorg(t) ==
    UpdateWhere(Revertible(t), t,
                [tips[t] EXCEPT !.status = "claiming", !.settled = FALSE,
                                !.sweepHeight = 0, !.dmSent = FALSE])

\* stamp_sweep_confirmed_dm_sent and stamp_reorg_notified.
StampDmSent(t) == UpdateWhere(Exists(t), t, [tips[t] EXCEPT !.dmSent = TRUE])
StampReorgNotified(t) == UpdateWhere(Exists(t), t, [tips[t] EXCEPT !.reorgNotified = TRUE])

-------------------------------------------------------------------------------
(* Garbage collection and the passing of time.                             *)

\* cancel_old_drafts: one UPDATE over every aged draft.
CancelOldDrafts ==
    LET old == {t \in Tips : tips[t].status = "draft" /\ tips[t].aged}
    IN  /\ old # {}
        /\ tips' = [t \in Tips |-> IF t \in old THEN [tips[t] EXCEPT !.status = "cancelled"]
                                                ELSE tips[t]]

\* cancel_stuck_pending_confirmation (log_stuck_claiming only reads).
CancelStuckPendingConfirmation ==
    LET old == {t \in Tips : tips[t].status = "pending_confirmation" /\ tips[t].aged}
    IN  /\ old # {}
        /\ tips' = [t \in Tips |-> IF t \in old THEN [tips[t] EXCEPT !.status = "cancelled"]
                                                ELSE tips[t]]

\* 30 seconds pass since the row's last check.
RateWindowElapses(t) ==
    /\ tips[t].checked
    /\ Update(t, [tips[t] EXCEPT !.checked = FALSE])

\* 7 days pass since the row's creation.
Ages(t) ==
    /\ Exists(t)
    /\ ~tips[t].aged
    /\ Update(t, [tips[t] EXCEPT !.aged = TRUE])
===============================================================================
