---------------------------- MODULE FundingWorker ----------------------------
(***************************************************************************)
(* The money-in worker of src/src/tips/confirmation.rs.  Each replica of   *)
(* the server runs one; a cycle counts confirmations, then verifies        *)
(* amounts, one row after the other.  A row is SELECTed, then the chain is *)
(* read, then the row is UPDATEd: three steps other replicas, callers and  *)
(* the garbage collector interleave with, under no lock.                   *)
(*                                                                         *)
(* A batch is modelled row by row: the rows of a batch share no state, and *)
(* the age of a late row's snapshot is the delay between its steps.        *)
(***************************************************************************)
EXTENDS SocialTips

VARIABLE fund      \* fund[w]: what the money-in worker of w is doing

FundJob == [pc : {"idle", "countHeight", "countRead", "countWrite", "verifyRead", "verdict"},
            tip : Tips \union {NoTip}, h : 0..MaxHeight, n : 0..MaxHeight,
            verdict : {"none", "verified", "short", "touch"}, observed : 0..MaxAmount]

FundIdle == [pc |-> "idle", tip |-> NoTip, h |-> 0, n |-> 0, verdict |-> "none", observed |-> 0]

FundTypeOK ==
    /\ fund \in [Replicas -> FundJob]
    /\ \A w \in Replicas :
         /\ fund[w].pc # "idle" => fund[w].tip \in Tips
         /\ fund[w].pc \in {"countHeight", "countRead"} => tips[fund[w].tip].fundingTx # NoTx

FundInit == fund = [w \in Replicas |-> FundIdle]

-------------------------------------------------------------------------------
(* Reading the chain.                                                      *)

\* confirmations_from and GrinOutputInfo::confirmations: a block above the
\* height read before it counts for nothing.
Confirmations(m, h) == IF m > 0 /\ m <= h THEN h - m + 1 ELSE 0

\* get_outputs lists the voucher's commitment while it is unspent.
VoucherPresent(t) == Voucher[t] \in Unspent(t)

\* What the counting pass reads for t: the funding transaction's block, or for
\* grin the block of the voucher output while it is unspent.
CountedBlock(t) ==
    IF Asset[t] = "grin"
    THEN IF VoucherPresent(t) THEN mined[t][Voucher[t]] ELSE 0
    ELSE mined[t][tips[t].fundingTx]

Saturate(n) == IF n < 0 THEN 0 ELSE n

\* A slip: what was received, and not what is left, is compared.
ClassifyGross(received, sent, expected) ==
    CASE received = 0        -> "touch"
      [] received >= expected -> "verified"
      [] OTHER                -> "short"

\* classify_funding_amount, and the same decision in verify_funding_amount.
ClassifyFundingAmount(received, sent, expected) ==
    LET net == Saturate(received - sent)
    IN  CASE net < expected /\ sent > 0 -> "touch"          \* Drained
          [] net = 0                    -> "touch"          \* Unfunded
          [] net >= expected            -> "verified"
          [] OTHER                      -> "short"

\* total_sent_from answers None when the Electrum server does not resolve
\* prevouts, and the verifier then adds nothing.
SentSums(t) == IF Asset[t] = "btc" THEN {Worth[Spent(t)], 0} ELSE {Worth[Spent(t)]}

-------------------------------------------------------------------------------
(* check_asset_confirmations and check_grin_confirmations.                 *)

CountSelect(w, t) ==
    /\ fund[w].pc = "idle"
    /\ NeedsCount(t)
    /\ fund' = [fund EXCEPT ![w] = [FundIdle EXCEPT !.pc = "countHeight", !.tip = t]]
    /\ UNCHANGED tips

\* get_blockchain_height (xmr, wow) or get_height (grin), before the lookup.
CountHeight(w) ==
    /\ fund[w].pc = "countHeight"
    /\ fund' = [fund EXCEPT ![w] = [@ EXCEPT !.pc = "countRead", !.h = height]]
    /\ UNCHANGED tips

CountRead(w) ==
    /\ fund[w].pc = "countRead"
    /\ fund' = [fund EXCEPT ![w] = [@ EXCEPT
                  !.pc = "countWrite", !.h = 0,
                  !.n = Confirmations(CountedBlock(fund[w].tip), fund[w].h)]]
    /\ UNCHANGED tips

CountWrite(w) ==
    /\ fund[w].pc = "countWrite"
    /\ UpdateConfirmations(fund[w].tip, fund[w].n)
    /\ fund' = [fund EXCEPT ![w] = FundIdle]

-------------------------------------------------------------------------------
(* process_pending_verifications.                                          *)

VerifySelect(w, t) ==
    /\ fund[w].pc = "idle"
    /\ NeedsVerify(t)
    /\ fund' = [fund EXCEPT ![w] = [FundIdle EXCEPT !.pc = "verifyRead", !.tip = t]]
    /\ UNCHANGED tips

\* verify_funding_amount for an address (btc, ltc, xmr, wow).
VerifyReadAddress(w, sent) ==
    LET t == fund[w].tip
        received == Worth[Funded(t)]
    IN  /\ fund[w].pc = "verifyRead"
        /\ Asset[t] # "grin"
        /\ sent \in SentSums(t)
        /\ fund' = [fund EXCEPT ![w] = [@ EXCEPT
                      !.pc = "verdict",
                      !.verdict = ClassifyFundingAmount(received, sent, Amount[t]),
                      !.observed = Saturate(received - sent)]]
        /\ UNCHANGED tips

\* verify_funding_amount for grin: the declared amount is believed as soon as
\* the voucher output exists (grin_amount_from_presence).
VerifyReadVoucher(w) ==
    LET t == fund[w].tip
        present == VoucherPresent(t)
    IN  /\ fund[w].pc = "verifyRead"
        /\ Asset[t] = "grin"
        /\ fund' = [fund EXCEPT ![w] = [@ EXCEPT
                      !.pc = "verdict",
                      !.verdict = IF present THEN "verified" ELSE "touch",
                      !.observed = IF present THEN Amount[t] ELSE 0]]
        /\ UNCHANGED tips

\* FundingVerification::LwsError: any failed read only stamps the row.
VerifyError(w) ==
    /\ fund[w].pc = "verifyRead"
    /\ fund' = [fund EXCEPT ![w] = [@ EXCEPT !.pc = "verdict", !.verdict = "touch"]]
    /\ UNCHANGED tips

VerifyWrite(w) ==
    LET t == fund[w].tip
    IN  /\ fund[w].pc = "verdict"
        /\ \/ fund[w].verdict = "verified" /\ MarkVerified(t, fund[w].observed)
           \/ fund[w].verdict = "short" /\ MarkMismatch(t, fund[w].observed)
           \/ fund[w].verdict = "touch" /\ Touch(t)
        /\ fund' = [fund EXCEPT ![w] = FundIdle]

\* A failed count read, a failed statement, a panic (caught by the spawn loop)
\* or a restart: the row is left as it is and the next cycle starts over.
FundAbort(w) ==
    /\ fund[w].pc # "idle"
    /\ fund' = [fund EXCEPT ![w] = FundIdle]
    /\ UNCHANGED tips

FundStep(w) ==
    \/ \E t \in Tips : CountSelect(w, t) \/ VerifySelect(w, t)
    \/ CountHeight(w)
    \/ CountRead(w)
    \/ CountWrite(w)
    \/ \E sent \in 0..MaxAmount : VerifyReadAddress(w, sent)
    \/ VerifyReadVoucher(w)
    \/ VerifyError(w)
    \/ VerifyWrite(w)
    \/ FundAbort(w)
===============================================================================
