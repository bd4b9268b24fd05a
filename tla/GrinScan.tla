------------------------------- MODULE GrinScan -------------------------------
(***************************************************************************)
(* The grin scan endpoint: grin-lws when it is synced, else a view-only    *)
(* scan by grin-wallet over its encrypted Owner API.  One GrinClient is    *)
(* shared by every request: a secure session (the key of a handshake and a *)
(* nonce counter) and the token of the opened wallet, each behind a lock   *)
(* that is held across the network call that fills it.                     *)
(*                                                                         *)
(* A restart of grin-wallet forgets the key and the tokens.  The gate on   *)
(* the depth of a restore has passed before Start (RestoreLimit and        *)
(* LightWallet model it); a handshake and a request are each two steps, so *)
(* that the wallet may restart before its answer is read.                  *)
(***************************************************************************)
EXTENDS Integers

CONSTANTS Calls,       \* requests of the scan endpoint
          MaxScans,    \* how many are made
          MaxNonce,    \* the largest u64: the counter stops there
          Margin,      \* SYNC_MARGIN
          MaxTip,      \* chain height
          MaxRestarts, \* of grin-wallet
          MaxFaults,   \* network calls that fail
          Nobody

ConstantsOK ==
    /\ \A n \in {MaxScans, MaxNonce, Margin, MaxTip, MaxRestarts, MaxFaults} : n \in Nat
    /\ Nobody \notin Calls

VARIABLES
    session,   \* secure_session: key (0: none) and nonce counter
    token,     \* session_token, 0: none
    sessionOf, \* who holds the write lock of secure_session
    tokenOf,   \* who holds the write lock of session_token
    wallet,    \* grin-wallet: its key (0: none) and the tokens it accepts
    call,      \* Calls -> request
    used,      \* the nonces requests were encrypted with under the key of the session
    reused,    \* whether one was used twice
    height,    \* of the chain
    scanned,   \* how far grin-lws has scanned the account
    scans, restarts, errors

vars == <<session, token, sessionOf, tokenOf, wallet, call, used, reused, height, scanned, scans,
          restarts, errors>>

\* Keys and tokens are named again once nobody knows them: enough names for the session
\* or the cache, the wallet and every call.  Fresh holds the first one that is free.
Names == 1..(2 * MaxScans + 2)
Fresh(known) == {n \in Names \ known : \A m \in Names \ known : n <= m}

NoCall == [at |-> "idle", try |-> 0, method |-> "none", key |-> 0, with |-> 0, reply |-> "none",
           from |-> 0, covers |-> 0, calm |-> FALSE]

Points == {"idle", "lws", "outs", "token", "ensure", "shake", "shaken", "encrypt", "sent",
           "answered", "drop", "done", "failed"}

TypeOK ==
    /\ session \in [key : Names \cup {0}, nonce : 0..MaxNonce] /\ token \in Names \cup {0}
    /\ sessionOf \in Calls \cup {Nobody} /\ tokenOf \in Calls \cup {Nobody}
    /\ wallet \in [key : Names \cup {0}, tokens : SUBSET Names]
    /\ \A c \in Calls : call[c].at \in Points
    /\ used \subseteq 0..MaxNonce /\ reused \in BOOLEAN
    /\ height \in 0..MaxTip /\ scanned \in 0..height

Init ==
    /\ session = [key |-> 0, nonce |-> 0] /\ token = 0
    /\ sessionOf = Nobody /\ tokenOf = Nobody
    /\ wallet = [key |-> 0, tokens |-> {}]
    /\ call = [c \in Calls |-> NoCall]
    /\ used = {} /\ reused = FALSE
    /\ height = 1 /\ scanned = 0
    /\ scans = 0 /\ restarts = 0 /\ errors = 0

\* An answer, of which the properties ask how far it reaches.
Done(c, h) == [NoCall EXCEPT !.at = "done", !.from = c.from, !.covers = h]

Busy(c) == call[c].at \notin {"idle", "done", "failed"}
At(c, p) == call[c].at = p

Held == <<session, token, sessionOf, tokenOf>>
Counts == <<used, reused>>
World == <<wallet, height, scanned, restarts>>

-------------------------------------------------------------------------------
(* The handler and grin-lws.                                                *)

\* A request past its gates.  calm remembers that it has had the client to itself and
\* met no fault and no restart.
Start(c) ==
    /\ ~Busy(c) /\ scans < MaxScans
    /\ scans' = scans + 1
    /\ LET alone == \A d \in Calls : ~Busy(d)
       IN  call' = [d \in Calls |->
                      IF d = c THEN [NoCall EXCEPT !.at = "lws", !.from = height, !.calm = alone]
                               ELSE [call[d] EXCEPT !.calm = FALSE]]
    /\ UNCHANGED <<Held, Counts, World, errors>>

\* A slip: the balance is served while grin-lws is still backfilling.
SyncedAnyway(s, tip) == s <= tip

\* grin-lws is trusted when its scan is within the margin of the tip.
Synced(s, tip) == s + Margin >= tip

\* register and get_balance; without grin-lws, on an error or unsynced: grin-wallet.
AskLws(c) ==
    /\ At(c, "lws")
    /\ \/ /\ Synced(scanned, height)
          /\ call' = [call EXCEPT ![c].at = "outs", ![c].covers = scanned]
       \/ call' = [call EXCEPT ![c].at = "token", ![c].try = 1]
    /\ UNCHANGED <<Held, Counts, World, scans, errors>>

\* get_unspent_outs; its error too falls back to grin-wallet.
LwsOuts(c) ==
    /\ At(c, "outs")
    /\ \/ call' = [call EXCEPT ![c] = Done(call[c], call[c].covers)]
       \/ call' = [call EXCEPT ![c].at = "token", ![c].try = 1, ![c].covers = 0]
    /\ UNCHANGED <<Held, Counts, World, scans, errors>>

-------------------------------------------------------------------------------
(* scan_rewind_hash and open_wallet.                                        *)

\* open_wallet: the cached token, or the write lock and a request for one.
OpenWallet(c) ==
    /\ At(c, "token") /\ tokenOf = Nobody
    /\ \/ /\ token # 0
          /\ call' = [call EXCEPT ![c].at = "ensure", ![c].method = "scan", ![c].with = token]
          /\ UNCHANGED tokenOf
       \/ /\ token = 0
          /\ call' = [call EXCEPT ![c].at = "ensure", ![c].method = "open"]
          /\ tokenOf' = c
    /\ UNCHANGED <<session, token, sessionOf, Counts, World, scans, errors>>

\* How a failed attempt leaves the call: scan_rewind_hash tries twice.
Failed(c) ==
    IF c.try = 1 THEN [NoCall EXCEPT !.at = "drop", !.from = c.from, !.calm = c.calm]
                 ELSE [NoCall EXCEPT !.at = "failed", !.calm = c.calm]

\* A failing open_wallet drops its guard.
TokenLockAfter(c) == IF tokenOf = c THEN Nobody ELSE tokenOf

\* A slip: the retry opens the wallet with the token that has just failed.
DroppedKept(t) == t

\* What the cache holds after a failed attempt: whatever token it held is dropped.
Dropped(t) == 0

\* The token that may be stale is dropped, and the scan tried again.
DropToken(c) ==
    /\ At(c, "drop") /\ tokenOf = Nobody
    /\ token' = Dropped(token)
    /\ call' = [call EXCEPT ![c].at = "token", ![c].try = 2]
    /\ UNCHANGED <<session, sessionOf, tokenOf, Counts, World, scans, errors>>

-------------------------------------------------------------------------------
(* owner_rpc.                                                               *)

\* ensure_session, its check repeated under the write lock.
EnsureSession(c) ==
    /\ At(c, "ensure") /\ sessionOf = Nobody
    /\ \/ session.key # 0 /\ call' = [call EXCEPT ![c].at = "encrypt"] /\ UNCHANGED sessionOf
       \/ session.key = 0 /\ call' = [call EXCEPT ![c].at = "shake"] /\ sessionOf' = c
    /\ UNCHANGED <<session, token, tokenOf, Counts, World, scans, errors>>

\* init_secure_api reaches the wallet, which takes the key of the new handshake.
Shake(c) ==
    /\ At(c, "shake")
    /\ \E k \in Fresh({session.key, wallet.key} \cup {call[d].key : d \in Calls}) :
          /\ wallet' = [wallet EXCEPT !.key = k]
          /\ call' = [call EXCEPT ![c].at = "shaken", ![c].key = k]
    /\ UNCHANGED <<Held, Counts, height, scanned, scans, restarts, errors>>

\* Its answer: the session is stored and the lock released.
Shaken(c) ==
    /\ At(c, "shaken")
    /\ session' = [key |-> call[c].key, nonce |-> 0]
    /\ sessionOf' = Nobody
    /\ used' = {}
    /\ call' = [call EXCEPT ![c].at = "encrypt", ![c].key = 0]
    /\ UNCHANGED <<token, tokenOf, reused, World, scans, errors>>

\* A slip: the counter wraps instead of stopping.
CountedWrapping(n) == (n + 1) % (MaxNonce + 1)

\* checked_add: -1 when the counter is exhausted.
Counted(n) == IF n = MaxNonce THEN -1 ELSE n + 1

\* encrypt, under the write lock: another call may have cleared the session since.
Encrypt(c) ==
    /\ At(c, "encrypt") /\ sessionOf = Nobody
    /\ \/ /\ session.key # 0 /\ Counted(session.nonce) >= 0
          /\ session' = [session EXCEPT !.nonce = Counted(session.nonce)]
          /\ used' = used \cup {session.nonce}
          /\ reused' = (reused \/ session.nonce \in used)
          /\ call' = [call EXCEPT ![c].at = "sent", ![c].key = session.key]
          /\ UNCHANGED tokenOf
       \/ /\ session.key = 0 \/ Counted(session.nonce) < 0
          /\ call' = [call EXCEPT ![c] = Failed(call[c])]
          /\ tokenOf' = TokenLockAfter(c)
          /\ UNCHANGED <<session, used, reused>>
    /\ UNCHANGED <<token, sessionOf, World, scans, errors>>

\* grin-wallet answers.  Without a key it says -32001; what it says to a request under
\* another key than its own the client cannot know: -32001 or another error.
Serve(c) ==
    /\ At(c, "sent")
    /\ LET r == call[c]
           answered(reply) == [r EXCEPT !.at = "answered", !.reply = reply]
       IN  \/ /\ wallet.key # r.key
              /\ \E reply \in {"expired"} \cup (IF wallet.key = 0 THEN {} ELSE {"error"}) :
                    call' = [call EXCEPT ![c] = answered(reply)]
              /\ UNCHANGED wallet
           \/ /\ wallet.key = r.key /\ r.method = "open"
              /\ \E t \in Fresh({token} \cup wallet.tokens \cup {call[d].with : d \in Calls}) :
                    /\ wallet' = [wallet EXCEPT !.tokens = @ \cup {t}]
                    /\ call' = [call EXCEPT ![c] = [answered("ok") EXCEPT !.with = t]]
           \/ /\ wallet.key = r.key /\ r.method = "scan"
              /\ call' = [call EXCEPT ![c] =
                            IF r.with \in wallet.tokens
                            THEN [answered("ok") EXCEPT !.covers = height]
                            ELSE answered("inner")]
              /\ UNCHANGED wallet
    /\ UNCHANGED <<Held, Counts, height, scanned, scans, restarts, errors>>

\* A slip: an expired session is kept.
ClearedNever(s, reply) == s

\* -32001 clears the session, whichever it is by now.
Cleared(s, reply) == IF reply = "expired" THEN [key |-> 0, nonce |-> 0] ELSE s

\* The answer is decrypted with the session of now: another one cannot read it.
Receive(c) ==
    /\ At(c, "answered") /\ sessionOf = Nobody
    /\ LET r == call[c]
           read == r.reply = "ok" /\ session.key = r.key
       IN  /\ session' = Cleared(session, r.reply)
           /\ tokenOf' = TokenLockAfter(c)
           /\ token' = IF read /\ r.method = "open" THEN r.with ELSE token
           /\ call' = [call EXCEPT ![c] =
                         CASE ~read -> Failed(r)
                           [] read /\ r.method = "open" ->
                                [r EXCEPT !.at = "ensure", !.method = "scan", !.key = 0]
                           [] OTHER -> Done(r, r.covers)]
    /\ UNCHANGED <<sessionOf, Counts, World, scans, errors>>

-------------------------------------------------------------------------------
(* What the client does not control.                                        *)

Uncalm == [c \in Calls |-> [call[c] EXCEPT !.calm = FALSE]]

\* A handshake or a request fails on the network, before or after it reached the wallet.
NetworkFails(c) ==
    /\ errors < MaxFaults /\ call[c].at \in {"shake", "shaken", "sent", "answered"}
    /\ errors' = errors + 1
    /\ sessionOf' = (IF sessionOf = c THEN Nobody ELSE sessionOf)
    /\ tokenOf' = TokenLockAfter(c)
    /\ call' = [Uncalm EXCEPT ![c] = Failed(Uncalm[c])]
    /\ UNCHANGED <<session, token, Counts, World, scans>>

RestartWallet ==
    /\ restarts < MaxRestarts /\ restarts' = restarts + 1
    /\ wallet' = [key |-> 0, tokens |-> {}]
    /\ call' = Uncalm
    /\ UNCHANGED <<Held, Counts, height, scanned, scans, errors>>

Mine ==
    /\ height < MaxTip /\ height' = height + 1
    /\ UNCHANGED <<Held, Counts, wallet, call, scanned, scans, restarts, errors>>

LwsScans ==
    /\ scanned < height /\ scanned' = scanned + 1
    /\ UNCHANGED <<Held, Counts, wallet, call, height, scans, restarts, errors>>

Next ==
    \/ \E c \in Calls :
         \/ Start(c) \/ AskLws(c) \/ LwsOuts(c)
         \/ OpenWallet(c) \/ DropToken(c) \/ EnsureSession(c) \/ Shake(c) \/ Shaken(c)
         \/ Encrypt(c) \/ Serve(c) \/ Receive(c) \/ NetworkFails(c)
    \/ RestartWallet \/ Mine \/ LwsScans

Spec == Init /\ [][Next]_vars

-------------------------------------------------------------------------------
\* A restart of grin-wallet heals by itself (scan_rewind_hash): a scan that has the
\* client to itself and meets no new fault succeeds, whatever stale session and token
\* earlier restarts and calls have left, unless the nonce counter is exhausted.
ScanHeals ==
    \A c \in Calls : At(c, "failed") /\ call[c].calm => session.nonce = MaxNonce

\* What a scan answers reaches within the margin of the chain as it was when the
\* request began, from grin-lws or from grin-wallet (scan, scan_via_grin_lws).
ScanReachesTip ==
    \A c \in Calls : At(c, "done") => call[c].covers + Margin >= call[c].from

\* No two requests are encrypted under the same key and nonce, although sessions are
\* cleared and renewed under each other's calls (encrypt, ensure_session).
NonceOnce == ~reused

\* The scan endpoint is sound: its three promises.
GrinScanSound == ScanHeals /\ ScanReachesTip /\ NonceOnce
===============================================================================
