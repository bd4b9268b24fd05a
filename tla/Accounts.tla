------------------------------- MODULE Accounts -------------------------------
(***************************************************************************)
(* Registration and identity (api/auth.rs, infra/db/users.rs): the users   *)
(* table with its UNIQUE columns, the single-use gate tokens, and the      *)
(* handlers that read the table, decide, and write it, each database call  *)
(* a step of its own.  A wallet w controls the BTC keys it owns, one npub  *)
(* and one seed fingerprint, both written w.  Hashing and peppering are    *)
(* injective, so a pubkey_hash is written as the key it hashes.            *)
(***************************************************************************)
EXTENDS Naturals, FiniteSets

CONSTANTS Wallets, Keys, Names, Invites, Invoices,
          Ids,          \* row ids: a bound on the accounts ever created
          Slots,        \* requests in flight
          MaxRequests,  \* bound: registrations and logins begun
          Owner,        \* Owner[k]: the wallet that controls key k
          Inputs,       \* the registration requests that may arrive
          Policies,     \* gate settings an operator may choose at run time
          RequirePayment, Pow, None

Tokens == Invites \union Invoices

\* A registration request.  A wallet signs only with keys it owns; the
\* fingerprint is a lookup handle that anybody may send.
Input == [kind : {"extension", "nostr"}, w : Wallets, key : Keys \union {None},
          fp : Wallets \union {None}, proof : BOOLEAN, name : Names \union {None},
          invite : Invites \union {None}, invoice : Invoices \union {None},
          pow : {"none", "valid", "bad"}]

Policy == [mode : {"all", "any"}, invite : BOOLEAN]

ASSUME AccountsAssumption ==
    /\ None \notin Wallets \union Keys \union Names \union Tokens
    /\ None \notin Ids /\ None \notin Inputs
    /\ Invites \intersect Invoices = {}
    /\ Owner \in [Keys -> Wallets]
    /\ Inputs \subseteq Input
    /\ \A in \in Inputs : /\ in.key # None => Owner[in.key] = in.w
                          /\ in.kind = "extension" => in.key # None
    /\ Policies \subseteq Policy /\ Policies # {}
    /\ RequirePayment \in BOOLEAN
    /\ Pow \in {"off", "optional", "required"}
    /\ MaxRequests \in Nat

VARIABLES rows,      \* rows[i]: a users row with its on-file BTC key
          sessions,  \* pairs <<w, i>>: wallet w holds a live session of row i
          invites,   \* invite_codes: "fresh", "used" or "expired"
          invoices,  \* payment_invoices and what the processor says of them
          policy, jobs, begun

vars == <<rows, sessions, invites, invoices, policy, jobs, begun>>

\* tokens is a history field: what was spent when the row was inserted.
Row == [state : {"unused", "present", "erased"}, name : Names \union {None},
        pkh : Keys \union {None}, npub : Wallets \union {None}, fp : Wallets \union {None},
        key : Keys \union {None}, tokens : SUBSET Tokens]

NoRow == [state |-> "unused", name |-> None, pkh |-> None, npub |-> None, fp |-> None,
          key |-> None, tokens |-> {}]

\* A request in flight: what it read (me, target, keyless, fp) and the tokens
\* it plans to spend (invite, invoice).
Job == [pc : {"idle", "lookup", "fingerprint", "stored", "move", "owner", "npub", "fpFree",
              "reread", "merge", "backfill", "create", "gates", "register", "keys", "session"},
        in : Inputs \union {None}, me : Ids \union {None}, target : Ids \union {None},
        keyless : BOOLEAN, fp : Wallets \union {None},
        invite : Invites \union {None}, invoice : Invoices \union {None}]

NoJob == [pc |-> "idle", in |-> None, me |-> None, target |-> None, keyless |-> FALSE,
          fp |-> None, invite |-> None, invoice |-> None]

Invoice == [bound : Keys \union {None}, paid : BOOLEAN, consumed : BOOLEAN]

TypeOK ==
    /\ rows \in [Ids -> Row]
    /\ sessions \subseteq Wallets \X Ids
    /\ invites \in [Invites -> {"fresh", "used", "expired"}]
    /\ invoices \in [Invoices -> Invoice]
    /\ policy \in Policies
    /\ jobs \in [Slots -> Job]
    /\ \A s \in Slots : jobs[s].pc # "idle" => jobs[s].in # None
    /\ begun \in 0..MaxRequests

Init ==
    /\ rows = [i \in Ids |-> NoRow]
    /\ sessions = {}
    /\ invites = [c \in Invites |-> "fresh"]
    /\ invoices = [v \in Invoices |-> [bound |-> None, paid |-> FALSE, consumed |-> FALSE]]
    /\ policy \in Policies
    /\ jobs = [s \in Slots |-> NoJob]
    /\ begun = 0

-------------------------------------------------------------------------------
(* Lookups by a UNIQUE column find at most one row.                        *)

Present == {i \in Ids : rows[i].state = "present"}

ByPubkey(k) == {i \in Present : rows[i].pkh = k}
ByFingerprint(f) == {i \in Present : f # None /\ rows[i].fp = f}
ByNpub(w) == {i \in Present : rows[i].npub = w}

Found(S) == IF S = {} THEN None ELSE CHOOSE i \in S : TRUE

\* Writing new to row i violates a UNIQUE constraint of users.
Conflicts(i, new) ==
    \E j \in Present \ {i} :
        \/ new.name # None /\ rows[j].name = new.name
        \/ new.pkh # None /\ rows[j].pkh = new.pkh
        \/ new.npub # None /\ rows[j].npub = new.npub
        \/ new.fp # None /\ rows[j].fp = new.fp

Goto(s, job) == jobs' = [jobs EXCEPT ![s] = job]

\* An error response, a lost connection or a crash: the request ends and what
\* it wrote so far stays.
Ends(s) == Goto(s, NoJob)

\* enforce_pow.
EnforcePow(in, returning) ==
    \/ returning
    \/ Pow = "off"
    \/ in.pow = "valid"
    \/ Pow = "optional" /\ in.pow = "none"

-------------------------------------------------------------------------------
(* extension_register: the BTC path.                                       *)

\* A request arrives with its signature verified; for the npub path the
\* register nonce is consumed and the signed action verified.
Begin(s, in) ==
    /\ jobs[s].pc = "idle"
    /\ begun < MaxRequests
    /\ begun' = begun + 1
    /\ Goto(s, [NoJob EXCEPT !.pc = IF in.kind = "extension" THEN "lookup" ELSE "npub",
                             !.in = in])
    /\ UNCHANGED <<rows, sessions, invites, invoices, policy>>

Step(s, pc) ==
    /\ jobs[s].pc = pc
    /\ UNCHANGED <<policy, begun>>

Reads == UNCHANGED <<rows, sessions, invites, invoices>>

LookupPubkey(s) ==
    LET in == jobs[s].in
        me == Found(ByPubkey(in.key))
    IN  /\ Step(s, "lookup")
        /\ Goto(s, [jobs[s] EXCEPT !.me = me,
                      !.pc = IF me = None /\ in.fp # None THEN "fingerprint" ELSE "owner"])
        /\ Reads

LookupFingerprint(s) ==
    LET target == Found(ByFingerprint(jobs[s].in.fp))
    IN  /\ Step(s, "fingerprint")
        /\ IF target = None
           THEN Goto(s, [jobs[s] EXCEPT !.pc = "owner"])
           ELSE Goto(s, [jobs[s] EXCEPT !.pc = "stored", !.target = target,
                                        !.keyless = rows[target].pkh = None])
        /\ Reads

\* A slip: any rotation signature is taken for a proof.
ReadStoredKeyUnproven(s) ==
    /\ Step(s, "stored")
    /\ IF jobs[s].in.proof THEN Goto(s, [jobs[s] EXCEPT !.pc = "move"])
                            ELSE Goto(s, [jobs[s] EXCEPT !.pc = "owner", !.target = None])
    /\ Reads

\* The row matched by fingerprint is adopted when it has no pubkey_hash and its
\* on-file key is the submitted one, rotated when the request proves control of
\* the on-file key; otherwise it is left alone and a new identity is made.
ReadStoredKey(s) ==
    LET job == jobs[s]
        stored == rows[job.target].key
        adoptable == job.keyless /\ stored = job.in.key
        proven == job.in.proof /\ stored # None /\ Owner[stored] = job.in.w
    IN  /\ Step(s, "stored")
        /\ \/ /\ adoptable \/ proven
              /\ EnforcePow(job.in, FALSE)
              /\ Goto(s, [job EXCEPT !.pc = "move", !.keyless = FALSE])
           \/ /\ adoptable \/ proven
              /\ ~EnforcePow(job.in, FALSE)
              /\ Ends(s)
           \/ /\ ~(adoptable \/ proven)
              /\ Goto(s, [job EXCEPT !.pc = "owner", !.target = None, !.keyless = FALSE])
        /\ Reads

\* update_pubkey_hash: a plain UPDATE by id, which hits nothing once the row is
\* erased and fails when another row holds the hash.
MoveIdentity(s) ==
    LET job == jobs[s]
        new == [rows[job.target] EXCEPT !.pkh = job.in.key]
    IN  /\ Step(s, "move")
        /\ IF job.target \in Present /\ Conflicts(job.target, new)
           THEN Ends(s) /\ UNCHANGED rows
           ELSE /\ Goto(s, [job EXCEPT !.pc = "keys"])
                /\ rows' = IF job.target \in Present
                           THEN [rows EXCEPT ![job.target] = new] ELSE rows
        /\ UNCHANGED <<sessions, invites, invoices>>

\* PoW for new pubkeys, then the second fingerprint lookup: a fingerprint that
\* belongs to another row is not attached.
CheckFingerprintOwner(s) ==
    LET job == jobs[s]
        owner == Found(ByFingerprint(job.in.fp))
        foreign == owner # None /\ owner # job.me
    IN  /\ Step(s, "owner")
        /\ IF EnforcePow(job.in, job.me # None)
           THEN Goto(s, [job EXCEPT !.fp = IF foreign THEN None ELSE job.in.fp,
                                    !.pc = IF job.me # None THEN "reread" ELSE "gates"])
           ELSE Ends(s)
        /\ Reads

-------------------------------------------------------------------------------
(* nostr_register: the npub path.                                          *)

NostrLookup(s) ==
    LET in == jobs[s].in
        me == Found(ByNpub(in.w))
    IN  /\ Step(s, "npub")
        /\ IF EnforcePow(in, me # None)
           THEN Goto(s, [jobs[s] EXCEPT !.me = me, !.fp = in.fp,
                           !.pc = IF me # None THEN "reread"
                                  ELSE IF in.fp # None THEN "fpFree" ELSE "gates"])
           ELSE Ends(s)
        /\ Reads

\* A slip: the wallet of the fingerprint is signed in.
FingerprintMerges(s) ==
    LET found == Found(ByFingerprint(jobs[s].in.fp))
    IN  /\ Step(s, "fpFree")
        /\ Goto(s, [jobs[s] EXCEPT !.pc = IF found = None THEN "gates" ELSE "session",
                                   !.target = found])
        /\ Reads

\* A fingerprint match alone never binds an npub to an existing wallet.
FingerprintFree(s) ==
    /\ Step(s, "fpFree")
    /\ IF ByFingerprint(jobs[s].in.fp) # {}
       THEN Ends(s)
       ELSE Goto(s, [jobs[s] EXCEPT !.pc = "gates"])
    /\ Reads

-------------------------------------------------------------------------------
(* Returning wallets: get_or_create_user_by_pubkey_hash and                *)
(* get_or_create_user_by_nostr_pubkey look the row up once more.           *)

Reread(s) ==
    LET job == jobs[s]
        found == Found(IF job.in.kind = "extension" THEN ByPubkey(job.in.key)
                                                    ELSE ByNpub(job.in.w))
    IN  /\ Step(s, "reread")
        /\ IF found # None
           THEN Goto(s, [job EXCEPT !.target = found,
                  !.pc = IF rows[found].fp = None /\ job.fp # None THEN "backfill" ELSE "keys"])
           ELSE Goto(s, [job EXCEPT !.pc = IF job.in.kind = "nostr" /\ job.fp # None
                                           THEN "merge" ELSE "create"])
        /\ Reads

\* The dedup lookup of the npub path: a row of the same seed is used only when it
\* already carries this npub.
Merge(s) ==
    LET job == jobs[s]
        found == Found(ByFingerprint(job.fp))
    IN  /\ Step(s, "merge")
        /\ \/ found = None /\ Goto(s, [job EXCEPT !.pc = "create"])
           \/ /\ found # None /\ rows[found].npub = job.in.w
              /\ Goto(s, [job EXCEPT !.pc = "keys", !.target = found])
           \/ found # None /\ rows[found].npub # job.in.w /\ Ends(s)
        /\ Reads

\* backfill_optionals: COALESCE, so a fingerprint already there stays.
Backfill(s) ==
    LET job == jobs[s]
        new == [rows[job.target] EXCEPT !.fp = IF @ = None THEN job.fp ELSE @]
    IN  /\ Step(s, "backfill")
        /\ IF job.target \in Present /\ ~Conflicts(job.target, new)
           THEN /\ rows' = [rows EXCEPT ![job.target] = new]
                /\ Goto(s, [job EXCEPT !.pc = "keys"])
           ELSE Ends(s) /\ UNCHANGED rows
        /\ UNCHANGED <<sessions, invites, invoices>>

\* The row a request inserts.
NewUser(job, key, tokens) ==
    [state |-> "present", name |-> job.in.name, key |-> key, fp |-> job.fp, tokens |-> tokens,
     pkh |-> IF job.in.kind = "extension" THEN job.in.key ELSE None,
     npub |-> IF job.in.kind = "nostr" THEN job.in.w ELSE None]

\* create_user, reached when the row of a returning wallet is gone by now.
CreateUser(s, i) ==
    LET job == jobs[s]
        new == NewUser(job, None, {})
    IN  /\ Step(s, "create")
        /\ rows[i].state = "unused"
        /\ IF Conflicts(i, new)
           THEN Ends(s) /\ UNCHANGED rows
           ELSE /\ rows' = [rows EXCEPT ![i] = new]
                /\ Goto(s, [job EXCEPT !.pc = "keys", !.target = i])
        /\ UNCHANGED <<sessions, invites, invoices>>

\* upsert_all_keys: fails on the foreign key once the row is erased.
UpsertKeys(s) ==
    LET job == jobs[s]
    IN  /\ Step(s, "keys")
        /\ IF job.in.key # None /\ job.target \notin Present
           THEN Ends(s) /\ UNCHANGED rows
           ELSE /\ Goto(s, [job EXCEPT !.pc = "session"])
                /\ rows' = IF job.in.key = None THEN rows
                           ELSE [rows EXCEPT ![job.target].key = job.in.key]
        /\ UNCHANGED <<sessions, invites, invoices>>

-------------------------------------------------------------------------------
(* New wallets: the gates, then one transaction.                           *)

\* plan_gates.
PlanGates(in) ==
    CASE ~policy.invite /\ ~RequirePayment -> "open"
      [] policy.mode = "all" /\ (policy.invite \/ RequirePayment) -> "all"
      [] policy.mode = "any" /\ policy.invite /\ ~RequirePayment -> "invite"
      [] policy.mode = "any" /\ ~policy.invite /\ RequirePayment -> "payment"
      [] OTHER -> IF in.invite # None
                  THEN IF in.invoice # None THEN "reject" ELSE "invite"
                  ELSE IF in.invoice # None THEN "payment" ELSE "reject"

\* verify_payment_settled: known, bound to this key, unspent, paid.
PaymentSettled(in) ==
    /\ in.invoice # None /\ in.key # None
    /\ invoices[in.invoice].bound = in.key
    /\ ~invoices[in.invoice].consumed
    /\ invoices[in.invoice].paid

\* ensure_username_available and plan_gate_consume: nothing is spent yet.
PlanGateConsume(s) ==
    LET job == jobs[s]
        in == job.in
        plan == PlanGates(in)
        needsInvite == plan = "invite" \/ (plan = "all" /\ policy.invite)
        needsPayment == plan = "payment" \/ (plan = "all" /\ RequirePayment)
    IN  /\ Step(s, "gates")
        /\ IF /\ plan # "reject"
              /\ needsInvite => in.invite # None
              /\ needsPayment => PaymentSettled(in)
              /\ \A i \in Present : in.name # None => rows[i].name # in.name
           THEN Goto(s, [job EXCEPT !.pc = "register",
                           !.invite = IF needsInvite THEN in.invite ELSE None,
                           !.invoice = IF needsPayment THEN in.invoice ELSE None])
           ELSE Ends(s)
        /\ Reads

\* A slip: the invite is claimed outside the transaction.
CreateUserAfterClaim(s, i) ==
    LET job == jobs[s]
        new == NewUser(job, job.in.key, {job.invite, job.invoice} \ {None})
        claims == job.invite # None => invites[job.invite] = "fresh"
    IN  /\ Step(s, "register")
        /\ rows[i].state = "unused"
        /\ invites' = [c \in Invites |-> IF c = job.invite THEN "used" ELSE invites[c]]
        /\ invoices' = [v \in Invoices |->
                          IF v = job.invoice THEN [invoices[v] EXCEPT !.consumed = TRUE]
                                             ELSE invoices[v]]
        /\ IF claims /\ ~Conflicts(i, new)
           THEN /\ rows' = [rows EXCEPT ![i] = new]
                /\ Goto(s, [job EXCEPT !.pc = "session", !.target = i])
           ELSE Ends(s) /\ UNCHANGED rows
        /\ UNCHANGED sessions

\* create_user_consuming_gates: claim the invite, consume the invoice, insert the
\* user and its keys; any failure rolls all of it back.
CreateUserConsumingGates(s, i) ==
    LET job == jobs[s]
        new == NewUser(job, job.in.key, {job.invite, job.invoice} \ {None})
        claims == job.invite # None => invites[job.invite] = "fresh"
        consumes == job.invoice # None => /\ ~invoices[job.invoice].consumed
                                          /\ invoices[job.invoice].bound = job.in.key
    IN  /\ Step(s, "register")
        /\ rows[i].state = "unused"
        /\ \/ /\ claims /\ consumes /\ ~Conflicts(i, new)
              /\ rows' = [rows EXCEPT ![i] = new]
              /\ invites' = [c \in Invites |-> IF c = job.invite THEN "used" ELSE invites[c]]
              /\ invoices' = [v \in Invoices |->
                                IF v = job.invoice THEN [invoices[v] EXCEPT !.consumed = TRUE]
                                                   ELSE invoices[v]]
              /\ Goto(s, [job EXCEPT !.pc = "session", !.target = i])
           \/ /\ ~(claims /\ consumes /\ ~Conflicts(i, new))
              /\ Ends(s)
              /\ UNCHANGED <<rows, invites, invoices>>
        /\ UNCHANGED sessions

\* issue_session: the insert fails on the foreign key once the row is erased.
IssueSession(s) ==
    LET job == jobs[s]
    IN  /\ Step(s, "session")
        /\ sessions' = IF job.target \in Present THEN sessions \union {<<job.in.w, job.target>>}
                                                 ELSE sessions
        /\ Ends(s)
        /\ UNCHANGED <<rows, invites, invoices>>

\* A database error, a timeout or a crash between two steps.
Abort(s) ==
    /\ jobs[s].pc # "idle"
    /\ Ends(s)
    /\ UNCHANGED <<rows, sessions, invites, invoices, policy, begun>>

-------------------------------------------------------------------------------
(* The other operations on these tables.                                   *)

Others == UNCHANGED <<policy, jobs, begun>>

\* nostr_link: the holder of a session binds its npub to the session's row.
NostrLink(w, i) ==
    LET new == [rows[i] EXCEPT !.npub = w]
    IN  /\ <<w, i>> \in sessions
        /\ ~Conflicts(i, new)
        /\ rows' = [rows EXCEPT ![i] = new]
        /\ UNCHANGED <<sessions, invites, invoices>> /\ Others

\* nostr_login: create-never.
NostrLogin(w, i) ==
    /\ i \in ByNpub(w)
    /\ sessions' = sessions \union {<<w, i>>}
    /\ UNCHANGED <<rows, invites, invoices>> /\ Others

\* update_username.
UpdateUsername(w, i, n) ==
    LET new == [rows[i] EXCEPT !.name = n]
    IN  /\ <<w, i>> \in sessions
        /\ ~Conflicts(i, new)
        /\ rows' = [rows EXCEPT ![i] = new]
        /\ UNCHANGED <<sessions, invites, invoices>> /\ Others

\* logout, revocation or expiry.
Logout(w, i) ==
    /\ <<w, i>> \in sessions
    /\ sessions' = sessions \ {<<w, i>>}
    /\ UNCHANGED <<rows, invites, invoices>> /\ Others

\* payment_invoice: bound to a key that has no account yet.
PaymentInvoice(v, k) ==
    /\ RequirePayment
    /\ invoices[v].bound = None
    /\ ByPubkey(k) = {}
    /\ invoices' = [invoices EXCEPT ![v].bound = k]
    /\ UNCHANGED <<rows, sessions, invites>> /\ Others

\* The processor sees the invoice paid in full (external).
Pay(v) ==
    /\ invoices[v].bound # None /\ ~invoices[v].paid
    /\ invoices' = [invoices EXCEPT ![v].paid = TRUE]
    /\ UNCHANGED <<rows, sessions, invites>> /\ Others

\* expires_at of an invite passes.
InviteExpires(c) ==
    /\ invites[c] = "fresh"
    /\ invites' = [invites EXCEPT ![c] = "expired"]
    /\ UNCHANGED <<rows, sessions, invoices>> /\ Others

\* A slip: the row is emptied and not deleted.
EraseAnonymises(i) ==
    /\ i \in Present
    /\ rows' = [rows EXCEPT ![i] = [NoRow EXCEPT !.state = "present", !.tokens = rows[i].tokens]]
    /\ sessions' = {p \in sessions : p[2] # i}
    /\ UNCHANGED <<invites, invoices>> /\ Others

\* execute_erasure deletes the row and all that references it.
Erase(i) ==
    /\ i \in Present
    /\ rows' = [rows EXCEPT ![i] = [NoRow EXCEPT !.state = "erased", !.tokens = rows[i].tokens]]
    /\ sessions' = {p \in sessions : p[2] # i}
    /\ UNCHANGED <<invites, invoices>> /\ Others

\* An operator edits the gate settings, which take effect at the next read.
SetPolicy(p) ==
    /\ p # policy
    /\ policy' = p
    /\ UNCHANGED <<rows, sessions, invites, invoices, jobs, begun>>

-------------------------------------------------------------------------------

RegistrationStep(s) ==
    \/ \E in \in Inputs : Begin(s, in)
    \/ LookupPubkey(s)
    \/ LookupFingerprint(s)
    \/ ReadStoredKey(s)
    \/ MoveIdentity(s)
    \/ CheckFingerprintOwner(s)
    \/ NostrLookup(s)
    \/ FingerprintFree(s)
    \/ Reread(s)
    \/ Merge(s)
    \/ Backfill(s)
    \/ \E i \in Ids : CreateUser(s, i)
    \/ UpsertKeys(s)
    \/ PlanGateConsume(s)
    \/ \E i \in Ids : CreateUserConsumingGates(s, i)
    \/ IssueSession(s)
    \/ Abort(s)

AccountStep(i) ==
    \/ \E w \in Wallets : NostrLink(w, i) \/ NostrLogin(w, i) \/ Logout(w, i)
    \/ \E w \in Wallets, n \in Names : UpdateUsername(w, i, n)
    \/ Erase(i)

Next ==
    \/ \E s \in Slots : RegistrationStep(s)
    \/ \E i \in Ids : AccountStep(i)
    \/ \E v \in Invoices : Pay(v) \/ \E k \in Keys : PaymentInvoice(v, k)
    \/ \E c \in Invites : InviteExpires(c)
    \/ \E p \in Policies : SetPolicy(p)

Spec == Init /\ [][Next]_vars

-------------------------------------------------------------------------------
(* Properties.                                                             *)

\* The wallets whose identities a row carries.
WalletsOf(row) ==
    {Owner[k] : k \in {row.pkh, row.key} \ {None}} \union ({row.npub} \ {None})

\* However lookups, rotations, adoptions, links and erasures interleave, the
\* pubkey_hash, the on-file key and the npub of a row belong to one wallet: a
\* fingerprint, which anybody may send, never joins two wallets.
OneWalletPerRow == \A i \in Present : \A a, b \in WalletsOf(rows[i]) : a = b

\* A session is issued only to the wallet whose identity its row carries, also when
\* the row was moved or erased between the lookup and issue_session.
SessionsToOwners ==
    \A p \in sessions : p[2] \in Present /\ p[1] \in WalletsOf(rows[p[2]])

\* An account never changes hands: no step takes from a live row the wallet whose
\* identity it carries (update_pubkey_hash works from a key read earlier).
AccountKeepsItsWallet ==
    [][\A i \in Present : rows'[i].state = "present" => WalletsOf(rows[i]) \subseteq WalletsOf(rows'[i])]_vars

Spent(tok) == \/ tok \in Invites /\ invites[tok] = "used"
              \/ tok \in Invoices /\ invoices[tok].consumed

\* create_user_consuming_gates never burns a token without an account, and no
\* token pays for two: what is spent was spent by exactly one insert.
TokensBuyOneAccount ==
    \A tok \in Tokens :
        /\ Spent(tok) <=> \E i \in Ids : tok \in rows[i].tokens
        /\ \A i, j \in Ids : tok \in rows[i].tokens \intersect rows[j].tokens => i = j

\* One wallet, one row (the adoption branch of extension_register): the same BTC
\* key is never on file for two accounts.
WalletNotSplit ==
    \A i, j \in Present : rows[i].key # None /\ rows[i].key = rows[j].key => i = j
===============================================================================
