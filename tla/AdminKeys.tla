------------------------------- MODULE AdminKeys -------------------------------
(***************************************************************************)
(* The admin plane (api/admin.rs, bin/smirk-admin.rs, infra/db/admin_keys, *)
(* admin_sessions and server_config): the allowlist of admin keys, the     *)
(* admin sessions, and the bootstrap latch.  A handler is one step per     *)
(* database call; a transaction that counts keys and then writes is two,   *)
(* between which it holds the admin-keys advisory lock.  Row MACs verify,  *)
(* and every signature is by the key it names.                             *)
(***************************************************************************)
EXTENDS Naturals, FiniteSets

CONSTANTS Pubs, Slots,
          MaxKeyRows,  \* bound: keys ever inserted
          MaxSessions, \* bound: sessions ever inserted
          MaxKeys,     \* ADMIN_MAX_KEYS
          MaxRequests, \* bound: network requests begun
          MaxCli,      \* bound: smirk-admin commands run
          MaxMints,    \* bound: access tokens minted for one session
          None

ASSUME AdminAssumption ==
    /\ None \notin Pubs \union Slots \union Nat
    /\ MaxKeys \in Nat \ {0}
    /\ MaxKeyRows \in Nat /\ MaxSessions \in Nat
    /\ MaxRequests \in Nat /\ MaxCli \in Nat /\ MaxMints \in Nat

KeyIds == 1..MaxKeyRows
SessionIds == 1..MaxSessions

VARIABLES keys,      \* keys[k]: an admin_keys row
          sessions,  \* sessions[x]: an admin_sessions row
          latch,     \* server_config: "absent", "uninitialized" or "locked"
          setup,     \* history: bootstrapped by the CLI and not reset since
          lock,      \* the slot whose transaction holds ADMIN_KEYS_LOCK_KEY
          purge,     \* replace-key --revoke-all at work
          boot,      \* the boot sequence: "read", "adopt", "fresh" or "up"
          jobs, begun, cli

vars == <<keys, sessions, latch, setup, lock, purge, boot, jobs, begun, cli>>

Key == [state : {"unused", "pending", "active", "revoked"}, pub : Pubs \union {None},
        deadline : {"none", "ahead", "passed"}]
NoKey == [state |-> "unused", pub |-> None, deadline |-> "none"]

\* jti names the access token the session accepts: the one minted last.
Session == [state : {"unused", "live", "dead"}, key : KeyIds \union {None},
            pub : Pubs \union {None}, jti : 0..MaxMints]
NoSession == [state |-> "unused", key |-> None, pub |-> None, jti |-> 0]

\* A network request: a login of pub, a refresh of a session, or an operation with
\* the access token jti of a session.
Job == [pc : {"idle", "authz", "activate", "session", "refreshKey", "rotate",
              "guardSession", "guardKey", "act", "add", "revoke"},
        pub : Pubs \union {None}, key : KeyIds \union {None},
        session : SessionIds \union {None}, jti : 0..MaxMints]
NewJob(pc, p, x, jti) == [pc |-> pc, pub |-> p, key |-> None, session |-> x, jti |-> jti]
NoJob == NewJob("idle", None, None, 0)

\* Break-glass: the new key, then the keys that were listed and are still to revoke.
Purge == [pc : {"idle", "list", "revoke"}, keep : KeyIds \union {None}, todo : SUBSET KeyIds]
NoPurge == [pc |-> "idle", keep |-> None, todo |-> {}]

TypeOK ==
    /\ keys \in [KeyIds -> Key]
    /\ sessions \in [SessionIds -> Session]
    /\ latch \in {"absent", "uninitialized", "locked"}
    /\ setup \in BOOLEAN
    /\ lock \in Slots \union {None}
    /\ purge \in Purge
    /\ boot \in {"read", "adopt", "fresh", "up"}
    /\ jobs \in [Slots -> Job]
    /\ begun \in 0..MaxRequests /\ cli \in 0..MaxCli

Init ==
    /\ keys = [k \in KeyIds |-> NoKey]
    /\ sessions = [x \in SessionIds |-> NoSession]
    /\ latch = "absent" /\ setup = FALSE
    /\ lock = None /\ purge = NoPurge /\ boot = "read"
    /\ jobs = [s \in Slots |-> NoJob]
    /\ begun = 0 /\ cli = 0

Live == {k \in KeyIds : keys[k].state \in {"pending", "active"}}

\* get_active_admin_key: by the partial UNIQUE index at most one.
LiveKeyOf(p) == {k \in Live : keys[k].pub = p}

\* An insert takes the next row.
Fresh(table, i) == table[i].state = "unused" /\ \A j \in 1..(i - 1) : table[j].state # "unused"

Goto(s, job) == jobs' = [jobs EXCEPT ![s] = job]
Ends(s) == Goto(s, NoJob)

-------------------------------------------------------------------------------
(* Transactions on the allowlist.                                          *)

\* insert_admin_key: a conflict with a live key of the same pubkey fails.
Inserted(table, k, p, state, deadline) ==
    [table EXCEPT ![k] = [state |-> state, pub |-> p, deadline |-> deadline]]

CanInsert(k, p) == Fresh(keys, k) /\ LiveKeyOf(p) = {}

Revoked(table, k) == [table EXCEPT ![k].state = "revoked"]

\* Every live session of the key is revoked in the same transaction.
SessionsWithout(k) ==
    [x \in SessionIds |-> IF sessions[x].key = k /\ sessions[x].state = "live"
                          THEN [sessions[x] EXCEPT !.state = "dead"] ELSE sessions[x]]

\* rotate_admin_key: revoke and insert; the old pubkey may come back.
CanRotate(old, k, p) ==
    old \in Live /\ Fresh(keys, k) /\ LiveKeyOf(p) \subseteq {old}

-------------------------------------------------------------------------------
(* admin_verify.                                                           *)

\* The signed action verifies and its nonce is consumed.
Login(s, p) ==
    /\ jobs[s].pc = "idle" /\ begun < MaxRequests
    /\ begun' = begun + 1
    /\ Goto(s, NewJob("authz", p, None, 0))
    /\ UNCHANGED <<keys, sessions, latch, setup, lock, purge, boot, cli>>

Stays == UNCHANGED <<latch, setup, purge, boot, begun, cli>>

\* The pubkey must be on the allowlist, a pending key before its deadline.
Authorize(s) ==
    /\ jobs[s].pc = "authz"
    /\ \/ \E k \in LiveKeyOf(jobs[s].pub) :
             Goto(s, IF keys[k].state = "active" THEN [jobs[s] EXCEPT !.pc = "session", !.key = k]
                     ELSE IF keys[k].deadline = "passed" THEN NoJob
                     ELSE [jobs[s] EXCEPT !.pc = "activate", !.key = k])
       \/ LiveKeyOf(jobs[s].pub) = {} /\ Ends(s)
    /\ UNCHANGED <<keys, sessions, lock>> /\ Stays

\* A slip: the UPDATE does not look at revoked_at.
ActivateAny(s) ==
    /\ jobs[s].pc = "activate"
    /\ keys' = [keys EXCEPT ![jobs[s].key].state = "active"]
    /\ Goto(s, [jobs[s] EXCEPT !.pc = "session"])
    /\ UNCHANGED <<sessions, lock>> /\ Stays

\* activate_admin_key does nothing when the key is pending no more; the login goes on.
Activate(s) ==
    /\ jobs[s].pc = "activate"
    /\ keys' = IF keys[jobs[s].key].state = "pending"
               THEN [keys EXCEPT ![jobs[s].key].state = "active"] ELSE keys
    /\ Goto(s, [jobs[s] EXCEPT !.pc = "session"])
    /\ UNCHANGED <<sessions, lock>> /\ Stays

\* create_admin_session_audited.
CreateSession(s, x) ==
    /\ jobs[s].pc = "session"
    /\ Fresh(sessions, x)
    /\ sessions' = [sessions EXCEPT ![x] = [state |-> "live", key |-> jobs[s].key,
                                            pub |-> jobs[s].pub, jti |-> 0]]
    /\ Ends(s)
    /\ UNCHANGED <<keys, lock>> /\ Stays

-------------------------------------------------------------------------------
(* admin_refresh.                                                          *)

Refresh(s, x) ==
    /\ jobs[s].pc = "idle" /\ begun < MaxRequests
    /\ sessions[x].state # "unused"
    /\ begun' = begun + 1
    /\ Goto(s, NewJob("refreshKey", sessions[x].pub, x, 0))
    /\ UNCHANGED <<keys, sessions, latch, setup, lock, purge, boot, cli>>

RefreshKey(s) ==
    /\ jobs[s].pc = "refreshKey"
    /\ \/ \E k \in LiveKeyOf(jobs[s].pub) :
             Goto(s, IF keys[k].state = "active" THEN [jobs[s] EXCEPT !.pc = "rotate", !.key = k]
                                                 ELSE NoJob)
       \/ LiveKeyOf(jobs[s].pub) = {} /\ Ends(s)
    /\ UNCHANGED <<keys, sessions, lock>> /\ Stays

\* A slip: the session's key is not compared with the authorized one.
RotateForPubkey(s) ==
    LET x == jobs[s].session
    IN  /\ jobs[s].pc = "rotate"
        /\ sessions' = IF sessions[x].state = "live" /\ sessions[x].jti < MaxMints
                       THEN [sessions EXCEPT ![x].jti = @ + 1] ELSE sessions
        /\ Ends(s)
        /\ UNCHANGED <<keys, lock>> /\ Stays

\* The session must be live and of the key that was authorized; its UPDATE, which
\* carries the same condition, decides.
RotateJti(s) ==
    LET x == jobs[s].session
    IN  /\ jobs[s].pc = "rotate"
        /\ sessions' = IF /\ sessions[x].state = "live" /\ sessions[x].key = jobs[s].key
                          /\ sessions[x].jti < MaxMints
                       THEN [sessions EXCEPT ![x].jti = @ + 1] ELSE sessions
        /\ Ends(s)
        /\ UNCHANGED <<keys, lock>> /\ Stays

-------------------------------------------------------------------------------
(* admin_guard and the operations behind it.                               *)

\* An operation with an access token that was minted for session x.
Call(s, x, jti) ==
    /\ jobs[s].pc = "idle" /\ begun < MaxRequests
    /\ sessions[x].state # "unused" /\ jti <= sessions[x].jti
    /\ begun' = begun + 1
    /\ Goto(s, NewJob("guardSession", sessions[x].pub, x, jti))
    /\ UNCHANGED <<keys, sessions, latch, setup, lock, purge, boot, cli>>

GuardSession(s) ==
    LET x == sessions[jobs[s].session]
    IN  /\ jobs[s].pc = "guardSession"
        /\ Goto(s, IF x.state = "live" /\ x.jti = jobs[s].jti
                   THEN [jobs[s] EXCEPT !.pc = "guardKey"] ELSE NoJob)
        /\ UNCHANGED <<keys, sessions, lock>> /\ Stays

GuardKey(s) ==
    /\ jobs[s].pc = "guardKey"
    /\ Goto(s, IF \E k \in LiveKeyOf(jobs[s].pub) : keys[k].state = "active"
               THEN [jobs[s] EXCEPT !.pc = "act"] ELSE NoJob)
    /\ UNCHANGED <<keys, sessions, lock>> /\ Stays

\* A transaction takes the lock and counts the live keys.
CountKeys(s, job) ==
    /\ jobs[s].pc = "act" /\ lock = None
    /\ lock' = s
    /\ Goto(s, job)
    /\ UNCHANGED <<keys, sessions>> /\ Stays

Commits(s) ==
    /\ Ends(s)
    /\ lock' = IF lock = s THEN None ELSE lock

\* admin_keys_add: refused at the cap.
BeginAdd(s, p) ==
    /\ Cardinality(Live) < MaxKeys
    /\ CountKeys(s, [jobs[s] EXCEPT !.pc = "add", !.pub = p])

AddKey(s, k) ==
    /\ jobs[s].pc = "add"
    /\ CanInsert(k, jobs[s].pub)
    /\ keys' = Inserted(keys, k, jobs[s].pub, "pending", "ahead")
    /\ Commits(s)
    /\ UNCHANGED sessions /\ Stays

\* A slip: the floor is off by one.
BeginRevokeLast(s, k) ==
    /\ Cardinality(Live) >= 1
    /\ CountKeys(s, [jobs[s] EXCEPT !.pc = "revoke", !.key = k])

\* admin_keys_revoke: never the last live key.
BeginRevoke(s, k) ==
    /\ Cardinality(Live) > 1
    /\ CountKeys(s, [jobs[s] EXCEPT !.pc = "revoke", !.key = k])

RevokeKey(s) ==
    /\ jobs[s].pc = "revoke" /\ jobs[s].key \in Live
    /\ keys' = Revoked(keys, jobs[s].key)
    /\ sessions' = SessionsWithout(jobs[s].key)
    /\ Commits(s)
    /\ Stays

\* admin_keys_rotate, also of the last live key; nothing is counted.
RotateKey(s, old, k, p) ==
    /\ jobs[s].pc = "act" /\ lock = None
    /\ CanRotate(old, k, p)
    /\ keys' = Inserted(Revoked(keys, old), k, p, "pending", "ahead")
    /\ sessions' = SessionsWithout(old)
    /\ Ends(s)
    /\ UNCHANGED lock /\ Stays

\* admin_logout.
Logout(s) ==
    /\ jobs[s].pc = "act"
    /\ sessions' = [sessions EXCEPT ![jobs[s].session].state = "dead"]
    /\ Ends(s)
    /\ UNCHANGED <<keys, lock>> /\ Stays

\* An error, a refusal or a broken connection ends the request; its transaction is
\* rolled back.
Abort(s) ==
    /\ jobs[s].pc # "idle"
    /\ Commits(s)
    /\ UNCHANGED <<keys, sessions>> /\ Stays

-------------------------------------------------------------------------------
(* smirk-admin and the boot sequence.                                      *)

Command ==
    /\ cli < MaxCli /\ lock = None
    /\ cli' = cli + 1
    /\ UNCHANGED <<lock, boot, jobs, begun>>

\* add-key, without a cap or a deadline.
CliAddKey(k, p) ==
    /\ Command
    /\ CanInsert(k, p)
    /\ keys' = Inserted(keys, k, p, "pending", "none")
    /\ UNCHANGED <<sessions, latch, setup, purge>>

\* revoke-key, also of the last key.
CliRevokeKey(k) ==
    /\ Command
    /\ k \in Live
    /\ keys' = Revoked(keys, k)
    /\ sessions' = SessionsWithout(k)
    /\ UNCHANGED <<latch, setup, purge>>

\* replace-key; with --revoke-all it goes on to list the keys and to revoke the
\* others, one transaction each.
CliReplaceKey(old, k, p, all) ==
    /\ Command
    /\ CanRotate(old, k, p)
    /\ keys' = Inserted(Revoked(keys, old), k, p, "pending", "none")
    /\ sessions' = SessionsWithout(old)
    /\ all => purge.pc = "idle"
    /\ purge' = IF all THEN [NoPurge EXCEPT !.pc = "list", !.keep = k] ELSE purge
    /\ UNCHANGED <<latch, setup>>

PurgeList ==
    /\ purge.pc = "list"
    /\ purge' = [purge EXCEPT !.pc = "revoke", !.todo = Live \ {purge.keep}]
    /\ UNCHANGED <<keys, sessions, latch, setup, lock, boot, jobs, begun, cli>>

PurgeKey(k) ==
    /\ purge.pc = "revoke" /\ k \in purge.todo /\ lock = None
    /\ purge' = [purge EXCEPT !.todo = @ \ {k}]
    /\ keys' = IF k \in Live THEN Revoked(keys, k) ELSE keys
    /\ sessions' = IF k \in Live THEN SessionsWithout(k) ELSE sessions
    /\ UNCHANGED <<latch, setup, lock, boot, jobs, begun, cli>>

\* The command is done, or interrupted.
PurgeEnds ==
    /\ purge.pc # "idle"
    /\ purge' = NoPurge
    /\ UNCHANGED <<keys, sessions, latch, setup, lock, boot, jobs, begun, cli>>

\* setup: bootstrap_admin seeds an active admin unless a live key exists, and latches.
Setup(k, p) ==
    /\ Command
    /\ Live = {} /\ CanInsert(k, p)
    /\ keys' = Inserted(keys, k, p, "active", "none")
    /\ latch' = "locked" /\ setup' = TRUE
    /\ UNCHANGED <<sessions, purge>>

\* create-admin-wallet: a pending key, and the latch unless it is locked already.
CreateAdminWallet(k, p) ==
    /\ Command
    /\ CanInsert(k, p)
    /\ keys' = Inserted(keys, k, p, "pending", "none")
    /\ latch' = "locked" /\ setup' = TRUE
    /\ UNCHANGED <<sessions, purge>>

\* reset-setup.
ResetSetup ==
    /\ Command
    /\ latch' = "uninitialized" /\ setup' = FALSE
    /\ UNCHANGED <<keys, sessions, purge>>

\* main: an absent latch is initialised, locked when the database has admin keys or
\* users (who are not modelled here).
BootRead ==
    /\ boot = "read"
    /\ boot' \in IF latch # "absent" THEN {"up"}
                 ELSE IF \E k \in KeyIds : keys[k].state # "unused" THEN {"adopt"}
                 ELSE {"adopt", "fresh"}
    /\ UNCHANGED <<keys, sessions, latch, setup, lock, purge, jobs, begun, cli>>

\* A slip: the insert overwrites a latch that appeared since.
InitServerConfigForced ==
    /\ boot \in {"adopt", "fresh"}
    /\ latch' = IF boot = "adopt" THEN "locked" ELSE "uninitialized"
    /\ boot' = "up"
    /\ UNCHANGED <<keys, sessions, setup, lock, purge, jobs, begun, cli>>

\* init_server_config: ON CONFLICT DO NOTHING.
InitServerConfig ==
    /\ boot \in {"adopt", "fresh"}
    /\ latch' = IF latch # "absent" THEN latch
                ELSE IF boot = "adopt" THEN "locked" ELSE "uninitialized"
    /\ boot' = "up"
    /\ UNCHANGED <<keys, sessions, setup, lock, purge, jobs, begun, cli>>

\* Time: an activation deadline, which keys added over the network have, or a
\* session ends.
DeadlinePasses(k) ==
    /\ keys[k].state = "pending" /\ keys[k].deadline = "ahead"
    /\ keys' = [keys EXCEPT ![k].deadline = "passed"]
    /\ UNCHANGED <<sessions, lock, jobs>> /\ Stays

SessionExpires(x) ==
    /\ sessions[x].state = "live"
    /\ sessions' = [sessions EXCEPT ![x].state = "dead"]
    /\ UNCHANGED <<keys, lock, jobs>> /\ Stays

-------------------------------------------------------------------------------

\* A request is served once the process is up.
Request(s) ==
    /\ boot = "up"
    /\ \/ \E p \in Pubs : Login(s, p)
       \/ Authorize(s) \/ Activate(s)
       \/ \E x \in SessionIds : CreateSession(s, x) \/ Refresh(s, x)
       \/ RefreshKey(s) \/ RotateJti(s)
       \/ \E x \in SessionIds, jti \in 0..MaxMints : Call(s, x, jti)
       \/ GuardSession(s) \/ GuardKey(s)
       \/ \E p \in Pubs : BeginAdd(s, p)
       \/ \E k \in KeyIds : BeginRevoke(s, k) \/ AddKey(s, k)
       \/ RevokeKey(s)
       \/ \E old, k \in KeyIds, p \in Pubs : RotateKey(s, old, k, p)
       \/ Logout(s) \/ Abort(s)

Cli ==
    \/ \E k \in KeyIds, p \in Pubs : CliAddKey(k, p) \/ Setup(k, p) \/ CreateAdminWallet(k, p)
    \/ \E k \in KeyIds : CliRevokeKey(k)
    \/ \E old, k \in KeyIds, p \in Pubs, all \in BOOLEAN : CliReplaceKey(old, k, p, all)
    \/ PurgeList \/ PurgeEnds \/ \E k \in KeyIds : PurgeKey(k)
    \/ ResetSetup

Next ==
    \/ \E s \in Slots : Request(s)
    \/ Cli
    \/ BootRead \/ InitServerConfig
    \/ \E k \in KeyIds : DeadlinePasses(k)
    \/ \E x \in SessionIds : SessionExpires(x)

Spec == Init /\ [][Next]_vars

-------------------------------------------------------------------------------
(* Properties.                                                             *)

\* The step ends the last transaction of request s.
NetworkActs(s) == jobs[s].pc \in {"act", "add", "revoke"} /\ jobs[s] # jobs'[s]

\* No request over the network empties the allowlist, whatever several admins and
\* the shell revoke or rotate at once (the floor of revoke_admin_key_full).
NetworkKeepsAKey ==
    [][(\E s \in Slots : NetworkActs(s)) /\ Live # {} => Live' # {}]_vars

\* No request over the network grows the allowlist past ADMIN_MAX_KEYS, whatever is
\* added at once (the cap of create_admin_key_audited).
NetworkAddsUnderCap ==
    [][(\E s \in Slots : NetworkActs(s)) /\ Cardinality(Live') > Cardinality(Live)
       => Cardinality(Live') <= MaxKeys]_vars

\* A revoked key never comes back: neither the activation of a login that read the
\* key before, nor anything else, un-revokes a row.
RevokedForGood ==
    [][\A k \in KeyIds : keys[k].state = "revoked" => keys'[k] = keys[k]]_vars

\* "A revoked admin's in-flight refresh token cannot mint anew" (admin_refresh): an
\* access token is minted only for a session whose own key is live at that moment,
\* even when the session was inserted after the revocation or the pubkey was re-added.
MintsForLiveKeys ==
    [][\A x \in SessionIds : sessions'[x].jti > sessions[x].jti => sessions[x].key \in Live]_vars

\* A bootstrapped instance stays latched until reset-setup, also when it is
\* bootstrapped while the server boots.
BootstrapStaysLatched == setup => latch = "locked"
===============================================================================
