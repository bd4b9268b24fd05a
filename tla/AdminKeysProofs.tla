---------------------------- MODULE AdminKeysProofs ----------------------------
(***************************************************************************)
(* The admin plane, for any number of keys, sessions, pubkeys, concurrent  *)
(* requests and shell commands.                                            *)
(***************************************************************************)
EXTENDS AdminKeys, FiniteSetTheorems, TLAPS

-------------------------------------------------------------------------------
(* Well-formed state.                                                      *)

\* A request at one of these steps has a key, a session or a pubkey to work on.
JobShaped(job) ==
    /\ job.pc \in {"authz", "activate", "session", "refreshKey", "rotate", "add"} =>
         job.pub \in Pubs
    /\ job.pc \in {"activate", "session", "rotate", "revoke"} => job.key \in KeyIds
    /\ job.pc \in {"refreshKey", "rotate", "guardSession", "guardKey", "act"} =>
         job.session \in SessionIds

\* A session in use stays in use, live or dead.
InUse(x) == x \in SessionIds => sessions[x].state # "unused"

Shaped ==
    /\ \A s \in Slots : JobShaped(jobs[s]) /\ InUse(jobs[s].session)
    /\ \A x \in SessionIds : sessions[x].state # "unused" => sessions[x].pub \in Pubs

TInv == TypeOK /\ Shaped

\* The request may go on as job.
Continues(s, job) ==
    /\ job \in Job /\ JobShaped(job)
    /\ job.session \in {None, jobs[s].session} \/ InUse(job.session)

SessionsKept ==
    /\ sessions' \in [SessionIds -> Session]
    /\ \A x \in SessionIds :
          /\ sessions[x].state # "unused" => sessions'[x].state # "unused"
          /\ sessions'[x].state # "unused" => sessions'[x].pub \in Pubs

\* What a request does to its own state and to the sessions keeps TInv.
LEMMA GotoShaped ==
    ASSUME TInv, NEW s \in Slots, NEW job, Continues(s, job), Goto(s, job), SessionsKept
    PROVE  jobs' \in [Slots -> Job] /\ Shaped'
<1>1. jobs' \in [Slots -> Job] /\ jobs' = [jobs EXCEPT ![s] = job]
    BY DEF TInv, TypeOK, Goto, Continues
<1>2. ASSUME NEW r \in Slots PROVE JobShaped(jobs'[r]) /\ InUse(jobs[r].session)'
  <2>1. CASE r = s
    BY <1>1, <2>1, AdminAssumption DEF Continues, SessionsKept, InUse, TInv, TypeOK, Shaped,
       SessionIds
  <2>2. CASE r # s
    BY <1>1, <2>2 DEF SessionsKept, InUse, TInv, TypeOK, Shaped
  <2> QED
    BY <2>1, <2>2
<1> QED
    BY <1>1, <1>2 DEF Shaped, SessionsKept

LEMMA SameSessions == ASSUME TInv, UNCHANGED sessions PROVE SessionsKept
    BY DEF TInv, TypeOK, Shaped, SessionsKept

LEMMA IdleShaped == \A s : Continues(s, NoJob)
    BY AdminAssumption DEF NoJob, NewJob, Job, JobShaped, Continues

LEMMA KeyTables ==
    ASSUME TypeOK
    PROVE  /\ \A k \in KeyIds : Revoked(keys, k) \in [KeyIds -> Key]
           /\ \A t \in [KeyIds -> Key], k \in KeyIds, p \in Pubs, st \in {"pending", "active"},
                 d \in {"none", "ahead"} : Inserted(t, k, p, st, d) \in [KeyIds -> Key]
    BY DEF TypeOK, Revoked, Inserted, Key

LEMMA SessionsWithoutKept ==
    ASSUME TInv, NEW k \in KeyIds, sessions' = SessionsWithout(k)
    PROVE  SessionsKept
<1>1. ASSUME NEW x \in SessionIds
      PROVE  /\ sessions'[x] \in Session
             /\ sessions[x].state # "unused" => sessions'[x].state # "unused"
             /\ sessions'[x].state # "unused" => sessions'[x].pub \in Pubs
    BY <1>1 DEF TInv, TypeOK, Shaped, Session, SessionsWithout
<1> QED
    BY <1>1 DEF SessionsWithout, SessionsKept

-------------------------------------------------------------------------------
(* Type correctness, request by request.                                   *)

LEMMA RequestTyped ==
    ASSUME TInv, NEW s \in Slots, Request(s)
    PROVE  TInv'
<1> USE DEF Stays
<1>1. ASSUME NEW p \in Pubs, Login(s, p) PROVE TInv'
  <2> DEFINE job == NewJob("authz", p, None, 0)
  <2>3. Continues(s, job)
    BY AdminAssumption DEF NewJob, Job, JobShaped, Continues
  <2>2. Goto(s, job)
    BY <1>1 DEF Login
  <2> QED
    BY <1>1, <2>2, <2>3, SameSessions, GotoShaped, AdminAssumption DEF Login, TInv, TypeOK,
       SessionsKept
<1>2. ASSUME Authorize(s) PROVE TInv'
  <2>1. PICK job : /\ Goto(s, job)
                   /\ \/ job = NoJob
                      \/ \E k \in KeyIds, pc \in {"session", "activate"} :
                            job = [jobs[s] EXCEPT !.pc = pc, !.key = k]
    BY <1>2 DEF Authorize, LiveKeyOf, Live, Ends
  <2>2. Continues(s, job)
    BY <1>2, <2>1, IdleShaped DEF Authorize, TInv, TypeOK, Shaped, Job, JobShaped, Continues, InUse
  <2> QED
    BY <1>2, <2>1, <2>2, SameSessions, GotoShaped DEF Authorize, TInv, TypeOK, SessionsKept
<1>3. ASSUME Activate(s) PROVE TInv'
  <2> DEFINE job == [jobs[s] EXCEPT !.pc = "session"]
  <2>1. Continues(s, job) /\ jobs[s].key \in KeyIds
    BY <1>3 DEF Activate, TInv, TypeOK, Shaped, Job, JobShaped, Continues, InUse
  <2>2. keys' \in [KeyIds -> Key]
    BY <1>3, <2>1 DEF Activate, TInv, TypeOK, Key
  <2>3. Goto(s, job)
    BY <1>3 DEF Activate
  <2> QED
    BY <1>3, <2>1, <2>2, <2>3, SameSessions, GotoShaped DEF Activate, TInv, TypeOK, SessionsKept
<1>4. ASSUME NEW x \in SessionIds, CreateSession(s, x) PROVE TInv'
  <2> DEFINE row == [state |-> "live", key |-> jobs[s].key, pub |-> jobs[s].pub, jti |-> 0]
  <2>1. row \in Session /\ row.pub \in Pubs
    BY <1>4, AdminAssumption DEF CreateSession, TInv, TypeOK, Shaped, Job, JobShaped, Session
  <2>2. sessions' = [sessions EXCEPT ![x] = row]
    BY <1>4 DEF CreateSession
  <2>3. SessionsKept
    BY <2>1, <2>2 DEF TInv, TypeOK, Shaped, SessionsKept
  <2>4. Goto(s, NoJob)
    BY <1>4 DEF CreateSession, Ends
  <2> QED
    BY <1>4, <2>3, <2>4, IdleShaped, SameSessions, GotoShaped DEF CreateSession, TInv, TypeOK,
       SessionsKept
<1>5. ASSUME NEW x \in SessionIds, Refresh(s, x) PROVE TInv'
  <2> DEFINE job == NewJob("refreshKey", sessions[x].pub, x, 0)
  <2>3. Continues(s, job)
    BY <1>5, AdminAssumption DEF Refresh, NewJob, Job, JobShaped, Continues, InUse, TInv,
       TypeOK, Shaped
  <2>2. Goto(s, job)
    BY <1>5 DEF Refresh
  <2> QED
    BY <1>5, <2>2, <2>3, SameSessions, GotoShaped, AdminAssumption DEF Refresh, TInv, TypeOK,
       SessionsKept
<1>6. ASSUME RefreshKey(s) PROVE TInv'
  <2>1. PICK job : /\ Goto(s, job)
                   /\ \/ job = NoJob
                      \/ \E k \in KeyIds : job = [jobs[s] EXCEPT !.pc = "rotate", !.key = k]
    BY <1>6 DEF RefreshKey, LiveKeyOf, Live, Ends
  <2>2. Continues(s, job)
    BY <1>6, <2>1, IdleShaped DEF RefreshKey, TInv, TypeOK, Shaped, Job, JobShaped, Continues, InUse
  <2> QED
    BY <1>6, <2>1, <2>2, SameSessions, GotoShaped DEF RefreshKey, TInv, TypeOK, SessionsKept
<1>7. ASSUME RotateJti(s) PROVE TInv'
  <2>1. jobs[s].session \in SessionIds
    BY <1>7 DEF RotateJti, TInv, TypeOK, Shaped, Job, JobShaped, Continues, InUse
  <2>2. SessionsKept
    BY <1>7, <2>1, AdminAssumption DEF RotateJti, TInv, TypeOK, Shaped, Session, SessionsKept
  <2>3. Goto(s, NoJob)
    BY <1>7 DEF RotateJti, Ends
  <2> QED
    BY <1>7, <2>2, <2>3, IdleShaped, SameSessions, GotoShaped DEF RotateJti, TInv, TypeOK,
       SessionsKept
<1>8. ASSUME NEW x \in SessionIds, NEW jti \in 0..MaxMints, Call(s, x, jti) PROVE TInv'
  <2> DEFINE job == NewJob("guardSession", sessions[x].pub, x, jti)
  <2>3. Continues(s, job)
    BY <1>8, AdminAssumption DEF Call, NewJob, Job, JobShaped, Continues, InUse, TInv, TypeOK,
       Shaped, Session
  <2>2. Goto(s, job)
    BY <1>8 DEF Call
  <2> QED
    BY <1>8, <2>2, <2>3, SameSessions, GotoShaped, AdminAssumption DEF Call, TInv, TypeOK,
       SessionsKept
<1>9. ASSUME GuardSession(s) \/ GuardKey(s) PROVE TInv'
  <2>1. PICK job : /\ Goto(s, job)
                   /\ \/ job = NoJob
                      \/ \E pc \in {"guardKey", "act"} : job = [jobs[s] EXCEPT !.pc = pc]
    BY <1>9 DEF GuardSession, GuardKey
  <2>2. Continues(s, job)
    BY <1>9, <2>1, IdleShaped DEF GuardSession, GuardKey, TInv, TypeOK, Shaped, Job, JobShaped,
       Continues, InUse
  <2> QED
    BY <1>9, <2>1, <2>2, SameSessions, GotoShaped DEF GuardSession, GuardKey, TInv, TypeOK,
       SessionsKept
<1>10. ASSUME NEW p \in Pubs, BeginAdd(s, p) PROVE TInv'
  <2> DEFINE job == [jobs[s] EXCEPT !.pc = "add", !.pub = p]
  <2>1. Continues(s, job)
    BY DEF TInv, TypeOK, Job, JobShaped, Continues, InUse
  <2>2. CountKeys(s, job)
    BY <1>10 DEF BeginAdd
  <2> QED
    BY <2>1, <2>2, SameSessions, GotoShaped DEF CountKeys, TInv, TypeOK, SessionsKept
<1>11. ASSUME NEW k \in KeyIds, BeginRevoke(s, k) PROVE TInv'
  <2> DEFINE job == [jobs[s] EXCEPT !.pc = "revoke", !.key = k]
  <2>1. Continues(s, job)
    BY DEF TInv, TypeOK, Job, JobShaped, Continues, InUse
  <2>2. CountKeys(s, job)
    BY <1>11 DEF BeginRevoke
  <2> QED
    BY <2>1, <2>2, SameSessions, GotoShaped DEF CountKeys, TInv, TypeOK, SessionsKept
<1>12. ASSUME NEW k \in KeyIds, AddKey(s, k) PROVE TInv'
  <2>1. jobs[s].pub \in Pubs
    BY <1>12 DEF AddKey, TInv, TypeOK, Shaped, Job, JobShaped, Continues, InUse
  <2>2. keys' \in [KeyIds -> Key]
    BY <1>12, <2>1, KeyTables DEF AddKey, TInv, TypeOK
  <2>3. Goto(s, NoJob) /\ lock' \in Slots \union {None}
    BY <1>12 DEF AddKey, Commits, Ends, TInv, TypeOK
  <2> QED
    BY <1>12, <2>2, <2>3, IdleShaped, SameSessions, GotoShaped DEF AddKey, TInv, TypeOK,
       SessionsKept
<1>13. ASSUME RevokeKey(s) PROVE TInv'
  <2>1. jobs[s].key \in KeyIds
    BY <1>13 DEF RevokeKey, Live
  <2>2. /\ keys' \in [KeyIds -> Key]
        /\ SessionsKept
    BY <1>13, <2>1, KeyTables, SessionsWithoutKept DEF RevokeKey, TInv
  <2>3. Goto(s, NoJob) /\ lock' \in Slots \union {None}
    BY <1>13 DEF RevokeKey, Commits, Ends, TInv, TypeOK
  <2> QED
    BY <1>13, <2>2, <2>3, IdleShaped, SameSessions, GotoShaped DEF RevokeKey, TInv, TypeOK,
       SessionsKept
<1>14. ASSUME NEW old \in KeyIds, NEW k \in KeyIds, NEW p \in Pubs, RotateKey(s, old, k, p)
       PROVE  TInv'
  <2>1. /\ keys' \in [KeyIds -> Key]
        /\ SessionsKept
    BY <1>14, KeyTables, SessionsWithoutKept DEF RotateKey, TInv
  <2>2. Goto(s, NoJob)
    BY <1>14 DEF RotateKey, Ends
  <2> QED
    BY <1>14, <2>1, <2>2, IdleShaped, SameSessions, GotoShaped DEF RotateKey, TInv, TypeOK,
       SessionsKept
<1>15. ASSUME Logout(s) PROVE TInv'
  <2>1. jobs[s].session \in SessionIds
    BY <1>15 DEF Logout, TInv, TypeOK, Shaped, Job, JobShaped, Continues, InUse
  <2>2. SessionsKept
    BY <1>15, <2>1 DEF Logout, TInv, TypeOK, Shaped, InUse, Session, SessionsKept
  <2>3. Goto(s, NoJob)
    BY <1>15 DEF Logout, Ends
  <2> QED
    BY <1>15, <2>1, <2>2, <2>3, IdleShaped, SameSessions, GotoShaped DEF Logout, TInv, TypeOK,
       SessionsKept
<1>16. ASSUME Abort(s) PROVE TInv'
  <2>1. Goto(s, NoJob) /\ lock' \in Slots \union {None}
    BY <1>16 DEF Abort, Commits, Ends, TInv, TypeOK
  <2> QED
    BY <1>16, <2>1, IdleShaped, SameSessions, GotoShaped DEF Abort, TInv, TypeOK, SessionsKept
<1> QED
    BY <1>1, <1>2, <1>3, <1>4, <1>5, <1>6, <1>7, <1>8, <1>9, <1>10, <1>11, <1>12, <1>13,
       <1>14, <1>15, <1>16 DEF Request

LEMMA OthersShaped ==
    ASSUME TInv, UNCHANGED jobs, SessionsKept
    PROVE  jobs' \in [Slots -> Job] /\ Shaped'
<1>1. ASSUME NEW r \in Slots PROVE JobShaped(jobs'[r]) /\ InUse(jobs[r].session)'
    BY <1>1 DEF TInv, TypeOK, Shaped, InUse, SessionsKept
<1> QED
    BY <1>1 DEF TInv, TypeOK, Shaped, SessionsKept

LEMMA CommandTyped ==
    ASSUME TInv, Command
    PROVE  /\ lock' \in Slots \union {None} /\ boot' \in {"read", "adopt", "fresh", "up"}
           /\ begun' \in 0..MaxRequests /\ cli' \in 0..MaxCli
    BY AdminAssumption DEF TInv, TypeOK, Command

LEMMA CliTyped ==
    ASSUME TInv, Cli
    PROVE  TInv'
<1>1. ASSUME NEW k \in KeyIds, NEW p \in Pubs,
             CliAddKey(k, p) \/ Setup(k, p) \/ CreateAdminWallet(k, p)
      PROVE  TInv'
  <2>1. keys' \in [KeyIds -> Key] /\ UNCHANGED sessions /\ UNCHANGED jobs
    BY <1>1, KeyTables DEF CliAddKey, Setup, CreateAdminWallet, Command, TInv, TypeOK
  <2>2. jobs' \in [Slots -> Job] /\ Shaped' /\ SessionsKept
    BY <2>1, SameSessions, OthersShaped
  <2>3. /\ latch' \in {"absent", "uninitialized", "locked"} /\ setup' \in BOOLEAN
        /\ UNCHANGED purge
    BY <1>1 DEF CliAddKey, Setup, CreateAdminWallet, TInv, TypeOK
  <2>4. Command
    BY <1>1 DEF CliAddKey, Setup, CreateAdminWallet
  <2> QED
    BY <2>1, <2>2, <2>3, <2>4, CommandTyped DEF TInv, TypeOK, SessionsKept
<1>2. ASSUME NEW k \in KeyIds, CliRevokeKey(k) PROVE TInv'
  <2>1. keys' \in [KeyIds -> Key] /\ SessionsKept
    BY <1>2, KeyTables, SessionsWithoutKept DEF CliRevokeKey, TInv
  <2> QED
    BY <1>2, <2>1, OthersShaped, CommandTyped DEF CliRevokeKey, Command, TInv, TypeOK, SessionsKept
<1>3. ASSUME NEW old \in KeyIds, NEW k \in KeyIds, NEW p \in Pubs, NEW all \in BOOLEAN,
             CliReplaceKey(old, k, p, all)
      PROVE  TInv'
  <2>1. keys' \in [KeyIds -> Key] /\ SessionsKept
    BY <1>3, KeyTables, SessionsWithoutKept DEF CliReplaceKey, TInv
  <2>2. purge' \in Purge
    BY <1>3 DEF CliReplaceKey, TInv, TypeOK, NoPurge, Purge
  <2> QED
    BY <1>3, <2>1, <2>2, OthersShaped, CommandTyped DEF CliReplaceKey, Command, TInv, TypeOK,
       SessionsKept
<1>4. ASSUME PurgeList \/ PurgeEnds PROVE TInv'
  <2>1. ASSUME PurgeList PROVE purge' \in Purge
    <3>1. Live \ {purge.keep} \in SUBSET KeyIds
      BY DEF Live
    <3> QED
      BY <2>1, <3>1 DEF PurgeList, TInv, TypeOK, Purge
  <2>2. ASSUME PurgeEnds PROVE purge' \in Purge
    BY <2>2 DEF PurgeEnds, NoPurge, Purge
  <2>3. purge' \in Purge
    BY <1>4, <2>1, <2>2
  <2> QED
    BY <1>4, <2>3, SameSessions, OthersShaped DEF PurgeList, PurgeEnds, TInv, TypeOK
<1>5. ASSUME NEW k \in KeyIds, PurgeKey(k) PROVE TInv'
  <2>1. keys' \in [KeyIds -> Key]
    BY <1>5, KeyTables DEF PurgeKey, TInv, TypeOK
  <2>2. SessionsKept
    BY <1>5, SessionsWithoutKept, SameSessions DEF PurgeKey
  <2>3. purge' \in Purge
    BY <1>5 DEF PurgeKey, TInv, TypeOK, Purge
  <2> QED
    BY <1>5, <2>1, <2>2, <2>3, OthersShaped DEF PurgeKey, TInv, TypeOK, SessionsKept
<1>6. ASSUME ResetSetup PROVE TInv'
  <2>1. jobs' \in [Slots -> Job] /\ Shaped' /\ SessionsKept
    BY <1>6, SameSessions, OthersShaped DEF ResetSetup, Command
  <2> QED
    BY <1>6, <2>1, CommandTyped DEF ResetSetup, TInv, TypeOK, SessionsKept
<1> QED
    BY <1>1, <1>2, <1>3, <1>4, <1>5, <1>6 DEF Cli

LEMMA TInvInductive == TInv /\ [Next]_vars => TInv'
<1> SUFFICES ASSUME TInv, [Next]_vars PROVE TInv'
    OBVIOUS
<1>1. ASSUME NEW s \in Slots, Request(s) PROVE TInv'
    BY <1>1, RequestTyped
<1>2. ASSUME Cli PROVE TInv'
    BY <1>2, CliTyped
<1>3. ASSUME BootRead \/ InitServerConfig PROVE TInv'
    BY <1>3, SameSessions, OthersShaped DEF BootRead, InitServerConfig, TInv, TypeOK
<1>4. ASSUME NEW k \in KeyIds, DeadlinePasses(k) PROVE TInv'
  <2>1. keys' \in [KeyIds -> Key]
    BY <1>4 DEF DeadlinePasses, TInv, TypeOK, Key
  <2> QED
    BY <1>4, <2>1, SameSessions, OthersShaped DEF DeadlinePasses, Stays, TInv, TypeOK
<1>5. ASSUME NEW x \in SessionIds, SessionExpires(x) PROVE TInv'
  <2>1. SessionsKept
    BY <1>5 DEF SessionExpires, TInv, TypeOK, Shaped, Session, SessionsKept
  <2> QED
    BY <1>5, <2>1, OthersShaped DEF SessionExpires, Stays, TInv, TypeOK, SessionsKept
<1>6. ASSUME UNCHANGED vars PROVE TInv'
  <2>1. UNCHANGED sessions /\ UNCHANGED jobs
    BY <1>6 DEF vars
  <2> QED
    BY <1>6, <2>1, SameSessions, OthersShaped DEF vars, TInv, TypeOK
<1> QED
    BY <1>1, <1>2, <1>3, <1>4, <1>5, <1>6 DEF Next

LEMMA TInvInitial == Init => TInv
<1> SUFFICES ASSUME Init PROVE TInv
    OBVIOUS
<1>1. NoKey \in Key /\ NoSession \in Session /\ NoPurge \in Purge
    BY AdminAssumption DEF NoKey, Key, NoSession, Session, NoPurge, Purge
<1>2. NoJob \in Job
    BY IdleShaped DEF Continues
<1>3. 0 \in 0..MaxRequests /\ 0 \in 0..MaxCli
    BY AdminAssumption
<1>4. TypeOK
    BY <1>1, <1>2, <1>3 DEF Init, TypeOK
<1>5. Shaped
    BY IdleShaped, AdminAssumption
       DEF Init, Shaped, Continues, InUse, NoJob, NewJob, NoSession, SessionIds
<1> QED
    BY <1>4, <1>5 DEF TInv

\* The allowlist, the sessions, the latch and every request in flight stay well
\* formed (admin_keys, admin_sessions, server_config).
THEOREM AdminTypeCorrect == Spec => []TypeOK
<1>1. TInv => TypeOK
    BY DEF TInv
<1> QED
    BY <1>1, TInvInitial, TInvInductive, PTL DEF Spec

-------------------------------------------------------------------------------
(* What one step does to the allowlist, the lock and the sessions.         *)

RevokedKept == \A k \in KeyIds : keys[k].state = "revoked" => keys'[k] = keys[k]

\* A session in use keeps its key, and loses it from the allowlist only by dying.
SessionsFollow ==
    \A x \in SessionIds : sessions[x].state # "unused" =>
       /\ sessions'[x].key = sessions[x].key
       /\ sessions'[x].state = "live" =>
             /\ sessions[x].state = "live"
             /\ sessions[x].key \in Live => sessions[x].key \in Live'

Mints(x) == sessions'[x].jti > sessions[x].jti

\* Only the last step of a refresh mints, for the live session and the key it read.
MintsAtRotate(s) ==
    \A x \in SessionIds : Mints(x) =>
       /\ jobs[s].pc = "rotate" /\ x = jobs[s].session
       /\ sessions[x].state = "live" /\ sessions[x].key = jobs[s].key

Counted(pc) ==
    /\ pc = "add" => Cardinality(Live) < MaxKeys
    /\ pc = "revoke" => Cardinality(Live) > 1

InTransaction(job) == job.pc \in {"add", "revoke"}

\* A step of request s: nothing on the allowlist, the count under the lock, the
\* write after a count, a rotation under a free lock, or the end of a transaction.
Effect(s) ==
    \/ Live' = Live /\ lock' = lock /\ ~InTransaction(jobs'[s])
    \/ Live' = Live /\ lock = None /\ lock' = s /\ Counted(jobs'[s].pc)
    \/ jobs[s].pc = "add" /\ ~InTransaction(jobs'[s]) /\
         \E k \in KeyIds \ Live : Live' = Live \union {k}
    \/ jobs[s].pc = "revoke" /\ ~InTransaction(jobs'[s]) /\ \E k \in Live : Live' = Live \ {k}
    \/ /\ lock = None /\ ~InTransaction(jobs'[s])
       /\ \E old \in Live, k \in KeyIds \ Live : Live' = (Live \ {old}) \union {k}
    \/ Live' = Live /\ lock = s /\ ~InTransaction(jobs'[s])

LEMMA InsertedEffect ==
    ASSUME TypeOK, NEW k \in KeyIds, NEW p, NEW st \in {"pending", "active"}, NEW d,
           CanInsert(k, p), keys' = Inserted(keys, k, p, st, d)
    PROVE  k \notin Live /\ Live' = Live \union {k} /\ RevokedKept
<1>1. ASSUME NEW j \in KeyIds
      PROVE  /\ j = k => keys'[j].state = st
             /\ j # k => keys'[j] = keys[j]
    BY <1>1 DEF TypeOK, Inserted
<1>2. keys[k].state = "unused"
    BY DEF CanInsert, Fresh
<1> QED
    BY <1>1, <1>2 DEF Live, RevokedKept

LEMMA RevokedEffect ==
    ASSUME TypeOK, NEW k \in Live, keys' = Revoked(keys, k)
    PROVE  Live' = Live \ {k} /\ RevokedKept
<1>1. ASSUME NEW j \in KeyIds
      PROVE  /\ j = k => keys'[j].state = "revoked"
             /\ j # k => keys'[j] = keys[j]
    BY <1>1 DEF TypeOK, Revoked, Key, Live
<1> QED
    BY <1>1 DEF Live, RevokedKept

LEMMA RotatedEffect ==
    ASSUME TypeOK, NEW old \in KeyIds, NEW k \in KeyIds, NEW p, NEW d,
           CanRotate(old, k, p), keys' = Inserted(Revoked(keys, old), k, p, "pending", d)
    PROVE  /\ old \in Live /\ k \notin Live /\ Live' = (Live \ {old}) \union {k}
           /\ RevokedKept
<1>1. old \in Live /\ keys[k].state = "unused" /\ k # old
    BY DEF CanRotate, Fresh, Live
<1>2. ASSUME NEW j \in KeyIds
      PROVE  /\ j = k => keys'[j].state = "pending"
             /\ j = old => keys'[j].state = "revoked"
             /\ j # k /\ j # old => keys'[j] = keys[j]
    BY <1>1, <1>2 DEF TypeOK, Revoked, Inserted, Key
<1> QED
    BY <1>1, <1>2 DEF Live, RevokedKept

LEMMA SessionsWithoutEffect ==
    ASSUME TInv, NEW k \in KeyIds, sessions' = SessionsWithout(k), Live \ {k} \subseteq Live'
    PROVE  SessionsFollow /\ \A x \in SessionIds : ~Mints(x)
<1>1. ASSUME NEW x \in SessionIds
      PROVE  /\ sessions'[x].key = sessions[x].key
             /\ sessions'[x].jti = sessions[x].jti /\ sessions[x].jti \in Nat
             /\ sessions'[x].state = "live" => sessions[x].state = "live" /\ sessions[x].key # k
    BY <1>1, AdminAssumption DEF TInv, TypeOK, Session, SessionsWithout
<1> QED
    BY <1>1 DEF SessionsFollow, Mints

LEMMA SameSessionsEffect ==
    ASSUME TInv, UNCHANGED sessions, Live \subseteq Live'
    PROVE  SessionsFollow /\ \A x \in SessionIds : ~Mints(x)
<1>1. \A x \in SessionIds : sessions[x].jti \in Nat
    BY AdminAssumption DEF TInv, TypeOK, Session
<1> QED
    BY <1>1 DEF SessionsFollow, Mints

LEMMA SameKeysEffect == ASSUME UNCHANGED keys PROVE Live' = Live /\ RevokedKept
    BY DEF Live, RevokedKept

Moves(s) ==
    /\ \A r \in Slots \ {s} : jobs'[r] = jobs[r]
    /\ jobs'[s].pc = "rotate" => jobs'[s].key \in Live'
    /\ RevokedKept /\ SessionsFollow /\ MintsAtRotate(s) /\ Effect(s)

\* The step that a request takes to job leaves the other requests alone.
LEMMA GotoMoves ==
    ASSUME TInv, NEW s \in Slots, NEW job, Goto(s, job)
    PROVE  jobs'[s] = job /\ \A r \in Slots \ {s} : jobs'[r] = jobs[r]
    BY DEF TInv, TypeOK, Goto

LEMMA IdlePc == NoJob.pc = "idle"
    BY DEF NoJob, NewJob

LEMMA RequestMoves ==
    ASSUME TInv, NEW s \in Slots, Request(s)
    PROVE  Moves(s)
<1> USE DEF InTransaction
<1> DEFINE Silent == UNCHANGED <<keys, sessions, lock>>
<1>0. ASSUME Silent, NEW job, Goto(s, job), job.pc \notin {"add", "revoke"},
             job.pc = "rotate" => job.key \in Live
      PROVE  Moves(s)
  <2>1. Live' = Live /\ RevokedKept
    BY <1>0, SameKeysEffect
  <2>2. SessionsFollow /\ \A x \in SessionIds : ~Mints(x)
    BY <1>0, <2>1, SameSessionsEffect
  <2> QED
    BY <1>0, <2>1, <2>2, GotoMoves DEF Moves, Effect, MintsAtRotate
<1>1. ASSUME NEW p \in Pubs, Login(s, p) PROVE Moves(s)
  <2>1. NewJob("authz", p, None, 0).pc = "authz"
    BY DEF NewJob
  <2> QED
    BY <1>0, <1>1, <2>1 DEF Login
<1>2. ASSUME NEW x \in SessionIds, Refresh(s, x) PROVE Moves(s)
  <2>1. NewJob("refreshKey", sessions[x].pub, x, 0).pc = "refreshKey"
    BY DEF NewJob
  <2> QED
    BY <1>0, <1>2, <2>1 DEF Refresh
<1>3. ASSUME NEW x \in SessionIds, NEW jti \in 0..MaxMints, Call(s, x, jti) PROVE Moves(s)
  <2>1. NewJob("guardSession", sessions[x].pub, x, jti).pc = "guardSession"
    BY DEF NewJob
  <2> QED
    BY <1>0, <1>3, <2>1 DEF Call
<1>4. ASSUME Authorize(s) PROVE Moves(s)
  <2>1. PICK job : /\ Goto(s, job)
                   /\ \/ job = NoJob
                      \/ \E k \in KeyIds, pc \in {"session", "activate"} :
                            job = [jobs[s] EXCEPT !.pc = pc, !.key = k]
    BY <1>4 DEF Authorize, LiveKeyOf, Live, Ends
  <2>2. job.pc \in {"idle", "session", "activate"}
    BY <2>1, IdlePc DEF TInv, TypeOK, Job
  <2> QED
    BY <1>0, <1>4, <2>1, <2>2 DEF Authorize
<1>5. ASSUME RefreshKey(s) PROVE Moves(s)
  <2>1. PICK job : /\ Goto(s, job)
                   /\ \/ job = NoJob
                      \/ \E k \in Live : job = [jobs[s] EXCEPT !.pc = "rotate", !.key = k]
    BY <1>5 DEF RefreshKey, LiveKeyOf, Ends
  <2>2. job.pc = "idle" \/ (job.pc = "rotate" /\ job.key \in Live)
    BY <2>1, IdlePc DEF TInv, TypeOK, Job
  <2> QED
    BY <1>0, <1>5, <2>1, <2>2 DEF RefreshKey
<1>6. ASSUME GuardSession(s) \/ GuardKey(s) PROVE Moves(s)
  <2>1. PICK job : /\ Goto(s, job)
                   /\ \/ job = NoJob
                      \/ \E pc \in {"guardKey", "act"} : job = [jobs[s] EXCEPT !.pc = pc]
    BY <1>6 DEF GuardSession, GuardKey
  <2>2. job.pc \in {"idle", "guardKey", "act"}
    BY <2>1, IdlePc DEF TInv, TypeOK, Job
  <2> QED
    BY <1>0, <1>6, <2>1, <2>2 DEF GuardSession, GuardKey
<1>7. ASSUME Activate(s) PROVE Moves(s)
  <2> DEFINE job == [jobs[s] EXCEPT !.pc = "session"]
  <2>1. jobs[s].key \in KeyIds /\ job.pc = "session"
    BY <1>7 DEF Activate, TInv, TypeOK, Shaped, Job, JobShaped
  <2>2. Live' = Live /\ RevokedKept
    BY <1>7, <2>1 DEF Activate, TInv, TypeOK, Key, Live, RevokedKept
  <2>3. SessionsFollow /\ \A x \in SessionIds : ~Mints(x)
    BY <1>7, <2>2, SameSessionsEffect DEF Activate
  <2>4. Goto(s, job) /\ lock' = lock
    BY <1>7 DEF Activate
  <2> QED
    BY <2>1, <2>2, <2>3, <2>4, GotoMoves DEF Moves, Effect, MintsAtRotate
<1>8. ASSUME NEW x \in SessionIds, CreateSession(s, x) PROVE Moves(s)
  <2>1. Live' = Live /\ RevokedKept
    BY <1>8, SameKeysEffect DEF CreateSession
  <2>2. sessions[x].state = "unused" /\ \A y \in SessionIds : sessions[y].jti \in Nat
    BY <1>8, AdminAssumption DEF CreateSession, Fresh, TInv, TypeOK, Session
  <2>3. \A y \in SessionIds \ {x} : sessions'[y] = sessions[y]
    BY <1>8 DEF CreateSession, TInv, TypeOK
  <2>4. sessions'[x].jti = 0
    BY <1>8 DEF CreateSession, TInv, TypeOK
  <2>5. SessionsFollow /\ \A y \in SessionIds : ~Mints(y)
    BY <2>1, <2>2, <2>3, <2>4 DEF SessionsFollow, Mints
  <2>6. Goto(s, NoJob) /\ lock' = lock
    BY <1>8 DEF CreateSession, Ends
  <2> QED
    BY <2>1, <2>5, <2>6, GotoMoves, IdlePc DEF Moves, Effect, MintsAtRotate
<1>9. ASSUME RotateJti(s) PROVE Moves(s)
  <2>1. Live' = Live /\ RevokedKept
    BY <1>9, SameKeysEffect DEF RotateJti
  <2>2. ASSUME NEW y \in SessionIds
        PROVE  /\ sessions'[y].key = sessions[y].key /\ sessions'[y].state = sessions[y].state
               /\ Mints(y) => /\ y = jobs[s].session /\ sessions[y].state = "live"
                              /\ sessions[y].key = jobs[s].key
    BY <1>9, <2>2, AdminAssumption DEF RotateJti, TInv, TypeOK, Session, Mints
  <2>3. SessionsFollow /\ MintsAtRotate(s)
    BY <1>9, <2>1, <2>2 DEF RotateJti, SessionsFollow, MintsAtRotate
  <2>4. Goto(s, NoJob) /\ lock' = lock
    BY <1>9 DEF RotateJti, Ends
  <2> QED
    BY <2>1, <2>3, <2>4, GotoMoves, IdlePc DEF Moves, Effect
<1>10. ASSUME NEW job, CountKeys(s, job), job.pc \in {"add", "revoke"}, Counted(job.pc)
       PROVE  Moves(s)
  <2>1. Live' = Live /\ RevokedKept
    BY <1>10, SameKeysEffect DEF CountKeys
  <2>2. SessionsFollow /\ \A x \in SessionIds : ~Mints(x)
    BY <1>10, <2>1, SameSessionsEffect DEF CountKeys
  <2> QED
    BY <1>10, <2>1, <2>2, GotoMoves DEF CountKeys, Moves, Effect, MintsAtRotate
<1>11. ASSUME NEW p \in Pubs, BeginAdd(s, p) PROVE Moves(s)
  <2>1. [jobs[s] EXCEPT !.pc = "add", !.pub = p].pc = "add"
    BY DEF TInv, TypeOK, Job
  <2>2. Counted("add")
    BY <1>11 DEF BeginAdd, Counted
  <2> QED
    BY <1>10, <1>11, <2>1, <2>2 DEF BeginAdd
<1>12. ASSUME NEW k \in KeyIds, BeginRevoke(s, k) PROVE Moves(s)
  <2>1. [jobs[s] EXCEPT !.pc = "revoke", !.key = k].pc = "revoke"
    BY DEF TInv, TypeOK, Job
  <2>2. Counted("revoke")
    BY <1>12 DEF BeginRevoke, Counted
  <2> QED
    BY <1>10, <1>12, <2>1, <2>2 DEF BeginRevoke
<1>13. ASSUME NEW k \in KeyIds, AddKey(s, k) PROVE Moves(s)
  <2>1. k \notin Live /\ Live' = Live \union {k} /\ RevokedKept
    BY <1>13, InsertedEffect DEF AddKey, TInv
  <2>2. SessionsFollow /\ \A x \in SessionIds : ~Mints(x)
    BY <1>13, <2>1, SameSessionsEffect DEF AddKey
  <2>3. Goto(s, NoJob) /\ jobs[s].pc = "add"
    BY <1>13 DEF AddKey, Commits, Ends
  <2> QED
    BY <2>1, <2>2, <2>3, GotoMoves, IdlePc DEF Moves, Effect, MintsAtRotate
<1>14. ASSUME RevokeKey(s) PROVE Moves(s)
  <2> DEFINE k == jobs[s].key
  <2>0. k \in Live /\ k \in KeyIds
    BY <1>14 DEF RevokeKey, Live
  <2>1. Live' = Live \ {k} /\ RevokedKept
    BY <1>14, <2>0, RevokedEffect DEF RevokeKey, TInv
  <2>2. SessionsFollow /\ \A x \in SessionIds : ~Mints(x)
    BY <1>14, <2>0, <2>1, SessionsWithoutEffect DEF RevokeKey
  <2>3. Goto(s, NoJob) /\ jobs[s].pc = "revoke"
    BY <1>14 DEF RevokeKey, Commits, Ends
  <2> QED
    BY <2>0, <2>1, <2>2, <2>3, GotoMoves, IdlePc DEF Moves, Effect, MintsAtRotate
<1>15. ASSUME NEW old \in KeyIds, NEW k \in KeyIds, NEW p \in Pubs, RotateKey(s, old, k, p)
       PROVE  Moves(s)
  <2>1. /\ old \in Live /\ k \notin Live /\ Live' = (Live \ {old}) \union {k}
        /\ RevokedKept
    BY <1>15, RotatedEffect DEF RotateKey, TInv
  <2>2. SessionsFollow /\ \A x \in SessionIds : ~Mints(x)
    BY <1>15, <2>1, SessionsWithoutEffect DEF RotateKey
  <2>3. Goto(s, NoJob) /\ lock = None
    BY <1>15 DEF RotateKey, Ends
  <2> QED
    BY <2>1, <2>2, <2>3, GotoMoves, IdlePc DEF Moves, Effect, MintsAtRotate
<1>16. ASSUME Logout(s) PROVE Moves(s)
  <2>1. Live' = Live /\ RevokedKept
    BY <1>16, SameKeysEffect DEF Logout
  <2>2. ASSUME NEW y \in SessionIds
        PROVE  /\ sessions'[y].key = sessions[y].key
               /\ sessions'[y].jti = sessions[y].jti /\ sessions[y].jti \in Nat
               /\ sessions'[y].state = "live" => sessions[y].state = "live"
    BY <1>16, <2>2, AdminAssumption DEF Logout, TInv, TypeOK, Session
  <2>3. SessionsFollow /\ \A y \in SessionIds : ~Mints(y)
    BY <2>1, <2>2 DEF SessionsFollow, Mints
  <2>4. Goto(s, NoJob) /\ lock' = lock
    BY <1>16 DEF Logout, Ends
  <2> QED
    BY <2>1, <2>3, <2>4, GotoMoves, IdlePc DEF Moves, Effect, MintsAtRotate
<1>17. ASSUME Abort(s) PROVE Moves(s)
  <2>1. Live' = Live /\ RevokedKept
    BY <1>17, SameKeysEffect DEF Abort
  <2>2. SessionsFollow /\ \A x \in SessionIds : ~Mints(x)
    BY <1>17, <2>1, SameSessionsEffect DEF Abort
  <2>3. Goto(s, NoJob) /\ (lock' = lock \/ lock = s)
    BY <1>17 DEF Abort, Commits, Ends
  <2> QED
    BY <2>1, <2>2, <2>3, GotoMoves, IdlePc DEF Moves, Effect, MintsAtRotate
<1> QED
    BY <1>1, <1>2, <1>3, <1>4, <1>5, <1>6, <1>7, <1>8, <1>9, <1>11, <1>12, <1>13, <1>14,
       <1>15, <1>16, <1>17 DEF Request

\* A step that is no request's: a shell command, the boot sequence or time.  It
\* touches the allowlist only while the lock is free.
Other ==
    \/ Cli \/ BootRead \/ InitServerConfig
    \/ \E k \in KeyIds : DeadlinePasses(k)
    \/ \E x \in SessionIds : SessionExpires(x)

OtherMoves ==
    /\ UNCHANGED jobs
    /\ \/ lock = None
       \/ Live' = Live /\ lock' = lock
    /\ RevokedKept /\ SessionsFollow
    /\ \A x \in SessionIds : ~Mints(x)

LEMMA OtherEffect == ASSUME TInv, Other PROVE OtherMoves
<1>1. ASSUME NEW k \in KeyIds, NEW p \in Pubs,
             CliAddKey(k, p) \/ Setup(k, p) \/ CreateAdminWallet(k, p)
      PROVE  OtherMoves
  <2>1. Live' = Live \union {k} /\ RevokedKept
    BY <1>1, InsertedEffect DEF CliAddKey, Setup, CreateAdminWallet, TInv
  <2>2. SessionsFollow /\ \A x \in SessionIds : ~Mints(x)
    BY <1>1, <2>1, SameSessionsEffect DEF CliAddKey, Setup, CreateAdminWallet
  <2> QED
    BY <1>1, <2>1, <2>2 DEF CliAddKey, Setup, CreateAdminWallet, Command, OtherMoves
<1>2. ASSUME NEW k \in KeyIds, CliRevokeKey(k) PROVE OtherMoves
  <2>1. Live' = Live \ {k} /\ RevokedKept
    BY <1>2, RevokedEffect DEF CliRevokeKey, TInv
  <2>2. SessionsFollow /\ \A x \in SessionIds : ~Mints(x)
    BY <1>2, <2>1, SessionsWithoutEffect DEF CliRevokeKey
  <2> QED
    BY <1>2, <2>1, <2>2 DEF CliRevokeKey, Command, OtherMoves
<1>3. ASSUME NEW old \in KeyIds, NEW k \in KeyIds, NEW p \in Pubs, NEW all \in BOOLEAN,
             CliReplaceKey(old, k, p, all)
      PROVE  OtherMoves
  <2>1. Live' = (Live \ {old}) \union {k} /\ RevokedKept
    BY <1>3, RotatedEffect DEF CliReplaceKey, TInv
  <2>2. SessionsFollow /\ \A x \in SessionIds : ~Mints(x)
    BY <1>3, <2>1, SessionsWithoutEffect DEF CliReplaceKey
  <2> QED
    BY <1>3, <2>1, <2>2 DEF CliReplaceKey, Command, OtherMoves
<1>4. ASSUME NEW k \in KeyIds, PurgeKey(k) PROVE OtherMoves
  <2>1. Live' = Live \ {k} /\ RevokedKept
    BY <1>4, RevokedEffect, SameKeysEffect DEF PurgeKey, TInv
  <2>2. SessionsFollow /\ \A x \in SessionIds : ~Mints(x)
    BY <1>4, <2>1, SessionsWithoutEffect, SameSessionsEffect DEF PurgeKey
  <2> QED
    BY <1>4, <2>1, <2>2 DEF PurgeKey, OtherMoves
<1>5. ASSUME UNCHANGED <<keys, sessions, lock, jobs>> PROVE OtherMoves
    BY <1>5, SameKeysEffect, SameSessionsEffect DEF OtherMoves
<1>6. ASSUME NEW k \in KeyIds, DeadlinePasses(k) PROVE OtherMoves
  <2>1. Live' = Live /\ RevokedKept
    BY <1>6 DEF DeadlinePasses, TInv, TypeOK, Key, Live, RevokedKept
  <2> QED
    BY <1>6, <2>1, SameSessionsEffect DEF DeadlinePasses, OtherMoves
<1>7. ASSUME NEW x \in SessionIds, SessionExpires(x) PROVE OtherMoves
  <2>1. Live' = Live /\ RevokedKept
    BY <1>7, SameKeysEffect DEF SessionExpires
  <2>2. ASSUME NEW y \in SessionIds
        PROVE  /\ sessions'[y].key = sessions[y].key
               /\ sessions'[y].jti = sessions[y].jti /\ sessions[y].jti \in Nat
               /\ sessions'[y].state = "live" => sessions[y].state = "live"
    BY <1>7, <2>2, AdminAssumption DEF SessionExpires, TInv, TypeOK, Session
  <2>3. SessionsFollow /\ \A y \in SessionIds : ~Mints(y)
    BY <2>1, <2>2 DEF SessionsFollow, Mints
  <2> QED
    BY <1>7, <2>1, <2>3 DEF SessionExpires, OtherMoves
<1>8. ASSUME ResetSetup \/ PurgeList \/ PurgeEnds \/ BootRead \/ InitServerConfig PROVE OtherMoves
  <2>1. UNCHANGED <<keys, sessions, jobs>> /\ (lock' = lock \/ lock = None)
    BY <1>8 DEF ResetSetup, Command, PurgeList, PurgeEnds, BootRead, InitServerConfig
  <2> QED
    BY <2>1, SameKeysEffect, SameSessionsEffect DEF OtherMoves
<1> QED
    BY <1>1, <1>2, <1>3, <1>4, <1>6, <1>7, <1>8 DEF Other, Cli

-------------------------------------------------------------------------------
(* The floor and the cap: a count made under the lock is still true at the *)
(* write.                                                                  *)

LInv == \A s \in Slots : InTransaction(jobs[s]) => lock = s /\ Counted(jobs[s].pc)

\* A refresh that is about to mint for its session's own key found it on the
\* allowlist, and a revocation since has killed the session.
MInv == \A s \in Slots :
    LET job == jobs[s]
    IN  /\ job.pc = "rotate"
        /\ sessions[job.session].state = "live" /\ sessions[job.session].key = job.key
        => job.key \in Live

AInv == TInv /\ LInv /\ MInv

LEMMA StepMoves ==
    ASSUME TInv, Next
    PROVE  OtherMoves \/ \E s \in Slots : Moves(s)
<1>1. Other \/ \E s \in Slots : Request(s)
    BY DEF Next, Other
<1> QED
    BY <1>1, OtherEffect, RequestMoves

LEMMA SlotIsNotNone == None \notin Slots
    BY AdminAssumption

LEMMA LInvKept ==
    ASSUME AInv, TInv', OtherMoves \/ \E s \in Slots : Moves(s)
    PROVE  LInv'
<1>1. ASSUME OtherMoves PROVE LInv'
    BY <1>1, SlotIsNotNone DEF AInv, LInv, OtherMoves, Counted
<1>2. ASSUME NEW s \in Slots, Moves(s) PROVE LInv'
  <2> SUFFICES ASSUME NEW r \in Slots, InTransaction(jobs'[r])
               PROVE  lock' = r /\ Counted(jobs[r].pc)'
    BY DEF LInv, InTransaction
  <2>1. r # s => jobs'[r] = jobs[r]
    BY <1>2 DEF Moves
  <2>2. r # s => InTransaction(jobs[r]) /\ lock = r /\ Counted(jobs[r].pc)
    BY <2>1 DEF AInv, LInv, InTransaction
  <2>3. InTransaction(jobs[s]) => lock = s
    BY DEF AInv, LInv
  <2> QED
    BY <1>2, <2>1, <2>2, <2>3, SlotIsNotNone DEF Moves, Effect, Counted, InTransaction
<1> QED
    BY <1>1, <1>2

LEMMA MInvKept ==
    ASSUME AInv, TInv', OtherMoves \/ \E s \in Slots : Moves(s)
    PROVE  MInv'
<1> SUFFICES ASSUME NEW r \in Slots, jobs'[r].pc = "rotate",
                    sessions'[jobs'[r].session].state = "live",
                    sessions'[jobs'[r].session].key = jobs'[r].key
             PROVE  jobs'[r].key \in Live'
    BY DEF MInv
<1> DEFINE x == jobs[r].session
<1>1. SessionsFollow
    BY DEF OtherMoves, Moves
<1>2. ASSUME jobs'[r] = jobs[r] PROVE jobs'[r].key \in Live'
  <2>1. x \in SessionIds /\ sessions[x].state # "unused"
    BY <1>2 DEF AInv, TInv, Shaped, JobShaped, InUse
  <2> QED
    BY <1>1, <1>2, <2>1 DEF AInv, MInv, SessionsFollow
<1>3. ASSUME Moves(r) PROVE jobs'[r].key \in Live'
    BY <1>3 DEF Moves
<1> QED
    BY <1>2, <1>3 DEF OtherMoves, Moves

LEMMA AInvInductive == AInv /\ [Next]_vars => AInv'
<1> SUFFICES ASSUME AInv, [Next]_vars PROVE AInv'
    OBVIOUS
<1>1. TInv'
    BY TInvInductive DEF AInv
<1>2. ASSUME Next PROVE AInv'
    BY <1>1, <1>2, StepMoves, LInvKept, MInvKept DEF AInv
<1>3. ASSUME UNCHANGED vars PROVE AInv'
  <2>1. OtherMoves
    BY <1>3, SameKeysEffect, SameSessionsEffect DEF AInv, OtherMoves, vars
  <2> QED
    BY <1>1, <2>1, LInvKept, MInvKept DEF AInv
<1> QED
    BY <1>2, <1>3

LEMMA AInvInitial == Init => AInv
<1> SUFFICES ASSUME Init PROVE AInv
    OBVIOUS
<1>1. \A s \in Slots : jobs[s].pc = "idle"
    BY IdlePc DEF Init
<1> QED
    BY <1>1, TInvInitial DEF AInv, LInv, MInv, InTransaction

LEMMA LiveIsFinite == IsFiniteSet(Live)
<1>1. IsFiniteSet(KeyIds)
    BY FS_Interval, AdminAssumption DEF KeyIds
<1> QED
    BY <1>1, FS_Subset DEF Live

\* Only a request of its own moves request s.
LEMMA NetworkMoves ==
    ASSUME AInv, [Next]_vars, NEW s \in Slots, NetworkActs(s)
    PROVE  Moves(s)
<1>1. ~OtherMoves /\ ~UNCHANGED vars
    BY DEF NetworkActs, OtherMoves, vars
<1>2. PICK r \in Slots : Moves(r)
    BY <1>1, StepMoves DEF AInv
<1>3. r = s
    BY <1>2 DEF Moves, NetworkActs
<1> QED
    BY <1>2, <1>3

LEMMA FloorStep == ASSUME AInv, [Next]_vars, NEW s \in Slots, NetworkActs(s), Live # {}
                   PROVE  Live' # {}
<1>1. Moves(s)
    BY NetworkMoves
<1>2. ASSUME NEW k \in Live, Live' = Live \ {k}, jobs[s].pc = "revoke" PROVE Live' # {}
  <2>1. Cardinality(Live) > 1
    BY <1>2 DEF AInv, LInv, InTransaction, Counted
  <2>2. Live # {k}
    BY <2>1, FS_Singleton
  <2> QED
    BY <1>2, <2>2
<1> QED
    BY <1>1, <1>2 DEF Moves, Effect

LEMMA CapStep ==
    ASSUME AInv, [Next]_vars, NEW s \in Slots, NetworkActs(s),
           Cardinality(Live') > Cardinality(Live)
    PROVE  Cardinality(Live') <= MaxKeys
<1>1. Moves(s)
    BY NetworkMoves
<1>2. Cardinality(Live) \in Nat
    BY LiveIsFinite, FS_CardinalityType
<1>3. Live' # Live
    BY <1>2
<1>4. ASSUME NEW k \in KeyIds \ Live, Live' = Live \union {k}, jobs[s].pc = "add"
      PROVE  Cardinality(Live') <= MaxKeys
  <2>1. Cardinality(Live) < MaxKeys
    BY <1>4 DEF AInv, LInv, InTransaction, Counted
  <2>2. Cardinality(Live \union {k}) = Cardinality(Live) + 1
    BY <1>4, LiveIsFinite, FS_AddElement
  <2> QED
    BY <1>2, <1>4, <2>1, <2>2, AdminAssumption
<1>5. ASSUME NEW k \in Live, Live' = Live \ {k} PROVE FALSE
  <2>1. Cardinality(Live \ {k}) = Cardinality(Live) - 1
    BY LiveIsFinite, FS_RemoveElement
  <2> QED
    BY <1>2, <1>5, <2>1
<1>6. ASSUME NEW old \in Live, NEW k \in KeyIds \ Live, Live' = (Live \ {old}) \union {k}
      PROVE  FALSE
  <2>1. /\ Cardinality(Live \ {old}) = Cardinality(Live) - 1
        /\ IsFiniteSet(Live \ {old})
    BY LiveIsFinite, FS_RemoveElement
  <2>2. Cardinality((Live \ {old}) \union {k}) = Cardinality(Live \ {old}) + 1
    BY <1>6, <2>1, FS_AddElement
  <2> QED
    BY <1>2, <1>6, <2>1, <2>2
<1> QED
    BY <1>1, <1>3, <1>4, <1>5, <1>6 DEF Moves, Effect

-------------------------------------------------------------------------------
(* Theorems.                                                               *)

\* However many admins and shell commands revoke and rotate at once, no request over
\* the network empties the allowlist (the floor of revoke_admin_key_full).
THEOREM FloorHolds == Spec => NetworkKeepsAKey
<1>1. AInv /\ [Next]_vars => [(\E s \in Slots : NetworkActs(s)) /\ Live # {} => Live' # {}]_vars
    BY FloorStep
<1> QED
    BY <1>1, AInvInitial, AInvInductive, PTL DEF Spec, NetworkKeepsAKey

\* However many keys are added at once, no request over the network grows the
\* allowlist past ADMIN_MAX_KEYS (the cap of create_admin_key_audited).
THEOREM CapHolds == Spec => NetworkAddsUnderCap
<1>1. AInv /\ [Next]_vars =>
        [(\E s \in Slots : NetworkActs(s)) /\ Cardinality(Live') > Cardinality(Live)
         => Cardinality(Live') <= MaxKeys]_vars
    BY CapStep
<1> QED
    BY <1>1, AInvInitial, AInvInductive, PTL DEF Spec, NetworkAddsUnderCap

\* No row of admin_keys is un-revoked, by an activation that raced the revocation or
\* by anything else (activate_admin_key, insert_admin_key).
THEOREM RevocationIsFinal == Spec => RevokedForGood
<1>1. ASSUME AInv, Next PROVE \A k \in KeyIds : keys[k].state = "revoked" => keys'[k] = keys[k]
    BY <1>1, StepMoves DEF AInv, OtherMoves, Moves, RevokedKept
<1>2. AInv /\ [Next]_vars => [\A k \in KeyIds : keys[k].state = "revoked" =>
    keys'[k] = keys[k]]_vars
    BY <1>1
<1> QED
    BY <1>2, AInvInitial, AInvInductive, PTL DEF Spec, RevokedForGood

\* A refresh mints an access token only for a session whose own key is on the
\* allowlist at that moment (admin_refresh, rotate_admin_session_jti).
THEOREM MintsAreAuthorized == Spec => MintsForLiveKeys
<1>1. ASSUME AInv, Next, NEW x \in SessionIds, sessions'[x].jti > sessions[x].jti
      PROVE  sessions[x].key \in Live
    BY <1>1, StepMoves DEF AInv, MInv, OtherMoves, Moves, MintsAtRotate, Mints
<1>2. AInv /\ [Next]_vars =>
        [\A x \in SessionIds : sessions'[x].jti > sessions[x].jti => sessions[x].key \in Live]_vars
    BY <1>1
<1> QED
    BY <1>2, AInvInitial, AInvInductive, PTL DEF Spec, MintsForLiveKeys

\* A bootstrap stays latched until reset-setup, whenever the server boots
\* (init_server_config, lock_server_config).
THEOREM LatchHolds == Spec => []BootstrapStaysLatched
<1>1. Init => BootstrapStaysLatched
    BY DEF Init, BootstrapStaysLatched
<1>2. BootstrapStaysLatched /\ [Next]_vars => BootstrapStaysLatched'
  <2> SUFFICES ASSUME BootstrapStaysLatched, [Next]_vars PROVE BootstrapStaysLatched'
    OBVIOUS
  <2>1. ASSUME NEW s \in Slots, Request(s) PROVE UNCHANGED <<latch, setup>>
    BY <2>1 DEF Request, Login, Authorize, Activate, CreateSession, Refresh, RefreshKey,
       RotateJti, Call, GuardSession, GuardKey, BeginAdd, BeginRevoke, CountKeys, AddKey,
       RevokeKey, RotateKey, Logout, Abort, Stays
  <2>2. ASSUME Cli PROVE BootstrapStaysLatched'
    BY <2>2 DEF Cli, CliAddKey, Setup, CreateAdminWallet, CliRevokeKey, CliReplaceKey, PurgeList,
                PurgeEnds, PurgeKey, ResetSetup, BootstrapStaysLatched
  <2>3. ASSUME BootRead \/ InitServerConfig PROVE BootstrapStaysLatched'
    BY <2>3 DEF BootRead, InitServerConfig, BootstrapStaysLatched
  <2>4. ASSUME \/ \E k \in KeyIds : DeadlinePasses(k)
               \/ \E x \in SessionIds : SessionExpires(x)
               \/ UNCHANGED vars
        PROVE  UNCHANGED <<latch, setup>>
    BY <2>4 DEF DeadlinePasses, SessionExpires, Stays, vars
  <2> QED
    BY <2>1, <2>2, <2>3, <2>4 DEF Next, BootstrapStaysLatched
<1> QED
    BY <1>1, <1>2, PTL DEF Spec
===============================================================================
