-------------------------------- MODULE Erasure --------------------------------
(***************************************************************************)
(* Self-service account erasure: src/src/api/erasure.rs and                *)
(* src/src/infra/db/erasure.rs.  A user requests, then confirms, waits out *)
(* a grace period and may cancel meanwhile; every replica sweeps the due   *)
(* requests and executes each in one transaction.  The sweep's SELECT and  *)
(* the executions after it are separate statements: its row locks are      *)
(* already gone, and users, callers and other replicas act in between.     *)
(*                                                                         *)
(* Proofs of identity are taken as given (a caller acts for itself).  Of   *)
(* the account's data the model keeps what decides an execution: login     *)
(* events and sessions as facts of the user, and the tips addressed to it, *)
(* whose foreign key DELETE FROM users goes through.                       *)
(***************************************************************************)
EXTENDS Integers, FiniteSets

CONSTANTS
    Users,
    NoUser,        \* NULL in erasure_requests.user_id
    Ids,           \* ids of the erasure requests, in order of scheduled_for
    Replicas,
    Batch,         \* rows a sweep takes
    MaxTips        \* bound: targeted tips at a time

ASSUME ErasureAssumption ==
    /\ NoUser \notin Users
    /\ Ids \subseteq Nat
    /\ IsFiniteSet(Ids)
    /\ Batch \in Nat \ {0} /\ MaxTips \in Nat

VARIABLES
    users,         \* rows of the users table
    request,       \* request[i]: row i of erasure_requests
    asking,        \* <<u, w>>: a handler of replica w found no live request of u and will INSERT
    sessions,      \* users with a live session
    loginEvents,   \* users with login_events rows
    tipsTo,        \* <<sender, recipient>> of the targeted social_tips rows
    sweep,         \* sweep[w]: requests of the batch replica w still has to execute
    audited        \* audited[i]: account_erasure_completed rows in the admin audit

vars == <<users, request, asking, sessions, loginEvents, tipsTo, sweep, audited>>

Request == [status : {"absent", "pending", "confirmed", "completed", "cancelled"},
            user : Users \union {NoUser}, due : BOOLEAN]

TypeOK ==
    /\ users \subseteq Users
    /\ request \in [Ids -> Request]
    /\ asking \subseteq Users \X Replicas
    /\ sessions \subseteq users
    /\ loginEvents \subseteq Users
    /\ tipsTo \subseteq Users \X Users
    /\ sweep \in [Replicas -> SUBSET Ids]
    /\ audited \in [Ids -> Nat]

Init ==
    /\ users = Users
    /\ request = [i \in Ids |-> [status |-> "absent", user |-> NoUser, due |-> FALSE]]
    /\ asking = {}
    /\ sessions = {}
    /\ loginEvents = {}
    /\ tipsTo = {}
    /\ sweep = [w \in Replicas |-> {}]
    /\ audited = [i \in Ids |-> 0]

-------------------------------------------------------------------------------
(* Callers.                                                                *)

\* active_erasure_request.
Active(u) == {i \in Ids : request[i].user = u /\ request[i].status \in {"pending", "confirmed"}}

\* request_erasure, its SELECT: an active request is returned as it is.
RequestSelect(u, w) ==
    /\ u \in users /\ <<u, w>> \notin asking
    /\ Active(u) = {}
    /\ asking' = asking \union {<<u, w>>}
    /\ UNCHANGED <<users, request, sessions, loginEvents, tipsTo, sweep, audited>>

\* A slip: no partial unique index behind the INSERT.
RequestInsertAnyway(u, w, i) ==
    /\ <<u, w>> \in asking
    /\ asking' = asking \ {<<u, w>>}
    /\ request[i].status = "absent"
    /\ request' = [request EXCEPT ![i] = [status |-> "pending", user |-> u, due |-> FALSE]]
    /\ UNCHANGED <<users, sessions, loginEvents, tipsTo, sweep, audited>>

\* request_erasure, its INSERT.  The partial unique index lets it through only
\* while the user has no active request, the foreign key only while the user
\* exists; a loser answers with the winner's row, or with an error.
RequestInsert(u, w, i) ==
    /\ <<u, w>> \in asking
    /\ asking' = asking \ {<<u, w>>}
    /\ IF u \in users /\ Active(u) = {}
       THEN /\ request[i].status = "absent"
            /\ request' = [request EXCEPT ![i] = [status |-> "pending", user |-> u, due |-> FALSE]]
       ELSE UNCHANGED request
    /\ UNCHANGED <<users, sessions, loginEvents, tipsTo, sweep, audited>>

\* confirm_erasure_request restarts the grace period, then the handler revokes
\* the user's sessions; it ignores the outcome of the revocation.
Confirm(u, i) ==
    /\ u \in users
    /\ request[i].user = u
    /\ request[i].status = "pending"
    /\ request' = [request EXCEPT ![i].status = "confirmed", ![i].due = FALSE]
    /\ sessions' \in {sessions, sessions \ {u}}
    /\ UNCHANGED <<users, asking, loginEvents, tipsTo, sweep, audited>>

\* cancel_erasure_request.
Cancel(u, i) ==
    /\ u \in users
    /\ request[i].user = u
    /\ request[i].status \in {"pending", "confirmed"}
    /\ request' = [request EXCEPT ![i].status = "cancelled"]
    /\ UNCHANGED <<users, asking, sessions, loginEvents, tipsTo, sweep, audited>>

\* A login, allowed during the grace period as at any time.
Login(u) ==
    /\ u \in users
    /\ sessions' = sessions \union {u}
    /\ loginEvents' = loginEvents \union {u}
    /\ UNCHANGED <<users, request, asking, tipsTo, sweep, audited>>

\* insert_social_tip with a recipient, when features.targeted_tips is on
\* (resolve_tip_recipient names a user that exists).
AddressTip(s, u) ==
    /\ s \in users /\ u \in users /\ Cardinality(tipsTo) < MaxTips
    /\ tipsTo' = tipsTo \union {<<s, u>>}
    /\ UNCHANGED <<users, request, asking, sessions, loginEvents, sweep, audited>>

\* scheduled_for <= NOW().
GraceElapses(i) ==
    /\ request[i].status = "confirmed" /\ ~request[i].due
    /\ request' = [request EXCEPT ![i].due = TRUE]
    /\ UNCHANGED <<users, asking, sessions, loginEvents, tipsTo, sweep, audited>>

-------------------------------------------------------------------------------
(* The sweeper.                                                            *)

Due == {i \in Ids : request[i].status = "confirmed" /\ request[i].due}

\* due_erasure_requests: ORDER BY scheduled_for ASC LIMIT batch.
SweepSelect(w) ==
    /\ sweep[w] = {}
    /\ sweep' = [sweep EXCEPT ![w] = {i \in Due : Cardinality({j \in Due : j < i}) < Batch}]
    /\ UNCHANGED <<users, request, asking, sessions, loginEvents, tipsTo, audited>>

\* Slips: the claim forgets the status, or the user, it must find, or expects the
\* status before the confirmation.
ClaimsAnyStatus(i) == request[i].user # NoUser
ClaimsPending(i) == request[i].status = "pending" /\ request[i].user # NoUser
ClaimsAnyUser(i) == request[i].status \in {"confirmed", "completed"}

\* The claim that opens execute_erasure: still confirmed, and with a user.
Claims(i) == request[i].status = "confirmed" /\ request[i].user # NoUser

\* A slip: the foreign key does not look at tips.
DeletableAlways(u) == TRUE

\* targeted_tip_has_recipient: the foreign key's SET NULL on a tip that somebody
\* else sent to u violates the CHECK, and the DELETE fails.
Deletable(u) == \A p \in tipsTo : p[2] = u => p[1] = u

\* execute_erasure, committed: the claim, the purge, the delete with its cascades
\* and SET NULLs, and the audit row, or nothing of it.
SweepExecute(w, i) ==
    LET u == request[i].user
    IN  /\ i \in sweep[w]
        /\ sweep' = [sweep EXCEPT ![w] = @ \ {i}]
        /\ IF Claims(i) /\ Deletable(u)
           THEN /\ users' = users \ {u}
                /\ request' = [j \in Ids |->
                     IF j = i THEN [request[j] EXCEPT !.status = "completed", !.user = NoUser]
                     ELSE IF request[j].user = u THEN [request[j] EXCEPT !.user = NoUser]
                     ELSE request[j]]
                /\ sessions' = sessions \ {u}
                /\ loginEvents' = loginEvents \ {u}
                /\ tipsTo' = {p \in tipsTo : p[1] # u}
                /\ audited' = [audited EXCEPT ![i] = @ + 1]
           ELSE UNCHANGED <<users, request, sessions, loginEvents, tipsTo, audited>>
        /\ UNCHANGED asking

\* The transaction fails and rolls back, or the replica restarts.
SweepFails(w) ==
    /\ sweep[w] # {}
    /\ \E S \in SUBSET sweep[w] : S # sweep[w] /\ sweep' = [sweep EXCEPT ![w] = S]
    /\ UNCHANGED <<users, request, asking, sessions, loginEvents, tipsTo, audited>>

Next ==
    \/ \E u \in Users : Login(u)
    \/ \E u \in Users, w \in Replicas : RequestSelect(u, w) \/ \E i \in Ids : RequestInsert(u, w, i)
    \/ \E u \in Users, i \in Ids : Confirm(u, i) \/ Cancel(u, i)
    \/ \E s, u \in Users : AddressTip(s, u)
    \/ \E i \in Ids : GraceElapses(i)
    \/ \E w \in Replicas : SweepSelect(w) \/ SweepFails(w)
    \/ \E w \in Replicas, i \in Ids : SweepExecute(w, i)

Spec == Init /\ [][Next]_vars

\* A failure, and not an execution that the data refuses.
FaultStep ==
    \E w \in Replicas : SweepFails(w) /\ ~\E i \in Ids : SweepExecute(w, i)

\* The hourly sweeps go on, each executes what it selected, and failures of the
\* database eventually cease.
FairSpec ==
    /\ Spec
    /\ \A w \in Replicas : /\ WF_vars(SweepSelect(w))
                           /\ WF_vars(\E i \in Ids : SweepExecute(w, i))
    /\ <>[][~FaultStep]_vars

-------------------------------------------------------------------------------
(* Properties.                                                             *)

\* Two sweeps, a cancellation and a repeated request never erase twice or leave
\* an execution without its audit row: a request is completed exactly when one
\* audit row says so, and a completed request no longer names its user
\* (execute_erasure).
ErasedOnceAudited ==
    \A i \in Ids :
        /\ audited[i] = IF request[i].status = "completed" THEN 1 ELSE 0
        /\ request[i].status = "completed" => request[i].user = NoUser

\* At most one live request per user, and a live request's user exists, however
\* the handlers of two requests and an execution interleave.
OneLiveRequest ==
    /\ \A u \in Users : Cardinality(Active(u)) <= 1
    /\ \A i \in Ids : request[i].status \in {"pending", "confirmed"} => request[i].user \in users

\* Requests and executions tell one story.
RequestsConsistent == ErasedOnceAudited /\ OneLiveRequest

\* An erased user leaves nothing that names it: no session, login event, targeted
\* tip it sent or received, and no request.
NothingLeftBehind ==
    \A u \in Users \ users :
        /\ u \notin sessions \union loginEvents
        /\ \A p \in tipsTo : u \notin {p[1], p[2]}
        /\ \A i \in Ids : request[i].user # u

\* A user disappears only through a request of its own that was confirmed and
\* whose grace period has run out: never after it cancelled, although the sweep
\* selected the request before.
GraceRespected ==
    [][\A u \in Users : u \in users /\ u \notin users' =>
         \E i \in Ids : request[i].user = u /\ request[i].status = "confirmed" /\ request[i].due]_vars

\* A request past its grace whose user no tip keeps is executed, or cancelled, or
\* a tip comes to keep the user (run_erasure_sweep).
DeletableRequestExecuted ==
    \A i \in Ids :
        LET ready == i \in Due /\ Deletable(request[i].user)
        IN  ready ~> ~ready

\* A confirmed request past its grace is executed (unless cancelled).
DueRequestExecuted ==
    \A i \in Ids : i \in Due ~> i \notin Due
===============================================================================
