------------------------------- MODULE GrinRelay -------------------------------
(***************************************************************************)
(* The grin slatepack relay: the grin_slatepacks table, its five handlers  *)
(* and the expiry loop.  A handler reads the row by its slate id, checks   *)
(* that the caller is a party of it, and updates it by primary key in a    *)
(* second statement; other requests, the loop and account erasures run in  *)
(* between, and an erased sender frees the slate id for another relay.     *)
(***************************************************************************)
EXTENDS Naturals

CONSTANTS Ids, Slates, Users, Slots, None

ConstantsOK == None \notin Users

VARIABLES relays,   \* Ids -> row; NoRelay before the insert and after a cascade
          used,     \* ids already taken: primary keys are never reused
          users,    \* accounts that exist
          jobs      \* Slots -> request between its read and its write

vars == <<relays, used, users, jobs>>

Pending == {"pending_recipient", "pending_sender"}
Terminal == {"finalized", "expired", "cancelled"}

Relay == [slate : Slates, sender : Users, recipient : Users \cup {None},
          status : Pending \cup Terminal, responded : BOOLEAN, past : BOOLEAN]
NoRelay == [status |-> "none"]

Verbs == {"create", "respond", "finalize", "cancel"}
Job == [verb : Verbs, by : Users, slate : Slates, id : Ids \cup {None}, to : Users \cup {None}]
NoJob == [verb |-> "none"]

TypeOK ==
    /\ relays \in [Ids -> Relay \cup {NoRelay}]
    /\ used \subseteq Ids /\ users \subseteq Users
    /\ jobs \in [Slots -> Job \cup {NoJob}]

Init ==
    /\ relays = [i \in Ids |-> NoRelay]
    /\ used = {} /\ users = Users
    /\ jobs = [s \in Slots |-> NoJob]

Exists(i) == relays[i] # NoRelay

\* UNIQUE (slate_id): at most one row has it.
Holders(slate) == {i \in Ids : Exists(i) /\ relays[i].slate = slate}

Idle(s) == jobs[s] = NoJob
End(s) == jobs' = [jobs EXCEPT ![s] = NoJob]

-------------------------------------------------------------------------------
(* The handlers: authorize, then write.                                     *)

\* create: the recipient must be a registered user.
Create(s) ==
    /\ Idle(s)
    /\ \E u \in users, v \in users, slate \in Slates :
       jobs' = [jobs EXCEPT ![s] = [verb |-> "create", by |-> u, slate |-> slate,
                                    id |-> None, to |-> v]]
    /\ UNCHANGED <<relays, used, users>>

\* create_grin_slatepack: a taken slate id, or a party erased meanwhile (foreign
\* keys), is an error and leaves no row.
Insert(s) ==
    /\ jobs[s].verb = "create"
    /\ \/ /\ Holders(jobs[s].slate) = {} /\ {jobs[s].by, jobs[s].to} \subseteq users
          /\ \E i \in Ids \ used :
             /\ relays' = [relays EXCEPT ![i] = [slate |-> jobs[s].slate, sender |-> jobs[s].by,
                    recipient |-> jobs[s].to, status |-> "pending_recipient",
                    responded |-> FALSE, past |-> FALSE]]
             /\ used' = used \cup {i}
       \/ /\ Holders(jobs[s].slate) # {} \/ ~({jobs[s].by, jobs[s].to} \subseteq users)
          /\ UNCHANGED <<relays, used>>
    /\ End(s) /\ UNCHANGED users

\* fetch_authorized: who may do what to a relay.
PartyOf(verb, row) ==
    CASE verb = "respond" -> {row.recipient}
      [] verb = "finalize" -> {row.sender}
      [] OTHER -> {row.sender, row.recipient}

\* respond, finalize, cancel up to the update.
Fetch(s) ==
    /\ Idle(s)
    /\ \E u \in users, i \in Ids, verb \in Verbs \ {"create"} :
       /\ Exists(i) /\ u \in PartyOf(verb, relays[i])
       /\ jobs' = [jobs EXCEPT ![s] = [verb |-> verb, by |-> u, slate |-> relays[i].slate,
                                       id |-> i, to |-> None]]
    /\ UNCHANGED <<relays, used, users>>

\* A slip: the update goes by the slate id of the request.
TargetBySlate(job) == Holders(job.slate)

\* The update goes by primary key.
Target(job) == {i \in {job.id} : Exists(i)}

\* A slip: a cancellation trusts the status that was read.
QualifiesUnguarded(verb, row) ==
    CASE verb = "respond" -> row.status = "pending_recipient" /\ ~row.past
      [] verb = "finalize" -> row.status = "pending_sender" /\ ~row.past
      [] OTHER -> TRUE

\* The WHERE clauses of add_slatepack_response, finalize_slatepack and
\* cancel_slatepack.
Qualifies(verb, row) ==
    CASE verb = "respond" -> row.status = "pending_recipient" /\ ~row.past
      [] verb = "finalize" -> row.status = "pending_sender" /\ ~row.past
      [] OTHER -> row.status \in Pending

Advanced(verb, row) ==
    CASE verb = "respond" -> [row EXCEPT !.status = "pending_sender", !.responded = TRUE]
      [] verb = "finalize" -> [row EXCEPT !.status = "finalized"]
      [] OTHER -> [row EXCEPT !.status = "cancelled"]

\* The update; a row that no longer qualifies is a 409 and stays as it is.
Update(s) ==
    /\ jobs[s] # NoJob /\ jobs[s].verb # "create"
    /\ LET hit == {i \in Target(jobs[s]) : Qualifies(jobs[s].verb, relays[i])}
       IN relays' = [i \in Ids |-> IF i \in hit THEN Advanced(jobs[s].verb, relays[i])
                                   ELSE relays[i]]
    /\ End(s) /\ UNCHANGED <<used, users>>

-------------------------------------------------------------------------------
(* Time, the expiry loop and erasure.                                       *)

TtlPasses(i) ==
    /\ Exists(i) /\ ~relays[i].past
    /\ relays' = [relays EXCEPT ![i].past = TRUE]
    /\ UNCHANGED <<used, users, jobs>>

Expirable(row) == row.past /\ row.status \in Pending

\* expire_old_slatepacks, in the background loop of main: one statement.
Expire ==
    /\ \E i \in Ids : Exists(i) /\ Expirable(relays[i])
    /\ relays' = [i \in Ids |-> IF Exists(i) /\ Expirable(relays[i])
                                THEN [relays[i] EXCEPT !.status = "expired"] ELSE relays[i]]
    /\ UNCHANGED <<used, users, jobs>>

\* An account is deleted: its sent relays go with it, those it receives lose it.
Erase(u) ==
    /\ u \in users /\ users' = users \ {u}
    /\ relays' = [i \in Ids |->
           IF ~Exists(i) THEN relays[i]
           ELSE IF relays[i].sender = u THEN NoRelay
           ELSE IF relays[i].recipient = u THEN [relays[i] EXCEPT !.recipient = None]
           ELSE relays[i]]
    /\ UNCHANGED <<used, jobs>>

\* The process dies with its requests.
Crash ==
    /\ \E s \in Slots : ~Idle(s)
    /\ jobs' = [s \in Slots |-> NoJob]
    /\ UNCHANGED <<relays, used, users>>

Next ==
    \/ \E s \in Slots : Create(s) \/ Insert(s) \/ Fetch(s) \/ Update(s)
    \/ \E i \in Ids : TtlPasses(i)
    \/ \E u \in Users : Erase(u)
    \/ Expire \/ Crash

Spec == Init /\ [][Next]_vars

-------------------------------------------------------------------------------
(* Properties.                                                              *)

\* A request changes only a relay its caller is a party of, although the row it was
\* authorized on may have been erased and its slate id taken again since.  (A
\* recipient erased since is None in the row.)
ChangedByParty ==
    [][\A s \in Slots, i \in Ids :
          (jobs[s] # NoJob /\ jobs'[s] = NoJob /\ Exists(i) /\ relays'[i] # relays[i]
             /\ users' = users)
          => jobs[s].by \in {relays[i].sender, relays[i].recipient} \/ relays[i].recipient = None]_vars

\* The statuses a relay may move to.
Follows(old, new) ==
    CASE old.status = "pending_recipient" -> new.status \in {"pending_sender", "expired", "cancelled"}
      [] old.status = "pending_sender" -> new.status \in Terminal
      [] OTHER -> FALSE

\* A relay moves only forward: what ended (finalized, cancelled, expired) never
\* changes, and nothing is finalized that the recipient has not answered, whichever
\* of the racing requests and the loop wrote last.
RelayMovesForward ==
    [][\A i \in Ids : (Exists(i) /\ relays'[i] # NoRelay /\ relays'[i].status # relays[i].status)
          => Follows(relays[i], relays'[i]) /\ (relays'[i].status = "finalized" => relays[i].responded)]_vars

\* Both: a relay changes only by its parties, and only forward.
RelayFollowsParties == ChangedByParty /\ RelayMovesForward
===============================================================================
