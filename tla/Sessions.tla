------------------------------- MODULE Sessions -------------------------------
(***************************************************************************)
(* Sign-in and what it issues: sessions behind refresh and access tokens,  *)
(* the single-use challenges of signed actions, sign-in by Nostr identity  *)
(* and by a website challenge (with the adoption of legacy identities),    *)
(* token rotation, logout, linking a Nostr identity and the sign-out that  *)
(* confirming an erasure performs.  Every statement of a handler is a step *)
(* of its own; registration is in Accounts, erasure itself in Erasure.     *)
(***************************************************************************)
EXTENDS Naturals, FiniteSets

CONSTANTS Users,     \* user ids; those not Registered are free for imports
          Registered,
          Npubs, Keys,
          LegacyKeys, \* keys the legacy directory knows
          Ids,       \* session ids, never reused
          Nonces,    \* challenge nonces, never reused
          Slots,     \* requests in flight
          None

ConstantsOK ==
    /\ Registered \subseteq Users /\ LegacyKeys \subseteq Keys
    /\ None \notin Users /\ None \notin Npubs /\ None \notin Keys
    /\ None \notin Ids /\ None \notin Nonces

VARIABLES users,     \* rows of users
          npub,      \* nostr_pubkey of a row
          holders,   \* rows whose user_keys hold a key
          sessions,  \* Ids -> session
          nonces,    \* Nonces -> challenge
          req        \* Slots -> request

vars == <<users, npub, holders, sessions, nonces, req>>
accountVars == <<users, npub, holders>>

\* login is the sign-in a session descends from by rotation.
Session == [user : Users \cup {None}, status : {"unused", "live", "revoked", "expired", "deleted"},
            login : Ids \cup {None}]
Unused == [user |-> None, status |-> "unused", login |-> None]

Purposes == {"nostr_link", "web", "erasure_confirm"}
\* honoured counts the handlers that went on with the nonce.
Challenge == [state : {"fresh", "issued", "gone"}, purpose : Purposes \cup {None},
              subject : Users \cup {None}, honoured : Nat]
Fresh == [state |-> "fresh", purpose |-> None, subject |-> None, honoured |-> 0]

Request == [op : {"idle", "refresh", "logout", "sign_in", "web", "link", "confirm"},
            pc : {"idle", "revoke", "issue", "resolve", "import", "claim", "adopt", "consume",
                  "link", "sign_out"},
            user : Users \cup {None}, session : Ids \cup {None}, nonce : Nonces \cup {None},
            key : Keys \cup Npubs \cup {None}]
NoRequest == [op |-> "idle", pc |-> "idle", user |-> None, session |-> None, nonce |-> None,
              key |-> None]

TypeOK ==
    /\ users \subseteq Users
    /\ npub \in [Users -> Npubs \cup {None}]
    /\ holders \in [Keys -> SUBSET Users]
    /\ sessions \in [Ids -> Session]
    /\ nonces \in [Nonces -> Challenge]
    /\ req \in [Slots -> Request]

Init ==
    /\ users = Registered
    /\ npub \in {f \in [Users -> Npubs \cup {None}] : \A u \in Users : f[u] # None =>
                   u \in Registered /\ \A v \in Users : f[v] = f[u] => v = u}
    /\ holders = [k \in Keys |-> {}]
    /\ sessions = [i \in Ids |-> Unused]
    /\ nonces = [n \in Nonces |-> Fresh]
    /\ req = [s \in Slots |-> NoRequest]

-------------------------------------------------------------------------------
(* The session table.                                                      *)

Live(i) == sessions[i].status = "live"

\* A slip: the revoking UPDATE does not ask whether the row is still live.
RevokesAny(i) == sessions[i].status \in {"live", "revoked"}

\* revoke_session: the guard of the UPDATE; an expired row is still revoked.
Revokes(i) == sessions[i].status \in {"live", "expired"}

Revoked(S) == [i \in Ids |-> IF i \in S /\ Revokes(i) THEN [sessions[i] EXCEPT !.status = "revoked"]
                             ELSE sessions[i]]

At(s, pc) == req[s].pc = pc
Goes(s, pc) == req' = [req EXCEPT ![s].pc = pc]
Ends(s) == req' = [req EXCEPT ![s] = NoRequest]

\* issue_session: a fresh pair, for a user that still exists (foreign key).  A
\* rotation continues the login of the session it replaces.
IssueSession(s) ==
    /\ At(s, "issue")
    /\ \/ /\ req[s].user \in users
          /\ \E i \in Ids :
             /\ sessions[i].status = "unused"
             /\ \A j \in Ids : j < i => sessions[j].status # "unused"
             /\ sessions' = [sessions EXCEPT ![i] =
                    [user |-> req[s].user, status |-> "live",
                     login |-> IF req[s].op = "refresh" THEN sessions[req[s].session].login ELSE i]]
       \/ req[s].user \notin users /\ UNCHANGED sessions
    /\ Ends(s)
    /\ UNCHANGED <<accountVars, nonces>>

-------------------------------------------------------------------------------
(* Rotation and logout.                                                    *)

\* refresh_token: the token's session is looked up live; a dead one is rejected.
\* logout does the same lookup.
Present(s, op, i) ==
    /\ At(s, "idle") /\ op \in {"refresh", "logout"} /\ Live(i)
    /\ req' = [req EXCEPT ![s] = [NoRequest EXCEPT !.op = op, !.pc = "revoke", !.session = i,
                                                  !.user = sessions[i].user]]
    /\ UNCHANGED <<accountVars, sessions, nonces>>

\* The old session is revoked first; who finds it revoked is rejected.
RefreshRevokes(s) ==
    /\ At(s, "revoke") /\ req[s].op = "refresh"
    /\ IF req[s].user \in users /\ Revokes(req[s].session)
       THEN sessions' = Revoked({req[s].session}) /\ Goes(s, "issue")
       ELSE Ends(s) /\ UNCHANGED sessions
    /\ UNCHANGED <<accountVars, nonces>>

\* The revocation of a logout may fail: the client is told of success regardless.
LogoutRevokes(s) ==
    /\ At(s, "revoke") /\ req[s].op = "logout"
    /\ sessions' \in {Revoked({req[s].session}), sessions}
    /\ Ends(s)
    /\ UNCHANGED <<accountVars, nonces>>

-------------------------------------------------------------------------------
(* Challenges.                                                             *)

\* issue_challenge, and WebChallenge::new for the process's own map.
Issue(n, purpose, subject) ==
    /\ nonces[n].state = "fresh"
    /\ nonces' = [nonces EXCEPT ![n] = [state |-> "issued", purpose |-> purpose,
                                        subject |-> subject, honoured |-> 0]]
    /\ UNCHANGED <<accountVars, sessions, req>>

IssueChallenge(n) ==
    \/ \E i \in Ids : Live(i) /\ Issue(n, "nostr_link", sessions[i].user)
    \/ \E p \in {"web", "erasure_confirm"} : Issue(n, p, None)

\* A slip: a challenge is looked up and left for the clean-up to delete.
ConsumedLater(n) == [nonces[n] EXCEPT !.honoured = @ + 1]

\* consume_challenge: the DELETE is the check.
Consumed(n) == [nonces[n] EXCEPT !.state = "gone", !.honoured = @ + 1]

\* A nonce is honoured for its purpose, and for its subject if it was bound to one;
\* taking it with another's session burns it.
Consume(n, purpose, user) ==
    /\ nonces[n].state = "issued" /\ nonces[n].purpose = purpose
    /\ nonces' = [nonces EXCEPT ![n] =
           IF nonces[n].subject \in {None, user} THEN Consumed(n) ELSE [@ EXCEPT !.state = "gone"]]

\* The TTL passes; a restart empties the process's map of website challenges.
ChallengeLapses(n) ==
    /\ nonces[n].state = "issued"
    /\ nonces' = [nonces EXCEPT ![n].state = "gone"]
    /\ UNCHANGED <<accountVars, sessions, req>>

-------------------------------------------------------------------------------
(* Sign-in.                                                                *)

\* nostr_login: an identity that is linked signs in; none is ever created.
NostrLogin(s, u) ==
    /\ At(s, "idle") /\ u \in users /\ npub[u] # None
    /\ req' = [req EXCEPT ![s] = [NoRequest EXCEPT !.op = "sign_in", !.pc = "issue", !.user = u]]
    /\ UNCHANGED <<accountVars, sessions, nonces>>

\* extension_register, nostr_register: any account signs in with its own proof.
WalletLogin(s, u) ==
    /\ At(s, "idle") /\ u \in users
    /\ req' = [req EXCEPT ![s] = [NoRequest EXCEPT !.op = "sign_in", !.pc = "issue", !.user = u]]
    /\ UNCHANGED <<accountVars, sessions, nonces>>

\* website_verify: the challenge is removed before the signature is looked at; a
\* wrong signature ends the request there.
WebsiteVerify(s, n, k) ==
    /\ At(s, "idle") /\ Consume(n, "web", None)
    /\ \/ req' = [req EXCEPT ![s] = [NoRequest EXCEPT !.op = "web", !.pc = "resolve", !.nonce = n,
                                                      !.key = k]]
       \/ UNCHANGED req
    /\ UNCHANGED <<accountVars, sessions>>

\* The proven key is looked up here, then in the legacy directory.
WebsiteResolve(s) ==
    /\ At(s, "resolve")
    /\ \/ \E u \in holders[req[s].key] : req' = [req EXCEPT ![s].pc = "issue", ![s].user = u]
       \/ holders[req[s].key] = {} /\ req[s].key \in LegacyKeys /\ Goes(s, "import")
       \/ holders[req[s].key] = {} /\ req[s].key \notin LegacyKeys /\ Ends(s)
    /\ UNCHANGED <<accountVars, sessions, nonces>>

\* import_legacy_identity creates a row of its own,
ImportCreates(s) ==
    /\ At(s, "import")
    /\ \E u \in Users \ (users \cup Registered) :
       /\ \A i \in Ids : sessions[i].user # u
       /\ users' = users \cup {u} /\ req' = [req EXCEPT ![s].pc = "claim", ![s].user = u]
    /\ UNCHANGED <<npub, holders, sessions, nonces>>

\* leaves a key that some account holds by now,
ImportChecksKey(s) ==
    /\ At(s, "claim")
    /\ Goes(s, IF holders[req[s].key] = {} THEN "adopt" ELSE "issue")
    /\ UNCHANGED <<accountVars, sessions, nonces>>

\* and stores the others in a further statement.
ImportAdoptsKey(s) ==
    /\ At(s, "adopt")
    /\ IF req[s].user \in users
       THEN holders' = [holders EXCEPT ![req[s].key] = @ \cup {req[s].user}] /\ Goes(s, "issue")
       ELSE Ends(s) /\ UNCHANGED holders
    /\ UNCHANGED <<users, npub, sessions, nonces>>

-------------------------------------------------------------------------------
(* Signed actions.                                                         *)

\* nostr_link: the access token's session is checked live,
LinkAuthenticates(s, i, n, p) ==
    /\ At(s, "idle") /\ Live(i)
    /\ req' = [req EXCEPT ![s] = [op |-> "link", pc |-> "consume", user |-> sessions[i].user,
                                  session |-> i, nonce |-> n, key |-> p]]
    /\ UNCHANGED <<accountVars, sessions, nonces>>

\* the nonce is consumed, whatever the subject and the proof turn out to be,
LinkConsumes(s) ==
    LET n == req[s].nonce
    IN /\ At(s, "consume")
       /\ \/ /\ Consume(n, "nostr_link", req[s].user)
             /\ IF nonces[n].subject = req[s].user THEN Goes(s, "link") \/ Ends(s) ELSE Ends(s)
          \/ /\ nonces[n].state # "issued" \/ nonces[n].purpose # "nostr_link"
             /\ Ends(s) /\ UNCHANGED nonces
       /\ UNCHANGED <<accountVars, sessions>>

\* and set_nostr_pubkey runs into the UNIQUE constraint or updates the row.
LinkWrites(s) ==
    /\ At(s, "link")
    /\ npub' = IF req[s].user \in users /\ \A u \in users : npub[u] # req[s].key
               THEN [npub EXCEPT ![req[s].user] = req[s].key] ELSE npub
    /\ Ends(s)
    /\ UNCHANGED <<users, holders, sessions, nonces>>

\* confirm_erasure: a proof by the linked identity, over a nonce of its own,
ConfirmErasure(s, n, u) ==
    /\ At(s, "idle") /\ u \in users /\ npub[u] # None
    /\ Consume(n, "erasure_confirm", None)
    /\ req' = [req EXCEPT ![s] = [NoRequest EXCEPT !.op = "confirm", !.pc = "sign_out", !.user = u,
                                                  !.nonce = n]]
    /\ UNCHANGED <<accountVars, sessions>>

\* then all the user's sessions are revoked, or the statement fails unnoticed.
ConfirmSignsOut(s) ==
    /\ At(s, "sign_out")
    /\ sessions' \in {Revoked({i \in Ids : sessions[i].user = req[s].user}), sessions}
    /\ Ends(s)
    /\ UNCHANGED <<accountVars, nonces>>

-------------------------------------------------------------------------------
(* The surroundings: expiry, and the erasure worker deleting a row with what *)
(* references it.                                                          *)

Expires(i) ==
    /\ Live(i)
    /\ sessions' = [sessions EXCEPT ![i].status = "expired"]
    /\ UNCHANGED <<accountVars, nonces, req>>

Erased(u) ==
    /\ u \in users
    /\ users' = users \ {u}
    /\ npub' = [npub EXCEPT ![u] = None]
    /\ holders' = [k \in Keys |-> holders[k] \ {u}]
    /\ sessions' = [i \in Ids |->
           IF sessions[i].user = u THEN [sessions[i] EXCEPT !.status = "deleted"] ELSE sessions[i]]
    /\ UNCHANGED <<nonces, req>>

\* A request that dies between two statements: an error, a crash.
Dies(s) == req[s] # NoRequest /\ Ends(s) /\ UNCHANGED <<accountVars, sessions, nonces>>

Next ==
    \/ \E s \in Slots, i \in Ids, op \in {"refresh", "logout"} : Present(s, op, i)
    \/ \E s \in Slots : \/ RefreshRevokes(s) \/ LogoutRevokes(s) \/ IssueSession(s)
                        \/ WebsiteResolve(s) \/ ImportCreates(s) \/ ImportChecksKey(s)
                        \/ ImportAdoptsKey(s) \/ LinkConsumes(s) \/ LinkWrites(s)
                        \/ ConfirmSignsOut(s) \/ Dies(s)
    \/ \E s \in Slots, u \in Users : NostrLogin(s, u) \/ WalletLogin(s, u)
    \/ \E s \in Slots, n \in Nonces, k \in Keys : WebsiteVerify(s, n, k)
    \/ \E s \in Slots, i \in Ids, n \in Nonces, p \in Npubs : LinkAuthenticates(s, i, n, p)
    \/ \E s \in Slots, n \in Nonces, u \in Users : ConfirmErasure(s, n, u)
    \/ \E n \in Nonces : IssueChallenge(n) \/ ChallengeLapses(n)
    \/ \E i \in Ids : Expires(i)
    \/ \E u \in Users : Erased(u)

Spec == Init /\ [][Next]_vars

-------------------------------------------------------------------------------
(* Properties.                                                             *)

\* Sign-in l in SignIns: its live sessions, and the refreshes that can still bring it
\* one: those that have revoked its session, or that read it while it was live and
\* will find it not revoked (revoke_session does not ask whether it has expired).
Good(l) == {i \in Ids : Live(i) /\ sessions[i].login = l}

Rotates(s, l) ==
    /\ req[s].op = "refresh" /\ req[s].user \in users
    /\ sessions[req[s].session].login = l
    /\ req[s].pc = "issue" \/ sessions[req[s].session].status = "expired"

Right(l) ==
    IF sessions[l].login # l THEN "none"
    ELSE IF Good(l) # {} \/ \E s \in Slots : Rotates(s, l) THEN "held" ELSE "over"

SignIn == INSTANCE SignIns
          WITH Tokens <- Ids, right <- [l \in Ids |-> Right(l)],
               good <- [l \in Ids |-> Good(l)],
               spent <- {i \in Ids : sessions[i].status \notin {"unused", "live"}}

\* However refreshes, logouts, expiries, erasures and deaths of requests interleave, a
\* sign-in is one right passed from token to token: one token is good for it at a
\* time, a token that was rotated, revoked or expired never works again, and a sign-in
\* that is over never comes back (refresh_token, revoke_session, issue_session).
SignInsRefined == SignIn!Spec

\* However refreshes of one token race, replay or are lost, a sign-in has at most one
\* live session: rotation never forks ("never issue a second live pair for one
\* token", refresh_token).
OneLivePerLogin ==
    \A i, j \in Ids : Live(i) /\ Live(j) /\ sessions[i].login = sessions[j].login => i = j

\* A challenge is honoured at most once, however many requests present it
\* (consume_challenge, website_verify).
HonouredOnce == \A n \in Nonces : nonces[n].honoured <= 1
===============================================================================
