---------------------------- MODULE IdentityProofs ----------------------------
(***************************************************************************)
(* For any numbers of accounts, sessions, challenges and requests in       *)
(* flight: a sign-in never has two live sessions and is one right passed   *)
(* from token to token (Sessions implements SignIns), a challenge is       *)
(* honoured at most once, and the restore governors hold their windows.    *)
(*                                                                         *)
(* None is inductive by itself.  A rotation between its revocation and     *)
(* its issue holds the right to the only live session; a verification      *)
(* between its load and its claim holds a challenge that may be gone; a    *)
(* sign-in that is over stays over because a refresh speaks for the user   *)
(* its session was issued to, who is not created again once erased.        *)
(***************************************************************************)
EXTENDS MCIdentity, FiniteSetTheorems, TLAPS

\* A session a rotation can still be made from: revoking it succeeds.
Active(i) == logins[i].status \in {"live", "expired"}
Used(i) == logins[i].status # "unused"

\* A refresh that has revoked the old session and not yet issued the new one: it holds
\* the right to the login's only live session.
Rotating(s) == calls[s].op = "refresh" /\ calls[s].pc = "issue"
LoginOf(s) == logins[calls[s].session].login

\* The right to a login is held by one active session,
OneActive == \A i, j \in LoginIds :
    Active(i) /\ Active(j) /\ logins[i].login = logins[j].login => i = j
\* or by one rotation, never by both,
RotatingHasNone == \A s \in Requests, i \in LoginIds :
    Rotating(s) /\ Active(i) => logins[i].login # LoginOf(s)
\* and never by two rotations.
OneRotating == \A s, t \in Requests :
    Rotating(s) /\ Rotating(t) /\ LoginOf(s) = LoginOf(t) => s = t
\* A login is named after the session it began with, so an unused id names none.
LoginsUsed == \A i \in LoginIds :
    /\ Used(i) => logins[i].login \in LoginIds /\ Used(logins[i].login)
    /\ ~Used(i) => logins[i] = Login!Unused
\* A refresh goes from the revocation to the issue, with a session that exists.
RefreshFits == \A s \in Requests : calls[s].op = "refresh" =>
    calls[s].pc \in {"revoke", "issue"} /\ calls[s].session \in LoginIds /\ Used(calls[s].session)

RotationInv == OneActive /\ RotatingHasNone /\ OneRotating /\ LoginsUsed /\ RefreshFits

\* What a request holds at the steps that use it.
RequestFits == \A s \in Requests :
    /\ calls[s].pc \in {"resolve", "import", "claim", "adopt"} =>
             calls[s].op = "web" /\ calls[s].key \in LoginKeys
    /\ calls[s].pc \in {"claim", "adopt"} => calls[s].user \in People
    /\ calls[s].pc \in {"consume", "link"} =>
             calls[s].op = "link" /\ calls[s].key \in Npubs
    /\ calls[s].pc = "idle" => calls[s] = Login!NoRequest

TypeInv == Login!TypeOK /\ RequestFits

\* A nonce that can still be consumed has not been honoured.
NonceInv == \A n \in Nonces :
    nonces[n].honoured <= 1 /\ (nonces[n].state # "gone" => nonces[n].honoured = 0)

-------------------------------------------------------------------------------
(* Types.                                                                  *)

LEMMA InitTypes == Login!ConstantsOK /\ Login!Init => TypeInv
BY DEF Login!ConstantsOK, Login!Init, TypeInv, Login!TypeOK, RequestFits, Login!NoRequest,
   Login!Unused, Login!Fresh, Login!Session, Login!Challenge, Login!Request, Login!Purposes

LEMMA RevokedTypes == Login!TypeOK => \A S : Login!Revoked(S) \in [LoginIds -> Login!Session]
BY DEF Login!TypeOK, Login!Revoked, Login!Session

LEMMA ConsumeTypes ==
    ASSUME Login!TypeOK, NEW n, NEW p, NEW u, Login!Consume(n, p, u)
    PROVE  nonces' \in [Nonces -> Login!Challenge]
<1>1. \A m \in Nonces : nonces'[m] \in Login!Challenge
  <2> SUFFICES ASSUME NEW m \in Nonces PROVE nonces'[m] \in Login!Challenge
    OBVIOUS
  <2>1. nonces[m] \in Login!Challenge
    BY DEF Login!TypeOK
  <2>2. CASE m # n
    BY <2>1, <2>2 DEF Login!Consume, Login!TypeOK
  <2>3. CASE m = n
    <3>1. nonces'[m] \in {Login!Consumed(n), [nonces[n] EXCEPT !.state = "gone"]}
      BY <2>3 DEF Login!Consume, Login!TypeOK
    <3>2. PICK st \in {"fresh", "issued", "gone"}, pu \in Login!Purposes \cup {None},
               su \in People \cup {None}, ho \in Nat :
            nonces[n] = [state |-> st, purpose |-> pu, subject |-> su, honoured |-> ho]
      BY <2>1, <2>3 DEF Login!Challenge
    <3>3. PICK h \in Nat : h = ho + 1
      OBVIOUS
    <3>4. Login!Consumed(n) = [nonces[n] EXCEPT !.state = "gone", !.honoured = h]
      BY <3>2, <3>3 DEF Login!Consumed
    <3>5. Login!Consumed(n) = [state |-> "gone", purpose |-> pu, subject |-> su, honoured |-> h]
      <4>1. /\ [nonces[n] EXCEPT !.state = "gone", !.honoured = h].state = "gone"
            /\ [nonces[n] EXCEPT !.state = "gone", !.honoured = h].purpose = pu
            /\ [nonces[n] EXCEPT !.state = "gone", !.honoured = h].subject = su
            /\ [nonces[n] EXCEPT !.state = "gone", !.honoured = h].honoured = h
        BY <3>2
      <4> QED BY <4>1, <3>2, <3>4
    <3>6. [nonces[n] EXCEPT !.state = "gone"]
            = [state |-> "gone", purpose |-> pu, subject |-> su, honoured |-> ho]
      BY <3>2
    <3> QED BY <3>1, <3>5, <3>6 DEF Login!Challenge
  <2> QED BY <2>2, <2>3
<1>2. nonces' = [m \in Nonces |-> nonces'[m]]
  BY DEF Login!Consume, Login!TypeOK
<1> QED BY <1>1, <1>2

LEMMA GoesTypes ==
    ASSUME TypeInv, NEW s \in Requests, NEW r \in Login!Request, calls' = [calls EXCEPT ![s] = r],
           r.pc \in {"resolve", "import", "claim", "adopt"} => r.op = "web" /\ r.key \in LoginKeys,
           r.pc \in {"claim", "adopt"} => r.user \in People,
           r.pc \in {"consume", "link"} => r.op = "link" /\ r.key \in Npubs,
           r.pc = "idle" => r = Login!NoRequest
    PROVE  calls' \in [Requests -> Login!Request] /\ RequestFits'
BY DEF TypeInv, Login!TypeOK, RequestFits

LEMMA UpdatedRequest ==
    ASSUME TypeInv, NEW s \in Requests, NEW u \in People, NEW p \in {"issue", "claim"}
    PROVE  [calls[s] EXCEPT !.pc = p, !.user = u] \in Login!Request
<1>1. calls[s] \in Login!Request
  BY DEF TypeInv, Login!TypeOK
<1> QED BY <1>1 DEF Login!Request

LEMMA EndsTypes ==
    ASSUME Login!ConstantsOK, TypeInv, NEW s \in Requests, Login!Ends(s)
    PROVE  calls' \in [Requests -> Login!Request] /\ RequestFits'
BY DEF TypeInv, Login!TypeOK, RequestFits, Login!Ends, Login!NoRequest, Login!Request

LEMMA SameTypes ==
    ASSUME TypeInv, UNCHANGED calls
    PROVE  calls' \in [Requests -> Login!Request] /\ RequestFits'
BY DEF TypeInv, Login!TypeOK, RequestFits

LEMMA NextTypes == Login!ConstantsOK /\ TypeInv /\ RefreshFits /\ [Login!Next]_(Login!vars)
                   => TypeInv'
<1> SUFFICES ASSUME Login!ConstantsOK, TypeInv, RefreshFits, [Login!Next]_(Login!vars)
             PROVE  TypeInv'
  OBVIOUS
<1> USE DEF Login!accountVars
<1>0. Login!TypeOK BY DEF TypeInv
<1>1. CASE UNCHANGED Login!vars
  BY <1>1, <1>0, SameTypes DEF Login!vars, TypeInv, Login!TypeOK
<1>2. ASSUME NEW s \in Requests, NEW i \in LoginIds, NEW op \in {"refresh", "logout"},
             Login!Present(s, op, i)
      PROVE  TypeInv'
  <2>1. calls' \in [Requests -> Login!Request] /\ RequestFits'
    <3> DEFINE r == [Login!NoRequest EXCEPT !.op = op, !.pc = "revoke", !.session = i,
                                      !.user = logins[i].user]
    <3>1. logins[i].user \in People \cup {None}
      BY <1>0 DEF Login!TypeOK, Login!Session
    <3>2. r \in Login!Request /\ r.pc = "revoke"
      BY <3>1 DEF Login!NoRequest, Login!Request
    <3>3. calls' = [calls EXCEPT ![s] = r]
      BY <1>2 DEF Login!Present
    <3> HIDE DEF r
    <3> QED BY <3>2, <3>3, GoesTypes
  <2> QED BY <1>2, <2>1, <1>0 DEF Login!Present, TypeInv, Login!TypeOK
<1>3. ASSUME NEW s \in Requests, Login!RefreshRevokes(s) PROVE TypeInv'
  <2>1. CASE Login!Ends(s) /\ UNCHANGED logins
    BY <2>1, <1>3, <1>0, EndsTypes DEF Login!RefreshRevokes, TypeInv, Login!TypeOK
  <2>2. CASE logins' = Login!Revoked({calls[s].session}) /\ Login!Goes(s, "issue")
    <3>1. calls' \in [Requests -> Login!Request] /\ RequestFits'
      BY <2>2, <1>0 DEF Login!Goes, Login!TypeOK, Login!Request, TypeInv, RequestFits
    <3> QED BY <3>1, <2>2, <1>3, <1>0, RevokedTypes DEF Login!RefreshRevokes, TypeInv, Login!TypeOK
  <2> QED BY <1>3, <2>1, <2>2 DEF Login!RefreshRevokes
<1>4. ASSUME NEW s \in Requests, Login!LogoutRevokes(s) PROVE TypeInv'
  BY <1>4, <1>0, RevokedTypes, EndsTypes DEF Login!LogoutRevokes, TypeInv, Login!TypeOK
<1>5. ASSUME NEW s \in Requests, Login!IssueSession(s) PROVE TypeInv'
  <2>1. logins' \in [LoginIds -> Login!Session]
    <3>1. CASE UNCHANGED logins
      BY <3>1, <1>0 DEF Login!TypeOK
    <3>2. CASE calls[s].user \in members
      <4>1. calls[s].user \in People
        BY <3>2, <1>0 DEF Login!TypeOK
      <4>2. calls[s].op = "refresh" => logins[calls[s].session].login \in LoginIds \cup {None}
        BY <1>5, <1>0 DEF RefreshFits, Login!TypeOK, Login!Session
      <4> QED BY <3>2, <4>1, <4>2, <1>5, <1>0 DEF Login!IssueSession, Login!TypeOK, Login!Session
    <3> QED BY <1>5, <3>1, <3>2 DEF Login!IssueSession
  <2> QED BY <2>1, <1>5, <1>0, EndsTypes DEF Login!IssueSession, TypeInv, Login!TypeOK
<1>6. ASSUME NEW s \in Requests, Login!WebsiteResolve(s) PROVE TypeInv'
  <2>1. calls[s].key \in LoginKeys /\ calls[s].op = "web"
    BY <1>6 DEF Login!WebsiteResolve, Login!At, TypeInv, RequestFits
  <2>2. calls' \in [Requests -> Login!Request] /\ RequestFits'
    <3>1. ASSUME NEW u \in holders[calls[s].key], calls' = [calls EXCEPT ![s].pc = "issue",
        ![s].user = u]
          PROVE  calls' \in [Requests -> Login!Request] /\ RequestFits'
      <4>1. u \in People
        BY <2>1, <3>1, <1>0 DEF Login!TypeOK
      <4>2. [calls[s] EXCEPT !.pc = "issue", !.user = u] \in Login!Request
        BY <4>1, UpdatedRequest
      <4>3. calls' = [calls EXCEPT ![s] = [calls[s] EXCEPT !.pc = "issue", !.user = u]]
        BY <3>1
      <4>4. [calls[s] EXCEPT !.pc = "issue", !.user = u].pc = "issue"
        BY <1>0 DEF Login!TypeOK, Login!Request
      <4> QED BY <4>2, <4>3, <4>4, GoesTypes
    <3>2. CASE Login!Goes(s, "import")
      BY <3>2, <2>1, <1>0 DEF Login!Goes, Login!TypeOK, Login!Request, TypeInv, RequestFits
    <3> QED BY <1>6, <3>1, <3>2, EndsTypes DEF Login!WebsiteResolve
  <2> QED BY <2>2, <1>6, <1>0 DEF Login!WebsiteResolve, TypeInv, Login!TypeOK
<1>7. ASSUME NEW s \in Requests, Login!ImportCreates(s) PROVE TypeInv'
  <2>1. PICK u \in People : /\ members' = members \cup {u}
                            /\ calls' = [calls EXCEPT ![s].pc = "claim", ![s].user = u]
    BY <1>7 DEF Login!ImportCreates
  <2>2. calls[s].key \in LoginKeys /\ calls[s].op = "web"
    BY <1>7 DEF Login!ImportCreates, Login!At, TypeInv, RequestFits
  <2>3. calls' \in [Requests -> Login!Request] /\ RequestFits'
    <3> DEFINE r == [calls[s] EXCEPT !.pc = "claim", !.user = u]
    <3>1. r \in Login!Request
      BY UpdatedRequest
    <3>2. calls' = [calls EXCEPT ![s] = r]
      BY <2>1
    <3>3. r.pc = "claim" /\ r.user = u /\ r.op = "web" /\ r.key \in LoginKeys
      BY <2>2, <1>0 DEF Login!TypeOK, Login!Request
    <3> HIDE DEF r
    <3> QED BY <3>1, <3>2, <3>3, GoesTypes
  <2> QED BY <2>1, <2>3, <1>7, <1>0 DEF Login!ImportCreates, TypeInv, Login!TypeOK
<1>8. ASSUME NEW s \in Requests, Login!ImportChecksKey(s) PROVE TypeInv'
  <2>1. calls[s].key \in LoginKeys /\ calls[s].op = "web" /\ calls[s].user \in People
    BY <1>8 DEF Login!ImportChecksKey, Login!At, TypeInv, RequestFits
  <2>2. calls' \in [Requests -> Login!Request] /\ RequestFits'
    BY <2>1, <1>8, <1>0 DEF Login!ImportChecksKey, Login!Goes, Login!TypeOK, Login!Request,
       TypeInv, RequestFits
  <2> QED BY <2>2, <1>8, <1>0 DEF Login!ImportChecksKey, TypeInv, Login!TypeOK
<1>9. ASSUME NEW s \in Requests, Login!ImportAdoptsKey(s) PROVE TypeInv'
  <2>1. CASE Login!Ends(s) /\ UNCHANGED holders
    BY <2>1, <1>9, <1>0, EndsTypes DEF Login!ImportAdoptsKey, TypeInv, Login!TypeOK
  <2>2. CASE holders' = [holders EXCEPT ![calls[s].key] = @ \cup {calls[s].user}] /\
      Login!Goes(s, "issue")
    <3>1. calls[s].key \in LoginKeys /\ calls[s].user \in People
      BY <1>9 DEF Login!ImportAdoptsKey, Login!At, TypeInv, RequestFits
    <3>2. calls' \in [Requests -> Login!Request] /\ RequestFits'
      BY <2>2, <1>0 DEF Login!Goes, Login!TypeOK, Login!Request, TypeInv, RequestFits
    <3>3. holders' \in [LoginKeys -> SUBSET People]
      BY <3>1, <2>2, <1>0 DEF Login!TypeOK
    <3> QED BY <3>2, <3>3, <1>9, <1>0 DEF Login!ImportAdoptsKey, TypeInv, Login!TypeOK
  <2> QED BY <1>9, <2>1, <2>2 DEF Login!ImportAdoptsKey
<1>10. ASSUME NEW s \in Requests, Login!LinkConsumes(s) PROVE TypeInv'
  <2>1. nonces' \in [Nonces -> Login!Challenge]
    BY <1>10, <1>0, ConsumeTypes DEF Login!LinkConsumes, Login!TypeOK
  <2>2. CASE Login!Goes(s, "link")
    <3>1. calls[s].key \in Npubs /\ calls[s].op = "link"
      BY <1>10 DEF Login!LinkConsumes, Login!At, TypeInv, RequestFits
    <3>2. calls' \in [Requests -> Login!Request] /\ RequestFits'
      BY <3>1, <2>2, <1>0 DEF Login!Goes, Login!TypeOK, Login!Request, TypeInv, RequestFits
    <3> QED BY <3>2, <2>1, <1>10, <1>0 DEF Login!LinkConsumes, TypeInv, Login!TypeOK
  <2>3. CASE Login!Ends(s)
    BY <2>1, <2>3, <1>10, <1>0, EndsTypes DEF Login!LinkConsumes, TypeInv, Login!TypeOK
  <2> QED BY <1>10, <2>2, <2>3 DEF Login!LinkConsumes
<1>11. ASSUME NEW s \in Requests, Login!LinkWrites(s) PROVE TypeInv'
  <2>1. calls[s].key \in Npubs
    BY <1>11 DEF Login!LinkWrites, Login!At, TypeInv, RequestFits
  <2>2. linked' \in [People -> Npubs \cup {None}]
    BY <2>1, <1>11, <1>0 DEF Login!LinkWrites, Login!TypeOK
  <2> QED BY <2>2, <1>11, <1>0, EndsTypes DEF Login!LinkWrites, TypeInv, Login!TypeOK
<1>12. ASSUME NEW s \in Requests, Login!ConfirmSignsOut(s) PROVE TypeInv'
  BY <1>12, <1>0, RevokedTypes, EndsTypes DEF Login!ConfirmSignsOut, TypeInv, Login!TypeOK
<1>13. ASSUME NEW s \in Requests, Login!Dies(s) PROVE TypeInv'
  BY <1>13, <1>0, EndsTypes DEF Login!Dies, TypeInv, Login!TypeOK
<1>14. ASSUME NEW s \in Requests, NEW u \in People,
              Login!NostrLogin(s, u) \/ Login!WalletLogin(s, u)
       PROVE  TypeInv'
  <2> DEFINE r == [Login!NoRequest EXCEPT !.op = "sign_in", !.pc = "issue", !.user = u]
  <2>1. r \in Login!Request /\ r.pc = "issue"
    BY DEF Login!NoRequest, Login!Request
  <2>2. calls' = [calls EXCEPT ![s] = r]
    BY <1>14 DEF Login!NostrLogin, Login!WalletLogin
  <2> HIDE DEF r
  <2>3. calls' \in [Requests -> Login!Request] /\ RequestFits'
    BY <2>1, <2>2, GoesTypes
  <2> QED BY <2>3, <1>14, <1>0 DEF Login!NostrLogin, Login!WalletLogin, TypeInv, Login!TypeOK
<1>15. ASSUME NEW s \in Requests, NEW n \in Nonces, NEW k \in LoginKeys,
              Login!WebsiteVerify(s, n, k)
       PROVE  TypeInv'
  <2>1. nonces' \in [Nonces -> Login!Challenge]
    BY <1>15, <1>0, ConsumeTypes DEF Login!WebsiteVerify
  <2>2. calls' \in [Requests -> Login!Request] /\ RequestFits'
    <3> DEFINE r == [Login!NoRequest EXCEPT !.op = "web", !.pc = "resolve", !.nonce = n, !.key = k]
    <3>1. r \in Login!Request /\ r.pc = "resolve" /\ r.op = "web" /\ r.key \in LoginKeys
      BY DEF Login!NoRequest, Login!Request
    <3>2. calls' = [calls EXCEPT ![s] = r] \/ UNCHANGED calls
      BY <1>15 DEF Login!WebsiteVerify
    <3> HIDE DEF r
    <3> QED BY <3>1, <3>2, GoesTypes, SameTypes
  <2> QED BY <2>1, <2>2, <1>15, <1>0 DEF Login!WebsiteVerify, TypeInv, Login!TypeOK
<1>16. ASSUME NEW s \in Requests, NEW i \in LoginIds, NEW n \in Nonces, NEW p \in Npubs,
              Login!LinkAuthenticates(s, i, n, p)
       PROVE  TypeInv'
  <2> DEFINE r == [op |-> "link", pc |-> "consume", user |-> logins[i].user, session |-> i,
                   nonce |-> n, key |-> p]
  <2>1. logins[i].user \in People \cup {None}
    BY <1>0 DEF Login!TypeOK, Login!Session
  <2>2. r \in Login!Request /\ r.pc = "consume" /\ r.op = "link" /\ r.key \in Npubs
    BY <2>1 DEF Login!Request
  <2>3. calls' = [calls EXCEPT ![s] = r]
    BY <1>16 DEF Login!LinkAuthenticates
  <2> HIDE DEF r
  <2>4. calls' \in [Requests -> Login!Request] /\ RequestFits'
    BY <2>2, <2>3, GoesTypes
  <2> QED BY <2>4, <1>16, <1>0 DEF Login!LinkAuthenticates, TypeInv, Login!TypeOK
<1>17. ASSUME NEW s \in Requests, NEW n \in Nonces, NEW u \in People, Login!ConfirmErasure(s, n, u)
       PROVE  TypeInv'
  <2> DEFINE r == [Login!NoRequest EXCEPT !.op = "confirm", !.pc = "sign_out", !.user = u,
      !.nonce = n]
  <2>1. r \in Login!Request /\ r.pc = "sign_out"
    BY DEF Login!NoRequest, Login!Request
  <2>2. calls' = [calls EXCEPT ![s] = r]
    BY <1>17 DEF Login!ConfirmErasure
  <2> HIDE DEF r
  <2>3. calls' \in [Requests -> Login!Request] /\ RequestFits'
    BY <2>1, <2>2, GoesTypes
  <2>4. nonces' \in [Nonces -> Login!Challenge]
    BY <1>17, <1>0, ConsumeTypes DEF Login!ConfirmErasure
  <2> QED BY <2>3, <2>4, <1>17, <1>0 DEF Login!ConfirmErasure, TypeInv, Login!TypeOK
<1>18. ASSUME NEW n \in Nonces, Login!IssueChallenge(n) PROVE TypeInv'
  <2>1. PICK p \in Login!Purposes, u \in People \cup {None} : Login!Issue(n, p, u)
    BY <1>18, <1>0 DEF Login!IssueChallenge, Login!TypeOK, Login!Session, Login!Purposes
  <2>2. nonces' \in [Nonces -> Login!Challenge]
    BY <2>1, <1>0 DEF Login!Issue, Login!TypeOK, Login!Challenge
  <2> QED BY <2>1, <2>2, <1>0, SameTypes DEF Login!Issue, TypeInv, Login!TypeOK
<1>19. ASSUME NEW n \in Nonces, Login!ChallengeLapses(n) PROVE TypeInv'
  <2>1. nonces' \in [Nonces -> Login!Challenge]
    BY <1>19, <1>0 DEF Login!ChallengeLapses, Login!TypeOK, Login!Challenge
  <2> QED BY <2>1, <1>19, <1>0, SameTypes DEF Login!ChallengeLapses, TypeInv, Login!TypeOK
<1>20. ASSUME NEW i \in LoginIds, Login!Expires(i) PROVE TypeInv'
  <2>1. logins' \in [LoginIds -> Login!Session]
    BY <1>20, <1>0 DEF Login!Expires, Login!TypeOK, Login!Session
  <2> QED BY <2>1, <1>20, <1>0, SameTypes DEF Login!Expires, TypeInv, Login!TypeOK
<1>21. ASSUME NEW u \in People, Login!Erased(u) PROVE TypeInv'
  <2>1. logins' \in [LoginIds -> Login!Session]
    BY <1>21, <1>0 DEF Login!Erased, Login!TypeOK, Login!Session
  <2>2. /\ members' \subseteq People
        /\ linked' \in [People -> Npubs \cup {None}]
        /\ holders' \in [LoginKeys -> SUBSET People]
    BY <1>21, <1>0 DEF Login!Erased, Login!TypeOK
  <2> QED BY <2>1, <2>2, <1>21, <1>0, SameTypes DEF Login!Erased, TypeInv, Login!TypeOK
<1> QED BY <1>1, <1>2, <1>3, <1>4, <1>5, <1>6, <1>7, <1>8, <1>9, <1>10, <1>11, <1>12, <1>13,
           <1>14, <1>15, <1>16, <1>17, <1>18, <1>19, <1>20, <1>21
        DEF Login!Next

-------------------------------------------------------------------------------
(* Rotation.                                                               *)

\* Sessions only end, and keep their login.
SessionsEnd == \A i \in LoginIds :
    /\ logins'[i].login = logins[i].login
    /\ Used(i)' <=> Used(i)
    /\ ~Used(i) => logins'[i] = logins[i]
    /\ Active(i)' => Active(i)

\* No request begins to rotate; a refresh holds a session that exists.
NoNewRotation == \A s \in Requests : calls'[s].op = "refresh" =>
    /\ calls'[s].pc \in {"revoke", "issue"} /\ calls'[s].session \in LoginIds /\
         Used(calls'[s].session)
    /\ calls'[s].pc = "issue" => Rotating(s) /\ calls'[s].session = calls[s].session

LEMMA QuietStep == RotationInv /\ SessionsEnd /\ NoNewRotation => RotationInv'
<1> SUFFICES ASSUME RotationInv, SessionsEnd, NoNewRotation PROVE RotationInv'
  OBVIOUS
<1> USE DEF RotationInv
<1>1. OneActive'
  BY DEF OneActive, SessionsEnd
<1>2. \A s \in Requests : Rotating(s)' => Rotating(s) /\ LoginOf(s)' = LoginOf(s)
  BY DEF Rotating, LoginOf, SessionsEnd, NoNewRotation, RefreshFits
<1>3. RotatingHasNone'
  BY <1>2 DEF RotatingHasNone, SessionsEnd
<1>4. OneRotating'
  BY <1>2 DEF OneRotating
<1>5. LoginsUsed'
  BY DEF LoginsUsed, SessionsEnd
<1>6. RefreshFits'
  BY DEF RefreshFits, NoNewRotation, SessionsEnd
<1> QED BY <1>1, <1>3, <1>4, <1>5, <1>6

LEMMA RevokedEnd == ASSUME Login!TypeOK, NEW S, logins' = Login!Revoked(S) PROVE SessionsEnd
BY DEF Login!TypeOK, Login!Session, Login!Revoked, Login!Revokes, SessionsEnd, Used, Active

LEMMA UnchangedEnd == ASSUME UNCHANGED logins PROVE SessionsEnd
BY DEF SessionsEnd, Used, Active

LEMMA ErasedEnd ==
    ASSUME Login!ConstantsOK, Login!TypeOK, LoginsUsed, NEW u \in People, Login!Erased(u)
    PROVE  SessionsEnd
<1>1. \A i \in LoginIds : ~Used(i) => logins[i].user # u
  BY DEF Login!ConstantsOK, LoginsUsed, Login!Unused
<1> QED BY <1>1 DEF Login!TypeOK, Login!Session, Login!Erased, SessionsEnd, Used, Active

LEMMA ExpiresEnd == ASSUME Login!TypeOK, NEW i \in LoginIds, Login!Expires(i) PROVE SessionsEnd
BY DEF Login!TypeOK, Login!Session, Login!Expires, Login!Live, SessionsEnd, Used, Active

LEMMA EndsQuiet == ASSUME TypeInv, RefreshFits, NEW s \in Requests, Login!Ends(s)
                   PROVE  NoNewRotation
BY DEF TypeInv, Login!TypeOK, RefreshFits, Login!Ends, Login!NoRequest, NoNewRotation, Rotating

LEMMA SameQuiet == ASSUME RefreshFits, UNCHANGED calls PROVE NoNewRotation
BY DEF RefreshFits, NoNewRotation, Rotating

\* A request of another kind, at whatever step.
LEMMA OtherQuiet ==
    ASSUME TypeInv, RefreshFits, NEW s \in Requests, NEW r, calls' = [calls EXCEPT ![s] = r],
           r.op # "refresh"
    PROVE  NoNewRotation
BY DEF TypeInv, Login!TypeOK, RefreshFits, NoNewRotation, Rotating

\* The old session is revoked and the right to its login passes to the request.
LEMMA RefreshTakesOver ==
    ASSUME TypeInv, RotationInv, NEW s \in Requests, Login!RefreshRevokes(s), ~Login!Ends(s)
    PROVE  RotationInv'
<1>0. PICK i \in LoginIds : i = calls[s].session
  BY DEF Login!RefreshRevokes, RotationInv, RefreshFits
<1>1. /\ Login!Revokes(i) /\ logins' = Login!Revoked({i}) /\ Login!Goes(s, "issue") /\
           calls[s].op = "refresh"
      /\ i \in LoginIds
  BY <1>0 DEF Login!RefreshRevokes
<1>2. Active(i) /\ ~Active(i)'
  BY <1>1 DEF Login!Revokes, Active, Login!Revoked, TypeInv, Login!TypeOK, Login!Session
<1>3. SessionsEnd
  BY <1>1, RevokedEnd DEF TypeInv
<1>4. \A t \in Requests : /\ t # s => calls'[t] = calls[t]
                          /\ calls'[t].session = calls[t].session /\ calls'[t].op = calls[t].op
  BY <1>1 DEF Login!Goes, TypeInv, Login!TypeOK, Login!Request
<1>5. \A t \in Requests : Rotating(t)' => t = s \/ Rotating(t)
  BY <1>4 DEF Rotating
<1>6. \A t \in Requests : calls[t].op = "refresh" => LoginOf(t)' = LoginOf(t)
  BY <1>3, <1>4 DEF LoginOf, SessionsEnd, RotationInv, RefreshFits
<1>7. OneActive'
  BY <1>3 DEF SessionsEnd, RotationInv, OneActive
<1>8. RotatingHasNone'
  <2> SUFFICES ASSUME NEW t \in Requests, NEW j \in LoginIds, Rotating(t)', Active(j)'
               PROVE  logins'[j].login # LoginOf(t)'
    BY DEF RotatingHasNone
  <2>1. Active(j) /\ logins'[j].login = logins[j].login
    BY <1>3 DEF SessionsEnd
  <2>2. LoginOf(t)' = LoginOf(t)
    BY <1>4, <1>6 DEF Rotating
  <2>3. CASE t = s
    <3>1. j # i
      BY <1>2
    <3> QED BY <2>1, <2>2, <2>3, <3>1, <1>0, <1>2 DEF RotationInv, OneActive, LoginOf
  <2>4. CASE t # s
    BY <2>1, <2>2, <2>4, <1>5 DEF RotationInv, RotatingHasNone
  <2> QED BY <2>3, <2>4
<1>9. OneRotating'
  <2>1. \A t \in Requests : Rotating(t) => LoginOf(t) # LoginOf(s)
    BY <1>0, <1>2 DEF RotationInv, RotatingHasNone, LoginOf
  <2>2. \A t \in Requests : Rotating(t)' => LoginOf(t)' = LoginOf(t)
    BY <1>4, <1>6 DEF Rotating
  <2> QED BY <2>1, <2>2, <1>5 DEF RotationInv, OneRotating
<1>10. LoginsUsed'
  BY <1>3 DEF LoginsUsed, SessionsEnd, RotationInv
<1>11. RefreshFits'
  <2>1. calls'[s].pc = "issue"
    BY <1>1 DEF Login!Goes, TypeInv, Login!TypeOK, Login!Request
  <2> QED BY <2>1, <1>3, <1>4 DEF RefreshFits, SessionsEnd, RotationInv
<1> QED BY <1>7, <1>8, <1>9, <1>10, <1>11 DEF RotationInv

\* The request becomes the login's active session, or a new login begins.
LEMMA IssueTakesOver ==
    ASSUME TypeInv, RotationInv, NEW s \in Requests, Login!IssueSession(s),
           calls[s].user \in members
    PROVE  RotationInv'
<1>0. PICK i \in LoginIds : \E l :
        /\ logins[i].status = "unused"
        /\ l = IF calls[s].op = "refresh" THEN LoginOf(s) ELSE i
        /\ logins' = [logins EXCEPT ![i] = [user |-> calls[s].user, status |-> "live",
                                            login |-> l]]
  BY DEF Login!IssueSession, LoginOf
<1>1. PICK l :
        /\ logins[i].status = "unused"
        /\ l = IF calls[s].op = "refresh" THEN LoginOf(s) ELSE i
        /\ logins' = [logins EXCEPT ![i] = [user |-> calls[s].user, status |-> "live",
                                            login |-> l]]
  BY <1>0
<1>2. /\ Login!Ends(s) /\ calls[s].pc = "issue"
  BY DEF Login!IssueSession, Login!At
<1>3. /\ logins'[i].status = "live" /\ logins'[i].login = l
      /\ \A j \in LoginIds : j # i => logins'[j] = logins[j]
  BY <1>1 DEF TypeInv, Login!TypeOK
<1>4. \A t \in Requests : /\ t # s => calls'[t] = calls[t]
                          /\ Rotating(t)' => t # s /\ Rotating(t)
  BY <1>2 DEF Login!Ends, TypeInv, Login!TypeOK, Rotating, Login!NoRequest
<1>5. \A j \in LoginIds : logins[j].login = i => ~Used(j)
  BY <1>1 DEF RotationInv, LoginsUsed, Used
<1>6. ~Used(i) /\ ~Active(i) /\ Used(i)'
  BY <1>1, <1>3 DEF Used, Active
<1>7. \A t \in Requests : Rotating(t) => calls[t].session \in LoginIds /\
    Used(calls[t].session) /\ LoginOf(t) # i
  BY <1>5 DEF RotationInv, RefreshFits, Rotating, LoginOf
<1>8. \A t \in Requests : Rotating(t)' => LoginOf(t)' = LoginOf(t) /\ LoginOf(t) # l
  <2> SUFFICES ASSUME NEW t \in Requests, Rotating(t)'
               PROVE  LoginOf(t)' = LoginOf(t) /\ LoginOf(t) # l
    OBVIOUS
  <2>1. t # s /\ Rotating(t) /\ calls'[t] = calls[t]
    BY <1>4
  <2>2. LoginOf(t)' = LoginOf(t)
    BY <2>1, <1>7, <1>6, <1>3 DEF LoginOf
  <2>3. CASE calls[s].op = "refresh"
    <3>1. Rotating(s)
      BY <2>3, <1>2 DEF Rotating
    <3> QED BY <1>1, <3>1, <2>1, <2>2, <2>3 DEF RotationInv, OneRotating
  <2>4. CASE calls[s].op # "refresh"
    BY <1>1, <2>4, <2>1, <2>2, <1>7
  <2> QED BY <2>3, <2>4
<1>9. \A j \in LoginIds : Active(j) => logins[j].login # l
  <2>1. CASE calls[s].op = "refresh"
    <3>1. Rotating(s)
      BY <2>1, <1>2 DEF Rotating
    <3> QED BY <1>1, <3>1, <2>1 DEF RotationInv, RotatingHasNone
  <2>2. CASE calls[s].op # "refresh"
    BY <1>1, <2>2, <1>5 DEF Active, Used
  <2> QED BY <2>1, <2>2
<1>10. \A j \in LoginIds : j # i => (Active(j)' <=> Active(j)) /\ (Used(j)' <=> Used(j))
  BY <1>3 DEF Active, Used
<1>11. OneActive'
  BY <1>3, <1>9, <1>10 DEF RotationInv, OneActive
<1>12. RotatingHasNone'
  BY <1>3, <1>4, <1>8, <1>10 DEF RotationInv, RotatingHasNone
<1>13. OneRotating'
  BY <1>4, <1>8 DEF RotationInv, OneRotating
<1>14. LoginsUsed'
  <2>1. l \in LoginIds /\ Used(l)'
    <3>1. CASE calls[s].op = "refresh"
      BY <1>1, <3>1, <1>6, <1>10 DEF RotationInv, RefreshFits, LoginsUsed, LoginOf
    <3>2. CASE calls[s].op # "refresh"
      BY <1>1, <3>2, <1>6
    <3> QED BY <3>1, <3>2
  <2>2. \A j \in LoginIds : Used(j) => Used(j)'
    BY <1>6, <1>10
  <2> QED BY <2>1, <2>2, <1>3, <1>6, <1>10 DEF RotationInv, LoginsUsed
<1>15. RefreshFits'
  BY <1>2, <1>4, <1>6, <1>10 DEF RotationInv, RefreshFits, Login!Ends, Login!NoRequest, TypeInv,
     Login!TypeOK
<1> QED BY <1>11, <1>12, <1>13, <1>14, <1>15 DEF RotationInv

LEMMA NextRotation == Login!ConstantsOK /\ TypeInv /\ RotationInv /\ [Login!Next]_(Login!vars)
                      => RotationInv'
<1> SUFFICES ASSUME Login!ConstantsOK, TypeInv, RotationInv, [Login!Next]_(Login!vars)
             PROVE  RotationInv'
  OBVIOUS
<1>0. Login!TypeOK /\ RefreshFits /\ LoginsUsed
  BY DEF TypeInv, RotationInv
<1>1. CASE UNCHANGED Login!vars
  BY <1>1, <1>0, UnchangedEnd, SameQuiet, QuietStep DEF Login!vars
<1>2. ASSUME NEW s \in Requests, NEW i \in LoginIds, NEW op \in {"refresh", "logout"},
             Login!Present(s, op, i)
      PROVE  RotationInv'
  <2>1. SessionsEnd
    BY <1>2, UnchangedEnd DEF Login!Present
  <2>2. Used(i)
    BY <1>2 DEF Login!Present, Login!Live, Used
  <2>3. NoNewRotation
    BY <1>2, <2>2, <1>0 DEF Login!Present, Login!NoRequest, Login!TypeOK, NoNewRotation,
       RefreshFits, Rotating
  <2> QED BY <2>1, <2>3, QuietStep
<1>3. ASSUME NEW s \in Requests, Login!RefreshRevokes(s) PROVE RotationInv'
  <2>1. CASE Login!Ends(s)
    <3>1. SessionsEnd
      BY <1>3, <1>0, UnchangedEnd, RevokedEnd DEF Login!RefreshRevokes
    <3> QED BY <2>1, <3>1, <1>0, EndsQuiet, QuietStep
  <2>2. CASE ~Login!Ends(s)
    BY <2>2, <1>3, RefreshTakesOver
  <2> QED BY <2>1, <2>2
<1>4. ASSUME NEW s \in Requests, Login!IssueSession(s) PROVE RotationInv'
  <2>1. CASE calls[s].user \in members
    BY <2>1, <1>4, IssueTakesOver
  <2>2. CASE calls[s].user \notin members
    BY <2>2, <1>4, <1>0, UnchangedEnd, EndsQuiet, QuietStep DEF Login!IssueSession
  <2> QED BY <2>1, <2>2
<1>5. ASSUME NEW s \in Requests, Login!LogoutRevokes(s) \/ Login!ConfirmSignsOut(s)
      PROVE  RotationInv'
  <2>1. SessionsEnd
    BY <1>5, <1>0, UnchangedEnd, RevokedEnd DEF Login!LogoutRevokes, Login!ConfirmSignsOut
  <2>2. NoNewRotation
    BY <1>5, <1>0, EndsQuiet DEF Login!LogoutRevokes, Login!ConfirmSignsOut
  <2> QED BY <2>1, <2>2, QuietStep
<1>6. ASSUME NEW s \in Requests, Login!LinkWrites(s) \/ Login!Dies(s) PROVE RotationInv'
  BY <1>6, <1>0, UnchangedEnd, EndsQuiet, QuietStep DEF Login!LinkWrites, Login!Dies,
     Login!accountVars
<1>7. ASSUME NEW s \in Requests,
             Login!WebsiteResolve(s) \/ Login!ImportCreates(s) \/ Login!ImportChecksKey(s) \/
                 Login!ImportAdoptsKey(s)
               \/ Login!LinkConsumes(s)
      PROVE  RotationInv'
  <2>1. calls[s].op # "refresh"
    BY <1>7 DEF Login!WebsiteResolve, Login!ImportCreates, Login!ImportChecksKey,
       Login!ImportAdoptsKey, Login!LinkConsumes, Login!At, TypeInv, RequestFits
  <2>2. UNCHANGED logins
    BY <1>7 DEF Login!WebsiteResolve, Login!ImportCreates, Login!ImportChecksKey,
       Login!ImportAdoptsKey, Login!LinkConsumes
  <2>3. calls'[s].op # "refresh" /\ \A t \in Requests : t # s => calls'[t] = calls[t]
    BY <1>7, <2>1, <1>0 DEF Login!WebsiteResolve, Login!ImportCreates, Login!ImportChecksKey,
       Login!ImportAdoptsKey, Login!LinkConsumes, Login!Goes, Login!Ends, Login!NoRequest,
       Login!TypeOK, Login!Request
  <2>4. NoNewRotation
    BY <2>3, <1>0 DEF NoNewRotation, RefreshFits, Rotating
  <2> QED BY <2>2, <2>4, UnchangedEnd, QuietStep
<1>8. ASSUME NEW s \in Requests, NEW r, calls' = [calls EXCEPT ![s] = r] \/ UNCHANGED calls,
             r.op # "refresh", UNCHANGED logins
      PROVE  RotationInv'
  BY <1>8, <1>0, UnchangedEnd, OtherQuiet, SameQuiet, QuietStep
<1>9. ASSUME NEW s \in Requests, NEW u \in People, Login!NostrLogin(s, u) \/ Login!WalletLogin(s, u)
      PROVE  RotationInv'
  <2> DEFINE r == [Login!NoRequest EXCEPT !.op = "sign_in", !.pc = "issue", !.user = u]
  <2>1. r.op # "refresh"
    BY DEF Login!NoRequest
  <2>2. calls' = [calls EXCEPT ![s] = r] /\ UNCHANGED logins
    BY <1>9 DEF Login!NostrLogin, Login!WalletLogin
  <2> HIDE DEF r
  <2> QED BY <2>1, <2>2, <1>8
<1>10. ASSUME NEW s \in Requests, NEW n \in Nonces, NEW k \in LoginKeys,
              Login!WebsiteVerify(s, n, k)
       PROVE  RotationInv'
  <2> DEFINE r == [Login!NoRequest EXCEPT !.op = "web", !.pc = "resolve", !.nonce = n, !.key = k]
  <2>1. r.op # "refresh"
    BY DEF Login!NoRequest
  <2>2. (calls' = [calls EXCEPT ![s] = r] \/ UNCHANGED calls) /\ UNCHANGED logins
    BY <1>10 DEF Login!WebsiteVerify
  <2> HIDE DEF r
  <2> QED BY <2>1, <2>2, <1>8
<1>11. ASSUME NEW s \in Requests, NEW i \in LoginIds, NEW n \in Nonces, NEW p \in Npubs,
              Login!LinkAuthenticates(s, i, n, p)
       PROVE  RotationInv'
  <2> DEFINE r == [op |-> "link", pc |-> "consume", user |-> logins[i].user, session |-> i,
                   nonce |-> n, key |-> p]
  <2>1. r.op # "refresh"
    OBVIOUS
  <2>2. calls' = [calls EXCEPT ![s] = r] /\ UNCHANGED logins
    BY <1>11 DEF Login!LinkAuthenticates
  <2> HIDE DEF r
  <2> QED BY <2>1, <2>2, <1>8
<1>12. ASSUME NEW s \in Requests, NEW n \in Nonces, NEW u \in People, Login!ConfirmErasure(s, n, u)
       PROVE  RotationInv'
  <2> DEFINE r == [Login!NoRequest EXCEPT !.op = "confirm", !.pc = "sign_out", !.user = u,
      !.nonce = n]
  <2>1. r.op # "refresh"
    BY DEF Login!NoRequest
  <2>2. calls' = [calls EXCEPT ![s] = r] /\ UNCHANGED logins
    BY <1>12 DEF Login!ConfirmErasure
  <2> HIDE DEF r
  <2> QED BY <2>1, <2>2, <1>8
<1>13. ASSUME NEW n \in Nonces, Login!IssueChallenge(n) \/ Login!ChallengeLapses(n)
       PROVE  RotationInv'
  BY <1>13, <1>0, UnchangedEnd, SameQuiet, QuietStep DEF Login!IssueChallenge, Login!Issue,
     Login!ChallengeLapses
<1>14. ASSUME NEW i \in LoginIds, Login!Expires(i) PROVE RotationInv'
  BY <1>14, <1>0, ExpiresEnd, SameQuiet, QuietStep DEF Login!Expires
<1>15. ASSUME NEW u \in People, Login!Erased(u) PROVE RotationInv'
  BY <1>15, <1>0, ErasedEnd, SameQuiet, QuietStep DEF Login!Erased
<1> QED BY <1>1, <1>2, <1>3, <1>4, <1>5, <1>6, <1>7, <1>9, <1>10, <1>11, <1>12, <1>13, <1>14, <1>15
        DEF Login!Next

-------------------------------------------------------------------------------
(* Challenges.                                                             *)

LEMMA ConsumeOnce ==
    ASSUME Login!TypeOK, NonceInv, NEW n, NEW p, NEW u, Login!Consume(n, p, u) PROVE NonceInv'
<1> SUFFICES ASSUME NEW m \in Nonces
             PROVE  nonces'[m].honoured <= 1 /\ (nonces'[m].state # "gone" =>
                 nonces'[m].honoured = 0)
  BY DEF NonceInv
<1>1. CASE m # n
  BY <1>1 DEF Login!Consume, Login!TypeOK, NonceInv
<1>2. CASE m = n
  <2>1. nonces[n].state = "issued" /\ nonces[n].honoured = 0 /\ nonces[n] \in Login!Challenge
    BY <1>2 DEF Login!Consume, NonceInv, Login!TypeOK
  <2>2. nonces'[m] \in {Login!Consumed(n), [nonces[n] EXCEPT !.state = "gone"]}
    BY <1>2 DEF Login!Consume, Login!TypeOK
  <2>3. Login!Consumed(n) = [nonces[n] EXCEPT !.state = "gone", !.honoured = 1]
    BY <2>1 DEF Login!Consumed
  <2>4. nonces'[m].state = "gone" /\ nonces'[m].honoured \in {0, 1}
    BY <2>1, <2>2, <2>3 DEF Login!Challenge
  <2> QED BY <2>4
<1> QED BY <1>1, <1>2

LEMMA NextNonces == Login!TypeOK /\ NonceInv /\ [Login!Next]_(Login!vars) => NonceInv'
<1> SUFFICES ASSUME Login!TypeOK, NonceInv, [Login!Next]_(Login!vars) PROVE NonceInv'
  OBVIOUS
<1>1. CASE UNCHANGED nonces
  BY <1>1 DEF NonceInv
<1>2. ASSUME NEW n, NEW p, NEW u, Login!Consume(n, p, u) PROVE NonceInv'
  BY <1>2, ConsumeOnce
<1>3. ASSUME NEW n \in Nonces, NEW p, NEW u, Login!Issue(n, p, u) PROVE NonceInv'
  BY <1>3 DEF Login!Issue, NonceInv, Login!TypeOK
<1>4. ASSUME NEW n \in Nonces, Login!ChallengeLapses(n) PROVE NonceInv'
  BY <1>4 DEF Login!ChallengeLapses, NonceInv, Login!TypeOK, Login!Challenge
<1> QED BY <1>1, <1>2, <1>3, <1>4
        DEF Login!Next, Login!vars, Login!Present, Login!RefreshRevokes, Login!LogoutRevokes,
           Login!IssueSession, Login!WebsiteResolve, Login!ImportCreates, Login!ImportChecksKey,
           Login!ImportAdoptsKey, Login!LinkConsumes, Login!LinkWrites, Login!ConfirmSignsOut,
           Login!Dies, Login!NostrLogin, Login!WalletLogin, Login!WebsiteVerify,
           Login!LinkAuthenticates, Login!ConfirmErasure, Login!IssueChallenge, Login!Expires,
           Login!Erased

-------------------------------------------------------------------------------
(* The theorems.                                                           *)

IInv == TypeInv /\ RotationInv /\ NonceInv

LEMMA InitRest == Login!ConstantsOK /\ Login!Init => RotationInv /\ NonceInv
BY DEF Login!ConstantsOK, Login!Init, RotationInv, OneActive, RotatingHasNone, OneRotating,
   LoginsUsed, RefreshFits, Rotating, Active, Used, Login!Unused, Login!NoRequest, NonceInv,
   Login!Fresh

LEMMA Inductive == Login!Spec => []IInv
<1>1. Login!Init => IInv
  BY InitTypes, InitRest, InstancesOK DEF IInv
<1>2. IInv /\ [Login!Next]_(Login!vars) => IInv'
  BY NextTypes, NextRotation, NextNonces, InstancesOK DEF IInv, TypeInv, RotationInv
<1> QED BY <1>1, <1>2, PTL DEF Login!Spec

\* refresh_token: for any number of refreshes, logouts, expiries, erasures and sign-ins
\* in flight, dying at any statement, a sign-in has at most one live session.  Revoking
\* the old session is the lock: who fails to revoke it gives up, and who revoked it owns
\* the login until it issues or dies.
THEOREM RotationNeverForks == Login!Spec => []OneLivePerLogin
<1>1. IInv => OneLivePerLogin
  BY DEF IInv, RotationInv, OneActive, OneLivePerLogin, Login!OneLivePerLogin, Active, Login!Live
<1> QED BY <1>1, Inductive, PTL

\* consume_challenge, website_verify: the DELETE that finds the challenge is what honours
\* it, so no challenge is honoured twice whatever the interleaving.
THEOREM ChallengesAreSingleUse == Login!Spec => []HonouredOnce
<1>1. IInv => HonouredOnce
  BY DEF IInv, NonceInv, HonouredOnce, Login!HonouredOnce
<1> QED BY <1>1, Inductive, PTL

-------------------------------------------------------------------------------
(* A sign-in is one right: the refinement of SignIns.                      *)

\* A login is the first session's, and a refresh speaks for its session's user.
LoginsNamed == \A i \in LoginIds : Used(i) => logins[logins[i].login].login = logins[i].login
RefreshOwns == \A s \in Requests : calls[s].op = "refresh" =>
    calls[s].user = logins[calls[s].session].user

RightInv == LoginsNamed /\ RefreshOwns

\* What may become of a refresh: nothing, the step from the revocation to the issue, or
\* its beginning with a live session.
RefreshGoes(s) ==
    \/ calls'[s] = calls[s]
    \/ /\ calls[s].op = "refresh" /\ calls'[s].session = calls[s].session
       /\ calls'[s].user = calls[s].user
       /\ calls[s].user \in members /\ Active(calls[s].session)
    \/ /\ calls'[s].pc = "revoke" /\ calls'[s].session \in LoginIds
       /\ calls'[s].user = logins[calls'[s].session].user
       /\ Login!Live(calls'[s].session) /\ logins' = logins

\* A step that issues no session.
Ending ==
    /\ SessionsEnd
    /\ \A i \in LoginIds : /\ logins'[i].user = logins[i].user
                           /\ logins'[i].status = "live" => logins[i].status = "live"
    /\ \A u \in members' : u \in members \/ \A i \in LoginIds : logins[i].user # u
    /\ \A s \in Requests : calls'[s].op = "refresh" => RefreshGoes(s)

\* Request s issues session i of login l.
Issuing(s, i, l) ==
    /\ calls[s].pc = "issue" /\ calls[s].user \in members /\ logins[i].status = "unused"
    /\ l = IF calls[s].op = "refresh" THEN LoginOf(s) ELSE i
    /\ logins'[i].user = calls[s].user /\ logins'[i].status = "live" /\ logins'[i].login = l
    /\ \A j \in LoginIds : j # i => logins'[j] = logins[j]
    /\ calls'[s].op = "idle" /\ \A t \in Requests : t # s => calls'[t] = calls[t]
    /\ members' = members

OutOfUse == {i \in LoginIds : logins[i].status \notin {"unused", "live"}}

\* The step of SignIns, by what it says of each sign-in.
LEMMA RightSteps ==
    ASSUME OutOfUse \subseteq OutOfUse',
           \A l \in LoginIds :
              \/ Login!Right(l)' = Login!Right(l) /\ Login!Good(l)' = Login!Good(l)
              \/ /\ Login!Right(l) = "none" /\ Login!Right(l)' = "held"
                 /\ l \notin OutOfUse /\ (\A m \in LoginIds : l \notin Login!Good(m))
                 /\ Login!Good(l)' = {l}
              \/ /\ Login!Right(l) = "held" /\ Login!Right(l)' = "held"
                 /\ Login!Good(l) # {} /\ Login!Good(l)' = {} /\ Login!Good(l) \subseteq OutOfUse'
              \/ /\ Login!Right(l) = "held" /\ Login!Right(l)' = "held" /\ Login!Good(l) = {}
                 /\ \E i \in LoginIds : /\ i \notin OutOfUse
                                        /\ \A m \in LoginIds : i \notin Login!Good(m)
                                        /\ Login!Good(l)' = {i}
              \/ /\ Login!Right(l) = "held" /\ Login!Right(l)' = "over"
                 /\ Login!Good(l)' = {} /\ Login!Good(l) \subseteq OutOfUse'
    PROVE  Login!SignIn!Next
    BY DEF Login!SignIn!Next, Login!SignIn!Stay, Login!SignIn!Begin, Login!SignIn!Take,
       Login!SignIn!Give, Login!SignIn!End, Login!SignIn!New, OutOfUse

LEMMA EndingSteps ==
    ASSUME TypeInv, RotationInv, RightInv, Ending
    PROVE  Login!SignIn!Next
<1>1. OutOfUse \subseteq OutOfUse'
    BY DEF Ending, SessionsEnd, Used, OutOfUse
<1>2. ASSUME NEW l \in LoginIds
      PROVE  /\ Login!Good(l)' \subseteq Login!Good(l)
             /\ \A i \in Login!Good(l) : i \in Login!Good(l)' \/ i \in OutOfUse'
             /\ \A i, j \in Login!Good(l) : i = j
    BY DEF Ending, SessionsEnd, Used, OutOfUse, Login!Good, Login!Live, RotationInv, OneActive,
       Active
<1>3. ASSUME NEW l \in LoginIds, NEW s \in Requests, Login!Rotates(s, l)'
      PROVE  Login!Rotates(s, l) \/ Login!Good(l) # {}
  <2>1. /\ calls'[s].op = "refresh" /\ calls'[s].user \in members'
        /\ logins'[calls'[s].session].login = l
        /\ calls'[s].pc = "issue" \/ logins'[calls'[s].session].status = "expired"
    BY <1>3 DEF Login!Rotates
  <2>2. CASE calls'[s] = calls[s]
    <3>1. PICK i \in LoginIds : i = calls[s].session /\ calls[s].op = "refresh"
      BY <2>1, <2>2 DEF RotationInv, RefreshFits
    <3>2. logins[i].user = calls[s].user /\ logins[i].login = l
      BY <2>1, <2>2, <3>1 DEF RightInv, RefreshOwns, Ending, SessionsEnd
    <3>3. calls[s].user \in members
      BY <2>1, <2>2, <3>2 DEF Ending
    <3>4. CASE calls[s].pc = "issue"
      BY <3>1, <3>2, <3>3, <3>4 DEF Login!Rotates
    <3>5. CASE logins'[i].status = "expired"
      <4>1. logins[i].status \in {"live", "expired"}
        BY <3>5 DEF Ending, SessionsEnd, Active
      <4> QED
        BY <3>1, <3>2, <3>3, <4>1 DEF Login!Rotates, Login!Good, Login!Live
    <3> QED
      BY <2>1, <2>2, <3>1, <3>4, <3>5
  <2>3. CASE /\ calls[s].op = "refresh" /\ calls'[s].session = calls[s].session
             /\ calls[s].user \in members /\ Active(calls[s].session)
    <3>1. PICK i \in LoginIds : i = calls[s].session
      BY <2>3 DEF RotationInv, RefreshFits
    <3>2. logins[i].login = l /\ logins[i].status \in {"live", "expired"}
      BY <2>1, <2>3, <3>1 DEF Ending, SessionsEnd, Active
    <3> QED
      BY <2>3, <3>1, <3>2 DEF Login!Rotates, Login!Good, Login!Live
  <2>4. CASE /\ calls'[s].pc = "revoke" /\ Login!Live(calls'[s].session) /\ logins' = logins
    BY <2>1, <2>4 DEF Login!Live
  <2> QED
    BY <2>1, <2>2, <2>3, <2>4 DEF Ending, RefreshGoes
<1>4. ASSUME NEW l \in LoginIds
      PROVE  \/ Login!Right(l)' = Login!Right(l)
             \/ Login!Right(l) = "held" /\ Login!Right(l)' = "over" /\ Login!Good(l)' = {}
  <2>1. logins'[l].login = logins[l].login
    BY DEF Ending, SessionsEnd
  <2>2. (\E s \in Requests : Login!Rotates(s, l)')
        => Login!Good(l) # {} \/ \E s \in Requests : Login!Rotates(s, l)
    BY <1>3
  <2>3. Login!Good(l)' # {} => Login!Good(l) # {}
    BY <1>2
  <2> QED
    BY <2>1, <2>2, <2>3 DEF Login!Right
<1>5. ASSUME NEW l \in LoginIds, Login!Good(l) # {}
      PROVE  Login!Right(l) = "held"
  <2>1. PICK i \in LoginIds : logins[i].status = "live" /\ logins[i].login = l
    BY <1>5 DEF Login!Good, Login!Live
  <2>2. logins[l].login = l
    BY <2>1 DEF RightInv, LoginsNamed, Used
  <2> QED
    BY <1>5, <2>2 DEF Login!Right
<1>6. ASSUME NEW l \in LoginIds
      PROVE  \/ Login!Right(l)' = Login!Right(l) /\ Login!Good(l)' = Login!Good(l)
             \/ /\ Login!Right(l) = "held" /\ Login!Right(l)' = "held"
                /\ Login!Good(l) # {} /\ Login!Good(l)' = {} /\ Login!Good(l) \subseteq OutOfUse'
             \/ /\ Login!Right(l) = "held" /\ Login!Right(l)' = "over"
                /\ Login!Good(l)' = {} /\ Login!Good(l) \subseteq OutOfUse'
  <2>1. CASE Login!Good(l)' = Login!Good(l)
    BY <1>4, <2>1
  <2>2. CASE Login!Good(l)' # Login!Good(l)
    <3>1. Login!Good(l) # {} /\ Login!Good(l)' = {} /\ Login!Good(l) \subseteq OutOfUse'
      BY <1>2, <2>2
    <3> QED
      BY <1>4, <1>5, <3>1
  <2> QED
    BY <2>1, <2>2
<1> QED
    BY <1>1, <1>6, RightSteps

LEMMA IssuingSteps ==
    ASSUME TypeInv, RotationInv, RightInv, NEW s \in Requests, NEW i \in LoginIds, NEW l,
           Issuing(s, i, l)
    PROVE  Login!SignIn!Next
<1>0. None \notin LoginIds
    BY InstancesOK DEF Login!ConstantsOK
<1>1. OutOfUse \subseteq OutOfUse'
    BY DEF Issuing, OutOfUse
<1>2. /\ logins[i].login = None /\ i \notin OutOfUse /\ ~Used(i)
      /\ \A m \in LoginIds : i \notin Login!Good(m)
    BY DEF Issuing, RotationInv, LoginsUsed, Used, Login!Unused, OutOfUse, Login!Good, Login!Live
<1>3. \A j \in LoginIds : j # i => logins[j].login # i
  <2>1. ASSUME NEW j \in LoginIds, logins[j].login = i
        PROVE  FALSE
    <3>1. Used(j)
      BY <1>0, <2>1 DEF RotationInv, LoginsUsed, Login!Unused
    <3>2. logins[i].login = i
      BY <2>1, <3>1 DEF RightInv, LoginsNamed
    <3> QED
      BY <1>0, <1>2, <3>2
  <2> QED
    BY <2>1
<1>4. ASSUME NEW m \in LoginIds, m # l
      PROVE  Login!Good(m)' = Login!Good(m)
    BY <1>2, <1>4 DEF Issuing, Login!Good, Login!Live
<1>5. ASSUME NEW m \in LoginIds, NEW t \in Requests, t # s
      PROVE  Login!Rotates(t, m)' <=> Login!Rotates(t, m)
  <2>1. calls'[t] = calls[t] /\ members' = members
    BY <1>5 DEF Issuing
  <2>2. CASE calls[t].op = "refresh"
    <3>1. PICK j \in LoginIds : j = calls[t].session /\ j # i
      BY <1>2, <2>2 DEF RotationInv, RefreshFits
    <3>2. logins'[j] = logins[j]
      BY <3>1 DEF Issuing
    <3> QED
      BY <2>1, <3>1, <3>2 DEF Login!Rotates
  <2> QED
    BY <2>1, <2>2 DEF Login!Rotates
<1>6. \A m : ~Login!Rotates(s, m)'
    BY DEF Issuing, Login!Rotates
<1>7. CASE calls[s].op = "refresh"
  <2>1. l = LoginOf(s) /\ Rotating(s) /\ calls[s].user \in members
    BY <1>7 DEF Issuing, Rotating
  <2>2. PICK j \in LoginIds : j = calls[s].session /\ Used(j)
    BY <1>7 DEF RotationInv, RefreshFits
  <2>3. logins[j].login = l /\ l \in LoginIds /\ logins[l].login = l
    BY <2>1, <2>2 DEF LoginOf, RotationInv, LoginsUsed, RightInv, LoginsNamed
  <2>4. l # i /\ logins'[l].login = l
    BY <1>0, <1>2, <2>3 DEF Issuing
  <2>5. Login!Rotates(s, l) /\ \A m \in LoginIds : m # l => ~Login!Rotates(s, m)
    BY <1>7, <2>1, <2>2, <2>3 DEF Login!Rotates, Rotating
  <2>6. Login!Good(l) = {}
    BY <2>1 DEF RotationInv, RotatingHasNone, Active, Login!Good, Login!Live
  <2>7. Login!Good(l)' = {i}
    BY <2>3, <2>6 DEF Issuing, Login!Good, Login!Live
  <2>8. Login!Right(l) = "held"
    BY <2>3, <2>5 DEF Login!Right
  <2>9. Login!Right(l)' = "held"
    BY <2>4, <2>7 DEF Login!Right
  <2>10. ASSUME NEW m \in LoginIds, m # l
         PROVE  Login!Right(m)' = Login!Right(m)
    <3>1. (\E t \in Requests : Login!Rotates(t, m)') <=> \E t \in Requests : Login!Rotates(t, m)
      BY <1>5, <1>6, <2>5, <2>10
    <3>2. logins'[m].login = m <=> logins[m].login = m
      BY <1>0, <1>2, <2>10 DEF Issuing
    <3> QED
      BY <1>4, <2>10, <3>1, <3>2 DEF Login!Right
  <2> QED
    BY <1>1, <1>2, <1>4, <2>3, <2>6, <2>7, <2>8, <2>9, <2>10, RightSteps
<1>8. CASE calls[s].op # "refresh"
  <2>1. l = i
    BY <1>8 DEF Issuing
  <2>2. Login!Right(i) = "none"
    BY <1>0, <1>2 DEF Login!Right
  <2>3. Login!Good(i)' = {i}
    BY <1>3, <2>1 DEF Issuing, Login!Good, Login!Live
  <2>4. Login!Right(i)' = "held"
    BY <2>1, <2>3 DEF Issuing, Login!Right
  <2>5. ASSUME NEW m \in LoginIds, m # i
        PROVE  Login!Right(m)' = Login!Right(m)
    <3>1. ~Login!Rotates(s, m)
      BY <1>8 DEF Login!Rotates
    <3>2. (\E t \in Requests : Login!Rotates(t, m)') <=> \E t \in Requests : Login!Rotates(t, m)
      BY <1>5, <1>6, <3>1
    <3>3. logins'[m].login = logins[m].login
      BY <2>5 DEF Issuing
    <3> QED
      BY <1>4, <2>1, <2>5, <3>2, <3>3 DEF Login!Right
  <2> QED
    BY <1>1, <1>2, <1>4, <2>1, <2>2, <2>3, <2>4, <2>5, RightSteps
<1> QED
    BY <1>7, <1>8

LEMMA EndingKeeps == ASSUME RotationInv, RightInv, Ending PROVE RightInv'
<1>1. LoginsNamed'
    BY DEF RightInv, LoginsNamed, Ending, SessionsEnd, RotationInv, LoginsUsed
<1>2. ASSUME NEW s \in Requests, calls'[s].op = "refresh"
      PROVE  calls'[s].user = logins'[calls'[s].session].user
  <2>1. CASE calls'[s] = calls[s]
    BY <1>2, <2>1 DEF RightInv, RefreshOwns, Ending, RotationInv, RefreshFits
  <2>2. CASE /\ calls[s].op = "refresh" /\ calls'[s].session = calls[s].session
             /\ calls'[s].user = calls[s].user
    BY <1>2, <2>2 DEF RightInv, RefreshOwns, Ending, RotationInv, RefreshFits
  <2>3. CASE /\ calls'[s].session \in LoginIds /\ logins' = logins
             /\ calls'[s].user = logins[calls'[s].session].user
    BY <2>3
  <2> QED
    BY <1>2, <2>1, <2>2, <2>3 DEF Ending, RefreshGoes
<1> QED
    BY <1>1, <1>2 DEF RightInv, RefreshOwns

LEMMA IssuingKeeps ==
    ASSUME RotationInv, RightInv, NEW s \in Requests, NEW i \in LoginIds, NEW l, Issuing(s, i, l)
    PROVE  RightInv'
<1>1. ~Used(i)
    BY DEF Issuing, Used
<1>2. l \in LoginIds /\ logins'[l].login = l
  <2>1. CASE calls[s].op = "refresh"
    <3>1. PICK j \in LoginIds : j = calls[s].session /\ Used(j)
      BY <2>1 DEF RotationInv, RefreshFits
    <3>2. l = logins[j].login
      BY <2>1, <3>1 DEF Issuing, LoginOf
    <3>3. l \in LoginIds /\ Used(l) /\ logins[l].login = l
      BY <3>1, <3>2 DEF RotationInv, LoginsUsed, RightInv, LoginsNamed
    <3> QED
      BY <1>1, <3>3 DEF Issuing
  <2>2. CASE calls[s].op # "refresh"
    BY <2>2 DEF Issuing
  <2> QED
    BY <2>1, <2>2
<1>3. ASSUME NEW j \in LoginIds, Used(j)'
      PROVE  logins'[logins'[j].login].login = logins'[j].login
  <2>1. CASE j = i
    BY <1>2, <2>1 DEF Issuing
  <2>2. CASE j # i
    <3>1. logins'[j] = logins[j] /\ Used(j)
      BY <1>3, <2>2 DEF Issuing, Used
    <3>2. logins[j].login \in LoginIds /\ Used(logins[j].login)
          /\ logins[logins[j].login].login = logins[j].login
      BY <3>1 DEF RotationInv, LoginsUsed, RightInv, LoginsNamed
    <3>3. logins[j].login # i
      BY <1>1, <3>2
    <3> QED
      BY <3>1, <3>2, <3>3 DEF Issuing
  <2> QED
    BY <2>1, <2>2
<1>4. ASSUME NEW t \in Requests, calls'[t].op = "refresh"
      PROVE  calls'[t].user = logins'[calls'[t].session].user
  <2>1. t # s /\ calls'[t] = calls[t]
    BY <1>4 DEF Issuing
  <2>2. calls[t].session \in LoginIds /\ Used(calls[t].session)
        /\ calls[t].user = logins[calls[t].session].user
    BY <1>4, <2>1 DEF RotationInv, RefreshFits, RightInv, RefreshOwns
  <2>3. logins'[calls[t].session] = logins[calls[t].session]
    BY <1>1, <2>2 DEF Issuing
  <2> QED
    BY <2>1, <2>2, <2>3
<1> QED
    BY <1>3, <1>4 DEF RightInv, LoginsNamed, RefreshOwns

\* Sessions keep their user, and none comes to life.
KeptUsers == \A i \in LoginIds : /\ logins'[i].user = logins[i].user
                                 /\ logins'[i].status = "live" => logins[i].status = "live"

LEMMA RevokedKeeps ==
    ASSUME Login!TypeOK, NEW S, logins' = Login!Revoked(S) \/ UNCHANGED logins
    PROVE  SessionsEnd /\ KeptUsers
<1>1. KeptUsers
    BY DEF Login!TypeOK, Login!Session, Login!Revoked, KeptUsers
<1> QED
    BY <1>1, RevokedEnd, UnchangedEnd

\* Every step of Sessions issues a session or ends some.
LEMMA StepKinds ==
    ASSUME Login!ConstantsOK, TypeInv, RotationInv, [Login!Next]_(Login!vars)
    PROVE  Ending \/ \E s \in Requests, i \in LoginIds : \E l : Issuing(s, i, l)
<1>0. Login!TypeOK /\ RefreshFits /\ LoginsUsed
    BY DEF TypeInv, RotationInv
<1> USE DEF Login!accountVars
<1>1. ASSUME SessionsEnd, KeptUsers, members' \subseteq members,
             \A s \in Requests : calls'[s].op = "refresh" => RefreshGoes(s)
      PROVE  Ending
    BY <1>1 DEF Ending, KeptUsers
<1>2. ASSUME NEW s \in Requests, NEW r, calls' = [calls EXCEPT ![s] = r], r.op # "refresh"
      PROVE  \A t \in Requests : calls'[t].op = "refresh" => RefreshGoes(t)
  <2>1. \A t \in Requests : calls'[t] = IF t = s THEN r ELSE calls[t]
    BY <1>0, <1>2 DEF Login!TypeOK
  <2> QED
    BY <1>2, <2>1 DEF RefreshGoes
<1>3. ASSUME NEW s \in Requests, Login!Ends(s)
      PROVE  \A t \in Requests : calls'[t].op = "refresh" => RefreshGoes(t)
  <2>1. calls' = [calls EXCEPT ![s] = Login!NoRequest] /\ Login!NoRequest.op # "refresh"
    BY <1>3 DEF Login!Ends, Login!NoRequest
  <2> QED
    BY <1>2, <2>1
<1>4. ASSUME calls' = calls
      PROVE  \A t \in Requests : calls'[t].op = "refresh" => RefreshGoes(t)
    BY <1>4 DEF RefreshGoes
<1>5. ASSUME UNCHANGED logins PROVE SessionsEnd /\ KeptUsers
    BY <1>0, <1>5, RevokedKeeps
<1>6. CASE UNCHANGED Login!vars
    BY <1>1, <1>4, <1>5, <1>6 DEF Login!vars
<1>7. ASSUME NEW s \in Requests, NEW i \in LoginIds, NEW op \in {"refresh", "logout"},
             Login!Present(s, op, i)
      PROVE  Ending
  <2>1. UNCHANGED <<logins, members>>
    BY <1>7 DEF Login!Present
  <2> DEFINE r == [Login!NoRequest EXCEPT !.op = op, !.pc = "revoke", !.session = i,
                                    !.user = logins[i].user]
  <2>2. calls' = [calls EXCEPT ![s] = r] /\ Login!Live(i)
    BY <1>7 DEF Login!Present
  <2>3. r.pc = "revoke" /\ r.session = i /\ r.user = logins[i].user
    BY DEF Login!NoRequest
  <2> HIDE DEF r
  <2>4. \A t \in Requests : calls'[t] = IF t = s THEN r ELSE calls[t]
    BY <1>0, <2>2 DEF Login!TypeOK
  <2>5. \A t \in Requests : calls'[t].op = "refresh" => RefreshGoes(t)
    BY <2>1, <2>2, <2>3, <2>4 DEF RefreshGoes
  <2> QED
    BY <1>1, <1>5, <2>1, <2>5
<1>8. ASSUME NEW s \in Requests, Login!RefreshRevokes(s)
      PROVE  Ending
  <2>1. members' = members /\ SessionsEnd /\ KeptUsers
    BY <1>0, <1>8, RevokedKeeps DEF Login!RefreshRevokes
  <2>2. CASE Login!Ends(s)
    BY <1>1, <1>3, <2>1, <2>2
  <2>3. CASE ~Login!Ends(s)
    <3>1. /\ Login!Goes(s, "issue") /\ calls[s].op = "refresh" /\ calls[s].user \in members
          /\ Login!Revokes(calls[s].session)
      BY <1>8, <2>3 DEF Login!RefreshRevokes
    <3>2. \A t \in Requests : /\ t # s => calls'[t] = calls[t]
                              /\ calls'[t].session = calls[t].session
                              /\ calls'[t].user = calls[t].user
      BY <1>0, <3>1 DEF Login!Goes, Login!TypeOK, Login!Request
    <3>3. \A t \in Requests : calls'[t].op = "refresh" => RefreshGoes(t)
      BY <3>1, <3>2 DEF RefreshGoes, Login!Revokes, Active
    <3> QED
      BY <1>1, <2>1, <3>3
  <2> QED
    BY <2>2, <2>3
<1>9. ASSUME NEW s \in Requests, Login!IssueSession(s)
      PROVE  Ending \/ \E i \in LoginIds : \E l : Issuing(s, i, l)
  <2>1. Login!Ends(s) /\ calls[s].pc = "issue" /\ members' = members
    BY <1>9 DEF Login!IssueSession, Login!At
  <2>2. CASE calls[s].user \notin members
    BY <1>1, <1>3, <1>5, <1>9, <2>1, <2>2 DEF Login!IssueSession
  <2>3. CASE calls[s].user \in members
    <3>1. PICK i \in LoginIds : \E l :
            /\ logins[i].status = "unused"
            /\ l = IF calls[s].op = "refresh" THEN LoginOf(s) ELSE i
            /\ logins' = [logins EXCEPT ![i] = [user |-> calls[s].user, status |-> "live",
                                                login |-> l]]
      BY <1>9, <2>3 DEF Login!IssueSession, LoginOf
    <3>2. PICK l :
            /\ logins[i].status = "unused"
            /\ l = IF calls[s].op = "refresh" THEN LoginOf(s) ELSE i
            /\ logins' = [logins EXCEPT ![i] = [user |-> calls[s].user, status |-> "live",
                                                login |-> l]]
      BY <3>1
    <3>3. /\ logins'[i].user = calls[s].user /\ logins'[i].status = "live"
          /\ logins'[i].login = l
          /\ \A j \in LoginIds : j # i => logins'[j] = logins[j]
      BY <1>0, <3>2 DEF Login!TypeOK
    <3>4. calls'[s].op = "idle" /\ \A t \in Requests : t # s => calls'[t] = calls[t]
      BY <1>0, <2>1 DEF Login!Ends, Login!TypeOK, Login!NoRequest
    <3> QED
      BY <2>1, <2>3, <3>2, <3>3, <3>4 DEF Issuing
  <2> QED
    BY <2>2, <2>3
<1>10. ASSUME NEW s \in Requests,
              \/ Login!LogoutRevokes(s) \/ Login!ConfirmSignsOut(s) \/ Login!LinkWrites(s)
              \/ Login!Dies(s)
       PROVE  Ending
  <2>1. SessionsEnd /\ KeptUsers
    BY <1>0, <1>10, RevokedKeeps DEF Login!LogoutRevokes, Login!ConfirmSignsOut,
       Login!LinkWrites, Login!Dies
  <2>2. Login!Ends(s) /\ members' = members
    BY <1>10 DEF Login!LogoutRevokes, Login!ConfirmSignsOut, Login!LinkWrites, Login!Dies
  <2> QED
    BY <1>1, <1>3, <2>1, <2>2
<1>11. ASSUME NEW s \in Requests,
              \/ Login!WebsiteResolve(s) \/ Login!ImportCreates(s) \/ Login!ImportChecksKey(s)
              \/ Login!ImportAdoptsKey(s) \/ Login!LinkConsumes(s)
       PROVE  Ending
  <2>1. calls[s].op # "refresh"
    BY <1>11 DEF Login!WebsiteResolve, Login!ImportCreates, Login!ImportChecksKey,
       Login!ImportAdoptsKey, Login!LinkConsumes, Login!At, TypeInv, RequestFits
  <2>2. UNCHANGED logins
    BY <1>11 DEF Login!WebsiteResolve, Login!ImportCreates, Login!ImportChecksKey,
       Login!ImportAdoptsKey, Login!LinkConsumes
  <2>3. calls'[s].op # "refresh" /\ \A t \in Requests : t # s => calls'[t] = calls[t]
    BY <1>11, <2>1, <1>0 DEF Login!WebsiteResolve, Login!ImportCreates, Login!ImportChecksKey,
       Login!ImportAdoptsKey, Login!LinkConsumes, Login!Goes, Login!Ends, Login!NoRequest,
       Login!TypeOK, Login!Request
  <2>4. \A t \in Requests : calls'[t].op = "refresh" => RefreshGoes(t)
    BY <2>3 DEF RefreshGoes
  <2>5. \A u \in members' : u \in members \/ \A i \in LoginIds : logins[i].user # u
    BY <1>11 DEF Login!WebsiteResolve, Login!ImportCreates, Login!ImportChecksKey,
       Login!ImportAdoptsKey, Login!LinkConsumes
  <2>6. SessionsEnd /\ KeptUsers
    BY <1>5, <2>2
  <2> QED
    BY <2>4, <2>5, <2>6 DEF Ending, KeptUsers
<1>12. ASSUME NEW s \in Requests, NEW r, calls' = [calls EXCEPT ![s] = r] \/ UNCHANGED calls,
              r.op # "refresh", UNCHANGED <<logins, members>>
       PROVE  Ending
    BY <1>1, <1>2, <1>4, <1>5, <1>12
<1>13. ASSUME NEW s \in Requests, NEW u \in People,
              Login!NostrLogin(s, u) \/ Login!WalletLogin(s, u)
       PROVE  Ending
  <2> DEFINE r == [Login!NoRequest EXCEPT !.op = "sign_in", !.pc = "issue", !.user = u]
  <2>1. r.op # "refresh"
    BY DEF Login!NoRequest
  <2>2. calls' = [calls EXCEPT ![s] = r] /\ UNCHANGED <<logins, members>>
    BY <1>13 DEF Login!NostrLogin, Login!WalletLogin
  <2> HIDE DEF r
  <2> QED
    BY <1>12, <2>1, <2>2
<1>14. ASSUME NEW s \in Requests, NEW n \in Nonces, NEW k \in LoginKeys,
              Login!WebsiteVerify(s, n, k)
       PROVE  Ending
  <2> DEFINE r == [Login!NoRequest EXCEPT !.op = "web", !.pc = "resolve", !.nonce = n, !.key = k]
  <2>1. r.op # "refresh"
    BY DEF Login!NoRequest
  <2>2. (calls' = [calls EXCEPT ![s] = r] \/ UNCHANGED calls) /\ UNCHANGED <<logins, members>>
    BY <1>14 DEF Login!WebsiteVerify
  <2> HIDE DEF r
  <2> QED
    BY <1>12, <2>1, <2>2
<1>15. ASSUME NEW s \in Requests, NEW i \in LoginIds, NEW n \in Nonces, NEW p \in Npubs,
              Login!LinkAuthenticates(s, i, n, p)
       PROVE  Ending
  <2> DEFINE r == [op |-> "link", pc |-> "consume", user |-> logins[i].user, session |-> i,
                   nonce |-> n, key |-> p]
  <2>1. r.op # "refresh"
    OBVIOUS
  <2>2. calls' = [calls EXCEPT ![s] = r] /\ UNCHANGED <<logins, members>>
    BY <1>15 DEF Login!LinkAuthenticates
  <2> HIDE DEF r
  <2> QED
    BY <1>12, <2>1, <2>2
<1>16. ASSUME NEW s \in Requests, NEW n \in Nonces, NEW u \in People,
              Login!ConfirmErasure(s, n, u)
       PROVE  Ending
  <2> DEFINE r == [Login!NoRequest EXCEPT !.op = "confirm", !.pc = "sign_out", !.user = u,
                                    !.nonce = n]
  <2>1. r.op # "refresh"
    BY DEF Login!NoRequest
  <2>2. calls' = [calls EXCEPT ![s] = r] /\ UNCHANGED <<logins, members>>
    BY <1>16 DEF Login!ConfirmErasure
  <2> HIDE DEF r
  <2> QED
    BY <1>12, <2>1, <2>2
<1>17. ASSUME NEW n \in Nonces, Login!IssueChallenge(n) \/ Login!ChallengeLapses(n)
       PROVE  Ending
  <2>1. UNCHANGED <<logins, members, calls>>
    BY <1>17 DEF Login!IssueChallenge, Login!Issue, Login!ChallengeLapses
  <2> QED
    BY <1>1, <1>4, <1>5, <2>1
<1>18. ASSUME NEW i \in LoginIds, Login!Expires(i)
       PROVE  Ending
  <2>1. KeptUsers /\ UNCHANGED <<members, calls>>
    BY <1>0, <1>18 DEF Login!Expires, Login!TypeOK, Login!Session, KeptUsers
  <2> QED
    BY <1>0, <1>1, <1>4, <1>18, <2>1, ExpiresEnd
<1>19. ASSUME NEW u \in People, Login!Erased(u)
       PROVE  Ending
  <2>1. KeptUsers /\ members' \subseteq members /\ calls' = calls
    BY <1>0, <1>19 DEF Login!Erased, Login!TypeOK, Login!Session, KeptUsers
  <2> QED
    BY <1>0, <1>1, <1>4, <1>19, <2>1, ErasedEnd
<1> QED
    BY <1>6, <1>7, <1>8, <1>9, <1>10, <1>11, <1>13, <1>14, <1>15, <1>16, <1>17, <1>18, <1>19
    DEF Login!Next

LEMMA RightStarts == ASSUME Login!Init PROVE RightInv /\ Login!SignIn!Init
<1>0. None \notin LoginIds
    BY InstancesOK DEF Login!ConstantsOK
<1>1. \A i \in LoginIds : logins[i].status = "unused" /\ logins[i].login = None
    BY DEF Login!Init, Login!Unused
<1>2. RightInv
    BY <1>1 DEF RightInv, LoginsNamed, RefreshOwns, Used, Login!Init, Login!NoRequest
<1>3. \A l \in LoginIds : Login!Right(l) = "none" /\ Login!Good(l) = {}
    BY <1>0, <1>1 DEF Login!Right, Login!Good, Login!Live
<1> QED
    BY <1>1, <1>2, <1>3 DEF Login!SignIn!Init

LEMMA RightGoes ==
    ASSUME IInv, RightInv, [Login!Next]_(Login!vars)
    PROVE  RightInv' /\ Login!SignIn!Next
<1>1. Ending \/ \E s \in Requests, i \in LoginIds : \E l : Issuing(s, i, l)
    BY InstancesOK, StepKinds DEF IInv
<1> QED
    BY <1>1, EndingKeeps, IssuingKeeps, EndingSteps, IssuingSteps DEF IInv

\* refresh_token, revoke_session, issue_session: Sessions implements SignIns.  For any
\* number of requests in flight, dying at any statement, a sign-in is one right: at
\* most one token is good for it, a token that was rotated, revoked or expired stays
\* out of use, and once neither a live session nor a refresh holds the right, no step
\* brings the sign-in back.
THEOREM SignInsAreOneRight == Login!Spec => SignInsRefined
<1>1. Login!Init => RightInv /\ Login!SignIn!Init
    BY RightStarts
<1>2. IInv /\ RightInv /\ [Login!Next]_(Login!vars) => RightInv' /\ Login!SignIn!Next
    BY RightGoes
<1> QED
    BY <1>1, <1>2, Inductive, PTL
    DEF Login!Spec, SignInsRefined, Login!SignInsRefined, Login!SignIn!Spec

-------------------------------------------------------------------------------
(* The governors of the restore check.                                     *)

\* The requests the governor of the address let through, and those the governor of
\* fingerprint f let through: each will be answered, whatever is counted meanwhile.
Passed == {s \in Probes : probe[s].pc # "idle"}
PassedOn(f) == {s \in Probes : probe[s].pc = "answer" /\ probe[s].fp = f}

RestoreType ==
    /\ attempts \in Nat /\ answered \in Nat /\ lost \in Nat
    /\ failed \in [Fingerprints -> Nat] /\ tried \in [Fingerprints -> Nat]
    /\ probe \in [Probes -> Restore!Probe]

\* What was answered was recorded or lost; an unknown fingerprint only fails.
AnswersCounted ==
    /\ answered <= attempts + lost
    /\ \A f \in Fingerprints \ Known : tried[f] <= failed[f] + lost

\* The answers given and those that can no longer be refused.
AnswersBounded ==
    /\ answered + Cardinality(Passed) < IpThreshold + Cardinality(Probes) + lost
    /\ \A f \in Fingerprints \ Known :
          tried[f] + Cardinality(PassedOn(f)) < FailThreshold + Cardinality(Probes) + lost

RestoreInv == RestoreType /\ AnswersCounted /\ AnswersBounded

LEMMA RestoreBounds ==
    /\ IsFiniteSet(Probes) /\ Cardinality(Probes) \in Nat
    /\ Restore!Cardinality(Probes) = Cardinality(Probes)
    /\ IpThreshold \in Nat /\ IpThreshold > 0 /\ FailThreshold \in Nat /\ FailThreshold > 0
<1>1. IsFiniteSet(Probes)
    BY InstancesOK DEF Restore!ConstantsOK, Restore!IsFiniteSet, IsFiniteSet
<1>2. IpThreshold \in Nat \ {0} /\ FailThreshold \in Nat \ {0}
    BY InstancesOK DEF Restore!ConstantsOK
<1>3. Restore!Cardinality(Probes) = Cardinality(Probes)
    BY DEF Restore!Cardinality, Cardinality
<1> QED
    BY <1>1, <1>2, <1>3, FS_CardinalityType

\* Sets of requests are finite and no larger than all.
LEMMA Few ==
    ASSUME NEW S \in SUBSET Probes
    PROVE  IsFiniteSet(S) /\ Cardinality(S) \in Nat /\ Cardinality(S) <= Cardinality(Probes)
<1>1. IsFiniteSet(S) /\ Cardinality(S) <= Cardinality(Probes)
    BY RestoreBounds, FS_Subset
<1> QED
    BY <1>1, FS_CardinalityType

\* A set of requests that loses one is smaller.
LEMMA OneLess ==
    ASSUME NEW S \in SUBSET Probes, NEW T \in SUBSET S
    PROVE  /\ Cardinality(T) <= Cardinality(S)
           /\ \A s \in S : s \notin T => Cardinality(T) + 1 <= Cardinality(S)
<1>1. IsFiniteSet(S) /\ Cardinality(S) \in Nat
    BY Few
<1>2. Cardinality(T) <= Cardinality(S) /\ Cardinality(T) \in Nat
    BY <1>1, FS_Subset, Few
<1>3. ASSUME NEW s \in S, s \notin T PROVE Cardinality(T) + 1 <= Cardinality(S)
  <2>1. Cardinality(S \ {s}) = Cardinality(S) - 1 /\ IsFiniteSet(S \ {s})
    BY <1>1, FS_RemoveElement
  <2>2. T \subseteq S \ {s}
    BY <1>3
  <2>3. Cardinality(T) <= Cardinality(S \ {s})
    BY <2>1, <2>2, FS_Subset
  <2> QED
    BY <1>1, <1>2, <2>1, <2>3
<1> QED
    BY <1>2, <1>3

LEMMA PassedFew ==
    /\ Cardinality(Passed) \in Nat /\ Cardinality(Passed) <= Cardinality(Probes)
    /\ \A f : Cardinality(PassedOn(f)) \in Nat /\ Cardinality(PassedOn(f)) <= Cardinality(Probes)
<1>1. Passed \in SUBSET Probes /\ \A f : PassedOn(f) \in SUBSET Probes
    BY DEF Passed, PassedOn
<1> QED
    BY <1>1, Few

LEMMA RestoreInitially == Restore!Init => RestoreInv
<1> SUFFICES ASSUME Restore!Init PROVE RestoreInv
    OBVIOUS
<1>1. Restore!NoProbe \in Restore!Probe
  <2>1. (CHOOSE f \in Fingerprints : TRUE) \in Fingerprints
    BY InstancesOK DEF Restore!ConstantsOK
  <2> QED
    BY <2>1 DEF Restore!NoProbe, Restore!Probe, Restore!Steps
<1>2. RestoreType
    BY <1>1 DEF Restore!Init, RestoreType
<1>3. AnswersCounted
    BY DEF Restore!Init, AnswersCounted
<1>4. AnswersBounded
    BY RestoreBounds, PassedFew DEF Restore!Init, AnswersBounded
<1> QED
    BY <1>2, <1>3, <1>4 DEF RestoreInv

\* A request passes the first governor while the address has an attempt left, and the
\* second while the fingerprint has.
LEMMA CountSteps ==
    ASSUME RestoreInv, NEW s \in Probes,
           (\E f \in Fingerprints : Restore!CountByIp(s, f)) \/ Restore!CountByFingerprint(s)
    PROVE  RestoreInv'
<1>1. UNCHANGED <<attempts, failed, answered, tried, lost>>
    BY DEF Restore!CountByIp, Restore!CountByFingerprint
<1>2. AnswersCounted'
    BY <1>1 DEF RestoreInv, AnswersCounted
<1>3. RestoreType'
    BY <1>1 DEF RestoreInv, RestoreType, Restore!CountByIp, Restore!CountByFingerprint,
       Restore!Probe, Restore!Steps
<1>4. Passed \in SUBSET Probes /\ Passed' \in SUBSET Probes
      /\ \A f : PassedOn(f) \in SUBSET Probes /\ PassedOn(f)' \in SUBSET Probes
    BY DEF Passed, PassedOn
<1>5. ASSUME NEW f \in Fingerprints, Restore!CountByIp(s, f) PROVE AnswersBounded'
  <2>1. attempts < IpThreshold
    BY <1>5, RestoreBounds DEF Restore!CountByIp, Restore!IpRefused, RestoreInv, RestoreType
  <2>2. answered + Cardinality(Passed') < IpThreshold + Cardinality(Probes) + lost
    <3>1. answered <= attempts + lost
      BY DEF RestoreInv, AnswersCounted
    <3>2. Cardinality(Passed') \in Nat /\ Cardinality(Passed') <= Cardinality(Probes)
      BY <1>4, Few
    <3> QED
      BY <2>1, <3>1, <3>2, RestoreBounds DEF RestoreInv, RestoreType
  <2>3. \A g : PassedOn(g)' = PassedOn(g)
    BY <1>5 DEF Restore!CountByIp, PassedOn, RestoreInv, RestoreType, Restore!Probe
  <2> QED
    BY <1>1, <2>2, <2>3 DEF RestoreInv, AnswersBounded
<1>6. CASE Restore!CountByFingerprint(s)
  <2>1. /\ probe[s].pc = "by_fingerprint" /\ probe[s].fp \in Fingerprints
        /\ probe' = [probe EXCEPT ![s].pc =
                       IF failed[probe[s].fp] >= FailThreshold THEN "idle" ELSE "answer"]
    BY <1>6 DEF Restore!CountByFingerprint, RestoreInv, RestoreType, Restore!Probe
  <2>2. Passed' \in SUBSET Passed
    BY <2>1 DEF Passed, RestoreInv, RestoreType, Restore!Probe
  <2>3. answered + Cardinality(Passed') < IpThreshold + Cardinality(Probes) + lost
    <3>1. Cardinality(Passed') <= Cardinality(Passed)
      BY <1>4, <2>2, OneLess
    <3>2. Cardinality(Passed') \in Nat /\ Cardinality(Passed) \in Nat
      BY <1>4, Few
    <3> QED
      BY <3>1, <3>2, RestoreBounds DEF RestoreInv, RestoreType, AnswersBounded
  <2>4. ASSUME NEW g \in Fingerprints \ Known
        PROVE  tried[g] + Cardinality(PassedOn(g)') < FailThreshold + Cardinality(Probes) + lost
    <3>1. /\ Cardinality(PassedOn(g)') \in Nat /\ Cardinality(PassedOn(g)) \in Nat
          /\ Cardinality(PassedOn(g)') <= Cardinality(Probes)
      BY <1>4, Few
    <3>2. tried[g] \in Nat /\ failed[g] \in Nat /\ lost \in Nat /\ tried[g] <= failed[g] + lost
      BY DEF RestoreInv, RestoreType, AnswersCounted
    <3>3. CASE failed[g] < FailThreshold
      BY <3>1, <3>2, <3>3, RestoreBounds
    <3>4. CASE ~(failed[g] < FailThreshold)
      <4>1. failed[g] >= FailThreshold
        BY <3>2, <3>4, RestoreBounds
      <4>2. PassedOn(g)' \in SUBSET PassedOn(g)
        BY <2>1, <4>1 DEF PassedOn, RestoreInv, RestoreType, Restore!Probe
      <4>3. Cardinality(PassedOn(g)') <= Cardinality(PassedOn(g))
        BY <1>4, <4>2, OneLess
      <4>4. tried[g] + Cardinality(PassedOn(g)) < FailThreshold + Cardinality(Probes) + lost
        BY DEF RestoreInv, AnswersBounded
      <4> QED
        BY <3>1, <3>2, <4>3, <4>4, RestoreBounds
    <3> QED
      BY <3>3, <3>4
  <2> QED
    <3>1. answered' + Cardinality(Passed') < IpThreshold + Cardinality(Probes) + lost'
      BY <1>1, <2>3
    <3>2. \A g \in Fingerprints \ Known :
             tried'[g] + Cardinality(PassedOn(g)') < FailThreshold + Cardinality(Probes) + lost'
      BY <1>1, <2>4
    <3> QED
      BY <1>2, <1>3, <3>1, <3>2 DEF AnswersBounded, RestoreInv
<1> QED
    BY <1>2, <1>3, <1>5, <1>6 DEF RestoreInv

\* An answer is given by a request that passed both, and counts or is lost.
LEMMA AnswerStep ==
    ASSUME RestoreInv, NEW s \in Probes, Restore!Answer(s)
    PROVE  RestoreInv'
<1>1. PICK f \in Fingerprints : f = probe[s].fp
    BY DEF RestoreInv, RestoreType, Restore!Probe
<1>2. /\ probe[s].pc = "answer" /\ answered' = answered + 1
      /\ tried' = [tried EXCEPT ![f] = @ + 1] /\ probe' = [probe EXCEPT ![s] = Restore!NoProbe]
    BY <1>1 DEF Restore!Answer
<1>3. PICK success \in BOOLEAN : Restore!Record(f, success) /\ (f \notin Known => success = FALSE)
    BY <1>1 DEF Restore!Answer
<1>4. /\ attempts \in Nat /\ answered \in Nat /\ lost \in Nat
      /\ failed \in [Fingerprints -> Nat] /\ tried \in [Fingerprints -> Nat]
    BY DEF RestoreInv, RestoreType
<1>5. /\ attempts' \in Nat /\ lost' \in Nat /\ failed' \in [Fingerprints -> Nat]
      /\ attempts' + lost' = attempts + lost + 1 /\ lost <= lost'
      /\ \A g \in Fingerprints : failed'[g] + lost' >= failed[g] + lost
      /\ f \notin Known => failed'[f] + lost' = failed[f] + lost + 1
    BY <1>3, <1>4 DEF Restore!Record
<1>6. /\ tried' \in [Fingerprints -> Nat]
      /\ \A g \in Fingerprints : tried'[g] = IF g = f THEN tried[g] + 1 ELSE tried[g]
    BY <1>2, <1>4
<1>7. Restore!NoProbe \in Restore!Probe /\ Restore!NoProbe.pc = "idle"
  <2>1. (CHOOSE g \in Fingerprints : TRUE) \in Fingerprints
    BY InstancesOK DEF Restore!ConstantsOK
  <2> QED
    BY <2>1 DEF Restore!NoProbe, Restore!Probe, Restore!Steps
<1>8. RestoreType'
  <2>1. probe' \in [Probes -> Restore!Probe]
    BY <1>2, <1>7 DEF RestoreInv, RestoreType
  <2> QED
    BY <1>2, <1>4, <1>5, <1>6, <2>1 DEF RestoreType
<1>9. AnswersCounted'
  <2>1. answered' <= attempts' + lost'
    <3>1. answered <= attempts + lost
      BY DEF RestoreInv, AnswersCounted
    <3>2. attempts' + lost' = attempts + lost + 1 /\ answered' = answered + 1
      BY <1>2, <1>5
    <3>3. answered \in Nat /\ attempts \in Nat /\ lost \in Nat
      BY <1>4
    <3> QED
      BY <3>1, <3>2, <3>3
  <2>2. ASSUME NEW g \in Fingerprints \ Known PROVE tried'[g] <= failed'[g] + lost'
    <3>1. tried[g] <= failed[g] + lost /\ tried[g] \in Nat /\ failed[g] \in Nat /\
        failed'[g] \in Nat
      BY <1>4, <1>5 DEF RestoreInv, AnswersCounted
    <3>2. CASE g = f
      BY <1>4, <1>5, <1>6, <3>1, <3>2
    <3>3. CASE g # f
      BY <1>4, <1>5, <1>6, <3>1, <3>3
    <3> QED
      BY <3>2, <3>3
  <2> QED
    BY <2>1, <2>2 DEF AnswersCounted
<1>10. /\ Passed \in SUBSET Probes /\ Passed' \in SUBSET Passed /\ s \in Passed \ Passed'
       /\ \A g : /\ PassedOn(g) \in SUBSET Probes /\ PassedOn(g)' \in SUBSET PassedOn(g)
                 /\ g = f => s \in PassedOn(g) \ PassedOn(g)'
    BY <1>1, <1>2, <1>7 DEF Passed, PassedOn, RestoreInv, RestoreType
<1>11. answered' + Cardinality(Passed') < IpThreshold + Cardinality(Probes) + lost'
  <2>1. Cardinality(Passed') \in Nat /\ Cardinality(Passed) \in Nat
    BY <1>10, Few
  <2>2. Cardinality(Passed') + 1 <= Cardinality(Passed)
    BY <1>10, OneLess
  <2>3. answered + Cardinality(Passed) < IpThreshold + Cardinality(Probes) + lost
    BY DEF RestoreInv, AnswersBounded
  <2> QED
    BY <1>2, <1>4, <1>5, <2>1, <2>2, <2>3, RestoreBounds
<1>12. ASSUME NEW g \in Fingerprints \ Known
       PROVE  tried'[g] + Cardinality(PassedOn(g)') < FailThreshold + Cardinality(Probes) + lost'
  <2>1. Cardinality(PassedOn(g)') \in Nat /\ Cardinality(PassedOn(g)) \in Nat /\ tried[g] \in Nat
    BY <1>4, <1>10, Few
  <2>2. /\ Cardinality(PassedOn(g)') <= Cardinality(PassedOn(g))
        /\ g = f => Cardinality(PassedOn(g)') + 1 <= Cardinality(PassedOn(g))
    BY <1>10, OneLess
  <2>3. tried[g] + Cardinality(PassedOn(g)) < FailThreshold + Cardinality(Probes) + lost
    BY DEF RestoreInv, AnswersBounded
  <2>4. tried'[g] = IF g = f THEN tried[g] + 1 ELSE tried[g]
    BY <1>6
  <2> QED
    BY <1>4, <1>5, <2>1, <2>2, <2>3, <2>4, RestoreBounds
<1> QED
    BY <1>8, <1>9, <1>11, <1>12 DEF RestoreInv, AnswersBounded

LEMMA RestoreStep == ASSUME RestoreInv, [Restore!Next]_(Restore!vars) PROVE RestoreInv'
<1>1. CASE UNCHANGED Restore!vars
    BY <1>1 DEF RestoreInv, RestoreType, AnswersCounted, AnswersBounded, Passed, PassedOn,
       Restore!vars
<1>2. CASE Restore!HourPasses
  <2>1. /\ attempts' = 0 /\ failed' = [f \in Fingerprints |-> 0] /\ answered' = 0
        /\ tried' = [f \in Fingerprints |-> 0] /\ lost' = 0 /\ UNCHANGED probe
    BY <1>2 DEF Restore!HourPasses
  <2>2. RestoreType' /\ AnswersCounted'
    BY <2>1 DEF RestoreInv, RestoreType, AnswersCounted
  <2>3. Passed' = Passed /\ \A f : PassedOn(f)' = PassedOn(f)
    BY <2>1 DEF Passed, PassedOn
  <2>4. AnswersBounded'
    BY <2>1, <2>3, RestoreBounds, PassedFew DEF AnswersBounded
  <2> QED
    BY <2>2, <2>4 DEF RestoreInv
<1>3. ASSUME NEW s \in Probes, \/ \E f \in Fingerprints : Restore!CountByIp(s, f)
                               \/ Restore!CountByFingerprint(s)
      PROVE  RestoreInv'
    BY <1>3, CountSteps
<1>4. ASSUME NEW s \in Probes, Restore!Answer(s) PROVE RestoreInv'
    BY <1>4, AnswerStep
<1> QED
    BY <1>1, <1>2, <1>3, <1>4 DEF Restore!Next

\* For any thresholds, fingerprints and number of requests in flight, and although each
\* governor counts before the attempt is recorded: in an hour an address is answered, and
\* an unknown fingerprint tried, no more often than the threshold, the other requests in
\* flight and the records that were lost allow (check_restore).
THEOREM RestoreIsBounded == Restore!Spec => []RestoreBounded
<1>1. Restore!Init => RestoreInv
    BY RestoreInitially
<1>2. RestoreInv /\ [Restore!Next]_(Restore!vars) => RestoreInv'
    BY RestoreStep
<1>3. RestoreInv => RestoreBounded
  <2> SUFFICES ASSUME RestoreInv
               PROVE  /\ answered <= IpThreshold + ((Cardinality(Probes) - 1) + lost)
                      /\ \A f \in Fingerprints \ Known :
                            tried[f] <= FailThreshold + ((Cardinality(Probes) - 1) + lost)
    BY RestoreBounds DEF RestoreBounded, Restore!RestoreBounded
  <2> QED
    BY RestoreBounds, PassedFew DEF RestoreInv, RestoreType, AnswersBounded
<1> QED
    BY <1>1, <1>2, <1>3, PTL DEF Restore!Spec
===============================================================================
