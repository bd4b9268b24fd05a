----------------------------- MODULE ErasureProofs -----------------------------
(***************************************************************************)
(* Theorems about Erasure and Premium, for any number of users, requests,  *)
(* invoices and replicas, and for every batch size.                        *)
(*                                                                         *)
(* The sweep's SELECT is long over when a request is executed, so none of  *)
(* the erasure properties is inductive.  What carries them is SelectedDue  *)
(* (whatever was selected is still due, unless it was cancelled or         *)
(* executed) and the two facts PostgreSQL's partial unique index and       *)
(* foreign keys maintain, LiveApart and NamesUsers.  For premium it is     *)
(* PremiumInv: a ledger row is minted once, and an activation in flight    *)
(* carries its row and the payment that settled it.                        *)
(***************************************************************************)
EXTENDS MCErasure, FiniteSetTheorems, TLAPS

\* A request the partial unique index counts.
Live(i) == request[i].status \in {"pending", "confirmed"}

\* Two live requests have different users.
LiveApart ==
    \A i, j \in Ids : Live(i) /\ Live(j) /\ request[i].user = request[j].user => i = j

\* Every row that names a user names one that exists, and live ones name one.
NamesUsers ==
    /\ \A i \in Ids : request[i].user \in users \union {NoUser}
    /\ \A i \in Ids : Live(i) => request[i].user \in users
    /\ loginEvents \subseteq users
    /\ \A p \in tipsTo : p[1] \in users /\ p[2] \in users

\* What a sweep selected was confirmed and due, and only a cancellation or an
\* execution has changed it since.
SelectedDue ==
    \A w \in Replicas : \A i \in sweep[w] :
        /\ request[i].status \in {"confirmed", "completed", "cancelled"}
        /\ request[i].status = "confirmed" => request[i].due

ErasureInv == TypeOK /\ LiveApart /\ NamesUsers /\ SelectedDue /\ ErasedOnceAudited

-------------------------------------------------------------------------------
(* One lemma per kind of step.                                             *)

\* The initial state.
LEMMA InitInv == Init => ErasureInv
    BY ErasureAssumption
    DEF Init, ErasureInv, TypeOK, Request, LiveApart, Live, NamesUsers, SelectedDue,
        ErasedOnceAudited

\* A step that writes no request, erases nobody and selects nothing new.
LEMMA RequestsAlone ==
    ASSUME ErasureInv, UNCHANGED <<request, users, audited>>,
           asking' \subseteq Users \X Replicas, sessions' \subseteq users,
           loginEvents' \subseteq users,
           tipsTo' \subseteq Users \X Users, \A p \in tipsTo' : p[1] \in users /\ p[2] \in users,
           sweep' \in [Replicas -> SUBSET Ids],
           \A w \in Replicas : \A i \in sweep'[w] : i \in sweep[w] \/ i \in Due
    PROVE  ErasureInv'
<1>1. TypeOK'
    BY DEF ErasureInv, TypeOK
<1>2. LiveApart' /\ ErasedOnceAudited'
    BY DEF ErasureInv, LiveApart, Live, ErasedOnceAudited
<1>3. NamesUsers'
    BY DEF ErasureInv, NamesUsers, Live
<1>4. SelectedDue'
    BY DEF ErasureInv, SelectedDue, Due
<1> QED
    BY <1>1, <1>2, <1>3, <1>4 DEF ErasureInv

\* request_erasure's INSERT: a row that was absent becomes the one live request
\* of an existing user.
LEMMA InsertKeeps ==
    ASSUME ErasureInv, NEW u \in Users, NEW w \in Replicas, NEW i \in Ids, RequestInsert(u, w, i)
    PROVE  ErasureInv'
<1>1. CASE u \in users /\ Active(u) = {}
  <2> DEFINE row == [status |-> "pending", user |-> u, due |-> FALSE]
  <2>1. /\ request' = [request EXCEPT ![i] = row] /\ request[i].status = "absent"
        /\ row \in Request /\ row.status = "pending" /\ row.user = u
        /\ UNCHANGED <<users, sessions, loginEvents, tipsTo, sweep, audited>>
        /\ asking' \subseteq asking
    BY <1>1 DEF RequestInsert, Request
  <2> HIDE DEF row
  <2>2. TypeOK'
    BY <2>1 DEF ErasureInv, TypeOK
  <2>3. \A j \in Ids : request'[j] = IF j = i THEN row ELSE request[j]
    BY <2>1 DEF ErasureInv, TypeOK
  <2>4. LiveApart'
    BY <1>1, <2>1, <2>3 DEF ErasureInv, LiveApart, Live, Active
  <2>5. NamesUsers'
    BY <1>1, <2>1, <2>3 DEF ErasureInv, NamesUsers, Live
  <2>6. SelectedDue'
    BY <2>1, <2>3 DEF ErasureInv, TypeOK, SelectedDue
  <2>7. ErasedOnceAudited'
    BY <2>1, <2>3 DEF ErasureInv, ErasedOnceAudited
  <2> QED
    BY <2>2, <2>4, <2>5, <2>6, <2>7 DEF ErasureInv
<1>2. CASE ~(u \in users /\ Active(u) = {})
  <2>1. UNCHANGED request
    BY <1>2 DEF RequestInsert
  <2> QED
    BY <2>1, RequestsAlone DEF RequestInsert, ErasureInv, TypeOK, NamesUsers
<1> QED
    BY <1>1, <1>2

\* A row that moves forward under the same user: confirmed, cancelled, or its
\* grace period runs out.
LEMMA MoveKeeps ==
    ASSUME ErasureInv, NEW i \in Ids, NEW row \in Request,
           request' = [request EXCEPT ![i] = row],
           row.user = request[i].user,
           Live(i), row.status \in {"confirmed", "cancelled"},
           request[i].status = "confirmed" /\ row.status = "confirmed" => row.due,
           sessions' \subseteq users,
           UNCHANGED <<users, asking, loginEvents, tipsTo, sweep, audited>>
    PROVE  ErasureInv'
<1>1. TypeOK'
    BY DEF ErasureInv, TypeOK
<1>2. \A j \in Ids : request'[j] = IF j = i THEN row ELSE request[j]
    BY DEF ErasureInv, TypeOK
<1>3. LiveApart'
    BY <1>2 DEF ErasureInv, LiveApart, Live
<1>4. NamesUsers'
    BY <1>2 DEF ErasureInv, NamesUsers, Live
<1>5. SelectedDue'
    BY <1>2 DEF ErasureInv, TypeOK, SelectedDue, Live
<1>6. ErasedOnceAudited'
    BY <1>2 DEF ErasureInv, ErasedOnceAudited, Live
<1> QED
    BY <1>1, <1>3, <1>4, <1>5, <1>6 DEF ErasureInv

\* execute_erasure's transaction, when the claim and the DELETE succeed.
LEMMA ExecuteKeeps ==
    ASSUME ErasureInv, NEW w \in Replicas, NEW i \in Ids, SweepExecute(w, i),
           Claims(i), Deletable(request[i].user)
    PROVE  ErasureInv'
<1> DEFINE u == request[i].user
           After(j) == IF j = i THEN [request[j] EXCEPT !.status = "completed", !.user = NoUser]
                       ELSE IF request[j].user = u THEN [request[j] EXCEPT !.user = NoUser]
                       ELSE request[j]
<1>1. /\ users' = users \ {u} /\ sessions' = sessions \ {u} /\ loginEvents' = loginEvents \ {u}
      /\ tipsTo' = {p \in tipsTo : p[1] # u}
      /\ request' = [j \in Ids |-> After(j)]
      /\ audited' = [audited EXCEPT ![i] = @ + 1]
      /\ sweep' = [sweep EXCEPT ![w] = @ \ {i}]
      /\ UNCHANGED asking
    BY DEF SweepExecute
<1>2. /\ \A j \in Ids : request[j] \in Request
      /\ u \in users /\ u # NoUser /\ request[i].status = "confirmed"
    BY DEF ErasureInv, TypeOK, Claims, NamesUsers, Live
<1>3. /\ \A j \in Ids : After(j) \in Request /\ After(j).due = request[j].due
      /\ After(i).status = "completed" /\ After(i).user = NoUser
      /\ \A j \in Ids \ {i} :
           /\ After(j).status = request[j].status
           /\ After(j).user = IF request[j].user = u THEN NoUser ELSE request[j].user
    BY <1>2 DEF Request
<1>4. \A j \in Ids : request'[j] = After(j)
    BY <1>1
<1> HIDE DEF After
<1>5. \A j \in Ids \ {i} : Live(j) => request[j].user # u
    BY <1>2 DEF ErasureInv, LiveApart, Live
<1>6. \A v \in Replicas : sweep'[v] \subseteq sweep[v]
    BY <1>1 DEF ErasureInv, TypeOK
<1>7. /\ audited'[i] = audited[i] + 1
      /\ \A j \in Ids \ {i} : audited'[j] = audited[j]
      /\ audited' \in [Ids -> Nat]
    BY <1>1 DEF ErasureInv, TypeOK
<1>8. TypeOK'
  <2>1. users' \subseteq Users /\ sessions' \subseteq users' /\ loginEvents' \subseteq Users
    BY <1>1 DEF ErasureInv, TypeOK
  <2>2. request' \in [Ids -> Request]
    BY <1>1, <1>3
  <2>3. asking' \subseteq Users \X Replicas /\ tipsTo' \subseteq Users \X Users
    BY <1>1 DEF ErasureInv, TypeOK
  <2>4. sweep' \in [Replicas -> SUBSET Ids]
    BY <1>1 DEF ErasureInv, TypeOK
  <2> QED
    BY <1>7, <2>1, <2>2, <2>3, <2>4 DEF TypeOK
<1>9. LiveApart'
    BY <1>3, <1>4, <1>5 DEF ErasureInv, LiveApart, Live
<1>10. NamesUsers'
  <2>1. \A j \in Ids : request'[j].user \in users' \union {NoUser}
    BY <1>1, <1>3, <1>4 DEF ErasureInv, NamesUsers
  <2>2. \A j \in Ids : Live(j)' => request'[j].user \in users'
    BY <1>1, <1>3, <1>4, <1>5 DEF ErasureInv, NamesUsers, Live
  <2>3. loginEvents' \subseteq users'
    BY <1>1 DEF ErasureInv, NamesUsers
  <2>4. \A p \in tipsTo' : p[1] \in users' /\ p[2] \in users'
    BY <1>1 DEF ErasureInv, NamesUsers, Deletable
  <2> QED
    BY <2>1, <2>2, <2>3, <2>4 DEF NamesUsers
<1>11. SelectedDue'
    BY <1>3, <1>4, <1>6 DEF ErasureInv, TypeOK, SelectedDue
<1>12. ErasedOnceAudited'
    BY <1>2, <1>3, <1>4, <1>7 DEF ErasureInv, ErasedOnceAudited
<1> QED
    BY <1>8, <1>9, <1>10, <1>11, <1>12 DEF ErasureInv

\* Every step keeps the invariant.
LEMMA StepKeepsInv ==
    ASSUME ErasureInv, [Next]_vars
    PROVE  ErasureInv'
<1>0. /\ users \subseteq Users /\ sessions \subseteq users /\ loginEvents \subseteq users
      /\ request \in [Ids -> Request] /\ sweep \in [Replicas -> SUBSET Ids]
      /\ asking \subseteq Users \X Replicas /\ tipsTo \subseteq Users \X Users
      /\ \A p \in tipsTo : p[1] \in users /\ p[2] \in users
    BY DEF ErasureInv, TypeOK, NamesUsers
<1>1. ASSUME NEW u \in Users, Login(u)
      PROVE  ErasureInv'
    BY <1>0, <1>1, RequestsAlone DEF Login
<1>2. ASSUME NEW u \in Users, NEW w \in Replicas, RequestSelect(u, w)
      PROVE  ErasureInv'
    BY <1>0, <1>2, RequestsAlone DEF RequestSelect
<1>3. ASSUME NEW u \in Users, NEW i \in Ids, Confirm(u, i)
      PROVE  ErasureInv'
  <2> DEFINE row == [request[i] EXCEPT !.status = "confirmed", !.due = FALSE]
  <2>1. /\ row \in Request /\ row.status = "confirmed" /\ row.user = request[i].user
        /\ request[i].status = "pending"
    BY <1>0, <1>3 DEF Confirm, Request
  <2>2. request' = [request EXCEPT ![i] = row] /\ sessions' \subseteq users
    BY <1>0, <1>3 DEF Confirm
  <2> HIDE DEF row
  <2> QED
    BY <1>3, <2>1, <2>2, MoveKeeps DEF Confirm, Live
<1>4. ASSUME NEW u \in Users, NEW i \in Ids, Cancel(u, i)
      PROVE  ErasureInv'
  <2> DEFINE row == [request[i] EXCEPT !.status = "cancelled"]
  <2>1. row \in Request /\ row.status = "cancelled" /\ row.user = request[i].user
    BY <1>0, <1>4 DEF Request
  <2>2. request' = [request EXCEPT ![i] = row]
    BY <1>4 DEF Cancel
  <2> HIDE DEF row
  <2> QED
    BY <1>0, <1>4, <2>1, <2>2, MoveKeeps DEF Cancel, Live
<1>5. ASSUME NEW s \in Users, NEW u \in Users, AddressTip(s, u)
      PROVE  ErasureInv'
  <2>1. tipsTo' \subseteq Users \X Users /\ \A p \in tipsTo' : p[1] \in users /\ p[2] \in users
    BY <1>0, <1>5 DEF AddressTip
  <2> QED
    BY <1>0, <1>5, <2>1, RequestsAlone DEF AddressTip
<1>6. ASSUME NEW i \in Ids, GraceElapses(i)
      PROVE  ErasureInv'
  <2> DEFINE row == [request[i] EXCEPT !.due = TRUE]
  <2>1. /\ row \in Request /\ row.status = "confirmed" /\ row.user = request[i].user /\ row.due
        /\ request[i].status = "confirmed"
    BY <1>0, <1>6 DEF GraceElapses, Request
  <2>2. request' = [request EXCEPT ![i] = row]
    BY <1>6 DEF GraceElapses
  <2> HIDE DEF row
  <2> QED
    BY <1>0, <1>6, <2>1, <2>2, MoveKeeps DEF GraceElapses, Live
<1>7. ASSUME NEW w \in Replicas, SweepSelect(w)
      PROVE  ErasureInv'
  <2>1. PICK S \in SUBSET Due : sweep' = [sweep EXCEPT ![w] = S]
    BY <1>7 DEF SweepSelect
  <2>2. Due \subseteq Ids
    BY DEF Due
  <2>3. sweep' \in [Replicas -> SUBSET Ids]
    BY <1>0, <2>1, <2>2
  <2>4. \A v \in Replicas : \A i \in sweep'[v] : i \in sweep[v] \/ i \in Due
    BY <1>0, <2>1
  <2> QED
    BY <1>0, <1>7, <2>3, <2>4, RequestsAlone DEF SweepSelect
<1>8. ASSUME NEW w \in Replicas, SweepFails(w)
      PROVE  ErasureInv'
  <2>1. PICK S \in SUBSET sweep[w] : sweep' = [sweep EXCEPT ![w] = S]
    BY <1>8 DEF SweepFails
  <2>2. /\ sweep' \in [Replicas -> SUBSET Ids]
        /\ \A v \in Replicas : \A i \in sweep'[v] : i \in sweep[v]
    BY <1>0, <2>1
  <2> QED
    BY <1>0, <1>8, <2>2, RequestsAlone DEF SweepFails
<1>9. ASSUME NEW w \in Replicas, NEW i \in Ids, SweepExecute(w, i)
      PROVE  ErasureInv'
  <2>1. CASE Claims(i) /\ Deletable(request[i].user)
    BY <1>9, <2>1, ExecuteKeeps
  <2>2. CASE ~(Claims(i) /\ Deletable(request[i].user))
    <3>1. /\ UNCHANGED <<users, request, sessions, loginEvents, tipsTo, audited, asking>>
          /\ sweep' = [sweep EXCEPT ![w] = sweep[w] \ {i}]
      BY <1>9, <2>2 DEF SweepExecute
    <3>2. /\ sweep' \in [Replicas -> SUBSET Ids]
          /\ \A v \in Replicas : \A j \in sweep'[v] : j \in sweep[v]
      BY <1>0, <3>1
    <3> QED
      BY <1>0, <3>1, <3>2, RequestsAlone
  <2> QED
    BY <2>1, <2>2
<1>10. CASE UNCHANGED vars
    BY <1>0, <1>10, RequestsAlone DEF vars
<1> QED
    BY <1>1, <1>2, <1>3, <1>4, <1>5, <1>6, <1>7, <1>8, <1>9, <1>10, InsertKeeps DEF Next

\* The inductive invariant holds in every behaviour.
LEMMA ErasureInvariant == Spec => []ErasureInv
    BY InitInv, StepKeepsInv, PTL DEF Spec

-------------------------------------------------------------------------------
(* The theorems.                                                           *)

\* A set whose members are all equal has at most one.
LEMMA AtMostOne ==
    ASSUME NEW S, \A i, j \in S : i = j
    PROVE  Cardinality(S) <= 1
<1>1. CASE S = {}
    BY <1>1, FS_EmptySet
<1>2. ASSUME NEW i \in S
      PROVE  Cardinality(S) <= 1
  <2>1. S = {i}
    BY <1>2
  <2>2. Cardinality({i}) = 1
    BY FS_Singleton
  <2> QED
    BY <2>1, <2>2
<1> QED
    BY <1>1, <1>2

\* However the callers' requests, confirmations and cancellations interleave with
\* the sweeps of any number of replicas: an account is erased once, with one audit
\* row, and a user never has two live requests or a live request without a user
\* (request_erasure, execute_erasure).
THEOREM RequestsStayConsistent == Spec => []RequestsConsistent
<1>1. ErasureInv => RequestsConsistent
  <2> SUFFICES ASSUME ErasureInv
               PROVE  RequestsConsistent
    OBVIOUS
  <2>1. ASSUME NEW u \in Users
        PROVE  Cardinality(Active(u)) <= 1
    <3>1. \A i, j \in Active(u) : i = j
      BY DEF ErasureInv, LiveApart, Live, Active
    <3> HIDE DEF Active
    <3> QED
      BY <3>1, AtMostOne
  <2> QED
    BY <2>1 DEF ErasureInv, RequestsConsistent, OneLiveRequest, NamesUsers, Live
<1> QED
    BY <1>1, ErasureInvariant, PTL

\* An erased user is gone from every table the model keeps: sessions, login
\* events, both ends of targeted tips and all of its requests, also those it
\* cancelled before (the cascades and SET NULLs of execute_erasure's DELETE).
THEOREM ErasureIsComplete == Spec => []NothingLeftBehind
<1>1. ErasureInv => NothingLeftBehind
    BY ErasureAssumption DEF ErasureInv, TypeOK, NamesUsers, NothingLeftBehind
<1> QED
    BY <1>1, ErasureInvariant, PTL

\* Nobody is erased but through a confirmed request of their own whose grace
\* period is over, although the sweep selected it at some earlier time and the
\* user may have cancelled since (the claim that opens execute_erasure).
THEOREM GraceIsRespected == Spec => GraceRespected
<1> DEFINE Granted == \A u \in Users : u \in users /\ u \notin users' =>
                \E i \in Ids : request[i].user = u /\ request[i].status = "confirmed" /\ request[i].due
<1>1. ErasureInv /\ [Next]_vars => [Granted]_vars
  <2> SUFFICES ASSUME ErasureInv, [Next]_vars, NEW u \in Users, u \in users, u \notin users'
               PROVE  \E i \in Ids : request[i].user = u /\ request[i].status = "confirmed"
                                     /\ request[i].due
    OBVIOUS
  <2>1. PICK w \in Replicas, i \in Ids : SweepExecute(w, i)
    BY DEF Next, vars, Login, RequestSelect, RequestInsert, Confirm, Cancel, AddressTip,
           GraceElapses, SweepSelect, SweepFails
  <2>2. Claims(i) /\ i \in sweep[w] /\ users' = users \ {request[i].user}
    BY <2>1 DEF SweepExecute
  <2> QED
    BY <2>2 DEF Claims, ErasureInv, SelectedDue
<1> QED
    BY <1>1, ErasureInvariant, PTL DEF Spec, GraceRespected
-------------------------------------------------------------------------------
(* Premium time.                                                           *)

\* The types of what is paid; the rest of Premium's TypeOK is not needed.
PaidType ==
    /\ rows \in [Invoices -> Payments!Row] /\ req \in [Slots -> Payments!Request]
    /\ processor \in [Invoices -> Payments!ProcessorInvoice]
    /\ until \in [Payers -> Nat] /\ used \in [Payers -> Nat] /\ now \in Nat

Inserting(s, i) == req[s].pc = "insert" /\ req[s].inv = i

\* An invoice the processor does not know has no row and nobody about to insert one; an
\* invoice without a row is inserted by one request only.
RowsAreMinted ==
    /\ \A i \in Invoices : processor[i].status = "none" =>
          rows[i] = Payments!NoRow /\ \A s \in Slots : ~Inserting(s, i)
    /\ \A s \in Slots : req[s].pc = "insert" =>
          req[s].inv \in Invoices /\ rows[req[s].inv] = Payments!NoRow
          /\ req[s].user \in Payers
    /\ \A s, t \in Slots, i \in Invoices : Inserting(s, i) /\ Inserting(t, i) => s = t

\* An activation carries the row of its invoice, and about to consume it the settled
\* payment: rows and settlements are there to stay.
Settles(s) ==
    LET i == req[s].inv
    IN  /\ req[s].pc \in {"poll", "consume"} =>
              /\ i \in Invoices /\ req[s].user \in Payers /\ rows[i].user = req[s].user
              /\ rows[i].rail = req[s].rail /\ rows[i].days = req[s].days
        /\ req[s].pc = "consume" =>
              /\ processor[i].status = "settled" /\ processor[i].rail = req[s].rail
              /\ processor[i].bind = req[s].user

Selects(s) == req[s].pc = "select" => req[s].user \in Payers

\* The units bought according to a table r of premium_invoices.
UnitsIn(r, u) == UNION {{i} \X (1..r[i].days) : i \in {j \in Invoices : r[j].user = u
                                                                       /\ r[j].consumed}}

\* The inductive invariant.
PremiumInv ==
    /\ PaidType /\ RowsAreMinted /\ \A s \in Slots : Settles(s) /\ Selects(s)
    /\ (\A u \in Payers : IsFiniteSet(UnitsIn(rows, u))) /\ Payments!PremiumIsPaidTime

LEMMA PremiumBounds ==
    /\ "nobody" \notin Payers /\ IsFiniteSet(Invoices) /\ Primary \in Rails
    /\ Plans \subseteq Nat \ {0}
<1>1. IsFiniteSet(Invoices)
    BY PaymentsOK DEF Payments!ConstantsOK, Payments!IsFiniteSet, IsFiniteSet
<1> QED
    BY <1>1, PaymentsOK DEF Payments!ConstantsOK

LEMMA NoRowShape ==
    /\ Payments!NoRow \in Payments!Row /\ Payments!NoRow.user \notin Payers
    /\ Payments!NoRow.consumed = FALSE
    BY PremiumBounds DEF Payments!NoRow, Payments!Row, Payments!NoOne

LEMMA NoRequestShape ==
    Payments!NoRequest \in Payments!Request /\ Payments!NoRequest.pc = "idle"
    BY PremiumBounds DEF Payments!NoRequest, Payments!Request, Payments!NoOne

\* The units of one invoice.
LEMMA UnitsOfOne ==
    ASSUME NEW i, NEW n \in Nat
    PROVE  IsFiniteSet({i} \X (1..n)) /\ Cardinality({i} \X (1..n)) = n
<1>1. IsFiniteSet({i}) /\ Cardinality({i}) = 1
    BY FS_Singleton
<1>2. IsFiniteSet(1..n) /\ Cardinality(1..n) = n
    BY FS_Interval
<1> DEFINE one == {i}
           days == 1..n
<1>3. IsFiniteSet(one) /\ IsFiniteSet(days) /\ Cardinality(one) = 1 /\ Cardinality(days) = n
    BY <1>1, <1>2
<1> HIDE DEF one, days
<1>4. IsFiniteSet(one \X days) /\ Cardinality(one \X days) = Cardinality(one) * Cardinality(days)
    BY <1>3, FS_Product
<1>5. Cardinality(one \X days) = n
    BY <1>3, <1>4, 1 * n = n
<1> QED
    BY <1>4, <1>5 DEF one, days

LEMMA UnitsAreOfRows ==
    \A u : /\ Payments!Bought(u) = Cardinality(UnitsIn(rows, u))
           /\ (Payments!Bought(u))' = Cardinality(UnitsIn(rows', u))
    BY DEF Payments!Bought, Payments!Units, UnitsIn, Payments!Cardinality, Cardinality

\* Two tables with the same spent rows of a user hold the same units.
LEMMA SameUnits ==
    ASSUME NEW r, NEW q, NEW u,
           \A i \in Invoices : /\ (r[i].user = u /\ r[i].consumed) <=> (q[i].user = u /\ q[i].consumed)
                               /\ q[i].user = u /\ q[i].consumed => r[i].days = q[i].days
    PROVE  UnitsIn(r, u) = UnitsIn(q, u)
<1>1. \A x : x \in UnitsIn(r, u) <=> \E i \in Invoices : /\ r[i].user = u /\ r[i].consumed
                                                       /\ x \in {i} \X (1..r[i].days)
    BY DEF UnitsIn
<1>2. \A x : x \in UnitsIn(q, u) <=> \E i \in Invoices : /\ q[i].user = u /\ q[i].consumed
                                                       /\ x \in {i} \X (1..q[i].days)
    BY DEF UnitsIn
<1>3. \A x : x \in UnitsIn(r, u) <=> x \in UnitsIn(q, u)
    BY <1>1, <1>2
<1> QED
    BY <1>3

\* Spending a row of user u adds its days to what u bought.
LEMMA SpendingAdds ==
    ASSUME NEW r, NEW q, NEW u, NEW i \in Invoices, NEW n \in Nat,
           r[i].user = u, ~r[i].consumed, q[i].user = u, q[i].consumed, q[i].days = n,
           \A j \in Invoices \ {i} : r[j] = q[j],
           IsFiniteSet(UnitsIn(r, u))
    PROVE  /\ IsFiniteSet(UnitsIn(q, u))
           /\ Cardinality(UnitsIn(q, u)) = Cardinality(UnitsIn(r, u)) + n
<1> DEFINE new == {i} \X (1..n)
<1>1. \A x : x \in UnitsIn(r, u) <=> \E j \in Invoices : /\ r[j].user = u /\ r[j].consumed
                                                       /\ x \in {j} \X (1..r[j].days)
    BY DEF UnitsIn
<1>2. \A x : x \in UnitsIn(q, u) <=> \E j \in Invoices : /\ q[j].user = u /\ q[j].consumed
                                                       /\ x \in {j} \X (1..q[j].days)
    BY DEF UnitsIn
<1>3. \A x : x \in UnitsIn(q, u) <=> x \in UnitsIn(r, u) \/ x \in new
    BY <1>1, <1>2
<1>4. UnitsIn(q, u) = UnitsIn(r, u) \cup new
    BY <1>3
<1>5. \A j, a : j # i => ~ (\E x : x \in {j} \X a /\ x \in new)
    OBVIOUS
<1>6. UnitsIn(r, u) \cap new = {}
  <2> SUFFICES ASSUME NEW x, x \in UnitsIn(r, u), x \in new
               PROVE  FALSE
    OBVIOUS
  <2>1. PICK j \in Invoices : r[j].user = u /\ r[j].consumed /\ x \in {j} \X (1..r[j].days)
    BY <1>1
  <2> QED
    BY <2>1, <1>5
<1>7. IsFiniteSet(new) /\ Cardinality(new) = n
    BY UnitsOfOne
<1>8. Cardinality(UnitsIn(r, u)) \in Nat
    BY FS_CardinalityType
<1> HIDE DEF new
<1>9. /\ IsFiniteSet(UnitsIn(r, u) \cup new)
      /\ Cardinality(UnitsIn(r, u) \cup new)
            = Cardinality(UnitsIn(r, u)) + Cardinality(new) - Cardinality(UnitsIn(r, u) \cap new)
    BY <1>7, FS_Union
<1> QED
  <2>1. Cardinality(UnitsIn(r, u) \cap new) = 0
    BY <1>6, FS_EmptySet
  <2> DEFINE c == Cardinality(UnitsIn(r, u))
  <2>2. c + n - 0 = c + n
    BY <1>8
  <2> QED
    BY <1>4, <1>7, <1>9, <2>1, <2>2

LEMMA PremiumStarts == Payments!Init => PremiumInv
<1> SUFFICES ASSUME Payments!Init
             PROVE  PremiumInv
    OBVIOUS
<1> USE PremiumBounds, NoRowShape, NoRequestShape
<1>1. PaidType
    BY DEF Payments!Init, PaidType, Payments!ProcessorInvoice, Payments!NoOne
<1>2. RowsAreMinted /\ \A s \in Slots : Settles(s) /\ Selects(s)
    BY DEF Payments!Init, RowsAreMinted, Settles, Selects, Inserting
<1>3. \A u : UnitsIn(rows, u) = {}
    BY DEF Payments!Init, UnitsIn
<1>4. \A u \in Payers : IsFiniteSet(UnitsIn(rows, u)) /\ Payments!Bought(u) = 0
    BY <1>3, UnitsAreOfRows, FS_EmptySet
<1>5. Payments!BoughtIsKept
    BY <1>4 DEF Payments!Init, Payments!BoughtIsKept, Payments!Later
<1>6. Payments!PaidOnly
    BY DEF Payments!Init, Payments!PaidOnly
<1> QED
    BY <1>1, <1>2, <1>4, <1>5, <1>6 DEF PremiumInv, Payments!PremiumIsPaidTime

\* A step that spends no row, and neither grants nor lets time pass, keeps the sums.
LEMMA SumsStand ==
    ASSUME PremiumInv, UNCHANGED <<until, now, used>>,
           \A u \in Payers : UnitsIn(rows', u) = UnitsIn(rows, u)
    PROVE  /\ \A u \in Payers : IsFiniteSet(UnitsIn(rows', u))
           /\ (Payments!BoughtIsKept)'
<1>1. \A u \in Payers : (Payments!Bought(u))' = Payments!Bought(u)
    BY UnitsAreOfRows
<1> QED
    BY <1>1 DEF PremiumInv, Payments!PremiumIsPaidTime, Payments!BoughtIsKept

\* A request that starts, and an idle slot, carry nothing that can go stale.
LEMMA RequestMoves ==
    ASSUME PremiumInv, UNCHANGED <<rows, processor, until, now, used>>,
           NEW s \in Slots, NEW rq \in Payments!Request, req' = [req EXCEPT ![s] = rq],
           rq.pc # "insert", rq.pc = "select" => rq.user \in Payers,
           rq.pc \in {"poll", "consume"} =>
               /\ rq.inv \in Invoices /\ rq.user \in Payers /\ rows[rq.inv].user = rq.user
               /\ rows[rq.inv].rail = rq.rail /\ rows[rq.inv].days = rq.days,
           rq.pc = "consume" =>
               /\ processor[rq.inv].status = "settled" /\ processor[rq.inv].rail = rq.rail
               /\ processor[rq.inv].bind = rq.user
    PROVE  PremiumInv'
<1>1. PaidType'
    BY DEF PremiumInv, PaidType
<1>2. \A t \in Slots : req'[t] = IF t = s THEN rq ELSE req[t]
    BY DEF PremiumInv, PaidType
<1>3. RowsAreMinted'
    BY <1>2 DEF PremiumInv, RowsAreMinted, Inserting
<1>4. \A t \in Slots : Settles(t)' /\ Selects(t)'
    BY <1>2 DEF PremiumInv, Settles, Selects
<1>5. (Payments!PaidOnly)'
    BY DEF PremiumInv, Payments!PremiumIsPaidTime, Payments!PaidOnly
<1> QED
    BY <1>1, <1>3, <1>4, <1>5, SumsStand DEF PremiumInv, Payments!PremiumIsPaidTime

\* The fields of a request that ends.
LEMMA RequestEnds ==
    ASSUME PremiumInv, UNCHANGED <<rows, processor, until, now, used>>,
           NEW s \in Slots, Payments!Ends(s)
    PROVE  PremiumInv'
    BY RequestMoves, NoRequestShape DEF Payments!Ends

LEMMA CountsKeeps ==
    ASSUME PremiumInv, NEW s \in Slots, NEW u \in Payers, NEW r \in Rails, NEW days \in Plans,
           Payments!InvoiceCounts(s, u, r, days)
    PROVE  PremiumInv'
<1> DEFINE rq == [Payments!NoRequest EXCEPT !.pc = "select", !.user = u, !.rail = r, !.days = days]
<1>1. rq \in Payments!Request /\ rq.pc = "select" /\ rq.user = u
    BY DEF Payments!NoRequest, Payments!Request
<1>2. req' = [req EXCEPT ![s] = rq] /\ UNCHANGED <<rows, processor, until, now, used>>
    BY DEF Payments!InvoiceCounts
<1> HIDE DEF rq
<1> QED
    BY <1>1, <1>2, RequestMoves

LEMMA ReadsKeeps ==
    ASSUME PremiumInv, NEW s \in Slots, NEW u \in Payers, NEW i \in Invoices,
           Payments!ActivateReads(s, u, i)
    PROVE  PremiumInv'
<1> DEFINE rq == [pc |-> "poll", user |-> u, rail |-> rows[i].rail, days |-> rows[i].days,
                  inv |-> i]
<1>1. rows[i] \in Payments!Row
    BY DEF PremiumInv, PaidType
<1>2. rq \in Payments!Request
    BY <1>1 DEF Payments!Request, Payments!Row
<1>3. /\ rq.pc = "poll" /\ rq.user = u /\ rq.inv = i /\ rq.rail = rows[i].rail
      /\ rq.days = rows[i].days
    OBVIOUS
<1>4. /\ req' = [req EXCEPT ![s] = rq] /\ UNCHANGED <<rows, processor, until, now, used>>
      /\ rows[i].user = u
    BY DEF Payments!ActivateReads, Payments!RailFor
<1> HIDE DEF rq
<1> QED
    BY <1>2, <1>3, <1>4, RequestMoves

LEMMA PollsKeeps ==
    ASSUME PremiumInv, NEW s \in Slots, Payments!ActivatePolls(s)
    PROVE  PremiumInv'
<1>1. UNCHANGED <<rows, processor, until, now, used>> /\ req[s].pc = "poll"
    BY DEF Payments!ActivatePolls
<1>2. CASE Payments!Ends(s)
    BY <1>1, <1>2, RequestEnds
<1>3. CASE Payments!Confirmed(s) /\ req' = [req EXCEPT ![s].pc = "consume"]
  <2> DEFINE rq == [req[s] EXCEPT !.pc = "consume"]
  <2>1. req[s] \in Payments!Request /\ Settles(s)
    BY DEF PremiumInv, PaidType
  <2>2. /\ rq \in Payments!Request /\ rq.pc = "consume" /\ rq.user = req[s].user
        /\ rq.inv = req[s].inv /\ rq.rail = req[s].rail /\ rq.days = req[s].days
    BY <2>1 DEF Payments!Request
  <2>3. req' = [req EXCEPT ![s] = rq]
    BY <1>3
  <2> HIDE DEF rq
  <2> QED
    BY <1>1, <1>3, <2>1, <2>2, <2>3, RequestMoves
       DEF Settles, Payments!Confirmed, Payments!Grants
<1> QED
    BY <1>2, <1>3 DEF Payments!ActivatePolls

\* The processor's new invoice has no row, and nobody else inserts one for it.
LEMMA CreatesKeeps ==
    ASSUME PremiumInv, NEW s \in Slots, Payments!InvoiceCreates(s)
    PROVE  PremiumInv'
<1>1. PICK i \in Invoices :
        /\ processor[i].status = "none"
        /\ processor' = [processor EXCEPT ![i] =
               [status |-> "pending", rail |-> req[s].rail, bind |-> req[s].user]]
        /\ req' = [req EXCEPT ![s].pc = "insert", ![s].inv = i] \/ Payments!Ends(s)
    BY DEF Payments!InvoiceCreates
<1>2. UNCHANGED <<rows, until, now, used>> /\ req[s].pc = "select" /\ req[s].user \in Payers
    BY DEF Payments!InvoiceCreates, PremiumInv, Selects
<1>3. req[s] \in Payments!Request
    BY DEF PremiumInv, PaidType
<1>4. PICK rq \in Payments!Request :
        /\ req' = [req EXCEPT ![s] = rq]
        /\ \/ rq.pc = "idle"
           \/ rq.pc = "insert" /\ rq.inv = i /\ rq.user = req[s].user
  <2>1. CASE Payments!Ends(s)
    <3> DEFINE new == Payments!NoRequest
    <3>1. req' = [req EXCEPT ![s] = new] /\ new \in Payments!Request /\ new.pc = "idle"
      BY <2>1, NoRequestShape DEF Payments!Ends
    <3> HIDE DEF new
    <3> QED
      BY <3>1
  <2>2. CASE req' = [req EXCEPT ![s].pc = "insert", ![s].inv = i]
    <3> DEFINE new == [req[s] EXCEPT !.pc = "insert", !.inv = i]
    <3>1. /\ new \in Payments!Request /\ new.pc = "insert" /\ new.inv = i
          /\ new.user = req[s].user
      BY <1>3 DEF Payments!Request
    <3>2. req' = [req EXCEPT ![s] = new]
      BY <2>2
    <3> QED
      BY <3>1, <3>2
  <2> QED
    BY <1>1, <2>1, <2>2
<1>5. \A t \in Slots : req'[t] = IF t = s THEN rq ELSE req[t]
    BY <1>4 DEF PremiumInv, PaidType
<1>6. \A j \in Invoices : IF j = i THEN processor'[j].status = "pending"
                                   ELSE processor'[j] = processor[j]
    BY <1>1 DEF PremiumInv, PaidType
<1>7. PaidType'
  <2>1. [status |-> "pending", rail |-> req[s].rail, bind |-> req[s].user]
            \in Payments!ProcessorInvoice
    BY <1>3 DEF Payments!Request, Payments!ProcessorInvoice, Payments!Statuses
  <2> QED
    BY <1>1, <1>2, <1>4, <2>1 DEF PremiumInv, PaidType
<1>8. rows[i] = Payments!NoRow /\ \A t \in Slots : ~Inserting(t, i)
    BY <1>1 DEF PremiumInv, RowsAreMinted
<1>9. RowsAreMinted'
    BY <1>2, <1>4, <1>5, <1>6, <1>8 DEF PremiumInv, RowsAreMinted, Inserting
<1>10. \A t \in Slots : Settles(t)' /\ Selects(t)'
    BY <1>1, <1>2, <1>4, <1>5, <1>6 DEF PremiumInv, Settles, Selects
<1>11. (Payments!PaidOnly)'
    BY <1>1, <1>2, <1>6 DEF PremiumInv, Payments!PremiumIsPaidTime, Payments!PaidOnly
<1> QED
    BY <1>2, <1>7, <1>9, <1>10, <1>11, SumsStand DEF PremiumInv, Payments!PremiumIsPaidTime

\* The one insertion of a row: nobody polls for it yet.
LEMMA InsertsKeeps ==
    ASSUME PremiumInv, NEW s \in Slots, Payments!InvoiceInserts(s)
    PROVE  PremiumInv'
<1> DEFINE i == req[s].inv
           row == [user |-> req[s].user, rail |-> req[s].rail, days |-> req[s].days,
                   consumed |-> FALSE]
<1>1. /\ i \in Invoices /\ rows[i] = Payments!NoRow /\ req[s].user \in Payers
      /\ Inserting(s, i)
    BY DEF Payments!InvoiceInserts, PremiumInv, RowsAreMinted, Inserting
<1>2. row \in Payments!Row /\ row.consumed = FALSE
  <2>1. req[s] \in Payments!Request
    BY DEF PremiumInv, PaidType
  <2> QED
    BY <2>1 DEF Payments!Request, Payments!Row
<1>3. /\ rows' = [rows EXCEPT ![i] = row] /\ Payments!Ends(s)
      /\ UNCHANGED <<processor, until, now, used>>
    BY DEF Payments!InvoiceInserts
<1>4. processor[i].status # "none"
    BY <1>1 DEF PremiumInv, RowsAreMinted
<1> HIDE DEF i, row
<1>5. \A t \in Slots : req'[t] = IF t = s THEN Payments!NoRequest ELSE req[t]
    BY <1>3 DEF PremiumInv, PaidType, Payments!Ends
<1>6. \A j \in Invoices : rows'[j] = IF j = i THEN row ELSE rows[j]
    BY <1>3 DEF PremiumInv, PaidType
<1>7. PaidType'
    BY <1>2, <1>3, NoRequestShape DEF PremiumInv, PaidType, Payments!Ends
<1>8. RowsAreMinted'
    BY <1>1, <1>3, <1>4, <1>5, <1>6, NoRequestShape DEF PremiumInv, RowsAreMinted, Inserting
<1>9. \A t \in Slots : Settles(t)' /\ Selects(t)'
    BY <1>1, <1>3, <1>5, <1>6, NoRequestShape, NoRowShape DEF PremiumInv, Settles, Selects
<1>10. (Payments!PaidOnly)'
    BY <1>2, <1>3, <1>6 DEF PremiumInv, Payments!PremiumIsPaidTime, Payments!PaidOnly
<1>11. \A u \in Payers : UnitsIn(rows', u) = UnitsIn(rows, u)
  <2> TAKE u \in Payers
  <2>1. \A j \in Invoices :
            /\ (rows'[j].user = u /\ rows'[j].consumed) <=> (rows[j].user = u /\ rows[j].consumed)
            /\ rows[j].user = u /\ rows[j].consumed => rows'[j].days = rows[j].days
    BY <1>1, <1>2, <1>6, NoRowShape
  <2> QED
    BY <2>1, SameUnits
<1> QED
    BY <1>3, <1>7, <1>8, <1>9, <1>10, <1>11, SumsStand
       DEF PremiumInv, Payments!PremiumIsPaidTime

\* A settled invoice is never anything else, and none comes back to "none".
LEMMA ProcessorKeeps ==
    ASSUME PremiumInv, NEW i \in Invoices, Payments!ProcessorMoves(i)
    PROVE  PremiumInv'
<1>1. PICK m \in Payments!Moves :
        processor[i].status = m[1] /\ processor' = [processor EXCEPT ![i].status = m[2]]
    BY DEF Payments!ProcessorMoves
<1>2. /\ m[1] \notin {"none", "settled"} /\ m[2] # "none"
      /\ m[2] \in Payments!Statuses
    BY DEF Payments!Moves, Payments!Statuses
<1>3. UNCHANGED <<rows, until, now, req, used>>
    BY DEF Payments!ProcessorMoves
<1>4. processor[i] \in Payments!ProcessorInvoice
    BY DEF PremiumInv, PaidType
<1> DEFINE inv == [processor[i] EXCEPT !.status = m[2]]
<1>5. /\ inv \in Payments!ProcessorInvoice /\ inv.status = m[2]
    BY <1>2, <1>4 DEF Payments!ProcessorInvoice
<1>6. processor' = [processor EXCEPT ![i] = inv]
    BY <1>1
<1> HIDE DEF inv
<1>7. \A j \in Invoices : processor'[j] = IF j = i THEN inv ELSE processor[j]
    BY <1>6 DEF PremiumInv, PaidType
<1>8. PaidType'
    BY <1>3, <1>5, <1>6 DEF PremiumInv, PaidType
<1>9. RowsAreMinted'
    BY <1>2, <1>3, <1>5, <1>7 DEF PremiumInv, RowsAreMinted, Inserting
<1>10. \A t \in Slots : Settles(t)' /\ Selects(t)'
    BY <1>1, <1>2, <1>3, <1>7 DEF PremiumInv, Settles, Selects
<1>11. (Payments!PaidOnly)'
    BY <1>1, <1>2, <1>3, <1>7 DEF PremiumInv, Payments!PremiumIsPaidTime, Payments!PaidOnly
<1> QED
    BY <1>3, <1>8, <1>9, <1>10, <1>11, SumsStand DEF PremiumInv, Payments!PremiumIsPaidTime

\* What is used up is what is left less.
LEMMA TimeKeeps ==
    ASSUME PremiumInv, Payments!TimePasses
    PROVE  PremiumInv'
<1>1. UNCHANGED <<processor, rows, until, req>> /\ now' = now + 1
    BY DEF Payments!TimePasses
<1>2. used' = [u \in Payers |-> IF until[u] > now THEN used[u] + 1 ELSE used[u]]
    BY DEF Payments!TimePasses
<1>3. PaidType'
    BY <1>1, <1>2 DEF PremiumInv, PaidType
<1>4. RowsAreMinted' /\ \A t \in Slots : Settles(t)' /\ Selects(t)'
    BY <1>1 DEF PremiumInv, RowsAreMinted, Inserting, Settles, Selects
<1>5. (Payments!PaidOnly)'
    BY <1>1 DEF PremiumInv, Payments!PremiumIsPaidTime, Payments!PaidOnly
<1>6. ASSUME NEW u \in Payers
      PROVE  (Payments!Bought(u))' = used'[u] + Payments!Later(until'[u] - now', 0)
  <2>1. (Payments!Bought(u))' = Payments!Bought(u)
    BY <1>1, UnitsAreOfRows
  <2>2. Payments!Bought(u) = used[u] + Payments!Later(until[u] - now, 0)
    BY DEF PremiumInv, Payments!PremiumIsPaidTime, Payments!BoughtIsKept
  <2>3. until[u] \in Nat /\ used[u] \in Nat /\ now \in Nat
    BY DEF PremiumInv, PaidType
  <2>4. used'[u] = IF until[u] > now THEN used[u] + 1 ELSE used[u]
    BY <1>2
  <2>5. used[u] + Payments!Later(until[u] - now, 0)
            = used'[u] + Payments!Later(until[u] - (now + 1), 0)
    BY <2>3, <2>4 DEF Payments!Later
  <2> QED
    BY <1>1, <2>1, <2>2, <2>5
<1>7. (Payments!BoughtIsKept)'
    BY <1>6 DEF Payments!BoughtIsKept, Payments!Later
<1> QED
    BY <1>1, <1>3, <1>4, <1>5, <1>7 DEF PremiumInv, Payments!PremiumIsPaidTime

\* A restart drops the requests, a returning rail changes none of them.
LEMMA RailsKeep ==
    ASSUME PremiumInv, Payments!Restart \/ Payments!RailReturns
    PROVE  PremiumInv'
<1>1. UNCHANGED <<processor, rows, until, now, used>>
    BY DEF Payments!Restart, Payments!RailReturns
<1>2. req' = req \/ req' = [s \in Slots |-> Payments!NoRequest]
    BY DEF Payments!Restart, Payments!RailReturns
<1>3. PaidType'
    BY <1>1, <1>2, NoRequestShape DEF PremiumInv, PaidType
<1>4. RowsAreMinted' /\ \A t \in Slots : Settles(t)' /\ Selects(t)'
    BY <1>1, <1>2, NoRequestShape DEF PremiumInv, RowsAreMinted, Inserting, Settles, Selects
<1>5. (Payments!PaidOnly)'
    BY <1>1 DEF PremiumInv, Payments!PremiumIsPaidTime, Payments!PaidOnly
<1> QED
    BY <1>1, <1>3, <1>4, <1>5, SumsStand DEF PremiumInv, Payments!PremiumIsPaidTime

\* The transaction of activate_premium: the row asked again is still unspent, so its
\* days are bought now and were not before.
LEMMA ConsumesKeeps ==
    ASSUME PremiumInv, NEW s \in Slots, Payments!ActivateConsumes(s)
    PROVE  PremiumInv'
<1> DEFINE i == req[s].inv
           w == req[s].user
<1>1. /\ i \in Invoices /\ w \in Payers /\ rows[i].user = w /\ rows[i].rail = req[s].rail
      /\ rows[i].days = req[s].days /\ processor[i].status = "settled"
      /\ processor[i].rail = req[s].rail /\ processor[i].bind = w
    BY DEF Payments!ActivateConsumes, PremiumInv, Settles
<1>2. Payments!Ends(s) /\ UNCHANGED <<processor, now, used>>
    BY DEF Payments!ActivateConsumes
<1>3. CASE UNCHANGED <<rows, until>>
    BY <1>2, <1>3, RequestEnds
<1>4. CASE /\ ~rows[i].consumed /\ rows' = [rows EXCEPT ![i].consumed = TRUE]
           /\ until' = [until EXCEPT ![w] = Payments!Extended(@, req[s].days)]
  <2> DEFINE row == [rows[i] EXCEPT !.consumed = TRUE]
  <2>1. rows[i] \in Payments!Row /\ rows[i].days \in Nat
    <3>1. rows[i] \in Payments!Row
      BY <1>1 DEF PremiumInv, PaidType
    <3>2. rows[i].days \in Plans \cup {0}
      BY <3>1 DEF Payments!Row
    <3>3. Plans \cup {0} \subseteq Nat
      BY PremiumBounds
    <3> QED
      BY <3>1, <3>2, <3>3
  <2>2. /\ row \in Payments!Row /\ row.consumed = TRUE /\ row.user = rows[i].user
        /\ row.rail = rows[i].rail /\ row.days = rows[i].days
    BY <2>1 DEF Payments!Row
  <2>3. rows' = [rows EXCEPT ![i] = row]
    BY <1>4
  <2>4. PICK n \in Nat : n = rows[i].days
    BY <2>1
  <2> HIDE DEF row, i, w
  <2>5. \A t \in Slots : req'[t] = IF t = s THEN Payments!NoRequest ELSE req[t]
    BY <1>2 DEF PremiumInv, PaidType, Payments!Ends
  <2>6. \A j \in Invoices : rows'[j] = IF j = i THEN row ELSE rows[j]
    BY <2>3 DEF PremiumInv, PaidType
  <2>7. until'[w] = Payments!Later(until[w], now) + n
    BY <1>1, <1>4, <2>4 DEF PremiumInv, PaidType, Payments!Extended
  <2>8. \A u \in Payers : u # w => until'[u] = until[u]
    BY <1>4 DEF PremiumInv, PaidType
  <2>9. until[w] \in Nat /\ now \in Nat
    BY <1>1 DEF PremiumInv, PaidType
  <2>10. Payments!Later(until[w], now) + n \in Nat
    BY <2>9 DEF Payments!Later
  <2>11. PaidType'
    <3>1. until' = [until EXCEPT ![w] = Payments!Later(until[w], now) + n]
      BY <1>1, <1>4, <2>4 DEF PremiumInv, PaidType, Payments!Extended
    <3> QED
      BY <1>2, <2>2, <2>3, <2>10, <3>1, NoRequestShape DEF PremiumInv, PaidType, Payments!Ends
  <2>12. RowsAreMinted'
    BY <1>1, <1>2, <2>5, <2>6, NoRequestShape, NoRowShape
       DEF PremiumInv, RowsAreMinted, Inserting
  <2>13. \A t \in Slots : Settles(t)' /\ Selects(t)'
    BY <1>2, <2>2, <2>5, <2>6, NoRequestShape DEF PremiumInv, Settles, Selects
  <2>14. (Payments!PaidOnly)'
    BY <1>1, <1>2, <2>2, <2>6 DEF PremiumInv, Payments!PremiumIsPaidTime, Payments!PaidOnly
  <2>15. ASSUME NEW u \in Payers, u # w
         PROVE  UnitsIn(rows', u) = UnitsIn(rows, u)
    <3>1. \A j \in Invoices :
            /\ (rows'[j].user = u /\ rows'[j].consumed) <=> (rows[j].user = u /\ rows[j].consumed)
            /\ rows[j].user = u /\ rows[j].consumed => rows'[j].days = rows[j].days
      BY <1>1, <2>2, <2>6, <2>15
    <3> QED
      BY <3>1, SameUnits
  <2>16. /\ IsFiniteSet(UnitsIn(rows', w))
         /\ Cardinality(UnitsIn(rows', w)) = Cardinality(UnitsIn(rows, w)) + n
    <3>1. /\ rows[i].user = w /\ ~rows[i].consumed /\ rows'[i].user = w /\ rows'[i].consumed
          /\ rows'[i].days = n /\ \A j \in Invoices \ {i} : rows[j] = rows'[j]
      BY <1>1, <1>4, <2>2, <2>4, <2>6
    <3>2. IsFiniteSet(UnitsIn(rows, w))
      BY <1>1 DEF PremiumInv
    <3> QED
      BY <1>1, <3>1, <3>2, SpendingAdds
  <2>17. \A u \in Payers : IsFiniteSet(UnitsIn(rows', u))
    BY <2>15, <2>16 DEF PremiumInv
  <2>18. \A u \in Payers :
            (Payments!Bought(u))' = used'[u] + Payments!Later(until'[u] - now', 0)
    <3> TAKE u \in Payers
    <3>1. Payments!Bought(u) = used[u] + Payments!Later(until[u] - now, 0)
      BY DEF PremiumInv, Payments!PremiumIsPaidTime, Payments!BoughtIsKept
    <3>2. CASE u # w
      BY <1>2, <2>8, <2>15, <3>1, <3>2, UnitsAreOfRows
    <3>3. CASE u = w
      <4>1. (Payments!Bought(u))' = Payments!Bought(u) + n
        BY <2>16, <3>3, UnitsAreOfRows
      <4>2. used[w] \in Nat
        BY <1>1 DEF PremiumInv, PaidType
      <4>3. used[w] + Payments!Later(until[w] - now, 0) + n
                = used[w] + Payments!Later((Payments!Later(until[w], now) + n) - now, 0)
        BY <2>9, <4>2 DEF Payments!Later
      <4> QED
        BY <1>2, <2>7, <3>1, <3>3, <4>1, <4>3
    <3> QED
      BY <3>2, <3>3
  <2>19. (Payments!BoughtIsKept)'
    BY <2>18 DEF Payments!BoughtIsKept, Payments!Later
  <2> QED
    BY <2>11, <2>12, <2>13, <2>14, <2>17, <2>19 DEF PremiumInv, Payments!PremiumIsPaidTime
<1> QED
    BY <1>3, <1>4 DEF Payments!ActivateConsumes, Payments!Unspent

\* Premium time is exactly what settled invoices bought, for any number of payers,
\* invoices, rails and requests in flight: an activation polls the rail that minted
\* its invoice and consumes the row in the transaction that extends the window, so
\* two that race grant once and a renewal loses nothing (activate_premium).
THEOREM PremiumIsExactlyPaid == Payments!Spec => []PremiumIsPaidTime
<1>1. Payments!Init => PremiumInv
    BY PremiumStarts
<1>2. PremiumInv /\ [Payments!Next]_(Payments!vars) => PremiumInv'
  <2> SUFFICES ASSUME PremiumInv, [Payments!Next]_(Payments!vars)
               PROVE  PremiumInv'
    OBVIOUS
  <2>1. CASE \E s \in Slots, u \in Payers :
                \/ \E r \in Rails, days \in Plans : Payments!InvoiceCounts(s, u, r, days)
                \/ \E i \in Invoices : Payments!ActivateReads(s, u, i)
    BY <2>1, CountsKeeps, ReadsKeeps
  <2>2. CASE \E s \in Slots : Payments!Minting(s) \/ Payments!Activating(s)
    BY <2>2, CreatesKeeps, InsertsKeeps, PollsKeeps, ConsumesKeeps
       DEF Payments!Minting, Payments!Activating
  <2>3. CASE \E i \in Invoices : Payments!ProcessorMoves(i)
    BY <2>3, ProcessorKeeps
  <2>4. CASE Payments!TimePasses
    BY <2>4, TimeKeeps
  <2>5. CASE Payments!Restart \/ Payments!RailReturns
    BY <2>5, RailsKeep
  <2>6. CASE UNCHANGED Payments!vars
    <3>1. UNCHANGED <<processor, rows, until, now, req, used>>
      BY <2>6 DEF Payments!vars
    <3>2. PaidType' /\ RowsAreMinted' /\ \A t \in Slots : Settles(t)' /\ Selects(t)'
      BY <3>1 DEF PremiumInv, PaidType, RowsAreMinted, Inserting, Settles, Selects
    <3>3. (Payments!PaidOnly)'
      BY <3>1 DEF PremiumInv, Payments!PremiumIsPaidTime, Payments!PaidOnly
    <3> QED
      BY <3>1, <3>2, <3>3, SumsStand DEF PremiumInv, Payments!PremiumIsPaidTime
  <2> QED
    BY <2>1, <2>2, <2>3, <2>4, <2>5, <2>6 DEF Payments!Next
<1>3. PremiumInv => PremiumIsPaidTime
    BY DEF PremiumInv, PremiumIsPaidTime
<1> QED
    BY <1>1, <1>2, <1>3, PTL DEF Payments!Spec
===============================================================================
