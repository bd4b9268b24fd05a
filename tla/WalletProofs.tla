----------------------------- MODULE WalletProofs -----------------------------
(***************************************************************************)
(* Theorems about the components behind the wallet endpoints: the          *)
(* slatepack relay, the Electrum client's circuit breaker and batches, the *)
(* grin scan and the light-wallet import.  They hold for any number of     *)
(* accounts, slates, servers, addresses, payments and requests in flight.  *)
(*                                                                         *)
(* Each part has an inductive invariant of its own (RelayInv, BreakerInv,  *)
(* ScanInv, ImportInv with CeilingInv): the properties speak of what a     *)
(* request did, the invariants of what it may still do with what it read.  *)
(***************************************************************************)
EXTENDS MCWallets, TLAPS, WellFoundedInduction

-------------------------------------------------------------------------------
(* Recursive definitions.  A function defined by recursion over 0..N is     *)
(* what CHOOSE picks; that there is one to pick, and what it is, is shown   *)
(* by induction, in the form of a least counterexample.                     *)

\* Every set of natural numbers has a least element.
LEMMA LeastNatural ==
    ASSUME NEW S, S \subseteq Nat, S # {}
    PROVE  \E m \in S : \A k \in S : m <= k
<1> DEFINE R == OpToRel(<, Nat)
<1>1. IsWellFoundedOn(R, Nat)
    BY NatLessThanWellFounded, Zenon
<1>2. \A x, y \in Nat : x < y => <<x, y>> \in R
    BY DEF OpToRel
<1> HIDE DEF R
<1>3. PICK m \in S : \A k \in S : ~(<<k, m>> \in R)
    BY <1>1, WFMin
<1>4. \A k \in S : ~(k < m)
    BY <1>2, <1>3, Zenon
<1>5. \A k \in S : k \in Nat /\ m \in Nat
    OBVIOUS
<1>6. \A k \in S : m <= k
    BY <1>4, <1>5
<1> QED
    BY <1>6

\* Induction: a number that is not in S would have a least one, and the one before it is.
LEMMA Induction ==
    ASSUME NEW S, 0 \in S, \A n \in Nat : n \in S => n + 1 \in S
    PROVE  \A n \in Nat : n \in S
<1>1. SUFFICES ASSUME Nat \ S # {} PROVE FALSE
    OBVIOUS
<1>2. PICK m \in Nat \ S : \A k \in Nat \ S : m <= k
    BY <1>1, LeastNatural
<1>3. m # 0 /\ m \in Nat
    OBVIOUS
<1>4. m - 1 \in Nat /\ m - 1 < m /\ (m - 1) + 1 = m
    BY <1>3
<1>5. m - 1 \in S
    BY <1>2, <1>4
<1> QED
    BY <1>4, <1>5

\* A bounded set has a greatest element.
LEMMA Greatest ==
    ASSUME NEW N \in Nat, NEW S, S \subseteq 0..N, S # {}
    PROVE  \E m \in S : \A k \in S : m >= k
<1> DEFINE T == {N - k : k \in S}
<1>0. \A k \in S : k \in 0..N /\ N - k \in Nat
    OBVIOUS
<1>1. T \subseteq Nat /\ T # {}
    BY <1>0
<1>2. PICK t \in T : \A u \in T : t <= u
    BY <1>1, LeastNatural
<1>3. PICK m \in S : t = N - m
    OBVIOUS
<1>4. \A k \in S : N - k \in T
    OBVIOUS
<1> HIDE DEF T
<1>5. \A k \in S : N - m <= N - k
    BY <1>2, <1>3, <1>4
<1>6. \A k \in S : m >= k
    BY <1>5
<1> QED
    BY <1>6

\* The functions that begin with v and go on by the steps, for n steps.
Iterates(V, v, step, n) ==
    {f \in [0..n -> V] : f[0] = v /\ \A a \in 1..n : f[a] = step[a][f[a - 1]]}

\* A recursive definition over 0..N whose steps stay within V has a solution in V.
LEMMA Recursion ==
    ASSUME NEW N \in Nat, NEW V, NEW v \in V, NEW step \in [1..N -> [V -> V]]
    PROVE  \E f : f \in Iterates(V, v, step, N)
<1> DEFINE S == {n \in Nat : n <= N => Iterates(V, v, step, n) # {}}
<1>1. 0 \in S
  <2> DEFINE f == [a \in 0..0 |-> v]
  <2>1. f \in Iterates(V, v, step, 0)
    BY DEF Iterates
  <2> QED
    BY <2>1
<1>2. ASSUME NEW n \in Nat, n \in S PROVE n + 1 \in S
  <2>1. CASE ~(n + 1 <= N)
    BY <2>1
  <2>2. CASE n + 1 <= N
    <3>1. n <= N
      BY <2>2
    <3>2. Iterates(V, v, step, n) # {}
      BY <1>2, <3>1, Zenon
    <3>3. PICK f : f \in Iterates(V, v, step, n)
      BY <3>2
    <3>4. f \in [0..n -> V] /\ f[0] = v /\ \A a \in 1..n : f[a] = step[a][f[a - 1]]
      BY <3>3 DEF Iterates
    <3> DEFINE w == step[n + 1][f[n]]
               g == [a \in 0..n + 1 |-> IF a <= n THEN f[a] ELSE w]
    <3>5. f[n] \in V /\ n + 1 \in 1..N
      BY <2>2, <3>4
    <3>6. w \in V
      BY <3>5
    <3> HIDE DEF w
    <3>7. g \in [0..n + 1 -> V]
      BY <3>4, <3>6
    <3>8. g[0] = v
      BY <3>4
    <3>9. ASSUME NEW a \in 1..n + 1 PROVE g[a] = step[a][g[a - 1]]
      <4>1. CASE a <= n
        BY <3>4, <4>1
      <4>2. CASE a = n + 1
        BY <4>2 DEF w
      <4> QED
        BY <4>1, <4>2
    <3> HIDE DEF g
    <3>10. g \in Iterates(V, v, step, n + 1)
      BY <3>7, <3>8, <3>9 DEF Iterates
    <3> QED
      BY <3>10
  <2> QED
    BY <2>1, <2>2
<1> HIDE DEF S
<1>3. N \in S
    BY <1>1, <1>2, Induction
<1> QED
    BY <1>3 DEF S

\* Two functions that begin alike and go on alike are the same on 0..N.
LEMMA SameIterates ==
    ASSUME NEW N \in Nat, NEW f, NEW g, f[0] = g[0],
           \A a \in 1..N : f[a - 1] = g[a - 1] => f[a] = g[a]
    PROVE  \A a \in 0..N : f[a] = g[a]
<1> DEFINE S == {n \in Nat : n <= N => f[n] = g[n]}
<1>1. 0 \in S
    OBVIOUS
<1>2. ASSUME NEW n \in Nat, n \in S PROVE n + 1 \in S
  <2>1. SUFFICES ASSUME n + 1 <= N PROVE f[n + 1] = g[n + 1]
    OBVIOUS
  <2>2. f[n] = g[n] /\ n + 1 \in 1..N /\ (n + 1) - 1 = n
    BY <1>2, <2>1
  <2> QED
    BY <2>2
<1> HIDE DEF S
<1>3. \A n \in Nat : n \in S
    BY <1>1, <1>2, Induction
<1> USE DEF S
<1> QED
    BY <1>3

\* Extensionality.
LEMMA SameFunction ==
    ASSUME NEW S, NEW V, NEW f \in [S -> V], NEW g, g = [x \in S |-> g[x]],
           \A x \in S : f[x] = g[x]
    PROVE  f = g
    OBVIOUS

-------------------------------------------------------------------------------
(* The slatepack relay: the inductive invariant.                            *)

\* A primary key that was given out is never given out again.
KeysUsed == \A i \in Ids : Relay!Exists(i) => i \in used

\* A request past its authorization holds a primary key; the row under that key is
\* still the one it was authorized on, less a recipient that was erased since.
Authorized(s) ==
    exchanges[s] # Relay!NoJob /\ exchanges[s].verb # "create" =>
      /\ exchanges[s].id \in used
      /\ Relay!Exists(exchanges[s].id) => \/ exchanges[s].by \in {relays[exchanges[s].id].sender,
                                               relays[exchanges[s].id].recipient}
                                          \/ relays[exchanges[s].id].recipient = None

\* The sender's turn comes only with the recipient's answer.
Answered == \A i \in Ids : Relay!Exists(i) /\ relays[i].status = "pending_sender"
                            => relays[i].responded

RelayInv == Relay!TypeOK /\ KeysUsed /\ Answered /\ \A s \in Requests : Authorized(s)

\* What the rows of a step may do to the requests in flight: rows come and go by their
\* key, keep their parties or lose the recipient.
Kept ==
    /\ used \subseteq used'
    /\ \A i \in used \cap Ids : Relay!Exists(i)' =>
          /\ Relay!Exists(i) /\ relays'[i].sender = relays[i].sender
          /\ relays'[i].recipient \in {relays[i].recipient, None}

LEMMA Distinct == Relay!NoRelay \notin Relay!Relay /\ Relay!NoJob \notin Relay!Job
<1>1. \A r \in Relay!Relay : r.status # "none"
    BY DEF Relay!Relay, Relay!Pending, Relay!Terminal
<1>2. \A j \in Relay!Job : j.verb # "none"
    BY DEF Relay!Job, Relay!Verbs
<1>3. Relay!NoRelay.status = "none" /\ Relay!NoJob.verb = "none"
    BY DEF Relay!NoRelay, Relay!NoJob
<1> QED
    BY <1>1, <1>2, <1>3

LEMMA RowShape == ASSUME Relay!TypeOK, NEW i \in Ids, Relay!Exists(i)
                  PROVE  relays[i] \in Relay!Relay
    BY DEF Relay!TypeOK, Relay!Exists

LEMMA JobShape == ASSUME Relay!TypeOK, NEW s \in Requests, exchanges[s].verb # "none"
                  PROVE  exchanges[s] \in Relay!Job
    BY DEF Relay!TypeOK, Relay!NoJob

\* A request that stays as it is stays authorized.
LEMMA StaysAuthorized ==
    ASSUME RelayInv, Kept, NEW s \in Requests, exchanges'[s] = exchanges[s]
    PROVE  Authorized(s)'
<1> SUFFICES ASSUME exchanges[s] # Relay!NoJob, exchanges[s].verb # "create"
             PROVE  /\ exchanges[s].id \in used'
                    /\ Relay!Exists(exchanges[s].id)' =>
                         \/ exchanges[s].by \in {relays'[exchanges[s].id].sender,
                              relays'[exchanges[s].id].recipient}
                         \/ relays'[exchanges[s].id].recipient = None
    BY DEF Authorized, Relay!Exists
<1>1. exchanges[s].id \in used /\ used \subseteq Ids
    BY DEF RelayInv, Authorized, Relay!TypeOK
<1> QED
    BY <1>1 DEF RelayInv, Kept, Authorized, Relay!Exists

LEMMA SameRows == ASSUME RelayInv, UNCHANGED <<relays, used>> PROVE Kept /\ KeysUsed' /\ Answered'
    BY DEF RelayInv, Kept, Relay!Exists, KeysUsed, Answered

-------------------------------------------------------------------------------
(* The slatepack relay: the steps.                                          *)

LEMMA CreateStep == ASSUME RelayInv, NEW s \in Requests, Relay!Create(s) PROVE RelayInv'
<1>1. PICK u \in parties, v \in parties, slate \in Slates :
        exchanges' = [exchanges EXCEPT ![s] = [verb |-> "create", by |-> u, slate |-> slate,
            id |-> None, to |-> v]]
    BY DEF Relay!Create
<1>2. u \in Accounts /\ v \in Accounts
    BY DEF RelayInv, Relay!TypeOK
<1>3. [verb |-> "create", by |-> u, slate |-> slate, id |-> None, to |-> v] \in Relay!Job
    BY <1>2 DEF Relay!Job, Relay!Verbs
<1>4. Relay!TypeOK'
    BY <1>1, <1>3 DEF RelayInv, Relay!TypeOK, Relay!Create
<1>5. ASSUME NEW r \in Requests PROVE Authorized(r)'
  <2>1. CASE r = s
    BY <2>1, <1>1 DEF RelayInv, Relay!TypeOK, Authorized
  <2>2. CASE r # s
    BY <2>2, <1>1, StaysAuthorized, SameRows DEF Relay!Create, RelayInv, Relay!TypeOK
  <2> QED
    BY <2>1, <2>2
<1> QED
    BY <1>4, <1>5, SameRows DEF RelayInv, Relay!Create

LEMMA FetchStep == ASSUME RelayInv, NEW s \in Requests, Relay!Fetch(s) PROVE RelayInv'
<1>1. PICK u \in parties, i \in Ids, verb \in Relay!Verbs \ {"create"} :
        /\ Relay!Exists(i) /\ u \in Relay!PartyOf(verb, relays[i])
        /\ exchanges' = [exchanges EXCEPT ![s] = [verb |-> verb, by |-> u,
             slate |-> relays[i].slate,
                                                  id |-> i, to |-> None]]
    BY DEF Relay!Fetch
<1>2. u \in Accounts /\ relays[i].slate \in Slates /\ u \in {relays[i].sender, relays[i].recipient}
    BY <1>1, RowShape DEF RelayInv, Relay!TypeOK, Relay!PartyOf, Relay!Relay
<1>3. [verb |-> verb, by |-> u, slate |-> relays[i].slate, id |-> i, to |-> None] \in Relay!Job
    BY <1>2 DEF Relay!Job
<1>4. Relay!TypeOK'
    BY <1>1, <1>3 DEF RelayInv, Relay!TypeOK, Relay!Fetch
<1>5. ASSUME NEW r \in Requests PROVE Authorized(r)'
  <2>1. CASE r = s
    <3>1. exchanges'[r].id = i /\ exchanges'[r].by = u /\ relays' = relays /\ used' = used
      BY <2>1, <1>1 DEF RelayInv, Relay!TypeOK, Relay!Fetch
    <3> QED
      BY <3>1, <1>1, <1>2 DEF RelayInv, KeysUsed, Authorized, Relay!Exists
  <2>2. CASE r # s
    BY <2>2, <1>1, StaysAuthorized, SameRows DEF Relay!Fetch, RelayInv, Relay!TypeOK
  <2> QED
    BY <2>1, <2>2
<1> QED
    BY <1>4, <1>5, SameRows DEF RelayInv, Relay!Fetch

\* The end of a request.
LEMMA EndStep == ASSUME RelayInv, NEW s \in Requests, Relay!End(s), Kept
                 PROVE  exchanges' \in [Requests -> Relay!Job \cup {Relay!NoJob}] /\
                     \A r \in Requests : Authorized(r)'
<1>1. exchanges' \in [Requests -> Relay!Job \cup {Relay!NoJob}] /\ exchanges'[s] = Relay!NoJob /\
    \A r \in Requests \ {s} : exchanges'[r] = exchanges[r]
    BY DEF Relay!End, RelayInv, Relay!TypeOK
<1>2. Authorized(s)'
    BY <1>1 DEF Authorized
<1> QED
    BY <1>1, <1>2, StaysAuthorized

LEMMA InsertStep == ASSUME RelayInv, NEW s \in Requests, Relay!Insert(s) PROVE RelayInv'
<1>1. CASE UNCHANGED <<relays, used>>
    BY <1>1, SameRows, EndStep DEF Relay!Insert, RelayInv, Relay!TypeOK
<1>2. ASSUME NEW i \in Ids \ used, {exchanges[s].by, exchanges[s].to} \subseteq parties,
             relays' = [relays EXCEPT ![i] = [slate |-> exchanges[s].slate,
                 sender |-> exchanges[s].by,
                    recipient |-> exchanges[s].to, status |-> "pending_recipient",
                    responded |-> FALSE, past |-> FALSE]],
             used' = used \cup {i}
      PROVE  RelayInv'
  <2>1. exchanges[s] \in Relay!Job
    BY JobShape DEF Relay!Insert, RelayInv
  <2>2. [slate |-> exchanges[s].slate, sender |-> exchanges[s].by, recipient |-> exchanges[s].to,
         status |-> "pending_recipient", responded |-> FALSE, past |-> FALSE] \in Relay!Relay
    BY <1>2, <2>1 DEF Relay!Relay, Relay!Job, Relay!Pending, RelayInv, Relay!TypeOK
  <2>3. relays' \in [Ids -> Relay!Relay \cup {Relay!NoRelay}] /\ used' \subseteq Ids
    BY <1>2, <2>2 DEF RelayInv, Relay!TypeOK
  <2>4. relays'[i].status = "pending_recipient" /\ \A k \in Ids \ {i} : relays'[k] = relays[k]
    BY <1>2 DEF RelayInv, Relay!TypeOK
  <2>5. Kept
    BY <1>2, <2>4 DEF Kept, RelayInv, Relay!TypeOK, Relay!Exists
  <2>6. KeysUsed' /\ Answered'
    BY <1>2, <2>4 DEF KeysUsed, Answered, RelayInv, Relay!Exists
  <2> QED
    BY <2>3, <2>5, <2>6, EndStep DEF Relay!Insert, RelayInv, Relay!TypeOK
<1> QED
    BY <1>1, <1>2 DEF Relay!Insert

\* What an update makes of a row that qualifies.
LEMMA Advances ==
    ASSUME NEW row \in Relay!Relay, NEW verb, Relay!Qualifies(verb, row)
    PROVE  /\ Relay!Advanced(verb, row) \in Relay!Relay
           /\ Relay!Advanced(verb, row).sender = row.sender
           /\ Relay!Advanced(verb, row).recipient = row.recipient
           /\ Relay!Advanced(verb, row).status = "pending_sender" =>
                Relay!Advanced(verb, row).responded
           /\ Relay!Advanced(verb, row).status = "finalized" => row.status = "pending_sender"
           /\ Relay!Follows(row, Relay!Advanced(verb, row))
<1>1. CASE verb = "respond"
    BY <1>1 DEF Relay!Advanced, Relay!Qualifies, Relay!Relay, Relay!Pending, Relay!Terminal,
       Relay!Follows
<1>2. CASE verb = "finalize"
    BY <1>2 DEF Relay!Advanced, Relay!Qualifies, Relay!Relay, Relay!Pending, Relay!Terminal,
       Relay!Follows
<1>3. CASE verb \notin {"respond", "finalize"}
    BY <1>3 DEF Relay!Advanced, Relay!Qualifies, Relay!Relay, Relay!Pending, Relay!Terminal,
       Relay!Follows
<1> QED
    BY <1>1, <1>2, <1>3

\* An update touches at most the row of its request.
LEMMA UpdateShape ==
    ASSUME RelayInv, NEW s \in Requests, Relay!Update(s)
    PROVE  /\ exchanges[s] # Relay!NoJob /\ exchanges[s].verb # "create"
           /\ relays' = [i \in Ids |-> relays'[i]]
           /\ \A i \in Ids : \/ relays'[i] = relays[i]
                             \/ /\ i = exchanges[s].id /\ Relay!Exists(i) /\
                                     Relay!Qualifies(exchanges[s].verb, relays[i])
                                /\ relays'[i] = Relay!Advanced(exchanges[s].verb, relays[i])
    BY DEF Relay!Update, Relay!Target

LEMMA UpdateStep == ASSUME RelayInv, NEW s \in Requests, Relay!Update(s) PROVE RelayInv'
<1>1. ASSUME NEW i \in Ids
      PROVE  /\ relays'[i] \in Relay!Relay \cup {Relay!NoRelay}
             /\ Relay!Exists(i)' => /\ Relay!Exists(i)
                                    /\ relays'[i].sender = relays[i].sender
                                    /\ relays'[i].recipient = relays[i].recipient
                                    /\ relays'[i].status = "pending_sender" => relays'[i].responded
  <2>1. CASE relays'[i] = relays[i]
    BY <2>1 DEF RelayInv, Relay!TypeOK, Relay!Exists, Answered
  <2>2. CASE /\ Relay!Exists(i) /\ Relay!Qualifies(exchanges[s].verb, relays[i])
             /\ relays'[i] = Relay!Advanced(exchanges[s].verb, relays[i])
    BY <2>2, RowShape, Advances DEF RelayInv
  <2> QED
    BY <2>1, <2>2, UpdateShape
<1>2. relays' \in [Ids -> Relay!Relay \cup {Relay!NoRelay}]
    BY <1>1, UpdateShape
<1>3. Kept /\ KeysUsed' /\ Answered'
    BY <1>1 DEF Kept, KeysUsed, Answered, Relay!Update, RelayInv, Relay!TypeOK, Relay!Exists
<1> QED
    BY <1>2, <1>3, EndStep DEF Relay!Update, RelayInv, Relay!TypeOK

\* Steps that only change rows.
LEMMA RowsStep ==
    ASSUME RelayInv, UNCHANGED exchanges, used' = used, parties' \subseteq Accounts, Kept,
           relays' \in [Ids -> Relay!Relay \cup {Relay!NoRelay}], KeysUsed', Answered'
    PROVE  RelayInv'
    BY StaysAuthorized DEF RelayInv, Relay!TypeOK

LEMMA TtlStep == ASSUME RelayInv, NEW i \in Ids, Relay!TtlPasses(i) PROVE RelayInv'
<1>1. relays[i] \in Relay!Relay /\ relays' = [relays EXCEPT ![i] = [relays[i] EXCEPT !.past = TRUE]]
    BY RowShape DEF Relay!TtlPasses, RelayInv
<1>2. [relays[i] EXCEPT !.past = TRUE] \in Relay!Relay
    BY <1>1 DEF Relay!Relay
<1>3. relays' \in [Ids -> Relay!Relay \cup {Relay!NoRelay}]
    BY <1>1, <1>2 DEF RelayInv, Relay!TypeOK
<1>4. /\ relays'[i].sender = relays[i].sender /\ relays'[i].recipient = relays[i].recipient
      /\ relays'[i].status = relays[i].status /\ relays'[i].responded = relays[i].responded
      /\ \A k \in Ids \ {i} : relays'[k] = relays[k]
    BY <1>1 DEF RelayInv, Relay!TypeOK, Relay!Relay
<1>5. Kept /\ KeysUsed' /\ Answered'
    BY <1>4 DEF Relay!TtlPasses, Kept, KeysUsed, Answered, Relay!Exists, RelayInv
<1> QED
    BY <1>3, <1>5, RowsStep DEF Relay!TtlPasses, RelayInv, Relay!TypeOK

LEMMA ExpireStep == ASSUME RelayInv, Relay!Expire PROVE RelayInv'
<1>1. ASSUME NEW i \in Ids
      PROVE  /\ relays'[i] \in Relay!Relay \cup {Relay!NoRelay}
             /\ Relay!Exists(i)' => /\ Relay!Exists(i)
                                    /\ relays'[i].sender = relays[i].sender
                                    /\ relays'[i].recipient = relays[i].recipient
                                    /\ relays'[i].status = "pending_sender" => relays'[i].responded
  <2>1. CASE relays'[i] = relays[i]
    BY <2>1 DEF RelayInv, Relay!TypeOK, Relay!Exists, Answered
  <2>2. CASE Relay!Exists(i) /\ relays'[i] = [relays[i] EXCEPT !.status = "expired"]
    BY <2>2, RowShape DEF RelayInv, Relay!Relay, Relay!Terminal
  <2> QED
    BY <2>1, <2>2 DEF Relay!Expire
<1>2. relays' \in [Ids -> Relay!Relay \cup {Relay!NoRelay}]
    BY <1>1 DEF Relay!Expire
<1>3. Kept /\ KeysUsed' /\ Answered'
    BY <1>1 DEF Kept, KeysUsed, Answered, Relay!Expire, RelayInv, Relay!TypeOK, Relay!Exists
<1> QED
    BY <1>2, <1>3, RowsStep DEF Relay!Expire, RelayInv, Relay!TypeOK

LEMMA EraseStep == ASSUME RelayInv, NEW u \in Accounts, Relay!Erase(u) PROVE RelayInv'
<1>1. ASSUME NEW i \in Ids
      PROVE  /\ relays'[i] \in Relay!Relay \cup {Relay!NoRelay}
             /\ Relay!Exists(i)' => /\ Relay!Exists(i)
                                    /\ relays'[i].sender = relays[i].sender
                                    /\ relays'[i].recipient \in {relays[i].recipient, None}
                                    /\ relays'[i].status = relays[i].status
                                    /\ relays'[i].responded = relays[i].responded
  <2>1. CASE relays'[i] = relays[i] \/ relays'[i] = Relay!NoRelay
    BY <2>1 DEF RelayInv, Relay!TypeOK, Relay!Exists
  <2>2. CASE Relay!Exists(i) /\ relays'[i] = [relays[i] EXCEPT !.recipient = None]
    BY <2>2, RowShape DEF RelayInv, Relay!Relay
  <2> QED
    BY <2>1, <2>2 DEF Relay!Erase
<1>2. relays' \in [Ids -> Relay!Relay \cup {Relay!NoRelay}]
    BY <1>1 DEF Relay!Erase
<1>3. Kept /\ KeysUsed' /\ Answered'
    BY <1>1 DEF Kept, KeysUsed, Answered, Relay!Erase, RelayInv, Relay!TypeOK, Relay!Exists
<1> QED
    BY <1>2, <1>3, RowsStep DEF Relay!Erase, RelayInv, Relay!TypeOK

LEMMA CrashStep == ASSUME RelayInv, Relay!Crash PROVE RelayInv'
<1>1. exchanges' \in [Requests -> Relay!Job \cup {Relay!NoJob}] /\
    \A s \in Requests : exchanges'[s] = Relay!NoJob
    BY DEF Relay!Crash
<1> QED
    BY <1>1, SameRows DEF Relay!Crash, RelayInv, Relay!TypeOK, Authorized

LEMMA RelayStep == ASSUME RelayInv, [Relay!Next]_(Relay!vars) PROVE RelayInv'
<1>1. CASE UNCHANGED Relay!vars
    BY <1>1 DEF Relay!vars, RelayInv, Relay!TypeOK, KeysUsed, Answered, Authorized, Relay!Exists
<1> QED
    BY <1>1, CreateStep, InsertStep, FetchStep, UpdateStep, TtlStep, EraseStep, ExpireStep,
       CrashStep DEF Relay!Next

LEMMA RelayInit == Relay!Init => RelayInv
    BY DEF Relay!Init, RelayInv, Relay!TypeOK, KeysUsed, Answered, Authorized, Relay!Exists

-------------------------------------------------------------------------------
(* The slatepack relay: the two halves of the property, for a step.         *)

PartyStep ==
    \A s \in Requests, i \in Ids :
       (exchanges[s] # Relay!NoJob /\ exchanges'[s] = Relay!NoJob /\ Relay!Exists(i) /\
           relays'[i] # relays[i] /\ parties' = parties)
       => exchanges[s].by \in {relays[i].sender, relays[i].recipient} \/ relays[i].recipient = None

ForwardStep ==
    \A i \in Ids : (Relay!Exists(i) /\ relays'[i] # Relay!NoRelay /\
        relays'[i].status # relays[i].status)
       => Relay!Follows(relays[i], relays'[i]) /\ (relays'[i].status = "finalized" =>
           relays[i].responded)

LEMMA OnlyParties == ASSUME RelayInv, [Relay!Next]_(Relay!vars) PROVE PartyStep
<1> SUFFICES ASSUME NEW s \in Requests, NEW i \in Ids, exchanges[s] # Relay!NoJob,
                    exchanges'[s] = Relay!NoJob, Relay!Exists(i),
                    relays'[i] # relays[i], parties' = parties
             PROVE  exchanges[s].by \in {relays[i].sender, relays[i].recipient} \/
                 relays[i].recipient = None
    BY DEF PartyStep
<1>1. CASE UNCHANGED Relay!vars \/ Relay!Crash \/
           (\E r \in Requests : Relay!Create(r) \/ Relay!Fetch(r))
    BY <1>1 DEF Relay!vars, Relay!Crash, Relay!Create, Relay!Fetch
<1>2. CASE Relay!Expire \/ (\E k \in Ids : Relay!TtlPasses(k)) \/
    (\E u \in Accounts : Relay!Erase(u))
    BY <1>2 DEF Relay!Expire, Relay!TtlPasses, Relay!Erase
<1>3. ASSUME NEW r \in Requests, Relay!Insert(r) PROVE FALSE
    BY <1>3 DEF Relay!Insert, RelayInv, KeysUsed, Relay!TypeOK
<1>4. ASSUME NEW r \in Requests, Relay!Update(r)
      PROVE  exchanges[s].by \in {relays[i].sender, relays[i].recipient} \/
          relays[i].recipient = None
  <2>1. r = s
    BY <1>4 DEF Relay!Update, Relay!End, RelayInv, Relay!TypeOK
  <2> QED
    BY <1>4, <2>1, UpdateShape DEF RelayInv, Authorized
<1> QED
    BY <1>1, <1>2, <1>3, <1>4 DEF Relay!Next

LEMMA OnlyForward == ASSUME RelayInv, [Relay!Next]_(Relay!vars) PROVE ForwardStep
<1> SUFFICES ASSUME NEW i \in Ids, Relay!Exists(i), relays'[i] # Relay!NoRelay,
                    relays'[i].status # relays[i].status
             PROVE  /\ Relay!Follows(relays[i], relays'[i])
                    /\ relays'[i].status = "finalized" => relays[i].responded
    BY DEF ForwardStep
<1>0. relays[i] \in Relay!Relay
    BY RowShape DEF RelayInv
<1>1. CASE UNCHANGED Relay!vars \/ Relay!Crash \/
           (\E r \in Requests : Relay!Create(r) \/ Relay!Fetch(r))
    BY <1>1 DEF Relay!vars, Relay!Crash, Relay!Create, Relay!Fetch
<1>2. ASSUME NEW r \in Requests, Relay!Insert(r) PROVE FALSE
    BY <1>2 DEF Relay!Insert, RelayInv, KeysUsed, Relay!TypeOK
<1>3. ASSUME NEW r \in Requests, Relay!Update(r)
      PROVE  /\ Relay!Follows(relays[i], relays'[i])
             /\ relays'[i].status = "finalized" => relays[i].responded
    BY <1>0, <1>3, UpdateShape, Advances DEF RelayInv, Answered
<1>4. CASE Relay!Expire
  <2>1. Relay!Expirable(relays[i]) /\ relays'[i] = [relays[i] EXCEPT !.status = "expired"]
    BY <1>4 DEF Relay!Expire
  <2> QED
    BY <1>0, <2>1 DEF Relay!Expirable, Relay!Follows, Relay!Pending, Relay!Terminal, Relay!Relay
<1>5. ASSUME NEW k \in Ids, Relay!TtlPasses(k) PROVE FALSE
    BY <1>0, <1>5 DEF Relay!TtlPasses, RelayInv, Relay!TypeOK, Relay!Relay
<1>6. ASSUME NEW u \in Accounts, Relay!Erase(u) PROVE FALSE
    BY <1>0, <1>6 DEF Relay!Erase, Relay!Relay
<1> QED
    BY <1>1, <1>2, <1>3, <1>4, <1>5, <1>6 DEF Relay!Next

-------------------------------------------------------------------------------
\* A relay is changed only by its parties, although the row a request was authorized on
\* may be gone and its slate id taken again when it writes; and every relay moves only
\* forward, to finalized only over the recipient's answer (grin_relay.rs).
THEOREM RelayIsFaithful == Relay!Spec => RelayFollowsParties
<1>1. Relay!Init => RelayInv
    BY RelayInit
<1>2. RelayInv /\ [Relay!Next]_(Relay!vars) => RelayInv' /\ [PartyStep]_(Relay!vars) /\
    [ForwardStep]_(Relay!vars)
    BY RelayStep, OnlyParties, OnlyForward
<1> QED
    BY <1>1, <1>2, PTL DEF Relay!Spec, RelayFollowsParties, Relay!RelayFollowsParties,
       Relay!ChangedByParty, Relay!RelayMovesForward, PartyStep, ForwardStep

-------------------------------------------------------------------------------
(* The Electrum client's circuit breaker.                                   *)

\* The types of what the breaker reads.
BreakerType ==
    /\ asked \in [Client!Slots -> Client!Call]
    /\ failures \in 0..Client!Threshold /\ cooldown \in 0..Client!Cooldown
    /\ healthy \in 0..Client!Healed

\* The cooldown that is left is shorter than the time since the primary last failed:
\* what was recorded last is what the breaker counts down.
CooldownPasses == cooldown > 0 => cooldown + healthy <= Client!Cooldown

BreakerInv == BreakerType /\ CooldownPasses

LEMMA ClientBounds ==
    /\ Batch \in Nat /\ Balances \subseteq 0..MaxU64 /\ MaxU64 \in Nat
    /\ "primary" \notin Fallbacks
    BY InstancesOK DEF Client!ConstantsOK

LEMMA AtOnce == 0 \in 0..Client!IoTimeout
    BY DEF Client!IoTimeout

LEMMA NoCallShape == Client!NoCall \in Client!Call
    BY AtOnce DEF Client!NoCall, Client!Call

LEMMA TriesAreCalls ==
    ASSUME NEW c \in Client!Call, NEW t \in Client!NextTry(c)
    PROVE  t \in Client!Call
<1>1. CASE c.left = {}
  <2>1. t = [c EXCEPT !.at = "error", !.age = 0, !.waited = 0]
    BY <1>1 DEF Client!NextTry
  <2> QED
    BY <2>1, AtOnce DEF Client!Call
<1>2. CASE c.left # {}
  <2>1. PICK s \in c.left : t = [c EXCEPT !.at = s, !.left = c.left \ {s}, !.waited = 0]
    BY <1>2 DEF Client!NextTry
  <2> QED
    BY <2>1, AtOnce DEF Client!Call, Client!Servers
<1> QED
    BY <1>1, <1>2

LEMMA FirstTries ==
    ASSUME NEW t \in Client!FirstTry
    PROVE  t \in Client!Call
<1> DEFINE new == [Client!NoCall EXCEPT !.left = Fallbacks]
<1>1. new \in Client!Call
    BY AtOnce DEF Client!NoCall, Client!Call
<1>2. [new EXCEPT !.at = "primary"] \in Client!Call
    BY <1>1 DEF Client!Call, Client!Servers
<1> HIDE DEF new
<1>3. t \in Client!NextTry(new) \/ t = [new EXCEPT !.at = "primary"]
    BY DEF Client!FirstTry, new
<1> QED
    BY <1>1, <1>2, <1>3, TriesAreCalls

LEMMA BreakerInit == Client!Init => BreakerInv
    BY NoCallShape DEF Client!Init, BreakerInv, BreakerType, CooldownPasses, Client!Healed,
       Client!Cooldown, Client!Threshold

\* A step that leaves the breaker alone.
LEMMA BreakerStands ==
    ASSUME BreakerInv, UNCHANGED <<failures, cooldown>>, asked' \in [Client!Slots -> Client!Call],
           healthy' = healthy \/ healthy' = 0
    PROVE  BreakerInv'
    BY DEF BreakerInv, BreakerType, CooldownPasses, Client!Cooldown, Client!Healed

LEMMA BeginBreaker ==
    ASSUME BreakerInv, NEW c \in Client!Slots, Client!Begin(c)
    PROVE  asked' \in [Client!Slots -> Client!Call]
<1>1. PICK t \in Client!FirstTry : asked' = [asked EXCEPT ![c] = t]
    BY DEF Client!Begin
<1> QED
    BY <1>1, FirstTries DEF BreakerInv, BreakerType

LEMMA CloseBreaker ==
    ASSUME BreakerInv, NEW a, Client!Close(a)
    PROVE  BreakerInv'
<1>1. asked' \in [Client!Slots -> Client!Call]
    BY NoCallShape DEF Client!Close, BreakerInv, BreakerType
<1> QED
    BY <1>1, BreakerStands DEF Client!Close

LEMMA AnsweredBreaker ==
    ASSUME BreakerInv, NEW c \in Client!Slots, Client!Answered(c)
    PROVE  BreakerInv'
<1>1. PICK v \in Balances :
        asked' = [asked EXCEPT ![c] = [Client!NoCall EXCEPT !.at = "ok", !.value = v]]
    BY DEF Client!Answered
<1>2. [Client!NoCall EXCEPT !.at = "ok", !.value = v] \in Client!Call
    BY AtOnce DEF Client!NoCall, Client!Call
<1>3. asked' \in [Client!Slots -> Client!Call] /\ healthy' = healthy
    BY <1>1, <1>2 DEF BreakerInv, BreakerType, Client!Answered
<1>4. UNCHANGED <<failures, cooldown>> \/ (failures' = 0 /\ cooldown' = 0)
    BY DEF Client!Answered, Client!RecordPrimarySuccess
<1> QED
    BY <1>3, <1>4, BreakerStands
       DEF BreakerInv, BreakerType, CooldownPasses, Client!Cooldown, Client!Threshold

\* A failure of the primary starts the count again, less the age of its call.
LEMMA FailedBreaker ==
    ASSUME BreakerInv, NEW c \in Client!Slots, Client!Failed(c)
    PROVE  BreakerInv'
<1>1. PICK t \in Client!NextTry(asked[c]) : asked' = [asked EXCEPT ![c] = t]
    BY DEF Client!Failed
<1>2. asked[c] \in Client!Call
    BY DEF BreakerInv, BreakerType
<1>3. asked' \in [Client!Slots -> Client!Call]
    BY <1>1, <1>2, TriesAreCalls DEF BreakerInv, BreakerType
<1>4. CASE UNCHANGED <<failures, cooldown, healthy>>
    BY <1>3, <1>4, BreakerStands
<1>5. CASE Client!RecordPrimaryFailure(asked[c].age) /\ healthy' = 0
  <2>1. PICK age \in 0..3 : age = asked[c].age
    BY <1>2 DEF Client!Call, Client!IoTimeout
  <2>2. failures' \in 0..Client!Threshold /\ cooldown' \in 0..Client!Cooldown
    BY <1>5, <2>1 DEF Client!RecordPrimaryFailure, BreakerInv, BreakerType, Client!Threshold,
       Client!Cooldown
  <2>3. healthy' \in 0..Client!Healed /\ cooldown' + healthy' <= Client!Cooldown
    <3>1. healthy' = 0
      BY <1>5
    <3>2. PICK d \in 0..3 : cooldown' = d
      BY <2>2 DEF Client!Cooldown
    <3>3. 0 \in 0..4 /\ d + 0 <= 3
      BY <3>2
    <3> QED
      BY <3>1, <3>2, <3>3 DEF Client!Cooldown, Client!Healed
  <2> QED
    BY <1>3, <2>2, <2>3 DEF BreakerInv, BreakerType, CooldownPasses
<1> QED
    BY <1>4, <1>5 DEF Client!Failed

LEMMA TickBreaker ==
    ASSUME BreakerInv, Client!Tick
    PROVE  BreakerInv'
<1>1. ASSUME NEW c \in Client!Slots
      PROVE  asked'[c] \in Client!Call
  <2>1. asked[c] \in Client!Call
    BY DEF BreakerInv, BreakerType
  <2>2. CASE ~Client!Trying(c)
    BY <2>1, <2>2 DEF Client!Tick
  <2>3. CASE Client!Trying(c)
    <3>1. asked'[c] = [asked[c] EXCEPT !.age = Client!Sooner(asked[c].age + 1, Client!IoTimeout),
                                       !.waited = asked[c].waited + 1]
      BY <2>3 DEF Client!Tick
    <3>2. asked[c].age \in 0..3 /\ asked[c].waited \in 0..3
      BY <2>1 DEF Client!Call, Client!IoTimeout
    <3>3. asked[c].waited < 3
      <4>1. asked[c].waited < 3 \/ asked[c].waited < 1
        BY <2>3 DEF Client!Tick, Client!Settled, Client!IoTimeout
      <4> QED
        BY <3>2, <4>1
    <3>4. PICK a \in 0..3, w \in 0..3 :
            /\ a = Client!Sooner(asked[c].age + 1, Client!IoTimeout)
            /\ w = asked[c].waited + 1
      BY <3>2, <3>3 DEF Client!Sooner, Client!IoTimeout
    <3>5. asked'[c] = [asked[c] EXCEPT !.age = a, !.waited = w]
      BY <3>1, <3>4
    <3> QED
      BY <2>1, <3>5 DEF Client!Call, Client!IoTimeout
  <2> QED
    BY <2>2, <2>3
<1>2. asked' \in [Client!Slots -> Client!Call]
    BY <1>1 DEF Client!Tick
<1>3. /\ cooldown' = IF cooldown > 0 THEN cooldown - 1 ELSE 0
      /\ healthy' = Client!Sooner(healthy + 1, Client!Healed) \/ healthy' = 0
      /\ failures' = failures
    BY DEF Client!Tick
<1>4. /\ cooldown' \in 0..Client!Cooldown /\ healthy' \in 0..Client!Healed
      /\ cooldown' > 0 => cooldown' + healthy' <= Client!Cooldown
    BY <1>3 DEF BreakerInv, BreakerType, CooldownPasses, Client!Cooldown, Client!Healed,
       Client!Sooner
<1> QED
    BY <1>2, <1>3, <1>4 DEF BreakerInv, BreakerType, CooldownPasses

LEMMA BreakerStep ==
    ASSUME BreakerInv, [Client!Next]_(Client!vars)
    PROVE  BreakerInv'
<1>1. CASE \E c \in Client!Slots : Client!Answered(c) \/ Client!Failed(c)
    BY <1>1, AnsweredBreaker, FailedBreaker
<1>2. CASE (\E i \in Client!Members : Client!Query(i)) \/ Client!Single
  <2>1. 0 \in Client!Slots /\ Client!Members \subseteq Client!Slots
    BY ClientBounds DEF Client!Slots, Client!Members
  <2>2. PICK c \in Client!Slots : Client!Begin(c)
    BY <1>2, <2>1 DEF Client!Query, Client!Single
  <2>3. UNCHANGED <<failures, cooldown, healthy>>
    BY <1>2 DEF Client!Query, Client!Single
  <2> QED
    BY <2>2, <2>3, BeginBreaker, BreakerStands
<1>3. CASE Client!BatchDone \/ Client!BatchFailed \/ Client!BatchDeadline
  <2>1. \E a : Client!Close(a)
    BY <1>3 DEF Client!BatchDone, Client!BatchFailed, Client!BatchDeadline
  <2> QED
    BY <2>1, CloseBreaker
<1>4. CASE Client!BeginBatch \/ Client!Change \/ UNCHANGED Client!vars
  <2>1. UNCHANGED <<failures, cooldown, asked>> /\ (healthy' = healthy \/ healthy' = 0)
    BY <1>4 DEF Client!BeginBatch, Client!Change, Client!vars
  <2> QED
    BY <2>1, BreakerStands DEF BreakerInv, BreakerType
<1>5. CASE Client!Tick
    BY <1>5, TickBreaker
<1> QED
    BY <1>1, <1>2, <1>3, <1>4, <1>5 DEF Client!Next

\* The breaker heals: once the primary has been up for longer than the cooldown, it
\* serves the next call, whatever calls that began during its outage recorded late
\* (record_primary_failure counts the cooldown from the start of the failed call).
THEOREM PrimaryComesBack == Client!Spec => []PrimaryServesAgain
<1>1. BreakerInv /\ [Client!Next]_(Client!vars) => BreakerInv'
    BY BreakerStep
<1>2. BreakerInv => PrimaryServesAgain
  <2> SUFFICES ASSUME BreakerInv, healthy = Client!Healed, NEW t \in Client!FirstTry
               PROVE  t.at = "primary"
    BY DEF PrimaryServesAgain, Client!PrimaryServesAgain
  <2>1. ~Client!PrimaryInCooldown
    BY DEF BreakerInv, BreakerType, CooldownPasses, Client!PrimaryInCooldown, Client!Cooldown,
       Client!Healed
  <2>2. t = [[Client!NoCall EXCEPT !.left = Fallbacks] EXCEPT !.at = "primary"]
    BY <2>1 DEF Client!FirstTry
  <2> QED
    BY <2>2 DEF Client!NoCall
<1> QED
    BY <1>1, <1>2, BreakerInit, PTL DEF Client!Spec

-------------------------------------------------------------------------------
(* The Electrum client's batches.                                           *)

\* The running total of sum_balances goes the way it is defined.
LEMMA TotalsGo ==
    ASSUME NEW values \in [1..Batch -> Int]
    PROVE  \E t : /\ Client!Totals(values) = t
                  /\ t[0] = 0
                  /\ \A i \in 1..Batch :
                       t[i] = IF t[i - 1] = Client!Overflow \/ t[i - 1] + values[i] > MaxU64
                              THEN Client!Overflow ELSE t[i - 1] + values[i]
<1> DEFINE G(g) == [i \in 0..Batch |->
                      IF i = 0 THEN 0
                      ELSE IF g[i - 1] = Client!Overflow \/ g[i - 1] + values[i] > MaxU64
                           THEN Client!Overflow ELSE g[i - 1] + values[i]]
           step == [i \in 1..Batch |-> [x \in Int |->
                      IF x = Client!Overflow \/ x + values[i] > MaxU64 THEN Client!Overflow
                      ELSE x + values[i]]]
<1>1. Client!Totals(values) = CHOOSE g : g = G(g)
    BY Zenon DEF Client!Totals
<1>2. step \in [1..Batch -> [Int -> Int]]
    BY DEF Client!Overflow
<1>3. 0 \in Int /\ Batch \in Nat
    BY ClientBounds
<1>4. PICK st : st = step
    OBVIOUS
<1>5. st \in [1..Batch -> [Int -> Int]]
    BY <1>2, <1>4, Zenon
<1>6. PICK f : f \in Iterates(Int, 0, st, Batch)
    BY <1>3, <1>5, Recursion, Zenon
<1>7. f \in [0..Batch -> Int] /\ f[0] = 0 /\ \A i \in 1..Batch : f[i] = step[i][f[i - 1]]
  <2> HIDE DEF step
  <2> QED
    BY <1>4, <1>6 DEF Iterates
<1>8. f = G(f)
  <2>1. ASSUME NEW i \in 0..Batch PROVE f[i] = G(f)[i]
    <3>1. CASE i = 0
      BY <1>7, <3>1
    <3>2. CASE i # 0
      <4>1. i \in 1..Batch /\ i - 1 \in 0..Batch
        BY <3>2, ClientBounds
      <4>2. f[i - 1] \in Int
        BY <1>7, <4>1
      <4> QED
        BY <1>7, <4>1, <4>2, <3>2
    <3> QED
      BY <3>1, <3>2
  <2>2. G(f) = [i \in 0..Batch |-> G(f)[i]]
    OBVIOUS
  <2> HIDE DEF step, G
  <2> QED
    BY <1>7, <2>1, <2>2, SameFunction, Zenon
<1> HIDE DEF G, step
<1>9. Client!Totals(values) = G(Client!Totals(values))
    BY <1>1, <1>8, Zenon
<1>10. PICK t : t = Client!Totals(values)
    OBVIOUS
<1>11. t = G(t)
    BY <1>9, <1>10
<1>12. t[0] = 0
    BY <1>11, ClientBounds DEF G
<1>13. ASSUME NEW i \in 1..Batch
      PROVE  t[i] = IF t[i - 1] = Client!Overflow \/ t[i - 1] + values[i] > MaxU64
                    THEN Client!Overflow ELSE t[i - 1] + values[i]
  <2>1. i \in 0..Batch /\ i # 0
    BY ClientBounds
  <2>2. t[i] = G(t)[i]
    BY <1>11
  <2> QED
    BY <2>1, <2>2 DEF G
<1> QED
    BY <1>10, <1>12, <1>13

\* So does the sum of what the servers reported.
LEMMA SumGoes ==
    ASSUME \A i \in 1..Batch : asked[i].value \in Int
    PROVE  \E s : /\ Client!Sum = s
                  /\ s[0] = 0
                  /\ \A i \in 1..Batch : s[i] = s[i - 1] + asked[i].value
<1> DEFINE G(g) == [i \in 0..Batch |-> IF i = 0 THEN 0 ELSE g[i - 1] + asked[i].value]
           step == [i \in 1..Batch |-> [x \in Int |-> x + asked[i].value]]
<1>1. Client!Sum = CHOOSE g : g = G(g)
    BY Zenon DEF Client!Sum
<1>2. step \in [1..Batch -> [Int -> Int]]
    OBVIOUS
<1>3. 0 \in Int /\ Batch \in Nat
    BY ClientBounds
<1>4. PICK st : st = step
    OBVIOUS
<1>5. st \in [1..Batch -> [Int -> Int]]
    BY <1>2, <1>4, Zenon
<1>6. PICK f : f \in Iterates(Int, 0, st, Batch)
    BY <1>3, <1>5, Recursion, Zenon
<1>7. f \in [0..Batch -> Int] /\ f[0] = 0 /\ \A i \in 1..Batch : f[i] = step[i][f[i - 1]]
  <2> HIDE DEF step
  <2> QED
    BY <1>4, <1>6 DEF Iterates
<1>8. f = G(f)
  <2>1. ASSUME NEW i \in 0..Batch PROVE f[i] = G(f)[i]
    <3>1. CASE i = 0
      BY <1>7, <3>1
    <3>2. CASE i # 0
      <4>1. i \in 1..Batch /\ i - 1 \in 0..Batch
        BY <3>2, ClientBounds
      <4>2. f[i - 1] \in Int
        BY <1>7, <4>1
      <4> QED
        BY <1>7, <4>1, <4>2, <3>2
    <3> QED
      BY <3>1, <3>2
  <2>2. G(f) = [i \in 0..Batch |-> G(f)[i]]
    OBVIOUS
  <2> HIDE DEF step, G
  <2> QED
    BY <1>7, <2>1, <2>2, SameFunction, Zenon
<1> HIDE DEF G, step
<1>9. Client!Sum = G(Client!Sum)
    BY <1>1, <1>8, Zenon
<1>10. PICK t : t = Client!Sum
    OBVIOUS
<1>11. t = G(t)
    BY <1>9, <1>10
<1>12. t[0] = 0
    BY <1>11, ClientBounds DEF G
<1>13. ASSUME NEW i \in 1..Batch
      PROVE  t[i] = t[i - 1] + asked[i].value
  <2>1. i \in 0..Batch /\ i # 0
    BY ClientBounds
  <2>2. t[i] = G(t)[i]
    BY <1>11
  <2> QED
    BY <2>1, <2>2 DEF G
<1> QED
    BY <1>10, <1>12, <1>13

\* The total is the sum unless it overflowed on the way.
LEMMA TotalOrSum ==
    ASSUME NEW values \in [1..Batch -> Int], \A i \in 1..Batch : values[i] = asked[i].value
    PROVE  Client!SumBalances(values) \in {Client!Overflow, Client!Sum[Batch]}
<1>1. \A i \in 1..Batch : asked[i].value \in Int
    OBVIOUS
<1>2. PICK t : /\ Client!Totals(values) = t
               /\ t[0] = 0
               /\ \A i \in 1..Batch :
                    t[i] = IF t[i - 1] = Client!Overflow \/ t[i - 1] + values[i] > MaxU64
                           THEN Client!Overflow ELSE t[i - 1] + values[i]
    BY TotalsGo
<1>3. PICK s : /\ Client!Sum = s
               /\ s[0] = 0
               /\ \A i \in 1..Batch : s[i] = s[i - 1] + asked[i].value
    BY <1>1, SumGoes
<1> DEFINE S == {n \in Nat : n <= Batch => t[n] \in {Client!Overflow, s[n]}}
<1>4. 0 \in S
    BY <1>2, <1>3
<1>5. ASSUME NEW n \in Nat, n \in S PROVE n + 1 \in S
  <2>1. SUFFICES ASSUME n + 1 <= Batch PROVE t[n + 1] \in {Client!Overflow, s[n + 1]}
    OBVIOUS
  <2>2. n + 1 \in 1..Batch /\ (n + 1) - 1 = n /\ n <= Batch
    BY <2>1, ClientBounds
  <2>3. t[n] \in {Client!Overflow, s[n]}
    BY <1>5, <2>2
  <2>4. t[n + 1] = IF t[n] = Client!Overflow \/ t[n] + values[n + 1] > MaxU64
                   THEN Client!Overflow ELSE t[n] + values[n + 1]
    BY <1>2, <2>2
  <2>5. s[n + 1] = s[n] + values[n + 1]
    BY <1>3, <2>2
  <2> QED
    BY <2>3, <2>4, <2>5
<1> HIDE DEF S
<1>6. Batch \in S
    BY <1>4, <1>5, Induction, ClientBounds
<1>7. t[Batch] \in {Client!Overflow, s[Batch]}
    BY <1>6, ClientBounds DEF S
<1> QED
    BY <1>2, <1>3, <1>7 DEF Client!SumBalances

LEMMA DoneExact ==
    ASSUME BreakerInv, Client!BatchDone, answer'.kind = "ok"
    PROVE  /\ answer'.sum = Client!Sum[Batch]
           /\ \A i \in Client!Members : answer'.tags[i] = <<i, i>>
<1> DEFINE values == [i \in Client!Members |-> asked[Client!Results[i]].value]
           sum == Client!SumBalances(values)
<1>1. Client!Members = 1..Batch /\ \A i \in Client!Members : Client!Results[i] = i
    BY DEF Client!Members, Client!Results
<1>2. \A i \in 1..Batch : i \in Client!Slots /\ asked[i] \in Client!Call
    BY ClientBounds DEF Client!Slots, BreakerInv, BreakerType
<1>3. \A i \in 1..Batch : asked[i].value \in Int
  <2>1. \A c \in Client!Call : c.value \in Balances \cup {0}
    BY DEF Client!Call
  <2>2. \A b \in Balances \cup {0} : b \in Int
    BY ClientBounds
  <2> QED
    BY <1>2, <2>1, <2>2
<1>4. values \in [1..Batch -> Int] /\ \A i \in 1..Batch : values[i] = asked[i].value
    BY <1>1, <1>3
<1>5. PICK v : v = values
    OBVIOUS
<1> HIDE DEF values
<1>6. sum \in {Client!Overflow, Client!Sum[Batch]}
    BY <1>4, <1>5, TotalOrSum
<1>7. Client!Close(IF sum = Client!Overflow THEN [Client!NoAnswer EXCEPT !.kind = "error"]
                   ELSE [kind |-> "ok", tags |-> Client!Tagged, sum |-> sum])
    BY Zenon DEF Client!BatchDone, values
<1> HIDE DEF sum
<1>8. answer' = IF sum = Client!Overflow THEN [Client!NoAnswer EXCEPT !.kind = "error"]
                ELSE [kind |-> "ok", tags |-> Client!Tagged, sum |-> sum]
    BY <1>7 DEF Client!Close
<1>9. sum # Client!Overflow
    BY <1>8 DEF Client!NoAnswer
<1>10. answer'.sum = sum /\ answer'.tags = Client!Tagged
    BY <1>8, <1>9
<1>11. \A i \in Client!Members : Client!Tagged[i] = <<i, i>>
    BY <1>1 DEF Client!Tagged
<1> QED
    BY <1>6, <1>9, <1>10, <1>11

LEMMA BatchStep ==
    ASSUME BreakerInv, [Client!Next]_(Client!vars), answer' # answer, answer'.kind = "ok"
    PROVE  /\ answer'.sum = Client!Sum[Batch]
           /\ \A i \in Client!Members : answer'.tags[i] = <<i, i>>
<1>1. CASE Client!BatchDone
    BY <1>1, DoneExact
<1>2. CASE Client!BatchFailed \/ Client!BatchDeadline \/ Client!BeginBatch
  <2>1. answer'.kind \in {"none", "error", "deadline"}
    BY <1>2 DEF Client!BatchFailed, Client!BatchDeadline, Client!BeginBatch, Client!Close,
       Client!NoAnswer
  <2> QED
    BY <2>1
<1>3. CASE \/ \E c \in Client!Slots : Client!Answered(c) \/ Client!Failed(c)
           \/ \E i \in Client!Members : Client!Query(i)
           \/ Client!Single \/ Client!Tick \/ Client!Change \/ UNCHANGED Client!vars
  <2>1. answer' = answer
    BY <1>3 DEF Client!Answered, Client!Failed, Client!Query, Client!Single, Client!Tick,
       Client!Change, Client!vars
  <2> QED
    BY <2>1
<1> QED
    BY <1>1, <1>2, <1>3 DEF Client!Next

\* A batch answer is exact: its total is the sum of what the servers reported and never
\* wraps (sum_balances), and every output is tagged with the address that owns it
\* (get_utxos_tagged), for any number of addresses and in whatever order they were
\* answered.
THEOREM BatchesAreExact == Client!Spec => BatchExact
<1>1. Client!Init => BreakerInv
    BY BreakerInit
<1>2. BreakerInv /\ [Client!Next]_(Client!vars) => BreakerInv'
    BY BreakerStep
<1>3. BreakerInv /\ [Client!Next]_(Client!vars)
      => [(answer' # answer /\ answer'.kind = "ok") =>
            /\ answer'.sum = Client!Sum[Batch]
            /\ \A i \in Client!Members : answer'.tags[i] = <<i, i>>]_(Client!vars)
    BY BatchStep
<1> QED
    BY <1>1, <1>2, <1>3, PTL DEF Client!Spec, BatchExact, Client!BatchExact

-------------------------------------------------------------------------------
(* The grin scan.                                                           *)

ScanCall == [at : Scan!Points, try : Nat, method : {"none", "open", "scan"}, key : Nat,
             with : Nat, reply : {"none", "ok", "expired", "error", "inner"}, from : Nat,
             covers : Nat, calm : BOOLEAN]

ScanType ==
    /\ scan \in [Requests -> ScanCall]
    /\ session \in [key : Nat, nonce : Nat] /\ walletd \in [key : Nat, tokens : SUBSET Nat]
    /\ token \in Nat /\ spent \subseteq Nat /\ level \in Nat /\ scanned \in Nat

\* How far a request has got, and how far its answer will reach.
Reaches(c) ==
    /\ scan[c].from <= level
    /\ scan[c].at \in {"outs", "done"} => scan[c].covers + Margin >= scan[c].from
    /\ scan[c].at = "answered" /\ scan[c].reply = "ok" /\ scan[c].method # "open" =>
          scan[c].covers >= scan[c].from

\* Requests at the wallet are first or second attempts.
Tried(c) ==
    scan[c].at \in {"token", "ensure", "shake", "shaken", "encrypt", "sent", "answered"} =>
        scan[c].try \in {1, 2}

\* A handshake is made under the lock of the session; the wallet has its key, unless it
\* was restarted since.
Shakes(c) ==
    /\ scan[c].at \in {"shake", "shaken"} => sessionOf = c
    /\ scan[c].at = "shaken" => scan[c].key # 0 /\ walletd.key \in {0, scan[c].key}

\* The session is renewed only where there is none, so that a wallet with a key has
\* either no session at the client or the client's own.
SessionAgrees ==
    /\ sessionOf # Nobody => session.key = 0
    /\ session.key # 0 => walletd.key \in {0, session.key}

NoncesFresh == ~reused /\ (session.key # 0 => \A n \in spent : n < session.nonce)

\* The next request under this session is understood, or not sent at all.
Usable == session.key = 0 \/ walletd.key = session.key \/ session.nonce = MaxNonce

\* A call that has had the client to itself.
Alone(c) == scan[c].calm => \A d \in Requests \ {c} : ~Scan!Busy(d)

\* What failed such a call the first time is put right, and its second attempt meets
\* only what it has set up.
GoesWell(c) ==
    scan[c].calm =>
        /\ scan[c].at \in {"encrypt", "sent", "answered"} => session.key # 0
        /\ scan[c].at \in {"sent", "answered"} => scan[c].key = session.key
        /\ scan[c].at = "shaken" => walletd.key = scan[c].key
        /\ scan[c].at = "answered" => /\ scan[c].reply \in {"ok", "expired", "inner"}
                                      /\ scan[c].reply = "inner" => walletd.key = session.key
        /\ scan[c].at = "drop" => Usable /\ scan[c].method = "none"
        /\ scan[c].at = "failed" => session.nonce = MaxNonce
        /\ scan[c].try = 2 =>
              /\ scan[c].at \in {"token", "ensure", "encrypt"} => Usable
              /\ scan[c].at = "token" => token = 0
              /\ scan[c].at \in {"sent", "answered"} => walletd.key = scan[c].key
              /\ scan[c].at = "answered" => scan[c].reply = "ok"
              /\ scan[c].method = "scan" \/ scan[c].at = "answered" =>
                    scan[c].with \in walletd.tokens

CallInv(c) == Reaches(c) /\ Tried(c) /\ Shakes(c) /\ Alone(c) /\ GoesWell(c)

\* The inductive invariant.
ScanInv ==
    /\ ScanType /\ SessionAgrees /\ NoncesFresh
    /\ \A c \in Requests : CallInv(c)

LEMMA ScanBounds == Nobody \notin Requests /\ Margin \in Nat /\ MaxNonce \in Nat
    BY InstancesOK DEF Scan!ConstantsOK

LEMMA NamesAreNumbers == \A n \in Scan!Names : n \in Nat /\ n # 0
<1>1. 2 * MaxScans + 2 \in Nat
    BY InstancesOK DEF Scan!ConstantsOK
<1> QED
    BY <1>1 DEF Scan!Names

LEMMA NoScanShape ==
    /\ Scan!NoCall \in ScanCall /\ Scan!NoCall.at = "idle" /\ Scan!NoCall.try = 0
    /\ Scan!NoCall.method = "none" /\ Scan!NoCall.calm = FALSE /\ Scan!NoCall.from = 0
    BY DEF Scan!NoCall, ScanCall, Scan!Points

\* The answer of a request, and what a failed attempt leaves of it.
LEMMA DoneShape ==
    ASSUME NEW r \in ScanCall, NEW h \in Nat
    PROVE  /\ Scan!Done(r, h) \in ScanCall /\ Scan!Done(r, h).at = "done"
           /\ Scan!Done(r, h).calm = FALSE /\ Scan!Done(r, h).from = r.from
           /\ Scan!Done(r, h).covers = h
<1>1. r.from \in Nat
    BY DEF ScanCall
<1> QED
    BY <1>1 DEF Scan!Done, Scan!NoCall, ScanCall, Scan!Points

LEMMA FailedShape ==
    ASSUME NEW r \in ScanCall
    PROVE  /\ Scan!Failed(r) \in ScanCall /\ Scan!Failed(r).calm = r.calm
           /\ Scan!Failed(r).at = IF r.try = 1 THEN "drop" ELSE "failed"
           /\ Scan!Failed(r).try = 0 /\ Scan!Failed(r).method = "none"
           /\ Scan!Failed(r).from \in {r.from, 0}
<1>1. r.from \in Nat /\ r.calm \in BOOLEAN
    BY DEF ScanCall
<1>2. CASE r.try = 1
    BY <1>1, <1>2 DEF Scan!Failed, Scan!NoCall, ScanCall, Scan!Points
<1>3. CASE r.try # 1
    BY <1>1, <1>3 DEF Scan!Failed, Scan!NoCall, ScanCall, Scan!Points
<1> QED
    BY <1>2, <1>3

LEMMA ScanStarts == Scan!Init => ScanInv
<1> SUFFICES ASSUME Scan!Init
             PROVE  ScanInv
    OBVIOUS
<1>1. ScanType /\ SessionAgrees /\ NoncesFresh
    BY NoScanShape DEF Scan!Init, ScanType, SessionAgrees, NoncesFresh
<1>2. \A c \in Requests : scan[c] = Scan!NoCall
    BY DEF Scan!Init
<1>3. \A c \in Requests : CallInv(c)
    BY <1>2, NoScanShape DEF Scan!Init, CallInv, Reaches, Tried, Shakes, Alone, GoesWell
<1> QED
    BY <1>1, <1>3 DEF ScanInv

\* A handshake other than c's is under way only under the session's lock, which is not
\* c's to take or give.
LockLeft(c) ==
    \/ sessionOf' = sessionOf /\ walletd'.key = walletd.key
    \/ sessionOf \in {c, Nobody}

LEMMA ShakesStand ==
    ASSUME ScanInv, NEW c, NEW d \in Requests, d # c, LockLeft(c),
           scan'[d].at = scan[d].at, scan'[d].key = scan[d].key
    PROVE  Shakes(d)'
<1>1. Shakes(d)
    BY DEF ScanInv, CallInv
<1> QED
    BY <1>1, ScanBounds DEF Shakes, LockLeft

\* A step of a call under way: the others are as they were, and none of them is calm.
LEMMA OneActs ==
    ASSUME ScanInv, NEW c \in Requests, Scan!Busy(c), NEW rq \in ScanCall,
           scan' = [scan EXCEPT ![c] = rq], rq.calm => scan[c].calm,
           session' \in [key : Nat, nonce : Nat], walletd' \in [key : Nat, tokens : SUBSET Nat],
           token' \in Nat, spent' \subseteq Nat, UNCHANGED <<level, scanned>>,
           SessionAgrees', NoncesFresh', LockLeft(c),
           Reaches(c)', Tried(c)', Shakes(c)', GoesWell(c)'
    PROVE  ScanInv'
<1>1. ScanType'
    BY DEF ScanInv, ScanType
<1>2. \A d \in Requests : scan'[d] = IF d = c THEN rq ELSE scan[d]
    BY DEF ScanInv, ScanType
<1>3. ASSUME NEW d \in Requests, d # c
      PROVE  CallInv(d)'
  <2>1. scan'[d] = scan[d] /\ ~scan[d].calm
    BY <1>2, <1>3 DEF ScanInv, CallInv, Alone
  <2>2. Shakes(d)'
    BY <1>3, <2>1, ShakesStand
  <2>3. Reaches(d)' /\ Tried(d)'
    BY <2>1 DEF ScanInv, CallInv, Reaches, Tried
  <2>4. Alone(d)' /\ GoesWell(d)'
    BY <2>1 DEF Alone, GoesWell
  <2> QED
    BY <2>2, <2>3, <2>4 DEF CallInv
<1>4. Alone(c)'
    BY <1>2 DEF ScanInv, CallInv, Alone, Scan!Busy
<1> QED
    BY <1>1, <1>3, <1>4 DEF ScanInv, CallInv

\* The same where the session, the wallet and the locks are left alone.
LEMMA OneMoves ==
    ASSUME ScanInv, NEW c \in Requests, Scan!Busy(c), NEW rq \in ScanCall,
           scan' = [scan EXCEPT ![c] = rq], rq.calm => scan[c].calm, rq.at # "shaken",
           UNCHANGED <<session, walletd, spent, reused, level, scanned>>, token' \in Nat,
           sessionOf' = sessionOf \/ (sessionOf = Nobody /\ sessionOf' = c /\ session.key = 0),
           rq.at = "shake" => sessionOf' = c,
           Reaches(c)', Tried(c)', GoesWell(c)'
    PROVE  ScanInv'
<1>1. scan'[c] = rq
    BY DEF ScanInv, ScanType
<1>2. SessionAgrees' /\ NoncesFresh' /\ LockLeft(c)
    BY DEF ScanInv, SessionAgrees, NoncesFresh, LockLeft
<1>3. Shakes(c)'
    BY <1>1 DEF Shakes
<1>4. /\ session' \in [key : Nat, nonce : Nat] /\ walletd' \in [key : Nat, tokens : SUBSET Nat]
      /\ spent' \subseteq Nat
    BY DEF ScanInv, ScanType
<1> QED
    BY <1>2, <1>3, <1>4, OneActs

LEMMA AskLwsKeeps ==
    ASSUME ScanInv, NEW c \in Requests, Scan!AskLws(c)
    PROVE  ScanInv'
<1> DEFINE r == scan[c]
<1>1. /\ r \in ScanCall /\ CallInv(c) /\ r.at = "lws" /\ Scan!Busy(c)
      /\ scanned \in Nat /\ level \in Nat /\ token \in Nat
    BY DEF ScanInv, ScanType, Scan!AskLws, Scan!At, Scan!Busy
<1>2. UNCHANGED <<session, walletd, spent, reused, level, scanned, sessionOf, token>>
    BY DEF Scan!AskLws, Scan!Held, Scan!Counts, Scan!World
<1>3. CASE /\ Scan!Synced(scanned, level)
           /\ scan' = [scan EXCEPT ![c].at = "outs", ![c].covers = scanned]
  <2> DEFINE rq == [r EXCEPT !.at = "outs", !.covers = scanned]
  <2>1. /\ rq \in ScanCall /\ rq.at = "outs" /\ rq.covers = scanned /\ rq.from = r.from
        /\ rq.calm = r.calm /\ rq.try = r.try /\ rq.method = r.method /\ rq.with = r.with
    BY <1>1 DEF ScanCall, Scan!Points
  <2>2. scan' = [scan EXCEPT ![c] = rq]
    BY <1>3
  <2> HIDE DEF rq
  <2>3. scan'[c] = rq
    BY <2>2 DEF ScanInv, ScanType
  <2>4. scanned + Margin >= r.from
    <3>1. r.from \in Nat /\ r.from <= level /\ scanned + Margin >= level
      BY <1>1, <1>3 DEF ScanCall, CallInv, Reaches, Scan!Synced
    <3> QED
      BY <1>1, <3>1, ScanBounds
  <2>5. Reaches(c)'
    BY <1>1, <1>2, <2>1, <2>3, <2>4 DEF CallInv, Reaches
  <2>6. Tried(c)' /\ GoesWell(c)'
    BY <1>1, <1>2, <2>1, <2>3 DEF CallInv, Tried, GoesWell
  <2> QED
    BY <1>1, <1>2, <2>1, <2>2, <2>5, <2>6, OneMoves
<1>4. CASE scan' = [scan EXCEPT ![c].at = "token", ![c].try = 1]
  <2> DEFINE rq == [r EXCEPT !.at = "token", !.try = 1]
  <2>1. /\ rq \in ScanCall /\ rq.at = "token" /\ rq.try = 1 /\ rq.from = r.from
        /\ rq.calm = r.calm
    BY <1>1 DEF ScanCall, Scan!Points
  <2>2. scan' = [scan EXCEPT ![c] = rq]
    BY <1>4
  <2> HIDE DEF rq
  <2>3. scan'[c] = rq
    BY <2>2 DEF ScanInv, ScanType
  <2>4. Reaches(c)' /\ Tried(c)' /\ GoesWell(c)'
    BY <1>1, <1>2, <2>1, <2>3 DEF CallInv, Reaches, Tried, GoesWell
  <2> QED
    BY <1>1, <1>2, <2>1, <2>2, <2>4, OneMoves
<1> QED
    BY <1>3, <1>4 DEF Scan!AskLws

LEMMA LwsOutsKeeps ==
    ASSUME ScanInv, NEW c \in Requests, Scan!LwsOuts(c)
    PROVE  ScanInv'
<1> DEFINE r == scan[c]
<1>1. /\ r \in ScanCall /\ CallInv(c) /\ r.at = "outs" /\ Scan!Busy(c) /\ token \in Nat
      /\ r.covers \in Nat
    BY DEF ScanInv, ScanType, Scan!LwsOuts, Scan!At, Scan!Busy, ScanCall
<1>2. UNCHANGED <<session, walletd, spent, reused, level, scanned, sessionOf, token>>
    BY DEF Scan!LwsOuts, Scan!Held, Scan!Counts, Scan!World
<1>3. CASE scan' = [scan EXCEPT ![c] = Scan!Done(r, r.covers)]
  <2> DEFINE rq == Scan!Done(r, r.covers)
  <2>1. /\ rq \in ScanCall /\ rq.at = "done" /\ rq.calm = FALSE /\ rq.from = r.from
        /\ rq.covers = r.covers
    BY <1>1, DoneShape
  <2> HIDE DEF rq
  <2>2. scan' = [scan EXCEPT ![c] = rq] /\ scan'[c] = rq
    BY <1>3 DEF rq, ScanInv, ScanType
  <2>3. Reaches(c)' /\ Tried(c)' /\ GoesWell(c)'
    BY <1>1, <1>2, <2>1, <2>2 DEF CallInv, Reaches, Tried, GoesWell
  <2> QED
    BY <1>1, <1>2, <2>1, <2>2, <2>3, OneMoves
<1>4. CASE scan' = [scan EXCEPT ![c].at = "token", ![c].try = 1, ![c].covers = 0]
  <2> DEFINE rq == [r EXCEPT !.at = "token", !.try = 1, !.covers = 0]
  <2>1. /\ rq \in ScanCall /\ rq.at = "token" /\ rq.try = 1 /\ rq.from = r.from
        /\ rq.calm = r.calm
    BY <1>1 DEF ScanCall, Scan!Points
  <2>2. scan' = [scan EXCEPT ![c] = rq]
    BY <1>4
  <2> HIDE DEF rq
  <2>3. scan'[c] = rq
    BY <2>2 DEF ScanInv, ScanType
  <2>4. Reaches(c)' /\ Tried(c)' /\ GoesWell(c)'
    BY <1>1, <1>2, <2>1, <2>3 DEF CallInv, Reaches, Tried, GoesWell
  <2> QED
    BY <1>1, <1>2, <2>1, <2>2, <2>4, OneMoves
<1> QED
    BY <1>3, <1>4 DEF Scan!LwsOuts

\* A second attempt finds no token and asks for one.
LEMMA OpenWalletKeeps ==
    ASSUME ScanInv, NEW c \in Requests, Scan!OpenWallet(c)
    PROVE  ScanInv'
<1> DEFINE r == scan[c]
<1>1. /\ r \in ScanCall /\ CallInv(c) /\ r.at = "token" /\ Scan!Busy(c) /\ token \in Nat
    BY DEF ScanInv, ScanType, Scan!OpenWallet, Scan!At, Scan!Busy
<1>2. UNCHANGED <<session, walletd, spent, reused, level, scanned, sessionOf, token>>
    BY DEF Scan!OpenWallet, Scan!Counts, Scan!World
<1>3. CASE /\ token # 0
           /\ scan' = [scan EXCEPT ![c].at = "ensure", ![c].method = "scan", ![c].with = token]
  <2> DEFINE rq == [r EXCEPT !.at = "ensure", !.method = "scan", !.with = token]
  <2>1. /\ rq \in ScanCall /\ rq.at = "ensure" /\ rq.try = r.try /\ rq.from = r.from
        /\ rq.calm = r.calm
    BY <1>1 DEF ScanCall, Scan!Points
  <2>2. scan' = [scan EXCEPT ![c] = rq]
    BY <1>3
  <2> HIDE DEF rq
  <2>3. scan'[c] = rq
    BY <2>2 DEF ScanInv, ScanType
  <2>4. r.calm => r.try # 2
    BY <1>1, <1>3 DEF CallInv, GoesWell
  <2>5. Reaches(c)' /\ Tried(c)' /\ GoesWell(c)'
    BY <1>1, <1>2, <2>1, <2>3, <2>4 DEF CallInv, Reaches, Tried, GoesWell
  <2> QED
    BY <1>1, <1>2, <2>1, <2>2, <2>5, OneMoves
<1>4. CASE scan' = [scan EXCEPT ![c].at = "ensure", ![c].method = "open"]
  <2> DEFINE rq == [r EXCEPT !.at = "ensure", !.method = "open"]
  <2>1. /\ rq \in ScanCall /\ rq.at = "ensure" /\ rq.method = "open" /\ rq.try = r.try
        /\ rq.from = r.from /\ rq.calm = r.calm
    BY <1>1 DEF ScanCall, Scan!Points
  <2>2. scan' = [scan EXCEPT ![c] = rq]
    BY <1>4
  <2> HIDE DEF rq
  <2>3. scan'[c] = rq
    BY <2>2 DEF ScanInv, ScanType
  <2>4. Reaches(c)' /\ Tried(c)' /\ GoesWell(c)'
    BY <1>1, <1>2, <2>1, <2>3 DEF CallInv, Reaches, Tried, GoesWell, Usable
  <2> QED
    BY <1>1, <1>2, <2>1, <2>2, <2>4, OneMoves
<1> QED
    BY <1>3, <1>4 DEF Scan!OpenWallet

LEMMA DropTokenKeeps ==
    ASSUME ScanInv, NEW c \in Requests, Scan!DropToken(c)
    PROVE  ScanInv'
<1> DEFINE r == scan[c]
           rq == [r EXCEPT !.at = "token", !.try = 2]
<1>1. /\ r \in ScanCall /\ CallInv(c) /\ r.at = "drop" /\ Scan!Busy(c)
    BY DEF ScanInv, ScanType, Scan!DropToken, Scan!At, Scan!Busy
<1>2. UNCHANGED <<session, walletd, spent, reused, level, scanned, sessionOf>> /\ token' = 0
    BY DEF Scan!DropToken, Scan!Dropped, Scan!Counts, Scan!World
<1>3. /\ rq \in ScanCall /\ rq.at = "token" /\ rq.try = 2 /\ rq.from = r.from
      /\ rq.calm = r.calm /\ rq.method = r.method
    BY <1>1 DEF ScanCall, Scan!Points
<1>4. scan' = [scan EXCEPT ![c] = rq]
    BY DEF Scan!DropToken
<1> HIDE DEF rq
<1>5. scan'[c] = rq
    BY <1>4 DEF ScanInv, ScanType
<1>6. Reaches(c)' /\ Tried(c)' /\ GoesWell(c)'
    BY <1>1, <1>2, <1>3, <1>5 DEF CallInv, Reaches, Tried, GoesWell, Usable
<1> QED
    BY <1>1, <1>2, <1>3, <1>4, <1>6, OneMoves

LEMMA EnsureKeeps ==
    ASSUME ScanInv, NEW c \in Requests, Scan!EnsureSession(c)
    PROVE  ScanInv'
<1> DEFINE r == scan[c]
<1>1. /\ r \in ScanCall /\ CallInv(c) /\ r.at = "ensure" /\ Scan!Busy(c) /\ token \in Nat
      /\ sessionOf = Nobody
    BY DEF ScanInv, ScanType, Scan!EnsureSession, Scan!At, Scan!Busy
<1>2. UNCHANGED <<session, walletd, spent, reused, level, scanned, token>>
    BY DEF Scan!EnsureSession, Scan!Counts, Scan!World
<1>3. ASSUME NEW p \in {"encrypt", "shake"}, scan' = [scan EXCEPT ![c].at = p],
             p = "encrypt" => session.key # 0 /\ sessionOf' = sessionOf,
             p = "shake" => session.key = 0 /\ sessionOf' = c
      PROVE  ScanInv'
  <2> DEFINE rq == [r EXCEPT !.at = p]
  <2>1. /\ rq \in ScanCall /\ rq.at = p /\ rq.try = r.try /\ rq.from = r.from
        /\ rq.calm = r.calm /\ rq.method = r.method /\ rq.with = r.with
    BY <1>1 DEF ScanCall, Scan!Points
  <2>2. scan' = [scan EXCEPT ![c] = rq]
    BY <1>3
  <2> HIDE DEF rq
  <2>3. scan'[c] = rq
    BY <2>2 DEF ScanInv, ScanType
  <2>4. Reaches(c)' /\ Tried(c)' /\ GoesWell(c)'
    BY <1>1, <1>2, <1>3, <2>1, <2>3 DEF CallInv, Reaches, Tried, GoesWell, Usable
  <2> QED
    BY <1>1, <1>2, <1>3, <2>1, <2>2, <2>4, OneMoves
<1> QED
    BY <1>3 DEF Scan!EnsureSession

\* The lock is held, so there is no session the new key could disagree with.
LEMMA ShakeKeeps ==
    ASSUME ScanInv, NEW c \in Requests, Scan!Shake(c)
    PROVE  ScanInv'
<1> DEFINE r == scan[c]
<1>1. /\ r \in ScanCall /\ CallInv(c) /\ r.at = "shake" /\ Scan!Busy(c) /\ token \in Nat
      /\ sessionOf = c /\ session.key = 0
    BY ScanBounds DEF ScanInv, ScanType, CallInv, Shakes, SessionAgrees, Scan!Shake, Scan!At,
       Scan!Busy
<1>2. UNCHANGED <<session, spent, reused, level, scanned, token, sessionOf>>
    BY DEF Scan!Shake, Scan!Held, Scan!Counts
<1>3. PICK k \in Scan!Names : /\ walletd' = [walletd EXCEPT !.key = k]
                              /\ scan' = [scan EXCEPT ![c].at = "shaken", ![c].key = k]
    BY DEF Scan!Shake, Scan!Fresh
<1>4. k \in Nat /\ k # 0
    BY NamesAreNumbers
<1> DEFINE rq == [r EXCEPT !.at = "shaken", !.key = k]
<1>5. /\ rq \in ScanCall /\ rq.at = "shaken" /\ rq.key = k /\ rq.try = r.try /\ rq.from = r.from
      /\ rq.calm = r.calm /\ rq.method = r.method /\ rq.with = r.with
    BY <1>1, <1>4 DEF ScanCall, Scan!Points
<1>6. scan' = [scan EXCEPT ![c] = rq]
    BY <1>3
<1> HIDE DEF rq
<1>7. scan'[c] = rq
    BY <1>6 DEF ScanInv, ScanType
<1>8. walletd' \in [key : Nat, tokens : SUBSET Nat] /\ walletd'.key = k
      /\ walletd'.tokens = walletd.tokens
    BY <1>3, <1>4 DEF ScanInv, ScanType
<1>9. /\ session' \in [key : Nat, nonce : Nat] /\ spent' \subseteq Nat /\ token' \in Nat
    BY <1>2 DEF ScanInv, ScanType
<1>10. SessionAgrees' /\ NoncesFresh' /\ LockLeft(c)
    BY <1>1, <1>2 DEF ScanInv, SessionAgrees, NoncesFresh, LockLeft
<1>11. Reaches(c)' /\ Tried(c)' /\ Shakes(c)' /\ GoesWell(c)'
    BY <1>1, <1>2, <1>4, <1>5, <1>7, <1>8 DEF CallInv, Reaches, Tried, Shakes, GoesWell
<1> QED
    BY <1>1, <1>2, <1>5, <1>6, <1>8, <1>9, <1>10, <1>11, OneActs

LEMMA ShakenKeeps ==
    ASSUME ScanInv, NEW c \in Requests, Scan!Shaken(c)
    PROVE  ScanInv'
<1> DEFINE r == scan[c]
           rq == [r EXCEPT !.at = "encrypt", !.key = 0]
<1>1. /\ r \in ScanCall /\ CallInv(c) /\ r.at = "shaken" /\ Scan!Busy(c) /\ sessionOf = c
      /\ r.key # 0 /\ walletd.key \in {0, r.key}
    BY DEF ScanInv, ScanType, CallInv, Shakes, Scan!Shaken, Scan!At, Scan!Busy
<1>2. /\ UNCHANGED <<walletd, reused, level, scanned, token>> /\ sessionOf' = Nobody
      /\ spent' = {} /\ session' = [key |-> r.key, nonce |-> 0]
    BY DEF Scan!Shaken, Scan!World
<1>3. /\ rq \in ScanCall /\ rq.at = "encrypt" /\ rq.try = r.try /\ rq.from = r.from
      /\ rq.calm = r.calm /\ rq.method = r.method /\ rq.with = r.with
    BY <1>1 DEF ScanCall, Scan!Points
<1>4. scan' = [scan EXCEPT ![c] = rq]
    BY DEF Scan!Shaken
<1> HIDE DEF rq
<1>5. scan'[c] = rq
    BY <1>4 DEF ScanInv, ScanType
<1>6. /\ session' \in [key : Nat, nonce : Nat] /\ session'.key = r.key
      /\ walletd' \in [key : Nat, tokens : SUBSET Nat] /\ spent' \subseteq Nat /\ token' \in Nat
    BY <1>1, <1>2 DEF ScanInv, ScanType, ScanCall
<1>7. SessionAgrees' /\ NoncesFresh' /\ LockLeft(c)
    BY <1>1, <1>2, <1>6 DEF ScanInv, SessionAgrees, NoncesFresh, LockLeft
<1>8. Reaches(c)' /\ Tried(c)' /\ Shakes(c)' /\ GoesWell(c)'
    BY <1>1, <1>2, <1>3, <1>5, <1>6 DEF CallInv, Reaches, Tried, Shakes, GoesWell, Usable
<1> QED
    BY <1>1, <1>2, <1>3, <1>4, <1>6, <1>7, <1>8, OneActs

\* The only place a nonce is spent.
LEMMA EncryptKeeps ==
    ASSUME ScanInv, NEW c \in Requests, Scan!Encrypt(c)
    PROVE  ScanInv'
<1> DEFINE r == scan[c]
<1>1. /\ r \in ScanCall /\ CallInv(c) /\ r.at = "encrypt" /\ Scan!Busy(c) /\ sessionOf = Nobody
      /\ session \in [key : Nat, nonce : Nat] /\ token \in Nat /\ spent \subseteq Nat
      /\ walletd \in [key : Nat, tokens : SUBSET Nat]
    BY DEF ScanInv, ScanType, Scan!Encrypt, Scan!At, Scan!Busy
<1>2. UNCHANGED <<walletd, level, scanned, token, sessionOf>>
    BY DEF Scan!Encrypt, Scan!World
<1>3. session.nonce \in Nat /\ session.key \in Nat
    BY <1>1
<1>4. CASE /\ session.key # 0 /\ Scan!Counted(session.nonce) >= 0
           /\ session' = [session EXCEPT !.nonce = Scan!Counted(session.nonce)]
           /\ spent' = spent \cup {session.nonce}
           /\ reused' = (reused \/ session.nonce \in spent)
           /\ scan' = [scan EXCEPT ![c].at = "sent", ![c].key = session.key]
  <2> DEFINE rq == [r EXCEPT !.at = "sent", !.key = session.key]
             n == session.nonce
  <2>1. /\ rq \in ScanCall /\ rq.at = "sent" /\ rq.key = session.key /\ rq.try = r.try
        /\ rq.from = r.from /\ rq.calm = r.calm /\ rq.method = r.method /\ rq.with = r.with
    BY <1>1, <1>3 DEF ScanCall, Scan!Points
  <2>2. scan' = [scan EXCEPT ![c] = rq]
    BY <1>4
  <2> HIDE DEF rq
  <2>3. scan'[c] = rq
    BY <2>2 DEF ScanInv, ScanType
  <2>4. n # MaxNonce /\ Scan!Counted(n) = n + 1
    BY <1>3, <1>4 DEF Scan!Counted
  <2>5. n + 1 \in Nat
    BY <1>3
  <2>6. /\ session' \in [key : Nat, nonce : Nat] /\ session'.key = session.key
        /\ session'.nonce = n + 1
    BY <1>1, <1>4, <2>4, <2>5
  <2>7. spent' \subseteq Nat
    BY <1>1, <1>3, <1>4
  <2>8. \A m \in spent : m < n
    BY <1>4 DEF ScanInv, NoncesFresh
  <2>9. NoncesFresh'
    <3>1. ~reused /\ n \notin spent
      BY <1>3, <2>8 DEF ScanInv, NoncesFresh
    <3>2. \A m \in spent \cup {n} : m < n + 1
      BY <1>1, <1>3, <2>8
    <3> QED
      BY <1>4, <2>6, <3>1, <3>2 DEF NoncesFresh
  <2>10. SessionAgrees' /\ LockLeft(c)
    BY <1>1, <1>2, <2>6 DEF ScanInv, SessionAgrees, LockLeft
  <2>11. Reaches(c)' /\ Tried(c)' /\ Shakes(c)'
    BY <1>1, <1>2, <2>1, <2>3 DEF CallInv, Reaches, Tried, Shakes
  <2>12. GoesWell(c)'
    BY <1>1, <1>2, <1>4, <2>1, <2>3, <2>4, <2>6 DEF CallInv, GoesWell, Usable
  <2> QED
    BY <1>1, <1>2, <2>1, <2>2, <2>6, <2>7, <2>9, <2>10, <2>11, <2>12, OneActs
<1>5. CASE /\ session.key = 0 \/ Scan!Counted(session.nonce) < 0
           /\ scan' = [scan EXCEPT ![c] = Scan!Failed(scan[c])]
           /\ UNCHANGED <<session, spent, reused>>
  <2> DEFINE rq == Scan!Failed(r)
  <2>1. /\ rq \in ScanCall /\ rq.calm = r.calm /\ rq.at \in {"drop", "failed"}
        /\ rq.try = 0 /\ rq.method = "none" /\ rq.from \in {r.from, 0}
    BY <1>1, FailedShape
  <2> HIDE DEF rq
  <2>2. scan' = [scan EXCEPT ![c] = rq] /\ scan'[c] = rq
    BY <1>5 DEF rq, ScanInv, ScanType
  <2>3. r.calm => session.nonce = MaxNonce
    <3>1. Scan!Counted(session.nonce) < 0 => session.nonce = MaxNonce
      BY <1>3 DEF Scan!Counted
    <3> QED
      BY <1>1, <1>5, <3>1 DEF CallInv, GoesWell
  <2>4. Reaches(c)'
    BY <1>1, <1>2, <2>1, <2>2 DEF CallInv, Reaches, ScanInv, ScanType
  <2>5. Tried(c)' /\ GoesWell(c)'
    BY <1>2, <1>5, <2>1, <2>2, <2>3 DEF Tried, GoesWell, Usable
  <2> QED
    BY <1>1, <1>2, <1>5, <2>1, <2>2, <2>4, <2>5, OneMoves
<1> QED
    BY <1>4, <1>5 DEF Scan!Encrypt

\* The wallet's answer to a calm call: it has the key or none, and on the second
\* attempt the key and the token.
LEMMA ServeKeeps ==
    ASSUME ScanInv, NEW c \in Requests, Scan!Serve(c)
    PROVE  ScanInv'
<1> DEFINE r == scan[c]
<1>1. /\ r \in ScanCall /\ CallInv(c) /\ r.at = "sent" /\ Scan!Busy(c)
      /\ session \in [key : Nat, nonce : Nat] /\ token \in Nat /\ spent \subseteq Nat
      /\ walletd \in [key : Nat, tokens : SUBSET Nat] /\ level \in Nat
    BY DEF ScanInv, ScanType, Scan!Serve, Scan!At, Scan!Busy
<1>2. UNCHANGED <<session, spent, reused, level, scanned, token, sessionOf>>
    BY DEF Scan!Serve, Scan!Held, Scan!Counts
<1>3. ASSUME NEW reply \in {"expired", "error", "inner"}, walletd' = walletd,
             scan' = [scan EXCEPT ![c] = [r EXCEPT !.at = "answered", !.reply = reply]],
             r.calm => r.try # 2 /\ reply # "error",
             reply = "inner" => walletd.key = r.key
      PROVE  ScanInv'
  <2> DEFINE rq == [r EXCEPT !.at = "answered", !.reply = reply]
  <2>1. /\ rq \in ScanCall /\ rq.at = "answered" /\ rq.reply = reply /\ rq.try = r.try
        /\ rq.from = r.from /\ rq.calm = r.calm /\ rq.key = r.key
    BY <1>1 DEF ScanCall, Scan!Points
  <2>2. scan' = [scan EXCEPT ![c] = rq]
    BY <1>3
  <2> HIDE DEF rq
  <2>3. scan'[c] = rq
    BY <2>2 DEF ScanInv, ScanType
  <2>4. Reaches(c)' /\ Tried(c)' /\ GoesWell(c)'
    BY <1>1, <1>2, <1>3, <2>1, <2>3 DEF CallInv, Reaches, Tried, GoesWell
  <2> QED
    BY <1>1, <1>2, <1>3, <2>1, <2>2, <2>4, OneMoves
<1>4. CASE walletd.key # r.key
  <2>1. PICK reply \in {"expired", "error"} :
          /\ scan' = [scan EXCEPT ![c] = [r EXCEPT !.at = "answered", !.reply = reply]]
          /\ walletd' = walletd /\ (walletd.key = 0 => reply = "expired")
    BY <1>4 DEF Scan!Serve
  <2>2. r.calm => r.try # 2 /\ walletd.key = 0
    BY <1>1, <1>4 DEF CallInv, GoesWell, ScanInv, SessionAgrees
  <2> QED
    BY <1>3, <2>1, <2>2
<1>5. CASE walletd.key = r.key /\ r.method = "open"
  <2>1. PICK t \in Scan!Names :
          /\ walletd' = [walletd EXCEPT !.tokens = @ \cup {t}]
          /\ scan' = [scan EXCEPT ![c] =
                        [[r EXCEPT !.at = "answered", !.reply = "ok"] EXCEPT !.with = t]]
    BY <1>5 DEF Scan!Serve, Scan!Fresh
  <2>2. t \in Nat
    BY NamesAreNumbers
  <2> DEFINE rq == [[r EXCEPT !.at = "answered", !.reply = "ok"] EXCEPT !.with = t]
  <2>3. /\ rq \in ScanCall /\ rq.at = "answered" /\ rq.reply = "ok" /\ rq.try = r.try
        /\ rq.from = r.from /\ rq.calm = r.calm /\ rq.key = r.key /\ rq.method = "open"
        /\ rq.with = t
    BY <1>1, <1>5, <2>2 DEF ScanCall, Scan!Points
  <2>4. scan' = [scan EXCEPT ![c] = rq]
    BY <2>1
  <2> HIDE DEF rq
  <2>5. scan'[c] = rq
    BY <2>4 DEF ScanInv, ScanType
  <2>6. /\ walletd' \in [key : Nat, tokens : SUBSET Nat] /\ walletd'.key = walletd.key
        /\ t \in walletd'.tokens
    <3> DEFINE ts == walletd.tokens \cup {t}
    <3>1. ts \in SUBSET Nat /\ t \in ts
      BY <1>1, <2>2
    <3>2. walletd' = [walletd EXCEPT !.tokens = ts]
      BY <2>1
    <3> HIDE DEF ts
    <3> QED
      BY <1>1, <3>1, <3>2
  <2>7. SessionAgrees' /\ NoncesFresh' /\ LockLeft(c)
    BY <1>2, <2>6 DEF ScanInv, SessionAgrees, NoncesFresh, LockLeft
  <2>8. Reaches(c)' /\ Tried(c)' /\ Shakes(c)' /\ GoesWell(c)'
    BY <1>1, <1>2, <1>5, <2>3, <2>5, <2>6 DEF CallInv, Reaches, Tried, Shakes, GoesWell
  <2>9. /\ session' \in [key : Nat, nonce : Nat] /\ spent' \subseteq Nat /\ token' \in Nat
    BY <1>1, <1>2
  <2> QED
    BY <1>1, <1>2, <2>3, <2>4, <2>6, <2>7, <2>8, <2>9, OneActs
<1>6. CASE walletd.key = r.key /\ r.method = "scan"
  <2>1. walletd' = walletd
    BY <1>6 DEF Scan!Serve
  <2>2. CASE r.with \notin walletd.tokens
    <3>1. scan' = [scan EXCEPT ![c] = [r EXCEPT !.at = "answered", !.reply = "inner"]]
      BY <1>6, <2>2 DEF Scan!Serve
    <3>2. r.calm => r.try # 2
      BY <1>1, <1>6, <2>2 DEF CallInv, GoesWell
    <3> QED
      BY <1>3, <1>6, <2>1, <3>1, <3>2
  <2>3. CASE r.with \in walletd.tokens
    <3> DEFINE rq == [[r EXCEPT !.at = "answered", !.reply = "ok"] EXCEPT !.covers = level]
    <3>1. scan' = [scan EXCEPT ![c] = rq]
      BY <1>6, <2>3 DEF Scan!Serve
    <3>2. /\ rq \in ScanCall /\ rq.at = "answered" /\ rq.reply = "ok" /\ rq.try = r.try
          /\ rq.from = r.from /\ rq.calm = r.calm /\ rq.key = r.key /\ rq.method = "scan"
          /\ rq.with = r.with /\ rq.covers = level
      BY <1>1, <1>6 DEF ScanCall, Scan!Points
    <3> HIDE DEF rq
    <3>3. scan'[c] = rq
      BY <3>1 DEF ScanInv, ScanType
    <3>4. Reaches(c)'
      <4>1. rq.from \in Nat /\ rq.from <= level
        BY <1>1, <3>2 DEF CallInv, Reaches, ScanCall
      <4> QED
        BY <1>1, <1>2, <3>2, <3>3, <4>1 DEF Reaches
    <3>5. Tried(c)' /\ GoesWell(c)'
      BY <1>1, <1>2, <1>6, <2>1, <2>3, <3>2, <3>3 DEF CallInv, Tried, GoesWell
    <3> QED
      BY <1>1, <1>2, <2>1, <3>1, <3>2, <3>4, <3>5, OneMoves
  <2> QED
    BY <2>2, <2>3
<1> QED
  <2>1. walletd.key # r.key \/ r.method \in {"open", "scan"}
    BY DEF Scan!Serve
  <2> QED
    BY <1>4, <1>5, <1>6, <2>1

\* A calm call fails only on an expired session, which is cleared, or on its token; on
\* the second attempt on neither.
LEMMA ReceiveKeeps ==
    ASSUME ScanInv, NEW c \in Requests, Scan!Receive(c)
    PROVE  ScanInv'
<1> DEFINE r == scan[c]
           read == r.reply = "ok" /\ session.key = r.key
<1>1. /\ r \in ScanCall /\ CallInv(c) /\ r.at = "answered" /\ Scan!Busy(c) /\ sessionOf = Nobody
      /\ session \in [key : Nat, nonce : Nat] /\ token \in Nat /\ spent \subseteq Nat
      /\ walletd \in [key : Nat, tokens : SUBSET Nat] /\ level \in Nat
    BY DEF ScanInv, ScanType, Scan!Receive, Scan!At, Scan!Busy
<1>2. /\ UNCHANGED <<walletd, spent, reused, level, scanned, sessionOf>>
      /\ session' = Scan!Cleared(session, r.reply)
      /\ token' = IF read /\ r.method = "open" THEN r.with ELSE token
    BY DEF Scan!Receive, Scan!Counts, Scan!World
<1>3. /\ session' \in [key : Nat, nonce : Nat] /\ spent' \subseteq Nat /\ token' \in Nat
      /\ walletd' \in [key : Nat, tokens : SUBSET Nat]
    BY <1>1, <1>2 DEF Scan!Cleared, ScanCall
<1>4. SessionAgrees' /\ NoncesFresh' /\ LockLeft(c)
    BY <1>2 DEF ScanInv, SessionAgrees, NoncesFresh, LockLeft, Scan!Cleared
<1>5. CASE ~read
  <2> DEFINE rq == Scan!Failed(r)
  <2>1. /\ rq \in ScanCall /\ rq.calm = r.calm /\ rq.at = IF r.try = 1 THEN "drop" ELSE "failed"
        /\ rq.try = 0 /\ rq.method = "none" /\ rq.from \in {r.from, 0}
    BY <1>1, FailedShape
  <2> HIDE DEF rq
  <2>2. scan' = [scan EXCEPT ![c] = rq] /\ scan'[c] = rq
    BY <1>5 DEF Scan!Receive, rq, ScanInv, ScanType
  <2>3. r.calm => /\ r.try # 2 /\ r.reply \in {"expired", "inner"}
                  /\ r.reply = "inner" => walletd.key = session.key
    BY <1>1, <1>5 DEF CallInv, GoesWell
  <2>4. r.try \in {1, 2}
    BY <1>1 DEF CallInv, Tried
  <2>5. r.calm => Usable'
    BY <1>2, <2>3 DEF Usable, Scan!Cleared
  <2>6. GoesWell(c)'
    BY <2>1, <2>2, <2>3, <2>4, <2>5 DEF GoesWell
  <2>7. Reaches(c)'
    BY <1>1, <1>2, <2>1, <2>2 DEF CallInv, Reaches
  <2>8. Tried(c)' /\ Shakes(c)'
    BY <2>1, <2>2 DEF Tried, Shakes
  <2> QED
    BY <1>1, <1>2, <1>3, <1>4, <2>1, <2>2, <2>6, <2>7, <2>8, OneActs
<1>6. CASE read /\ r.method = "open"
  <2> DEFINE rq == [r EXCEPT !.at = "ensure", !.method = "scan", !.key = 0]
  <2>1. /\ rq \in ScanCall /\ rq.at = "ensure" /\ rq.try = r.try /\ rq.from = r.from
        /\ rq.calm = r.calm /\ rq.method = "scan" /\ rq.with = r.with
    BY <1>1 DEF ScanCall, Scan!Points
  <2>2. scan' = [scan EXCEPT ![c] = rq]
    BY <1>6 DEF Scan!Receive
  <2> HIDE DEF rq
  <2>3. scan'[c] = rq /\ session' = session
    BY <1>2, <1>6, <2>2 DEF ScanInv, ScanType, Scan!Cleared
  <2>4. Reaches(c)' /\ Tried(c)' /\ Shakes(c)' /\ GoesWell(c)'
    BY <1>1, <1>2, <1>6, <2>1, <2>3 DEF CallInv, Reaches, Tried, Shakes, GoesWell, Usable
  <2> QED
    BY <1>1, <1>2, <1>3, <1>4, <2>1, <2>2, <2>4, OneActs
<1>7. CASE read /\ r.method # "open"
  <2> DEFINE rq == Scan!Done(r, r.covers)
  <2>1. r.covers \in Nat /\ r.from \in Nat /\ r.covers >= r.from
    BY <1>1, <1>7 DEF ScanCall, CallInv, Reaches
  <2>2. /\ rq \in ScanCall /\ rq.at = "done" /\ rq.calm = FALSE /\ rq.from = r.from
        /\ rq.covers = r.covers
    BY <1>1, <2>1, DoneShape
  <2> HIDE DEF rq
  <2>3. scan' = [scan EXCEPT ![c] = rq] /\ scan'[c] = rq
    BY <1>7 DEF Scan!Receive, rq, ScanInv, ScanType
  <2>4. r.covers + Margin >= r.from
    BY <2>1, ScanBounds
  <2>5. Reaches(c)' /\ Tried(c)' /\ Shakes(c)' /\ GoesWell(c)'
    BY <1>1, <1>2, <2>2, <2>3, <2>4 DEF CallInv, Reaches, Tried, Shakes, GoesWell
  <2> QED
    BY <1>1, <1>2, <1>3, <1>4, <2>2, <2>3, <2>5, OneActs
<1> QED
    BY <1>5, <1>6, <1>7

\* A call that loses its calm keeps everything else.
LEMMA CalmLost ==
    ASSUME ScanInv, NEW d \in Requests, scan'[d] = [scan[d] EXCEPT !.calm = FALSE],
           level' = level, Shakes(d)'
    PROVE  scan'[d] \in ScanCall /\ CallInv(d)'
<1>1. scan[d] \in ScanCall
    BY DEF ScanInv, ScanType
<1>2. /\ scan'[d] \in ScanCall /\ scan'[d].at = scan[d].at /\ scan'[d].try = scan[d].try
      /\ scan'[d].from = scan[d].from /\ scan'[d].covers = scan[d].covers
      /\ scan'[d].reply = scan[d].reply /\ scan'[d].method = scan[d].method
      /\ scan'[d].calm = FALSE
    BY <1>1 DEF ScanCall
<1>3. Reaches(d)' /\ Tried(d)'
    BY <1>2 DEF ScanInv, CallInv, Reaches, Tried
<1>4. Alone(d)' /\ GoesWell(d)'
    BY <1>2 DEF Alone, GoesWell
<1> QED
    BY <1>2, <1>3, <1>4 DEF CallInv

LEMMA CalmKeys ==
    ASSUME ScanInv, NEW d \in Requests, scan'[d] = [scan[d] EXCEPT !.calm = FALSE]
    PROVE  scan'[d].at = scan[d].at /\ scan'[d].key = scan[d].key
<1>1. scan[d] \in ScanCall
    BY DEF ScanInv, ScanType
<1> QED
    BY <1>1 DEF ScanCall

LEMMA StartKeeps ==
    ASSUME ScanInv, NEW c \in Requests, Scan!Start(c)
    PROVE  ScanInv'
<1> DEFINE alone == \A d \in Requests : ~Scan!Busy(d)
           rq == [Scan!NoCall EXCEPT !.at = "lws", !.from = level, !.calm = alone]
<1>1. /\ UNCHANGED <<session, walletd, spent, reused, level, scanned, token, sessionOf>>
      /\ level \in Nat
    BY DEF Scan!Start, Scan!Held, Scan!Counts, Scan!World, ScanInv, ScanType
<1>2. scan' = [d \in Requests |-> IF d = c THEN rq ELSE [scan[d] EXCEPT !.calm = FALSE]]
    BY DEF Scan!Start
<1>3. /\ rq \in ScanCall /\ rq.at = "lws" /\ rq.from = level /\ rq.try = 0 /\ rq.calm = alone
    BY <1>1 DEF Scan!NoCall, ScanCall, Scan!Points
<1>4. scan'[c] = rq /\ \A d \in Requests \ {c} : scan'[d] = [scan[d] EXCEPT !.calm = FALSE]
    BY <1>2
<1> HIDE DEF rq
<1>5. ASSUME NEW d \in Requests, d # c
      PROVE  scan'[d] \in ScanCall /\ CallInv(d)'
  <2>1. scan'[d] = [scan[d] EXCEPT !.calm = FALSE]
    BY <1>4, <1>5
  <2>2. Shakes(d)'
    BY <1>1, <1>5, <2>1, CalmKeys, ShakesStand DEF LockLeft
  <2> QED
    BY <1>1, <2>1, <2>2, CalmLost
<1>6. Alone(c)'
  <2> SUFFICES ASSUME scan'[c].calm, NEW d \in Requests \ {c}
               PROVE  ~Scan!Busy(d)'
    BY DEF Alone
  <2>1. alone
    BY <1>3, <1>4
  <2> QED
    BY <1>4, <2>1, CalmKeys DEF Scan!Busy
<1>7. Reaches(c)' /\ Tried(c)' /\ Shakes(c)' /\ GoesWell(c)'
    BY <1>1, <1>3, <1>4 DEF Reaches, Tried, Shakes, GoesWell
<1>8. scan' \in [Requests -> ScanCall]
    BY <1>2, <1>3, <1>4, <1>5
<1>9. ScanType' /\ SessionAgrees' /\ NoncesFresh'
    BY <1>1, <1>8 DEF ScanInv, ScanType, SessionAgrees, NoncesFresh
<1> QED
    BY <1>4, <1>5, <1>6, <1>7, <1>9 DEF ScanInv, CallInv

LEMMA NetworkKeeps ==
    ASSUME ScanInv, NEW c \in Requests, Scan!NetworkFails(c)
    PROVE  ScanInv'
<1> DEFINE u == [scan[c] EXCEPT !.calm = FALSE]
           rq == Scan!Failed(u)
<1>1. /\ UNCHANGED <<session, walletd, spent, reused, level, scanned, token>>
      /\ sessionOf' = IF sessionOf = c THEN Nobody ELSE sessionOf
      /\ scan[c] \in ScanCall /\ Reaches(c) /\ level \in Nat
    BY DEF Scan!NetworkFails, Scan!Counts, Scan!World, ScanInv, ScanType, CallInv
<1>2. u \in ScanCall /\ u.calm = FALSE /\ u.from = scan[c].from
    BY <1>1 DEF ScanCall
<1>3. scan' = [[d \in Requests |-> [scan[d] EXCEPT !.calm = FALSE]] EXCEPT ![c] = rq]
    BY DEF Scan!NetworkFails, Scan!Uncalm
<1> HIDE DEF u
<1>4. /\ rq \in ScanCall /\ rq.calm = FALSE /\ rq.at \in {"drop", "failed"}
      /\ rq.from \in {scan[c].from, 0}
    BY <1>2, FailedShape
<1> HIDE DEF rq
<1>5. scan'[c] = rq /\ \A d \in Requests \ {c} : scan'[d] = [scan[d] EXCEPT !.calm = FALSE]
    BY <1>3
<1>6. ASSUME NEW d \in Requests, d # c
      PROVE  scan'[d] \in ScanCall /\ CallInv(d)'
  <2>1. scan'[d] = [scan[d] EXCEPT !.calm = FALSE]
    BY <1>5, <1>6
  <2>2. Shakes(d)'
    BY <1>1, <1>6, <2>1, CalmKeys, ShakesStand DEF LockLeft
  <2> QED
    BY <1>1, <2>1, <2>2, CalmLost
<1>7. Reaches(c)' /\ Tried(c)' /\ Shakes(c)' /\ GoesWell(c)' /\ Alone(c)'
    BY <1>1, <1>4, <1>5 DEF Reaches, Tried, Shakes, GoesWell, Alone
<1>8. scan' \in [Requests -> ScanCall]
    BY <1>3, <1>4, <1>5, <1>6
<1>9. ScanType' /\ SessionAgrees' /\ NoncesFresh'
    BY <1>1, <1>8 DEF ScanInv, ScanType, SessionAgrees, NoncesFresh
<1> QED
    BY <1>5, <1>6, <1>7, <1>9 DEF ScanInv, CallInv

\* A restart forgets the key and the tokens, and nobody is calm after it.
LEMMA RestartKeeps ==
    ASSUME ScanInv, Scan!RestartWallet
    PROVE  ScanInv'
<1>1. /\ UNCHANGED <<session, spent, reused, level, scanned, token, sessionOf>>
      /\ walletd' = [key |-> 0, tokens |-> {}]
      /\ scan' = [d \in Requests |-> [scan[d] EXCEPT !.calm = FALSE]]
    BY DEF Scan!RestartWallet, Scan!Uncalm, Scan!Held, Scan!Counts
<1>2. ASSUME NEW d \in Requests
      PROVE  scan'[d] \in ScanCall /\ CallInv(d)'
  <2>1. scan'[d] = [scan[d] EXCEPT !.calm = FALSE]
    BY <1>1
  <2>2. Shakes(d)'
    BY <1>1, <2>1, CalmKeys DEF ScanInv, CallInv, Shakes
  <2> QED
    BY <1>1, <2>1, <2>2, CalmLost
<1>3. scan' \in [Requests -> ScanCall] /\ walletd' \in [key : Nat, tokens : SUBSET Nat]
    BY <1>1, <1>2
<1>4. ScanType' /\ SessionAgrees' /\ NoncesFresh'
    BY <1>1, <1>3 DEF ScanInv, ScanType, SessionAgrees, NoncesFresh
<1> QED
    BY <1>2, <1>4 DEF ScanInv

LEMMA ChainKeeps ==
    ASSUME ScanInv, Scan!Mine \/ Scan!LwsScans \/ UNCHANGED Scan!vars
    PROVE  ScanInv'
<1>1. /\ UNCHANGED <<session, spent, reused, token, sessionOf, walletd, scan>>
      /\ level' = level \/ level' = level + 1
      /\ scanned' = scanned \/ scanned' = scanned + 1
    BY DEF Scan!Mine, Scan!LwsScans, Scan!Held, Scan!Counts, Scan!vars
<1>2. ScanType' /\ level' >= level
    BY <1>1 DEF ScanInv, ScanType
<1>3. SessionAgrees' /\ NoncesFresh'
    BY <1>1 DEF ScanInv, SessionAgrees, NoncesFresh
<1>4. ASSUME NEW c \in Requests
      PROVE  CallInv(c)'
  <2>1. scan[c].from \in Nat /\ level \in Nat /\ level' \in Nat /\ CallInv(c)
    BY <1>2 DEF ScanInv, ScanType, ScanCall
  <2>2. scan[c].from <= level'
    BY <1>2, <2>1 DEF CallInv, Reaches
  <2>3. Reaches(c)'
    BY <1>1, <2>1, <2>2 DEF CallInv, Reaches
  <2>4. Tried(c)' /\ Shakes(c)' /\ Alone(c)' /\ GoesWell(c)'
    BY <1>1, <2>1 DEF CallInv, Tried, Shakes, Alone, GoesWell, Scan!Busy, Usable
  <2> QED
    BY <2>3, <2>4 DEF CallInv
<1> QED
    BY <1>2, <1>3, <1>4 DEF ScanInv

\* The grin scan, for any number of concurrent requests: one that has had the client to
\* itself since it began and met no restart and no fault heals whatever earlier ones have
\* left (a lost session, a stale token), every answer reaches the tip of its request
\* within the margin, and no nonce is spent twice under one key (scan_rewind_hash,
\* scan_via_grin_lws, encrypt).
THEOREM ScanIsSound == Scan!Spec => []GrinScanSound
<1>1. Scan!Init => ScanInv
    BY ScanStarts
<1>2. ScanInv /\ [Scan!Next]_(Scan!vars) => ScanInv'
  <2> SUFFICES ASSUME ScanInv, [Scan!Next]_(Scan!vars)
               PROVE  ScanInv'
    OBVIOUS
  <2>1. ASSUME NEW c \in Requests,
               \/ Scan!Start(c) \/ Scan!AskLws(c) \/ Scan!LwsOuts(c)
               \/ Scan!OpenWallet(c) \/ Scan!DropToken(c) \/ Scan!EnsureSession(c)
               \/ Scan!Shake(c) \/ Scan!Shaken(c) \/ Scan!Encrypt(c) \/ Scan!Serve(c)
               \/ Scan!Receive(c) \/ Scan!NetworkFails(c)
        PROVE  ScanInv'
    BY <2>1, StartKeeps, AskLwsKeeps, LwsOutsKeeps, OpenWalletKeeps, DropTokenKeeps,
       EnsureKeeps, ShakeKeeps, ShakenKeeps, EncryptKeeps, ServeKeeps, ReceiveKeeps,
       NetworkKeeps
  <2>2. CASE Scan!RestartWallet
    BY <2>2, RestartKeeps
  <2>3. CASE Scan!Mine \/ Scan!LwsScans \/ UNCHANGED Scan!vars
    BY <2>3, ChainKeeps
  <2> QED
    BY <2>1, <2>2, <2>3 DEF Scan!Next
<1>3. ScanInv => GrinScanSound
    BY DEF ScanInv, CallInv, Reaches, GoesWell, NoncesFresh, GrinScanSound, Scan!GrinScanSound,
       Scan!ScanHeals, Scan!ScanReachesTip, Scan!NonceOnce, Scan!At
<1> QED
    BY <1>1, <1>2, <1>3, PTL DEF Scan!Spec

-------------------------------------------------------------------------------
(* The light-wallet import.                                                 *)

\* Calls and accounts, as far as an import needs them.
ImportFields == {"at", "kind", "start", "width", "tries", "fresh", "held", "ceiling"}
IsImport(c) ==
    /\ DOMAIN c = ImportFields
    /\ c.start \in Nat /\ c.width \in Nat /\ c.fresh \in BOOLEAN /\ c.held \in {"ok", "error"}

ImportAccount == [scan : Int, ranges : SUBSET (Int \X Int), seen : SUBSET Paid, intact : BOOLEAN]

\* The subaddresses call c asked for are provisioned at account a.
Placed(c, a) == c.width = 0 \/ <<0, c.width - 1>> \in a.ranges

AllSeen(c, a) ==
    \A p \in Paid :
       (c.start <= p.height /\ p.height < a.scan /\ p.minor < Wallet!Larger(c.width, 1))
       => p \in a.seen

Adder(c) == c.fresh /\ c.kind = "import"

\* Only the call that added the account rescans it, and only with its subaddresses in
\* place; once it has answered, nothing it promised is behind the scan.
ImportSound(c, a) ==
    /\ c.at \in {"idle", "lookup", "add"} => ~c.fresh
    /\ c.at \in {"current", "rescan"} => Adder(c)
    /\ c.fresh => a.scan >= 0
    /\ c.at \in {"current", "rescan", "ok"} /\ Adder(c) /\ c.held = "ok" => Placed(c, a)
    /\ c.at = "ok" => c.held = "ok"
    /\ c.at = "ok" /\ Adder(c) => AllSeen(c, a)

\* The inductive invariant.
ImportInv ==
    /\ call = [r \in Requests |-> call[r]] /\ account \in ImportAccount /\ tip \in Nat
    /\ \A r \in Requests : IsImport(call[r]) /\ ImportSound(call[r], account)
    /\ \A r, s \in Requests : call[r].fresh /\ call[s].fresh => r = s

LEMMA WalletBounds ==
    /\ MaxMinors \in Nat /\ MaxTip \in Nat
    /\ \A p \in Paid : p.height \in Nat /\ p.minor \in Nat
    BY InstancesOK DEF Wallet!ConstantsOK

\* An account that was not touched but for more subaddresses and payments.
LEMMA SoundGrows ==
    ASSUME NEW c, NEW a, NEW b, ImportSound(c, a), b.scan = a.scan, a.seen \subseteq b.seen,
           a.ranges \subseteq b.ranges
    PROVE  ImportSound(c, b)
    BY DEF ImportSound, Placed, AllSeen

\* The account matters only to the call that added it.
LEMMA SoundForOthers ==
    ASSUME NEW c, NEW a, NEW b, ImportSound(c, a), ~c.fresh
    PROVE  ImportSound(c, b)
    BY DEF ImportSound, Adder

\* The ends of provisioning.
LEMMA ProvisionEnds ==
    ASSUME NEW c, NEW a, IsImport(c), c.fresh => a.scan >= 0,
           Adder(c) /\ c.held = "ok" => Placed(c, a)
    PROVE  /\ IsImport(Wallet!AfterProvision(c)) /\ ImportSound(Wallet!AfterProvision(c), a)
           /\ Wallet!AfterProvision(c).fresh = c.fresh
<1>1. CASE Adder(c)
  <2> DEFINE d == [c EXCEPT !.at = "current", !.tries = 0]
  <2>1. /\ DOMAIN d = ImportFields /\ d.at = "current" /\ d.kind = c.kind /\ d.start = c.start
        /\ d.width = c.width /\ d.fresh = c.fresh /\ d.held = c.held
    BY DEF IsImport, ImportFields
  <2>2. Wallet!AfterProvision(c) = d
    BY <1>1 DEF Wallet!AfterProvision, Adder
  <2> HIDE DEF d
  <2> QED
    BY <1>1, <2>1, <2>2 DEF IsImport, ImportSound, Adder, Placed
<1>2. CASE ~Adder(c)
  <2> DEFINE d == [c EXCEPT !.at = c.held]
  <2>1. /\ DOMAIN d = ImportFields /\ d.at = c.held /\ d.kind = c.kind /\ d.start = c.start
        /\ d.width = c.width /\ d.fresh = c.fresh /\ d.held = c.held
    BY DEF IsImport, ImportFields
  <2>2. Wallet!AfterProvision(c) = d
    BY <1>2 DEF Wallet!AfterProvision, Adder
  <2> HIDE DEF d
  <2> QED
    BY <1>2, <2>1, <2>2 DEF IsImport, ImportSound, Adder
<1> QED
    BY <1>1, <1>2

LEMMA AddEnds ==
    ASSUME NEW c, NEW a, IsImport(c), c.fresh => a.scan >= 0
    PROVE  /\ IsImport(Wallet!AfterAdd(c)) /\ ImportSound(Wallet!AfterAdd(c), a)
           /\ Wallet!AfterAdd(c).fresh = c.fresh
<1>1. CASE c.width > 0
  <2> DEFINE d == [c EXCEPT !.at = "probe"]
  <2>1. /\ DOMAIN d = ImportFields /\ d.at = "probe" /\ d.kind = c.kind /\ d.start = c.start
        /\ d.width = c.width /\ d.fresh = c.fresh /\ d.held = c.held
    BY DEF IsImport, ImportFields
  <2>2. Wallet!AfterAdd(c) = d
    BY <1>1 DEF Wallet!AfterAdd
  <2> HIDE DEF d
  <2> QED
    BY <2>1, <2>2 DEF IsImport, ImportSound
<1>2. CASE ~(c.width > 0)
  <2>1. c.width = 0
    BY <1>2 DEF IsImport
  <2>2. Wallet!AfterAdd(c) = Wallet!AfterProvision(c)
    BY <1>2 DEF Wallet!AfterAdd
  <2> QED
    BY <2>1, <2>2, ProvisionEnds DEF Placed
<1> QED
    BY <1>1, <1>2

\* A call moves to another point and keeps what it is about.
LEMMA ImportMoves ==
    ASSUME NEW c, NEW a, IsImport(c), ImportSound(c, a),
           NEW p \in {"error", "add", "probe", "provision", "rescan", "ok"},
           p = "add" => ~c.fresh, p = "rescan" => c.at \in {"current", "rescan"},
           p = "ok" => c.held = "ok" /\ c.at = "current" /\ AllSeen(c, a)
    PROVE  /\ IsImport([c EXCEPT !.at = p]) /\ ImportSound([c EXCEPT !.at = p], a)
           /\ [c EXCEPT !.at = p].fresh = c.fresh
<1> DEFINE d == [c EXCEPT !.at = p]
<1>1. /\ DOMAIN d = ImportFields /\ d.at = p /\ d.kind = c.kind /\ d.start = c.start
      /\ d.width = c.width /\ d.fresh = c.fresh /\ d.held = c.held
    BY DEF IsImport, ImportFields
<1> HIDE DEF d
<1>2. IsImport(d) /\ d.fresh = c.fresh
    BY <1>1 DEF IsImport
<1>3. AllSeen(d, a) <=> AllSeen(c, a)
    BY <1>1 DEF AllSeen
<1>4. ImportSound(d, a)
    BY <1>1, <1>3 DEF ImportSound, Adder, Placed
<1> QED
    BY <1>2, <1>4 DEF d

\* A step of one call.
LEMMA OneImports ==
    ASSUME ImportInv, NEW r \in Requests, NEW c, IsImport(c), Wallet!Set(r, c),
           tip' = tip, account' \in ImportAccount, ImportSound(c, account'),
           \A s \in Requests \ {r} : ImportSound(call[s], account'),
           c.fresh => call[r].fresh \/ \A s \in Requests : ~call[s].fresh
    PROVE  ImportInv'
<1>1. \A s \in Requests : call'[s] = IF s = r THEN c ELSE call[s]
    BY DEF Wallet!Set, ImportInv
<1>2. call' = [s \in Requests |-> call'[s]]
    BY DEF Wallet!Set, ImportInv
<1>3. \A s \in Requests : IsImport(call'[s]) /\ ImportSound(call'[s], account')
    BY <1>1 DEF ImportInv
<1>4. \A s, t \in Requests : call'[s].fresh /\ call'[t].fresh => s = t
    BY <1>1 DEF ImportInv
<1>5. account' \in ImportAccount /\ tip' \in Nat
    BY DEF ImportInv
<1> QED
    BY <1>2, <1>3, <1>4, <1>5 DEF ImportInv

\* The same where the account stays as it is.
LEMMA OneAsks ==
    ASSUME ImportInv, NEW r \in Requests, NEW c, IsImport(c), Wallet!Set(r, c),
           UNCHANGED <<tip, account>>, ImportSound(c, account), c.fresh => call[r].fresh
    PROVE  ImportInv'
    BY OneImports DEF ImportInv

LEMMA NoImportShape ==
    /\ DOMAIN Wallet!NoCall = ImportFields /\ IsImport(Wallet!NoCall)
    /\ Wallet!NoCall.fresh = FALSE /\ Wallet!NoCall.at = "idle" /\ Wallet!NoCall.held = "ok"
    BY DEF Wallet!NoCall, IsImport, ImportFields

LEMMA ImportStarts == Wallet!Init => ImportInv
<1> SUFFICES ASSUME Wallet!Init
             PROVE  ImportInv
    OBVIOUS
<1>1. account \in ImportAccount /\ tip \in Nat
    BY DEF Wallet!Init, Wallet!NoAccount, ImportAccount
<1>2. call = [r \in Requests |-> call[r]] /\ \A r \in Requests : call[r] = Wallet!NoCall
    BY DEF Wallet!Init
<1>3. ImportSound(Wallet!NoCall, account)
    BY NoImportShape DEF ImportSound, Adder
<1> QED
    BY <1>1, <1>2, <1>3, NoImportShape DEF ImportInv

\* A new request: fresh is false, so whatever it asks for is sound.
LEMMA AskKeeps ==
    ASSUME ImportInv, NEW r \in Requests, Wallet!Register(r) \/ Wallet!ProvisionSubaddrs(r)
    PROVE  ImportInv'
<1>1. UNCHANGED <<tip, account>>
    BY DEF Wallet!Register, Wallet!ProvisionSubaddrs
<1>2. ASSUME NEW c, IsImport(c), c.fresh = FALSE, c.at \in {"lookup", "probe"}, Wallet!Set(r, c)
      PROVE  ImportInv'
  <2>1. ImportSound(c, account)
    BY <1>2 DEF ImportSound, Adder
  <2> QED
    BY <1>1, <1>2, <2>1, OneAsks
<1>3. CASE Wallet!Register(r)
  <2>1. PICK requested \in {0, MaxMinors} :
          LET ask == [Wallet!NoCall EXCEPT !.at = "lookup",
                                      !.width = Wallet!EffectiveProvisionMinors(requested)]
          IN  \/ Wallet!Set(r, ask)
              \/ \E h \in Wallet!Heights :
                    Wallet!Set(r, [ask EXCEPT !.kind = "import", !.start = h])
    BY <1>3 DEF Wallet!Register
  <2>2. PICK w \in Nat : w = Wallet!EffectiveProvisionMinors(requested)
    BY WalletBounds DEF Wallet!EffectiveProvisionMinors, Wallet!Larger, Wallet!Smaller
  <2> DEFINE ask == [Wallet!NoCall EXCEPT !.at = "lookup", !.width = w]
  <2>3. CASE Wallet!Set(r, ask)
    <3>1. IsImport(ask) /\ ask.fresh = FALSE /\ ask.at = "lookup"
      BY DEF Wallet!NoCall, IsImport, ImportFields
    <3> HIDE DEF ask
    <3> QED
      BY <1>2, <2>3, <3>1
  <2>4. ASSUME NEW h \in Wallet!Heights,
               Wallet!Set(r, [ask EXCEPT !.kind = "import", !.start = h])
        PROVE  ImportInv'
    <3> DEFINE c == [ask EXCEPT !.kind = "import", !.start = h]
    <3>1. h \in Nat
      BY WalletBounds DEF Wallet!Heights
    <3>2. IsImport(c) /\ c.fresh = FALSE /\ c.at = "lookup"
      BY <3>1 DEF Wallet!NoCall, IsImport, ImportFields
    <3>3. Wallet!Set(r, c)
      BY <2>4
    <3> HIDE DEF c
    <3> QED
      BY <1>2, <3>2, <3>3
  <2> QED
    BY <2>1, <2>2, <2>3, <2>4
<1>4. CASE Wallet!ProvisionSubaddrs(r)
  <2>1. PICK m \in 0..MaxMinors :
          Wallet!Set(r, [Wallet!NoCall EXCEPT !.at = "probe", !.kind = "widen",
                                            !.width = Wallet!ProvisionWidthFor(m)])
    BY <1>4 DEF Wallet!ProvisionSubaddrs
  <2>2. PICK w \in Nat : w = Wallet!ProvisionWidthFor(m)
    BY WalletBounds DEF Wallet!ProvisionWidthFor, Wallet!Smaller
  <2> DEFINE c == [Wallet!NoCall EXCEPT !.at = "probe", !.kind = "widen", !.width = w]
  <2>3. IsImport(c) /\ c.fresh = FALSE /\ c.at = "probe"
    BY DEF Wallet!NoCall, IsImport, ImportFields
  <2>4. Wallet!Set(r, c)
    BY <2>1, <2>2
  <2> HIDE DEF c
  <2> QED
    BY <1>2, <2>3, <2>4
<1> QED
    BY <1>3, <1>4

LEMMA LookUpKeeps ==
    ASSUME ImportInv, NEW r \in Requests, Wallet!LookUp(r)
    PROVE  ImportInv'
<1> DEFINE c == call[r]
<1>1. UNCHANGED <<tip, account>> /\ c.at = "lookup"
    BY DEF Wallet!LookUp
<1>2. IsImport(c) /\ ImportSound(c, account) /\ c.fresh = FALSE
    BY <1>1 DEF ImportInv, ImportSound, IsImport
<1>3. \/ Wallet!Set(r, [c EXCEPT !.at = "error"]) \/ Wallet!Set(r, [c EXCEPT !.at = "add"])
      \/ Wallet!Set(r, Wallet!AfterAdd(c))
    BY DEF Wallet!LookUp
<1> HIDE DEF c
<1>4. \A p \in {"error", "add"} : /\ IsImport([c EXCEPT !.at = p])
                                  /\ ImportSound([c EXCEPT !.at = p], account)
                                  /\ [c EXCEPT !.at = p].fresh = FALSE
    BY <1>2, ImportMoves
<1>5. /\ IsImport(Wallet!AfterAdd(c)) /\ ImportSound(Wallet!AfterAdd(c), account)
      /\ Wallet!AfterAdd(c).fresh = FALSE
    BY <1>2, AddEnds
<1> QED
    BY <1>1, <1>3, <1>4, <1>5, OneAsks

LEMMA ProbeKeeps ==
    ASSUME ImportInv, NEW r \in Requests, Wallet!Probe(r)
    PROVE  ImportInv'
<1> DEFINE c == call[r]
           d == [c EXCEPT !.held = "error"]
           e == [c EXCEPT !.at = "provision", !.tries = 0]
<1>1. UNCHANGED <<tip, account>> /\ c.at = "probe"
    BY DEF Wallet!Probe
<1>2. IsImport(c) /\ ImportSound(c, account)
    BY DEF ImportInv
<1>3. Wallet!Set(r, e) \/ Wallet!Set(r, Wallet!AfterProvision(d))
    BY DEF Wallet!Probe
<1> HIDE DEF c
<1>4. /\ DOMAIN e = ImportFields /\ e.at = "provision" /\ e.start = c.start /\ e.width = c.width
      /\ e.fresh = c.fresh /\ e.held = c.held
    BY <1>2 DEF IsImport, ImportFields
<1>5. /\ DOMAIN d = ImportFields /\ d.held = "error" /\ d.start = c.start /\ d.width = c.width
      /\ d.fresh = c.fresh
    BY <1>2 DEF IsImport, ImportFields
<1> HIDE DEF d, e
<1>6. IsImport(e) /\ IsImport(d) /\ (c.fresh => account.scan >= 0)
    BY <1>2, <1>4, <1>5 DEF IsImport, ImportSound
<1>7. ImportSound(e, account)
    BY <1>4, <1>6 DEF ImportSound
<1>8. /\ IsImport(Wallet!AfterProvision(d)) /\ ImportSound(Wallet!AfterProvision(d), account)
      /\ Wallet!AfterProvision(d).fresh = c.fresh
    BY <1>5, <1>6, ProvisionEnds
<1> QED
    BY <1>1, <1>3, <1>4, <1>6, <1>7, <1>8, OneAsks DEF c

LEMMA CurrentKeeps ==
    ASSUME ImportInv, NEW r \in Requests, Wallet!Current(r)
    PROVE  ImportInv'
<1> DEFINE c == call[r]
           e == [c EXCEPT !.at = "rescan", !.tries = 0]
<1>1. UNCHANGED <<tip, account>> /\ c.at = "current"
    BY DEF Wallet!Current
<1>2. IsImport(c) /\ ImportSound(c, account) /\ account.scan \in Int
    BY DEF ImportInv, ImportAccount
<1>3. \/ Wallet!Set(r, [c EXCEPT !.at = "error"])
      \/ c.start >= account.scan /\ Wallet!Set(r, [c EXCEPT !.at = c.held])
      \/ Wallet!Set(r, e)
    BY DEF Wallet!Current
<1> HIDE DEF c
<1>4. /\ IsImport([c EXCEPT !.at = "error"]) /\ ImportSound([c EXCEPT !.at = "error"], account)
      /\ [c EXCEPT !.at = "error"].fresh = c.fresh
    BY <1>2, ImportMoves
<1>5. ASSUME c.start >= account.scan
      PROVE  /\ IsImport([c EXCEPT !.at = c.held])
             /\ ImportSound([c EXCEPT !.at = c.held], account)
             /\ [c EXCEPT !.at = c.held].fresh = c.fresh
  <2>1. AllSeen(c, account)
    <3> SUFFICES ASSUME NEW p \in Paid, c.start <= p.height, p.height < account.scan
                 PROVE  FALSE
      BY DEF AllSeen
    <3> QED
      BY <1>2, <1>5, WalletBounds DEF IsImport
  <2>2. c.held \in {"ok", "error"}
    BY <1>2 DEF IsImport
  <2>3. PICK p \in {"ok", "error"} : p = c.held
    BY <2>2
  <2>4. /\ IsImport([c EXCEPT !.at = p]) /\ ImportSound([c EXCEPT !.at = p], account)
        /\ [c EXCEPT !.at = p].fresh = c.fresh
    BY <1>1, <1>2, <2>1, <2>3, ImportMoves
  <2> QED
    BY <2>3, <2>4
<1>6. /\ DOMAIN e = ImportFields /\ e.at = "rescan" /\ e.start = c.start /\ e.width = c.width
      /\ e.fresh = c.fresh /\ e.held = c.held /\ e.kind = c.kind
    BY <1>2 DEF IsImport, ImportFields
<1> HIDE DEF e
<1>7. IsImport(e) /\ ImportSound(e, account)
    BY <1>1, <1>2, <1>6 DEF IsImport, ImportSound, Adder, Placed
<1> QED
    BY <1>1, <1>3, <1>4, <1>5, <1>6, <1>7, OneAsks DEF c

\* The account is added once: nobody added it before.
LEMMA AddKeeps ==
    ASSUME ImportInv, NEW r \in Requests, Wallet!AddAccount(r)
    PROVE  ImportInv'
<1> DEFINE c == call[r]
           f == [c EXCEPT !.fresh = TRUE]
           a == [Wallet!NoAccount EXCEPT !.scan = tip]
<1>1. c.at = "add" /\ tip' = tip /\ IsImport(c) /\ ImportSound(c, account) /\ tip \in Nat
    BY DEF Wallet!AddAccount, ImportInv
<1>2. c.fresh = FALSE
    BY <1>1 DEF ImportSound, IsImport
<1>3. \/ account' = account /\ Wallet!Set(r, [c EXCEPT !.at = "error"])
      \/ /\ ~Wallet!Registered /\ account' = a
         /\ Wallet!Set(r, Wallet!AfterAdd(f)) \/ Wallet!Set(r, [c EXCEPT !.at = "error"])
    BY DEF Wallet!AddAccount
<1>4. /\ IsImport([c EXCEPT !.at = "error"]) /\ ImportSound([c EXCEPT !.at = "error"], account)
      /\ [c EXCEPT !.at = "error"].fresh = FALSE
  <2> HIDE DEF c
  <2> QED
    BY <1>1, <1>2, ImportMoves
<1>5. CASE account' = account /\ Wallet!Set(r, [c EXCEPT !.at = "error"])
    BY <1>1, <1>4, <1>5, OneAsks
<1>6. CASE /\ ~Wallet!Registered /\ account' = a
           /\ Wallet!Set(r, Wallet!AfterAdd(f)) \/ Wallet!Set(r, [c EXCEPT !.at = "error"])
  <2>1. account.scan = -1
    BY <1>6 DEF Wallet!Registered, Wallet!NoAccount
  <2>2. \A s \in Requests : ~call[s].fresh
    BY <2>1 DEF ImportInv, ImportSound
  <2>3. a \in ImportAccount /\ a.scan >= 0
    <3>1. Wallet!NoAccount \in ImportAccount
      BY DEF Wallet!NoAccount, ImportAccount
    <3>2. tip \in Int /\ tip >= 0
      BY <1>1
    <3> QED
      BY <3>1, <3>2 DEF ImportAccount
  <2> HIDE DEF a
  <2>4. \A s \in Requests : ImportSound(call[s], account')
    BY <1>6, <2>2, SoundForOthers DEF ImportInv
  <2>5. CASE Wallet!Set(r, [c EXCEPT !.at = "error"])
    <3>1. ImportSound([c EXCEPT !.at = "error"], account')
      BY <1>4, SoundForOthers
    <3> QED
      BY <1>1, <1>4, <1>6, <2>3, <2>4, <2>5, <3>1, OneImports
  <2>6. CASE Wallet!Set(r, Wallet!AfterAdd(f))
    <3>1. /\ DOMAIN f = ImportFields /\ f.start = c.start /\ f.width = c.width
          /\ f.fresh = TRUE /\ f.held = c.held
      BY <1>1 DEF IsImport, ImportFields
    <3> HIDE DEF f
    <3>2. IsImport(f)
      BY <1>1, <3>1 DEF IsImport
    <3>3. IsImport(Wallet!AfterAdd(f)) /\ ImportSound(Wallet!AfterAdd(f), account')
      BY <1>6, <2>3, <3>2, AddEnds
    <3> QED
      BY <1>1, <1>6, <2>2, <2>3, <2>4, <2>6, <3>3, OneImports
  <2> QED
    BY <1>6, <2>5, <2>6
<1> QED
    BY <1>3, <1>5, <1>6

\* Provisioning places the subaddresses before the rescan begins.
LEMMA ProvisionKeeps ==
    ASSUME ImportInv, NEW r \in Requests, Wallet!Provision(r)
    PROVE  ImportInv'
<1> DEFINE c == call[r]
<1>1. c.at = "provision" /\ tip' = tip /\ IsImport(c) /\ ImportSound(c, account)
    BY DEF Wallet!Provision, ImportInv
<1>2. PICK o \in Wallet!Outcomes :
        LET up == o # "failed" /\ Wallet!Registered /\ capacity >= c.width
            rs == IF up THEN account.ranges \cup {<<0, c.width - 1>>} ELSE account.ranges
            confirmed == Wallet!ConfirmedMinorMax(rs)
        IN  /\ account' = [account EXCEPT !.ranges = rs]
            /\ Wallet!Set(r, IF up /\ o = "done"
                    THEN Wallet!AfterProvision([c EXCEPT !.ceiling = confirmed,
                             !.held = IF Wallet!Covers(c, confirmed) THEN "ok" ELSE "error"])
                    ELSE IF c.tries + 1 < Wallet!Attempts THEN [c EXCEPT !.tries = @ + 1]
                    ELSE Wallet!AfterProvision([c EXCEPT !.held = "error"]))
    BY DEF Wallet!Provision
<1> DEFINE upsert == o # "failed" /\ Wallet!Registered /\ capacity >= c.width
           ranges == IF upsert THEN account.ranges \cup {<<0, c.width - 1>>} ELSE account.ranges
           k == Wallet!ConfirmedMinorMax(ranges)
           h == IF Wallet!Covers(c, k) THEN "ok" ELSE "error"
<1>3. /\ account' = [account EXCEPT !.ranges = ranges] /\ h \in {"ok", "error"}
      /\ \/ upsert /\ Wallet!Set(r, Wallet!AfterProvision([c EXCEPT !.ceiling = k, !.held = h]))
         \/ Wallet!Set(r, [c EXCEPT !.tries = c.tries + 1])
         \/ Wallet!Set(r, Wallet!AfterProvision([c EXCEPT !.held = "error"]))
    BY <1>2
<1>4. ranges = IF upsert THEN account.ranges \cup {<<0, c.width - 1>>} ELSE account.ranges
    OBVIOUS
<1> HIDE DEF upsert, ranges, k, h
<1> HIDE DEF c
<1>5. /\ account' \in ImportAccount /\ account'.scan = account.scan
      /\ account'.seen = account.seen /\ account'.ranges = ranges
      /\ account.ranges \subseteq ranges
  <2>1. account \in ImportAccount /\ c.width \in Nat
    BY <1>1 DEF ImportInv, IsImport
  <2>2. ranges \in SUBSET (Int \X Int) /\ account.ranges \subseteq ranges
    BY <1>4, <2>1 DEF ImportAccount
  <2> QED
    BY <1>3, <2>1, <2>2 DEF ImportAccount
<1>6. \A s \in Requests : ImportSound(call[s], account')
    BY <1>5, SoundGrows DEF ImportInv
<1>7. c.fresh => account'.scan >= 0
    BY <1>1, <1>5 DEF ImportSound
<1>8. CASE upsert /\ Wallet!Set(r, Wallet!AfterProvision([c EXCEPT !.ceiling = k, !.held = h]))
  <2> DEFINE d == [c EXCEPT !.ceiling = k, !.held = h]
  <2>1. /\ DOMAIN d = ImportFields /\ d.start = c.start /\ d.width = c.width
        /\ d.fresh = c.fresh /\ d.held = h
    BY <1>1 DEF IsImport, ImportFields
  <2> HIDE DEF d
  <2>2. IsImport(d) /\ Placed(d, account')
    BY <1>1, <1>5, <1>8, <1>3, <1>4, <2>1 DEF IsImport, Placed
  <2>3. /\ IsImport(Wallet!AfterProvision(d)) /\ ImportSound(Wallet!AfterProvision(d), account')
        /\ Wallet!AfterProvision(d).fresh = c.fresh
    BY <1>7, <2>1, <2>2, ProvisionEnds
  <2> QED
    BY <1>1, <1>5, <1>6, <1>8, <2>3, OneImports DEF d, c
<1>9. CASE Wallet!Set(r, [c EXCEPT !.tries = c.tries + 1])
  <2> DEFINE n == c.tries + 1
             d == [c EXCEPT !.tries = n]
  <2> HIDE DEF n
  <2>1. /\ DOMAIN d = ImportFields /\ d.start = c.start /\ d.width = c.width
        /\ d.fresh = c.fresh /\ d.held = c.held /\ d.at = c.at /\ d.kind = c.kind
    BY <1>1 DEF IsImport, ImportFields
  <2>2. Wallet!Set(r, d)
    BY <1>9 DEF n
  <2> HIDE DEF d
  <2>3. IsImport(d) /\ ImportSound(d, account')
    BY <1>1, <1>7, <2>1 DEF IsImport, ImportSound
  <2> QED
    BY <1>1, <1>5, <1>6, <2>1, <2>2, <2>3, OneImports DEF c
<1>10. CASE Wallet!Set(r, Wallet!AfterProvision([c EXCEPT !.held = "error"]))
  <2> DEFINE d == [c EXCEPT !.held = "error"]
  <2>1. /\ DOMAIN d = ImportFields /\ d.start = c.start /\ d.width = c.width
        /\ d.fresh = c.fresh /\ d.held = "error"
    BY <1>1 DEF IsImport, ImportFields
  <2> HIDE DEF d
  <2>2. IsImport(d)
    BY <1>1, <2>1 DEF IsImport
  <2>3. /\ IsImport(Wallet!AfterProvision(d)) /\ ImportSound(Wallet!AfterProvision(d), account')
        /\ Wallet!AfterProvision(d).fresh = c.fresh
    BY <1>7, <2>1, <2>2, ProvisionEnds
  <2> QED
    BY <1>1, <1>5, <1>6, <1>10, <2>3, OneImports DEF d, c
<1> QED
    BY <1>8, <1>9, <1>10, <1>3

\* A rescan lowers the scan height to the birthday: nothing promised is behind it.
LEMMA RescanKeeps ==
    ASSUME ImportInv, NEW r \in Requests, Wallet!Rescan(r)
    PROVE  ImportInv'
<1> DEFINE c == call[r]
           n == c.tries + 1
           d == [c EXCEPT !.tries = n]
<1>1. c.at = "rescan" /\ tip' = tip /\ IsImport(c) /\ ImportSound(c, account)
    BY DEF Wallet!Rescan, ImportInv
<1>2. PICK o \in Wallet!Outcomes :
        /\ account' \in IF o = "failed" THEN {account} ELSE Wallet!Rescanned(c.start)
        /\ Wallet!Set(r, IF o = "done" THEN [c EXCEPT !.at = c.held]
                         ELSE IF c.tries + 1 < Wallet!Attempts THEN [c EXCEPT !.tries = @ + 1]
                         ELSE [c EXCEPT !.at = "error"])
    BY DEF Wallet!Rescan
<1>3. /\ account' = account \/ account' \in Wallet!Rescanned(c.start)
      /\ \/ /\ account' \in Wallet!Rescanned(c.start)
            /\ Wallet!Set(r, [c EXCEPT !.at = c.held])
         \/ Wallet!Set(r, d)
         \/ Wallet!Set(r, [c EXCEPT !.at = "error"])
    BY <1>2
<1>4. Adder(c) /\ c.fresh
    BY <1>1 DEF ImportSound, Adder
<1>5. \A s \in Requests \ {r} : ~call[s].fresh
    BY <1>4 DEF ImportInv
<1>6. account \in ImportAccount /\ c.start \in Nat /\ account.scan \in Int /\ account.scan >= 0
    BY <1>1, <1>4 DEF ImportInv, IsImport, ImportAccount, ImportSound
<1> HIDE DEF c
<1>7. ASSUME account' \in Wallet!Rescanned(c.start)
      PROVE  /\ account' \in ImportAccount /\ account'.ranges = account.ranges
             /\ account'.scan >= 0 /\ account'.scan <= c.start
  <2>1. \/ account' = [account EXCEPT !.scan = c.start]
        \/ c.start >= account.scan /\ account' = [account EXCEPT !.intact = FALSE]
    BY <1>6, <1>7 DEF Wallet!Rescanned
  <2>2. CASE account' = [account EXCEPT !.scan = c.start]
    BY <1>6, <2>2 DEF ImportAccount
  <2>3. CASE c.start >= account.scan /\ account' = [account EXCEPT !.intact = FALSE]
    BY <1>6, <2>3 DEF ImportAccount
  <2> QED
    BY <2>1, <2>2, <2>3
<1>8. /\ account' \in ImportAccount /\ account'.ranges = account.ranges /\ account'.scan >= 0
    BY <1>3, <1>6, <1>7
<1>9. \A s \in Requests \ {r} : ImportSound(call[s], account')
    BY <1>5, SoundForOthers DEF ImportInv
<1>10. ASSUME NEW b, NEW e, Wallet!Set(r, b), DOMAIN b = ImportFields, b.at = e,
              e \in {"rescan", "ok", "error"},
              b.kind = c.kind, b.start = c.start, b.width = c.width, b.fresh = c.fresh,
              b.held = c.held, e = "ok" => c.held = "ok" /\ account'.scan <= c.start
       PROVE  ImportInv'
  <2>1. IsImport(b)
    BY <1>1, <1>10 DEF IsImport
  <2>2. Placed(b, account') <=> Placed(c, account)
    BY <1>8, <1>10 DEF Placed
  <2>3. e = "ok" => AllSeen(b, account')
    <3> SUFFICES ASSUME e = "ok", NEW p \in Paid, b.start <= p.height, p.height < account'.scan
                 PROVE  FALSE
      BY DEF AllSeen
    <3>1. account'.scan <= c.start /\ account'.scan \in Int /\ b.start = c.start
      BY <1>8, <1>10 DEF ImportAccount
    <3> QED
      BY <1>6, <3>1, WalletBounds
  <2>4. ImportSound(b, account')
    BY <1>1, <1>4, <1>8, <1>10, <2>2, <2>3 DEF ImportSound, Adder
  <2>5. call[r].fresh
    BY <1>4 DEF c
  <2> QED
    BY <1>1, <1>8, <1>9, <1>10, <2>1, <2>4, <2>5, OneImports
<1>11. CASE account' \in Wallet!Rescanned(c.start) /\ Wallet!Set(r, [c EXCEPT !.at = c.held])
  <2> DEFINE b == [c EXCEPT !.at = c.held]
  <2>1. /\ DOMAIN b = ImportFields /\ b.at = c.held /\ b.kind = c.kind /\ b.start = c.start
        /\ b.width = c.width /\ b.fresh = c.fresh /\ b.held = c.held
    BY <1>1 DEF IsImport, ImportFields
  <2> HIDE DEF b
  <2>2. c.held \in {"ok", "error"} /\ account'.scan <= c.start
    BY <1>1, <1>7, <1>11 DEF IsImport
  <2>3. Wallet!Set(r, b)
    BY <1>11 DEF b
  <2> QED
    BY <1>10, <2>1, <2>2, <2>3
<1>12. CASE Wallet!Set(r, d)
  <2> HIDE DEF n
  <2>1. /\ DOMAIN d = ImportFields /\ d.at = "rescan" /\ d.kind = c.kind /\ d.start = c.start
        /\ d.width = c.width /\ d.fresh = c.fresh /\ d.held = c.held
    BY <1>1 DEF IsImport, ImportFields
  <2> HIDE DEF d
  <2> QED
    BY <1>10, <1>12, <2>1
<1>13. CASE Wallet!Set(r, [c EXCEPT !.at = "error"])
  <2> DEFINE b == [c EXCEPT !.at = "error"]
  <2>1. /\ DOMAIN b = ImportFields /\ b.at = "error" /\ b.kind = c.kind /\ b.start = c.start
        /\ b.width = c.width /\ b.fresh = c.fresh /\ b.held = c.held
    BY <1>1 DEF IsImport, ImportFields
  <2>2. Wallet!Set(r, b)
    BY <1>13
  <2> HIDE DEF b
  <2> QED
    BY <1>10, <2>1, <2>2
<1> QED
    BY <1>3, <1>11, <1>12, <1>13

\* A crash ends the calls in flight.
LEMMA CrashKeeps == ImportInv /\ Wallet!Crash => ImportInv'
<1> SUFFICES ASSUME ImportInv, Wallet!Crash
             PROVE  ImportInv'
    OBVIOUS
<1>1. UNCHANGED <<tip, account>>
    BY DEF Wallet!Crash
<1>2. call' = [r \in Requests |-> call'[r]]
    BY DEF Wallet!Crash
<1>3. ASSUME NEW r \in Requests
      PROVE  IsImport(call'[r]) /\ ImportSound(call'[r], account) /\ call'[r].fresh = call[r].fresh
  <2>1. PICK c : c = call[r]
    OBVIOUS
  <2>2. IsImport(c) /\ ImportSound(c, account)
    BY <2>1 DEF ImportInv
  <2>3. call'[r] = c \/ call'[r] = [c EXCEPT !.at = "error"]
    BY <2>1 DEF Wallet!Crash
  <2>4. /\ IsImport([c EXCEPT !.at = "error"]) /\ ImportSound([c EXCEPT !.at = "error"], account)
        /\ [c EXCEPT !.at = "error"].fresh = c.fresh
    BY <2>2, ImportMoves
  <2> QED
    BY <2>1, <2>2, <2>3, <2>4
<1> QED
    BY <1>1, <1>2, <1>3 DEF ImportInv

\* A block is scanned: its payments to the primary address and to the subaddresses
\* that are in place are attributed.
LEMMA ScanKeeps == ImportInv /\ Wallet!Scan => ImportInv'
<1> SUFFICES ASSUME ImportInv, Wallet!Scan
             PROVE  ImportInv'
    OBVIOUS
<1> DEFINE found == {p \in Paid : /\ p.height = account.scan
                                  /\ \/ p.minor = 0
                                     \/ \E x \in account.ranges :
                                        x[1] <= p.minor /\ p.minor <= x[2]}
           n == account.scan + 1
           m == account.seen \cup found
<1>1. UNCHANGED <<tip, call>> /\ account' = [account EXCEPT !.scan = n, !.seen = m]
    BY DEF Wallet!Scan
<1>2. account \in ImportAccount /\ account.scan \in Int /\ n \in Int /\ m \in SUBSET Paid
    BY DEF ImportInv, ImportAccount
<1>3. /\ account' \in ImportAccount /\ account'.scan = n /\ account'.seen = m
      /\ account'.ranges = account.ranges
  <2> HIDE DEF n, m
  <2> QED
    BY <1>1, <1>2 DEF ImportAccount
<1>4. ASSUME NEW c, IsImport(c), ImportSound(c, account)
      PROVE  ImportSound(c, account')
  <2>1. Placed(c, account') <=> Placed(c, account)
    BY <1>3 DEF Placed
  <2>2. ASSUME c.at = "ok", Adder(c)
        PROVE  AllSeen(c, account')
    <3>1. AllSeen(c, account) /\ Placed(c, account) /\ c.width \in Nat
      BY <1>4, <2>2 DEF ImportSound, IsImport
    <3> SUFFICES ASSUME NEW p \in Paid, c.start <= p.height, p.height < n,
                        p.minor < Wallet!Larger(c.width, 1)
                 PROVE  p \in m
      BY <1>3 DEF AllSeen
    <3>2. p.height \in Nat /\ p.minor \in Nat
      BY WalletBounds
    <3>3. CASE p.height < account.scan
      BY <3>1, <3>3 DEF AllSeen
    <3>4. CASE ~(p.height < account.scan)
      <4>1. p.height = account.scan
        BY <1>2, <3>2, <3>4
      <4>2. CASE c.width = 0
        <5>1. p.minor = 0
          BY <3>2, <4>2 DEF Wallet!Larger
        <5> QED
          BY <4>1, <5>1
      <4>3. CASE c.width # 0
        <5>1. p.minor < c.width
          BY <3>1, <3>2, <4>3 DEF Wallet!Larger
        <5>2. PICK x \in account.ranges : x = <<0, c.width - 1>>
          BY <3>1, <4>3 DEF Placed
        <5>3. x[1] <= p.minor /\ p.minor <= x[2]
          BY <3>1, <3>2, <5>1, <5>2
        <5> QED
          BY <4>1, <5>3
      <4> QED
        BY <4>2, <4>3
    <3> QED
      BY <3>3, <3>4
  <2>3. c.fresh => account'.scan >= 0
    BY <1>2, <1>3, <1>4 DEF ImportSound
  <2> HIDE DEF n, m
  <2> QED
    BY <1>4, <2>1, <2>2, <2>3 DEF ImportSound
<1> HIDE DEF n, m
<1> QED
    BY <1>1, <1>3, <1>4 DEF ImportInv

\* Steps of the chain and of other clients.
LEMMA ElsewhereKeeps ==
    ImportInv /\ (Wallet!Mine \/ Wallet!LwsRestart \/ Wallet!ProvisionedElsewhere
                  \/ UNCHANGED Wallet!vars) => ImportInv'
<1> SUFFICES ASSUME ImportInv
             PROVE  Wallet!Mine \/ Wallet!LwsRestart \/ Wallet!ProvisionedElsewhere
                    \/ UNCHANGED Wallet!vars => ImportInv'
    OBVIOUS
<1>1. CASE Wallet!Mine
  <2>1. tip' \in Nat /\ UNCHANGED <<account, call>>
    BY <1>1 DEF Wallet!Mine, ImportInv
  <2> QED
    BY <2>1 DEF ImportInv
<1>2. CASE Wallet!LwsRestart \/ UNCHANGED Wallet!vars
    BY <1>2 DEF Wallet!LwsRestart, Wallet!vars, ImportInv
<1>3. CASE Wallet!ProvisionedElsewhere
  <2> DEFINE more == account.ranges \cup {<<MaxMinors, MaxMinors>>}
  <2>1. UNCHANGED <<tip, call>> /\ account' = [account EXCEPT !.ranges = more]
    BY <1>3 DEF Wallet!ProvisionedElsewhere
  <2>2. account \in ImportAccount /\ more \in SUBSET (Int \X Int) /\ account.ranges \subseteq more
    BY WalletBounds DEF ImportInv, ImportAccount
  <2> HIDE DEF more
  <2>3. /\ account' \in ImportAccount /\ account'.scan = account.scan
        /\ account'.seen = account.seen /\ account.ranges \subseteq account'.ranges
    BY <2>1, <2>2 DEF ImportAccount
  <2>4. \A r \in Requests : ImportSound(call[r], account')
    BY <2>3, SoundGrows DEF ImportInv
  <2> QED
    BY <2>1, <2>3, <2>4 DEF ImportInv
<1> QED
    BY <1>1, <1>2, <1>3

LEMMA ImportStep == ImportInv /\ [Wallet!Next]_(Wallet!vars) => ImportInv'
    BY AskKeeps, LookUpKeeps, AddKeeps, ProbeKeeps, ProvisionKeeps, CurrentKeeps, RescanKeeps,
       CrashKeeps, ScanKeeps, ElsewhereKeeps DEF Wallet!Next

-------------------------------------------------------------------------------
(* The ceiling of an answer.                                                *)

LEMMA HighestIs ==
    ASSUME NEW N \in Nat, NEW S, S \subseteq 0..N, S # {}
    PROVE  Wallet!Max(S) \in S
<1>1. \E m \in S : \A k \in S : m >= k
    BY Greatest
<1> QED
    BY <1>1, Zenon DEF Wallet!Max

\* The ranges that are ever provisioned; an ask of width 0 would end below its start.
MinorRanges == (0..MaxMinors) \X (-1..MaxMinors)

\* Every index up to k is provisioned.
Covered(k, ranges) == \A m \in 0..k : \E x \in ranges : x[1] <= m /\ m <= x[2]

\* A range covers what lies between its start and its end.
LEMMA EndsReach ==
    ASSUME NEW ranges, ranges \subseteq MinorRanges, NEW a \in 0..MaxMinors,
           NEW e \in Wallet!Ends(ranges, a)
    PROVE  /\ e \in 0..MaxMinors
           /\ \A m \in a..e : \E x \in ranges : x[1] <= m /\ m <= x[2]
<1>1. PICK x \in ranges : x[1] = a /\ x[1] <= x[2] /\ e = x[2]
    BY DEF Wallet!Ends
<1>2. x[2] \in -1..MaxMinors
    BY DEF MinorRanges
<1>3. e \in 0..MaxMinors
    BY <1>1, <1>2, WalletBounds
<1> QED
    BY <1>1, <1>3

\* What the loop of confirmed_minor_max keeps true: every index up to the ceiling is
\* provisioned.
LEMMA CeilingExtends ==
    ASSUME NEW ranges, ranges \subseteq MinorRanges, NEW a \in 1..MaxMinors,
           NEW k \in 0..MaxMinors, Covered(k, ranges), ~(a > k + 1)
    PROVE  LET e == Wallet!Max(Wallet!Ends(ranges, a) \cup {k})
           IN  e \in 0..MaxMinors /\ Covered(e, ranges)
<1> DEFINE S == Wallet!Ends(ranges, a) \cup {k}
           e == Wallet!Max(S)
<1>1. a \in 0..MaxMinors
    BY WalletBounds
<1>2. S \subseteq 0..MaxMinors /\ S # {}
    BY <1>1, EndsReach
<1>3. e \in S
    BY <1>2, HighestIs, WalletBounds
<1> HIDE DEF e
<1>4. CASE e = k
    BY <1>4 DEF e
<1>5. CASE e \in Wallet!Ends(ranges, a)
  <2>1. e \in 0..MaxMinors /\ \A m \in a..e : \E x \in ranges : x[1] <= m /\ m <= x[2]
    BY <1>1, <1>5, EndsReach
  <2>2. \A m \in 0..e : m \in 0..k \/ m \in a..e
    BY <2>1
  <2>3. Covered(e, ranges)
    BY <2>1, <2>2 DEF Covered
  <2> QED
    BY <2>1, <2>3 DEF e
<1> QED
    BY <1>3, <1>4, <1>5

\* So the ceiling it ends with is one, since the loop has a run to begin with.
LEMMA CeilingsGo ==
    ASSUME NEW ranges, ranges \subseteq MinorRanges, Wallet!Ends(ranges, 0) # {}
    PROVE  Covered(Wallet!Ceilings(ranges)[MaxMinors], ranges)
<1> DEFINE V == {k \in 0..MaxMinors : Covered(k, ranges)}
           v == Wallet!Max(Wallet!Ends(ranges, 0))
           On(a, k) == IF a > k + 1 THEN k ELSE Wallet!Max(Wallet!Ends(ranges, a) \cup {k})
           G(g) == [a \in 0..MaxMinors |-> IF a = 0 THEN v ELSE On(a, g[a - 1])]
           step == [a \in 1..MaxMinors |-> [k \in V |-> On(a, k)]]
<1>1. Wallet!Ceilings(ranges) = CHOOSE g : g = G(g)
    BY Zenon DEF Wallet!Ceilings
<1>2. v \in V
  <2>1. 0 \in 0..MaxMinors
    BY WalletBounds
  <2>2. Wallet!Ends(ranges, 0) \subseteq 0..MaxMinors
    BY <2>1, EndsReach
  <2>3. v \in Wallet!Ends(ranges, 0)
    BY <2>2, HighestIs, WalletBounds
  <2> HIDE DEF v
  <2> QED
    BY <2>1, <2>3, EndsReach DEF Covered
<1>3. \A a \in 1..MaxMinors : \A k \in V : On(a, k) \in V
    BY CeilingExtends
<1> HIDE DEF V, v, On
<1>4. step \in [1..MaxMinors -> [V -> V]]
    BY <1>3
<1> HIDE DEF step
<1>5. PICK f : f \in Iterates(V, v, step, MaxMinors)
    BY <1>2, <1>4, Recursion, WalletBounds, Zenon
<1>6. f \in [0..MaxMinors -> V] /\ f[0] = v
      /\ \A a \in 1..MaxMinors : f[a] = step[a][f[a - 1]]
    BY <1>5 DEF Iterates
<1>7. \A a \in 1..MaxMinors : f[a - 1] \in V
    BY <1>6, WalletBounds
<1>8. \A a \in 1..MaxMinors : f[a] = On(a, f[a - 1])
    BY <1>6, <1>7 DEF step
<1>9. f = G(f)
  <2>1. ASSUME NEW a \in 0..MaxMinors PROVE f[a] = G(f)[a]
    <3>1. CASE a = 0
      BY <1>6, <3>1
    <3>2. CASE a # 0
      <4>1. a \in 1..MaxMinors
        BY <3>2, WalletBounds
      <4> QED
        BY <1>8, <3>2, <4>1
    <3> QED
      BY <3>1, <3>2
  <2>2. G(f) = [a \in 0..MaxMinors |-> G(f)[a]]
    OBVIOUS
  <2> HIDE DEF G
  <2> QED
    BY <1>6, <2>1, <2>2, SameFunction, Zenon
<1> HIDE DEF G
<1>10. PICK g : g = Wallet!Ceilings(ranges)
    OBVIOUS
<1>11. g = G(g)
    BY <1>1, <1>9, <1>10, Zenon
<1>12. g[0] = v
    BY <1>11, WalletBounds DEF G
<1>13. ASSUME NEW a \in 1..MaxMinors PROVE g[a] = On(a, g[a - 1])
  <2>1. a \in 0..MaxMinors /\ a # 0
    BY WalletBounds
  <2>2. g[a] = G(g)[a]
    BY <1>11
  <2> QED
    BY <2>1, <2>2 DEF G
<1>14. \A a \in 1..MaxMinors : f[a - 1] = g[a - 1] => f[a] = g[a]
    BY <1>8, <1>13
<1>15. f[0] = g[0] /\ MaxMinors \in Nat
    BY <1>6, <1>12, WalletBounds
<1>16. \A a \in 0..MaxMinors : f[a] = g[a]
    BY <1>14, <1>15, SameIterates, Zenon
<1>17. f[MaxMinors] = g[MaxMinors] /\ f[MaxMinors] \in V
    BY <1>6, <1>16, WalletBounds
<1> QED
    BY <1>10, <1>17 DEF V

\* The ceiling of an answer, whenever it was read, is provisioned at the account: ranges
\* are never taken back.
CeilingInv ==
    /\ account.ranges \subseteq MinorRanges
    /\ \A r \in Requests :
          /\ call[r].width \in 0..MaxMinors
          /\ call[r].ceiling = None \/ Covered(call[r].ceiling, account.ranges)

LEMMA CoveredGrows ==
    ASSUME NEW k, NEW a, NEW b, Covered(k, a), a \subseteq b
    PROVE  Covered(k, b)
    BY DEF Covered

\* What an answer reports is the end of a run of ranges that starts at 0.
LEMMA ConfirmedIsCovered ==
    ASSUME NEW ranges, ranges \subseteq MinorRanges
    PROVE  \/ Wallet!ConfirmedMinorMax(ranges) = None
           \/ Covered(Wallet!ConfirmedMinorMax(ranges), ranges)
    BY CeilingsGo DEF Wallet!ConfirmedMinorMax

\* A call that moves on with its width and ceiling.
SameAsk(c, d) == DOMAIN d = ImportFields /\ d.width = c.width /\ d.ceiling = c.ceiling

LEMMA MovesOn ==
    ASSUME NEW c, DOMAIN c = ImportFields, NEW p, NEW n
    PROVE  /\ SameAsk(c, [c EXCEPT !.at = p]) /\ SameAsk(c, [c EXCEPT !.at = p, !.tries = n])
           /\ SameAsk(c, [c EXCEPT !.tries = n]) /\ SameAsk(c, [c EXCEPT !.held = p])
           /\ SameAsk(c, [c EXCEPT !.fresh = n])
    BY DEF SameAsk, ImportFields

LEMMA AfterMovesOn ==
    ASSUME NEW c, DOMAIN c = ImportFields
    PROVE  SameAsk(c, Wallet!AfterProvision(c)) /\ SameAsk(c, Wallet!AfterAdd(c))
<1>1. SameAsk(c, Wallet!AfterProvision(c))
    BY MovesOn DEF Wallet!AfterProvision
<1> QED
    BY <1>1, MovesOn DEF Wallet!AfterAdd

LEMMA SameAskTwice ==
    ASSUME NEW c, NEW d, NEW e, SameAsk(c, d), SameAsk(d, e)
    PROVE  SameAsk(c, e)
    BY DEF SameAsk

\* A step of one call, with an account that has at least the ranges it had.
LEMMA OneCeiling ==
    ASSUME ImportInv, CeilingInv, NEW r \in Requests, NEW c, Wallet!Set(r, c),
           account.ranges \subseteq account'.ranges, account'.ranges \subseteq MinorRanges,
           c.width \in 0..MaxMinors,
           c.ceiling = None \/ Covered(c.ceiling, account'.ranges)
    PROVE  CeilingInv'
<1>1. \A s \in Requests : call'[s] = IF s = r THEN c ELSE call[s]
    BY DEF Wallet!Set, ImportInv
<1>2. \A s \in Requests : call[s].ceiling = None \/ Covered(call[s].ceiling, account'.ranges)
    BY CoveredGrows DEF CeilingInv
<1>3. \A s \in Requests :
         /\ call'[s].width \in 0..MaxMinors
         /\ call'[s].ceiling = None \/ Covered(call'[s].ceiling, account'.ranges)
    BY <1>1, <1>2 DEF CeilingInv
<1> QED
    BY <1>3 DEF CeilingInv, Covered

LEMMA OneMovesOn ==
    ASSUME ImportInv, CeilingInv, NEW r \in Requests, NEW c, Wallet!Set(r, c),
           account'.ranges = account.ranges, SameAsk(call[r], c)
    PROVE  CeilingInv'
    BY OneCeiling DEF SameAsk, CeilingInv

LEMMA AskCeiling ==
    ASSUME ImportInv, CeilingInv, NEW r \in Requests,
           Wallet!Register(r) \/ Wallet!ProvisionSubaddrs(r)
    PROVE  CeilingInv'
<1>1. account' = account
    BY DEF Wallet!Register, Wallet!ProvisionSubaddrs
<1>2. ASSUME NEW c, c.width \in 0..MaxMinors, c.ceiling = None, Wallet!Set(r, c)
      PROVE  CeilingInv'
    BY <1>1, <1>2, OneCeiling DEF CeilingInv
<1>3. CASE Wallet!Register(r)
  <2>1. PICK requested \in {0, MaxMinors} :
          LET ask == [Wallet!NoCall EXCEPT !.at = "lookup",
                                      !.width = Wallet!EffectiveProvisionMinors(requested)]
          IN  \/ Wallet!Set(r, ask)
              \/ \E h \in Wallet!Heights :
                    Wallet!Set(r, [ask EXCEPT !.kind = "import", !.start = h])
    BY <1>3 DEF Wallet!Register
  <2>2. PICK w \in 0..MaxMinors : w = Wallet!EffectiveProvisionMinors(requested)
    BY WalletBounds DEF Wallet!EffectiveProvisionMinors, Wallet!Larger, Wallet!Smaller
  <2> DEFINE ask == [Wallet!NoCall EXCEPT !.at = "lookup", !.width = w]
  <2>3. CASE Wallet!Set(r, ask)
    <3>1. ask.width \in 0..MaxMinors /\ ask.ceiling = None
      BY DEF Wallet!NoCall
    <3> HIDE DEF ask
    <3> QED
      BY <1>2, <2>3, <3>1
  <2>4. ASSUME NEW h \in Wallet!Heights,
               Wallet!Set(r, [ask EXCEPT !.kind = "import", !.start = h])
        PROVE  CeilingInv'
    <3> DEFINE c == [ask EXCEPT !.kind = "import", !.start = h]
    <3>1. c.width \in 0..MaxMinors /\ c.ceiling = None
      BY DEF Wallet!NoCall
    <3>2. Wallet!Set(r, c)
      BY <2>4
    <3> HIDE DEF c
    <3> QED
      BY <1>2, <3>1, <3>2
  <2> QED
    BY <2>1, <2>2, <2>3, <2>4
<1>4. CASE Wallet!ProvisionSubaddrs(r)
  <2>1. PICK m \in 0..MaxMinors :
          Wallet!Set(r, [Wallet!NoCall EXCEPT !.at = "probe", !.kind = "widen",
                                            !.width = Wallet!ProvisionWidthFor(m)])
    BY <1>4 DEF Wallet!ProvisionSubaddrs
  <2>2. PICK w \in 0..MaxMinors : w = Wallet!ProvisionWidthFor(m)
    BY WalletBounds DEF Wallet!ProvisionWidthFor, Wallet!Smaller
  <2> DEFINE c == [Wallet!NoCall EXCEPT !.at = "probe", !.kind = "widen", !.width = w]
  <2>3. c.width \in 0..MaxMinors /\ c.ceiling = None
    BY DEF Wallet!NoCall
  <2>4. Wallet!Set(r, c)
    BY <2>1, <2>2
  <2> HIDE DEF c
  <2> QED
    BY <1>2, <2>3, <2>4
<1> QED
    BY <1>3, <1>4

\* The steps of a call that read or write neither the ranges nor a ceiling.
LEMMA MoveCeiling ==
    ASSUME ImportInv, CeilingInv, NEW r \in Requests,
           Wallet!LookUp(r) \/ Wallet!Probe(r) \/ Wallet!Current(r)
    PROVE  CeilingInv'
<1>1. PICK c : c = call[r]
    OBVIOUS
<1>2. account' = account /\ DOMAIN c = ImportFields
    BY <1>1 DEF Wallet!LookUp, Wallet!Probe, Wallet!Current, ImportInv, IsImport
<1>3. \/ \E p : Wallet!Set(r, [c EXCEPT !.at = p])
      \/ \E p, n : Wallet!Set(r, [c EXCEPT !.at = p, !.tries = n])
      \/ Wallet!Set(r, Wallet!AfterAdd(c))
      \/ Wallet!Set(r, Wallet!AfterProvision([c EXCEPT !.held = "error"]))
    BY <1>1 DEF Wallet!LookUp, Wallet!Probe, Wallet!Current
<1>4. \E d : Wallet!Set(r, d) /\ SameAsk(c, d)
  <2>1. SameAsk(c, Wallet!AfterProvision([c EXCEPT !.held = "error"]))
    <3>1. PICK d : d = [c EXCEPT !.held = "error"]
      OBVIOUS
    <3>2. SameAsk(c, d)
      BY <1>2, <3>1, MovesOn
    <3> QED
      BY <3>1, <3>2, AfterMovesOn, SameAskTwice DEF SameAsk
  <2> QED
    BY <1>2, <1>3, <2>1, MovesOn, AfterMovesOn
<1> QED
    BY <1>1, <1>2, <1>4, OneMovesOn

LEMMA AddCeiling ==
    ASSUME ImportInv, CeilingInv, NEW r \in Requests, Wallet!AddAccount(r)
    PROVE  CeilingInv'
<1>1. PICK c : c = call[r]
    OBVIOUS
<1>2. DOMAIN c = ImportFields
    BY <1>1 DEF ImportInv, IsImport
<1>3. \/ account' = account
      \/ ~Wallet!Registered /\ account' = [Wallet!NoAccount EXCEPT !.scan = tip]
    BY DEF Wallet!AddAccount
<1>4. account'.ranges = account.ranges
    BY <1>3 DEF Wallet!Registered, Wallet!NoAccount
<1>5. \/ Wallet!Set(r, [c EXCEPT !.at = "error"])
      \/ Wallet!Set(r, Wallet!AfterAdd([c EXCEPT !.fresh = TRUE]))
    BY <1>1 DEF Wallet!AddAccount
<1>6. PICK d : d = [c EXCEPT !.fresh = TRUE]
    OBVIOUS
<1>7. SameAsk(c, d)
    BY <1>2, <1>6, MovesOn
<1>8. SameAsk(c, Wallet!AfterAdd(d))
    BY <1>7, AfterMovesOn, SameAskTwice DEF SameAsk
<1>9. \E e : Wallet!Set(r, e) /\ SameAsk(c, e)
    BY <1>2, <1>5, <1>6, <1>8, MovesOn
<1> QED
    BY <1>1, <1>4, <1>9, OneMovesOn

LEMMA RescanCeiling ==
    ASSUME ImportInv, CeilingInv, NEW r \in Requests, Wallet!Rescan(r)
    PROVE  CeilingInv'
<1>1. PICK c : c = call[r]
    OBVIOUS
<1>2. DOMAIN c = ImportFields /\ account \in ImportAccount
    BY <1>1 DEF ImportInv, IsImport
<1>3. \/ account' = account \/ account' = [account EXCEPT !.scan = c.start]
      \/ account' = [account EXCEPT !.intact = FALSE]
    BY <1>1 DEF Wallet!Rescan, Wallet!Rescanned
<1>4. account'.ranges = account.ranges
    BY <1>2, <1>3 DEF ImportAccount
<1>5. \/ \E p : Wallet!Set(r, [c EXCEPT !.at = p])
      \/ \E n : Wallet!Set(r, [c EXCEPT !.tries = n])
    BY <1>1 DEF Wallet!Rescan
<1>6. \E d : Wallet!Set(r, d) /\ SameAsk(c, d)
    BY <1>2, <1>5, MovesOn
<1> QED
    BY <1>1, <1>4, <1>6, OneMovesOn

\* Provisioning: the ceiling is read off the ranges as they are then.
LEMMA ProvisionCeiling ==
    ASSUME ImportInv, CeilingInv, NEW r \in Requests, Wallet!Provision(r)
    PROVE  CeilingInv'
<1>1. PICK c : c = call[r]
    OBVIOUS
<1>2. DOMAIN c = ImportFields /\ c.width \in 0..MaxMinors /\ account \in ImportAccount
    BY <1>1 DEF ImportInv, IsImport, CeilingInv
<1>3. PICK o \in Wallet!Outcomes :
        LET up == o # "failed" /\ Wallet!Registered /\ capacity >= c.width
            rs == IF up THEN account.ranges \cup {<<0, c.width - 1>>} ELSE account.ranges
            confirmed == Wallet!ConfirmedMinorMax(rs)
        IN  /\ account' = [account EXCEPT !.ranges = rs]
            /\ Wallet!Set(r, IF up /\ o = "done"
                    THEN Wallet!AfterProvision([c EXCEPT !.ceiling = confirmed,
                             !.held = IF Wallet!Covers(c, confirmed) THEN "ok" ELSE "error"])
                    ELSE IF c.tries + 1 < Wallet!Attempts THEN [c EXCEPT !.tries = @ + 1]
                    ELSE Wallet!AfterProvision([c EXCEPT !.held = "error"]))
    BY <1>1 DEF Wallet!Provision
<1>4. PICK ranges \in {account.ranges, account.ranges \cup {<<0, c.width - 1>>}} :
        /\ account' = [account EXCEPT !.ranges = ranges]
        /\ \/ \E h : Wallet!Set(r, Wallet!AfterProvision(
                       [c EXCEPT !.ceiling = Wallet!ConfirmedMinorMax(ranges), !.held = h]))
           \/ \E n : Wallet!Set(r, [c EXCEPT !.tries = n])
           \/ Wallet!Set(r, Wallet!AfterProvision([c EXCEPT !.held = "error"]))
    BY <1>3
<1>5. /\ account'.ranges = ranges /\ account.ranges \subseteq ranges
      /\ ranges \subseteq MinorRanges
  <2>1. <<0, c.width - 1>> \in MinorRanges /\ account.ranges \subseteq MinorRanges
    BY <1>2, WalletBounds DEF MinorRanges, CeilingInv
  <2> QED
    BY <1>2, <1>4, <2>1 DEF ImportAccount
<1>6. ASSUME NEW d, Wallet!Set(r, d), d.width = c.width,
             d.ceiling = c.ceiling \/ d.ceiling = Wallet!ConfirmedMinorMax(ranges)
      PROVE  CeilingInv'
  <2>1. d.ceiling = None \/ Covered(d.ceiling, ranges)
    BY <1>1, <1>5, <1>6, ConfirmedIsCovered, CoveredGrows DEF CeilingInv
  <2> QED
    BY <1>2, <1>5, <1>6, <2>1, OneCeiling
<1>7. ASSUME NEW h, NEW k
      PROVE  LET d == Wallet!AfterProvision([c EXCEPT !.ceiling = k, !.held = h])
             IN  d.width = c.width /\ d.ceiling = k
  <2>1. PICK d : d = [c EXCEPT !.ceiling = k, !.held = h]
    OBVIOUS
  <2>2. DOMAIN d = ImportFields /\ d.width = c.width /\ d.ceiling = k
    BY <1>2, <2>1 DEF ImportFields
  <2> QED
    BY <2>1, <2>2, AfterMovesOn DEF SameAsk
<1>8. SameAsk(c, Wallet!AfterProvision([c EXCEPT !.held = "error"]))
  <2>1. PICK d : d = [c EXCEPT !.held = "error"]
    OBVIOUS
  <2>2. SameAsk(c, d)
    BY <1>2, <2>1, MovesOn
  <2> QED
    BY <2>1, <2>2, AfterMovesOn, SameAskTwice DEF SameAsk
<1>9. CASE \E h : Wallet!Set(r, Wallet!AfterProvision(
                    [c EXCEPT !.ceiling = Wallet!ConfirmedMinorMax(ranges), !.held = h]))
    BY <1>6, <1>7, <1>9
<1>10. CASE \E n : Wallet!Set(r, [c EXCEPT !.tries = n])
    BY <1>2, <1>6, <1>10, MovesOn DEF SameAsk
<1>11. CASE Wallet!Set(r, Wallet!AfterProvision([c EXCEPT !.held = "error"]))
    BY <1>6, <1>8, <1>11 DEF SameAsk
<1> QED
    BY <1>4, <1>9, <1>10, <1>11

\* Steps of the process as a whole, the LWS and the chain.
LEMMA OtherCeiling ==
    ASSUME ImportInv, CeilingInv,
           \/ Wallet!Crash \/ Wallet!Scan \/ Wallet!Mine \/ Wallet!LwsRestart
           \/ Wallet!ProvisionedElsewhere \/ UNCHANGED Wallet!vars
    PROVE  CeilingInv'
<1>1. account.ranges \subseteq account'.ranges /\ account'.ranges \subseteq MinorRanges
  <2>1. CASE Wallet!ProvisionedElsewhere
    <3>1. account' = [account EXCEPT !.ranges = account.ranges \cup {<<MaxMinors, MaxMinors>>}]
      BY <2>1 DEF Wallet!ProvisionedElsewhere
    <3>2. <<MaxMinors, MaxMinors>> \in MinorRanges
      BY WalletBounds DEF MinorRanges
    <3> QED
      BY <3>1, <3>2 DEF ImportInv, ImportAccount, CeilingInv
  <2>2. CASE Wallet!Scan
    <3>1. \E n, m : account' = [account EXCEPT !.scan = n, !.seen = m]
      BY <2>2 DEF Wallet!Scan
    <3>2. account'.ranges = account.ranges
      BY <3>1 DEF ImportInv, ImportAccount
    <3> QED
      BY <3>2 DEF CeilingInv
  <2>3. CASE Wallet!Crash \/ Wallet!Mine \/ Wallet!LwsRestart \/ UNCHANGED Wallet!vars
    <3>1. account' = account
      BY <2>3 DEF Wallet!Crash, Wallet!Mine, Wallet!LwsRestart, Wallet!vars
    <3> QED
      BY <3>1 DEF CeilingInv
  <2> QED
    BY <2>1, <2>2, <2>3
<1>2. ASSUME NEW r \in Requests
      PROVE  call'[r].width = call[r].width /\ call'[r].ceiling = call[r].ceiling
  <2>1. CASE Wallet!Crash
    <3>1. PICK c : c = call[r]
      OBVIOUS
    <3>2. call'[r] = c \/ call'[r] = [c EXCEPT !.at = "error"]
      BY <2>1, <3>1 DEF Wallet!Crash
    <3>3. DOMAIN c = ImportFields
      BY <3>1 DEF ImportInv, IsImport
    <3>4. PICK d : d = call'[r]
      OBVIOUS
    <3>5. d = c \/ d = [c EXCEPT !.at = "error"]
      BY <3>2, <3>4
    <3>6. d.width = c.width /\ d.ceiling = c.ceiling
      BY <3>3, <3>5 DEF ImportFields
    <3> QED
      BY <3>1, <3>4, <3>6
  <2>2. CASE \/ Wallet!Scan \/ Wallet!Mine \/ Wallet!LwsRestart
             \/ Wallet!ProvisionedElsewhere \/ UNCHANGED Wallet!vars
    BY <2>2 DEF Wallet!Scan, Wallet!Mine, Wallet!LwsRestart, Wallet!ProvisionedElsewhere,
       Wallet!vars
  <2> QED
    BY <2>1, <2>2
<1>3. \A r \in Requests :
         /\ call'[r].width \in 0..MaxMinors
         /\ call'[r].ceiling = None \/ Covered(call'[r].ceiling, account'.ranges)
    BY <1>1, <1>2, CoveredGrows DEF CeilingInv
<1> QED
    BY <1>1, <1>3 DEF CeilingInv, Covered

LEMMA CeilingStarts == Wallet!Init => CeilingInv
<1>1. Wallet!NoCall.width = 0 /\ Wallet!NoCall.ceiling = None /\ 0 \in 0..MaxMinors
    BY WalletBounds DEF Wallet!NoCall
<1>2. Wallet!NoAccount.ranges = {}
    BY DEF Wallet!NoAccount
<1> QED
    BY <1>1, <1>2 DEF Wallet!Init, CeilingInv

LEMMA CeilingStep == ImportInv /\ CeilingInv /\ [Wallet!Next]_(Wallet!vars) => CeilingInv'
    BY AskCeiling, MoveCeiling, AddCeiling, RescanCeiling, ProvisionCeiling, OtherCeiling
    DEF Wallet!Next

\* What an answer promises is scanned.  An import that added its account and was
\* answered with success has lost nothing (import_account: provisioning before the
\* rescan, the rescan before the answer), and every index up to a reported ceiling is
\* provisioned (confirmed_minor_max), for any number of requests, payments, widths and
\* faults.
THEOREM AnswersAreScanned == Wallet!Spec => []ScansWhatItPromises
<1>1. Wallet!Init => ImportInv /\ CeilingInv
    BY ImportStarts, CeilingStarts
<1>2. ImportInv /\ CeilingInv /\ [Wallet!Next]_(Wallet!vars) => (ImportInv /\ CeilingInv)'
    BY ImportStep, CeilingStep
<1>3. ImportInv => Wallet!ImportedComplete
    BY DEF ImportInv, ImportSound, Adder, AllSeen, Wallet!ImportedComplete, Wallet!Complete
<1>4. CeilingInv => Wallet!CeilingScanned
    BY DEF CeilingInv, Covered, Wallet!CeilingScanned
<1>5. ImportInv /\ CeilingInv => ScansWhatItPromises
    BY <1>3, <1>4 DEF ScansWhatItPromises, Wallet!ScansWhatItPromises
<1> QED
    BY <1>1, <1>2, <1>5, PTL DEF Wallet!Spec
===============================================================================
