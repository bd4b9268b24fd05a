---------------------------- MODULE OperatorProofs ----------------------------
(***************************************************************************)
(* Theorems about the operator's plane: the audit chain, relay admission,  *)
(* and the live configuration and its guarded edits, for any number of     *)
(* concurrent appends, replicas, settings and events.                      *)
(*                                                                         *)
(* LogInv: every row links to the one before, and an append about to       *)
(* insert knows a row of the log, stale or not.  The other parts are told  *)
(* where their sections begin.                                             *)
(***************************************************************************)
EXTENDS MCOperator, Sequences, TLAPS

\* The hash the row after row n links to.
LinkTo(n) == IF n = 0 THEN Audit!Genesis ELSE log[n].hash

\* Every row is the one an append made of its number, its entry and the row before.
RowsLinked ==
    \A i \in 1..Len(log) : \E e \in Actions : log[i] = Audit!Row(i, e, LinkTo(i - 1))

\* An append that is about to insert knows a row of the log and its hash, stale or
\* not: it is the UNIQUE seq that tells.
ReadsLog(a) == tx[a].pc = "insert" => tx[a].seq \in 0..Len(log) /\ tx[a].prev = LinkTo(tx[a].seq)

IsLog == \E S : log \in Seq(S)

LogInv ==
    /\ IsLog /\ RowsLinked
    /\ tx = [a \in Actions |-> tx[a]]
    /\ \A a \in Actions : ReadsLog(a)

\* An append leaves the rows before it alone.
LEMMA Appended ==
    ASSUME NEW S, NEW seq \in Seq(S), NEW row
    PROVE  /\ Append(seq, row) \in Seq(S \cup {row})
           /\ Len(Append(seq, row)) = Len(seq) + 1 /\ Len(seq) \in Nat
           /\ \A i \in 1..Len(seq) : Append(seq, row)[i] = seq[i]
           /\ Append(seq, row)[Len(seq) + 1] = row
<1>1. seq \in Seq(S \cup {row})
    OBVIOUS
<1> QED
    BY <1>1

LEMMA LogStays ==
    ASSUME LogInv, UNCHANGED log
    PROVE  IsLog' /\ RowsLinked' /\ \A n \in 0..Len(log) : LinkTo(n)' = LinkTo(n)
    BY DEF LogInv, IsLog, RowsLinked, LinkTo

LEMMA LogStep == ASSUME LogInv, [Audit!Next]_(Audit!vars) PROVE LogInv'
<1>1. CASE UNCHANGED Audit!vars
    BY <1>1 DEF LogInv, IsLog, RowsLinked, LinkTo, ReadsLog, Audit!vars
<1>2. ASSUME NEW a \in Actions, Audit!Begin(a) \/ Audit!Lock(a) \/ Audit!RollBack(a) PROVE LogInv'
  <2>1. UNCHANGED log /\ \E to : Audit!Goes(a, to) /\ to # "insert"
    BY <1>2 DEF Audit!Begin, Audit!Lock, Audit!RollBack
  <2>2. PICK to : Audit!Goes(a, to) /\ to # "insert"
    BY <2>1
  <2>3. tx' = [b \in Actions |-> tx'[b]]
    BY <2>2 DEF LogInv, Audit!Goes
  <2>4. \A b \in Actions : ReadsLog(b)'
    BY <2>1, <2>2, LogStays DEF LogInv, Audit!Goes, ReadsLog
  <2> QED
    BY <2>1, <2>3, <2>4, LogStays DEF LogInv
<1>3. ASSUME NEW a \in Actions, Audit!ReadLast(a) PROVE LogInv'
  <2>1. UNCHANGED log /\ tx' = [tx EXCEPT ![a] = [pc |-> "insert", seq |-> Len(log),
                                   prev |-> IF log = <<>> THEN Audit!Genesis ELSE log[Len(log)].hash]]
    BY <1>3 DEF Audit!ReadLast
  <2>2. Len(log) \in Nat /\ (log = <<>> <=> Len(log) = 0)
    BY DEF LogInv, IsLog
  <2>3. ASSUME NEW b \in Actions PROVE ReadsLog(b)'
    BY <2>1, <2>2, LogStays DEF LogInv, ReadsLog, LinkTo
  <2> QED
    BY <2>1, <2>3, LogStays DEF LogInv
<1>4. ASSUME NEW a \in Actions, Audit!Commit(a) PROVE LogInv'
  <2>1. /\ tx[a].pc = "insert" /\ tx' = [tx EXCEPT ![a].pc = "ended"]
        /\ tx' = [b \in Actions |-> tx'[b]]
    BY <1>4 DEF Audit!Commit, Audit!Goes, LogInv
  <2>2. CASE UNCHANGED log
    BY <2>1, <2>2, LogStays DEF LogInv, ReadsLog
  <2>3. CASE tx[a].seq = Len(log) /\ log' = Append(log, Audit!Row(tx[a].seq + 1, a, tx[a].prev))
    <3> DEFINE row == Audit!Row(Len(log) + 1, a, LinkTo(Len(log)))
    <3>1. log' = Append(log, row)
      BY <2>1, <2>3 DEF LogInv, ReadsLog
    <3>2. PICK S : log \in Seq(S)
      BY DEF LogInv, IsLog
    <3>3. /\ log' \in Seq(S \cup {row}) /\ Len(log) \in Nat /\ Len(log') = Len(log) + 1
          /\ \A i \in 1..Len(log) : log'[i] = log[i]
          /\ log'[Len(log) + 1] = row
      <4> HIDE DEF row
      <4> QED
        BY <3>1, <3>2, Appended
    <3>4. \A n \in 0..Len(log) : LinkTo(n)' = LinkTo(n)
      BY <3>3 DEF LinkTo
    <3>5. IsLog'
      BY <3>3 DEF IsLog
    <3>6. ASSUME NEW i \in 1..Len(log')
          PROVE  \E e \in Actions : log'[i] = Audit!Row(i, e, LinkTo(i - 1)')
      <4>1. CASE i = Len(log) + 1
        BY <4>1, <3>3, <3>4 
      <4>2. CASE i \in 1..Len(log)
        <5>1. PICK e \in Actions : log[i] = Audit!Row(i, e, LinkTo(i - 1))
          BY <4>2 DEF LogInv, RowsLinked
        <5>2. i - 1 \in 0..Len(log)
          BY <4>2, <3>3
        <5> QED
          BY <5>1, <5>2, <4>2, <3>3, <3>4
      <4> QED
        BY <4>1, <4>2, <3>3
    <3>7. ASSUME NEW b \in Actions PROVE ReadsLog(b)'
      BY <2>1, <3>3, <3>4 DEF LogInv, ReadsLog
    <3> QED
      BY <2>1, <3>5, <3>6, <3>7 DEF LogInv, RowsLinked, Audit!Row
  <2> QED
    BY <1>4, <2>2, <2>3 DEF Audit!Commit
<1> QED
    BY <1>1, <1>2, <1>3, <1>4 DEF Audit!Next

LEMMA LogInit == Audit!Init => LogInv
<1> SUFFICES ASSUME Audit!Init PROVE LogInv
    OBVIOUS
<1>1. log = <<>> /\ Len(log) = 0
    BY DEF Audit!Init
<1>2. log \in Seq({})
    BY <1>1
<1> QED
    BY <1>1, <1>2 DEF Audit!Init, LogInv, IsLog, RowsLinked, ReadsLog, Audit!NoTx

\* A hash names its number: of rows whose hashes the server wrote, one that verifies
\* at a place is the row the server wrote there.
LEMMA LogTellsEdits == LogInv => Audit!ChainTellsEdits
<1> SUFFICES ASSUME LogInv PROVE Audit!ChainTellsEdits
    OBVIOUS
<1>1. DOMAIN log = 1..Len(log) /\ Len(log) \in Nat
    BY DEF LogInv, IsLog
<1>2. \A i \in 1..Len(log) : /\ log[i].seq = i /\ log[i].prev = LinkTo(i - 1)
                             /\ log[i].hash = <<LinkTo(i - 1), i, log[i].entry>>
                             /\ log[i] = [seq |-> i, entry |-> log[i].entry, prev |-> LinkTo(i - 1),
                                          hash |-> <<LinkTo(i - 1), i, log[i].entry>>]
  <2> TAKE i \in 1..Len(log)
  <2>1. PICK e \in Actions : log[i] = Audit!Row(i, e, LinkTo(i - 1))
    BY DEF LogInv, RowsLinked
  <2>2. log[i] = [seq |-> i, entry |-> e, prev |-> LinkTo(i - 1), hash |-> <<LinkTo(i - 1), i, e>>]
    BY <2>1 DEF Audit!Row, Audit!ChainHash
  <2>3. log[i].entry = e
    BY <2>2
  <2> QED
    BY <2>2, <2>3
<1>3. Audit!Verify(log)
    BY <1>1, <1>2 DEF Audit!Verify, Audit!ChainHash, LinkTo
<1>4. ASSUME NEW n \in DOMAIN log, NEW rows \in Audit!Edited(n), Audit!Verify(rows), NEW i \in 1..n
      PROVE  rows[i] = log[i]
  <2>1. /\ rows[i] = [seq |-> rows[i].seq, entry |-> rows[i].entry, prev |-> rows[i].prev,
                      hash |-> rows[i].hash]
        /\ \E j \in DOMAIN log : rows[i].hash = log[j].hash
    BY <1>4 DEF Audit!Edited
  <2>2. PICK j \in 1..Len(log) : rows[i].hash = log[j].hash
    BY <2>1, <1>1
  <2>3. rows[i].seq = i /\ rows[i].hash = <<rows[i].prev, i, rows[i].entry>>
    BY <1>4 DEF Audit!Verify, Audit!ChainHash, Audit!Edited
  <2>4. <<rows[i].prev, i, rows[i].entry>> = <<LinkTo(j - 1), j, log[j].entry>>
    BY <2>2, <2>3, <1>2
  <2>5. i = j /\ rows[i].prev = LinkTo(j - 1) /\ rows[i].entry = log[j].entry
    BY <2>4
  <2> QED
    BY <2>1, <2>2, <2>3, <2>5, <1>2
<1> QED
    BY <1>3, <1>4 DEF Audit!ChainTellsEdits

\* However many appends race, die or are refused by the UNIQUE seq, the log verifies,
\* and of what can be made of it without the secret only its beginnings do
\* (append_admin_audit, verify_admin_audit_chain).
THEOREM ChainIsTamperEvident == Audit!Spec => []ChainTellsEdits
<1>1. Audit!Init => LogInv
    BY LogInit
<1>2. LogInv /\ [Audit!Next]_(Audit!vars) => LogInv'
    BY LogStep
<1> QED
    BY <1>1, <1>2, LogTellsEdits, PTL DEF Audit!Spec, ChainTellsEdits
-------------------------------------------------------------------------------
(* Admission to the relay.                                                 *)

\* An admission under way: accounts may change under it.
MidFlight == pc \in {"author", "premium", "recipient", "decide"}
\* What is true of the event now.
Now == Relay!True(event, npub, active)
Agree(fact) == fact \in read <=> fact \in held
OnAllowlist == event.author \in Allowed

\* What was read held at some time, all that is true now is among what held, and if
\* nothing changed nothing else ever held.
FactsFollow ==
    MidFlight => /\ event.fits /\ read \subseteq held /\ Now \subseteq held
                 /\ steady => held \subseteq Now

\* Which lookups are behind a step, as long as none failed.
LooksInOrder ==
    /\ pc \in {"author", "premium", "recipient"} => ~OnAllowlist
    /\ pc = "premium" => policy = "premium-post"
    /\ MidFlight /\ OnAllowlist => "allowlisted" \in read
    /\ steady /\ ~OnAllowlist =>
          /\ pc \in {"premium", "recipient", "decide"} => Agree("registered")
          /\ pc \in {"recipient", "decide"} /\ policy = "premium-post" => Agree("premium")
          /\ pc = "decide" /\ "registered" \notin read => Agree("recipient")

\* nostr_pubkey is UNIQUE: a lookup by npub finds the account itself.
NpubsUnique == \A u, v \in Subscribers : npub[u] = npub[v] /\ npub[u] # None => u = v

RelayType ==
    /\ policy \in Policies /\ npub \in [Subscribers -> Npubs \cup {None}]
    /\ active \subseteq Subscribers
    /\ pc \in {"idle", "author", "premium", "recipient", "decide", "done"}

RelayInv ==
    RelayType /\ FactsFollow /\ LooksInOrder /\ NpubsUnique /\ Relay!AdmittedOnFacts

LEMMA AllowlistIsAFact == "allowlisted" \in Now <=> OnAllowlist
    BY DEF Now, OnAllowlist, Relay!True, Relay!Facts

LEMMA RelayInitially == Relay!Init => RelayInv
    BY InstancesOK DEF Relay!Init, RelayInv, RelayType, FactsFollow, LooksInOrder, NpubsUnique,
       Relay!AdmittedOnFacts, MidFlight, Relay!ConstantsOK

\* decide, on facts that held and that agree with them where it looks, is right.
LEMMA DecidesRightly ==
    ASSUME RelayInv, Relay!Decides
    PROVE  Relay!AdmittedOnFacts'
<1>1. /\ pc = "decide" /\ permit' = Relay!Decide(event, read) /\ pc' = "done"
      /\ UNCHANGED <<policy, event, read, held, steady>>
    BY DEF Relay!Decides
<1>2. read \subseteq held /\ (steady => ("allowlisted" \in held => OnAllowlist))
    BY <1>1, AllowlistIsAFact DEF RelayInv, FactsFollow, MidFlight
<1>3. policy \in {"open", "author-allowlist", "inbox-outbox", "premium-post"}
    BY InstancesOK DEF RelayInv, RelayType, Relay!ConstantsOK
<1>4. /\ OnAllowlist => "allowlisted" \in read
      /\ steady /\ ~OnAllowlist => /\ Agree("registered")
                                   /\ policy = "premium-post" => Agree("premium")
                                   /\ "registered" \notin read => Agree("recipient")
    BY <1>1 DEF RelayInv, LooksInOrder, MidFlight
<1> DEFINE wrap == event.kind = "gift_wrap" /\ "recipient" \in held /\ (PowBits => event.proven)
           may == \/ policy = "open" \/ "allowlisted" \in held
                  \/ policy # "premium-post" /\ "registered" \in held
                  \/ policy = "premium-post" /\ \/ "premium" \in held
                                                \/ "registered" \in held
                                                   /\ event.kind \in Relay!Wallet
                  \/ policy # "author-allowlist" /\ wrap
<1>5. Relay!Decide(event, read) => may
    BY <1>2, <1>3 DEF Relay!Decide, Relay!GiftwrapInbox
<1>6. steady /\ may => Relay!Decide(event, read)
    BY <1>2, <1>3, <1>4 DEF Relay!Decide, Relay!GiftwrapInbox, Agree, Relay!Wallet
<1>7. (permit' => may) /\ (steady => (may => permit'))
    BY <1>1, <1>5, <1>6
<1> QED
    BY <1>1, <1>7 DEF Relay!AdmittedOnFacts

\* A lookup answers the truth of its moment, or fails.
LEMMA LookupsFollow ==
    ASSUME RelayInv, MidFlight, MidFlight', NEW fact, NEW holds \in BOOLEAN,
           Relay!LooksUp(fact, holds), holds <=> fact \in Now,
           UNCHANGED <<policy, npub, active, event, held>>
    PROVE  /\ FactsFollow' /\ Now' = Now
           /\ read \subseteq read' /\ read' \subseteq read \cup {fact}
           /\ steady' => steady /\ Agree(fact)'
<1>1. Now' = Now
    BY DEF Now
<1>2. event.fits /\ read \subseteq held /\ Now \subseteq held /\ (steady => held \subseteq Now)
    BY DEF RelayInv, FactsFollow
<1> QED
    BY <1>1, <1>2 DEF FactsFollow, Relay!LooksUp, Agree

LEMMA LookupSteps ==
    ASSUME RelayInv, Relay!LooksUpAuthor \/ Relay!LooksUpPremium \/ Relay!LooksUpRecipient
    PROVE  RelayInv'
<1>1. /\ RelayType' /\ NpubsUnique' /\ pc' # "done" /\ MidFlight /\ MidFlight'
      /\ UNCHANGED <<policy, npub, active, event, held, permit>>
    BY DEF RelayInv, RelayType, NpubsUnique, MidFlight, Relay!LooksUpAuthor,
       Relay!LooksUpPremium, Relay!LooksUpRecipient
<1>2. Relay!AdmittedOnFacts'
    BY <1>1 DEF Relay!AdmittedOnFacts
<1>3. /\ Relay!Registered(event.author) <=> "registered" \in Now
      /\ Relay!Registered(event.to) <=> "recipient" \in Now
      /\ Relay!PremiumNpub(event.author) <=> "premium" \in Now
      /\ Relay!Registered(event.author) \in BOOLEAN /\ Relay!Registered(event.to) \in BOOLEAN
      /\ Relay!PremiumNpub(event.author) \in BOOLEAN
    BY DEF Relay!Registered, Relay!PremiumNpub, Now, Relay!True, Relay!Facts, RelayInv, RelayType
<1>4. CASE Relay!LooksUpAuthor
  <2>1. Relay!LooksUp("registered", Relay!Registered(event.author))
    BY <1>4 DEF Relay!LooksUpAuthor
  <2>2. FactsFollow' /\ read \subseteq read' /\ (steady' => steady /\ Agree("registered")')
    BY <1>1, <1>3, <2>1, LookupsFollow
  <2>3. ~OnAllowlist /\ ~OnAllowlist' /\ pc' \in {"premium", "recipient"}
        /\ (pc' = "premium" <=> policy = "premium-post")
    BY <1>1, <1>4 DEF Relay!LooksUpAuthor, RelayInv, LooksInOrder, OnAllowlist
  <2>4. LooksInOrder'
    BY <1>1, <2>2, <2>3 DEF LooksInOrder, MidFlight
  <2> QED
    BY <1>1, <1>2, <2>2, <2>4 DEF RelayInv
<1>5. CASE Relay!LooksUpPremium
  <2>1. Relay!LooksUp("premium", Relay!PremiumNpub(event.author))
    BY <1>5 DEF Relay!LooksUpPremium
  <2>2. FactsFollow' /\ read \subseteq read' /\ read' \subseteq read \cup {"premium"}
        /\ (steady' => steady /\ Agree("premium")')
    BY <1>1, <1>3, <2>1, LookupsFollow
  <2>3. ~OnAllowlist /\ ~OnAllowlist' /\ pc = "premium" /\ pc' = "recipient"
        /\ (steady => Agree("registered"))
    BY <1>1, <1>5 DEF Relay!LooksUpPremium, RelayInv, LooksInOrder, OnAllowlist
  <2>4. steady' => Agree("registered")'
    BY <1>1, <2>2, <2>3 DEF Agree
  <2>5. LooksInOrder'
    BY <1>1, <2>2, <2>3, <2>4 DEF LooksInOrder, MidFlight
  <2> QED
    BY <1>1, <1>2, <2>2, <2>5 DEF RelayInv
<1>6. CASE Relay!LooksUpRecipient
  <2>1. ~OnAllowlist /\ ~OnAllowlist' /\ pc = "recipient" /\ pc' = "decide"
        /\ (steady => Agree("registered") /\ (policy = "premium-post" => Agree("premium")))
    BY <1>1, <1>6 DEF Relay!LooksUpRecipient, RelayInv, LooksInOrder, OnAllowlist
  <2>2. CASE "registered" \in read
    <3>1. UNCHANGED <<read, steady>> /\ FactsFollow'
      <4>1. UNCHANGED <<read, steady>>
        BY <1>6, <2>2 DEF Relay!LooksUpRecipient
      <4> QED
        BY <1>1, <4>1 DEF RelayInv, FactsFollow, Now
    <3>2. LooksInOrder'
      BY <1>1, <2>1, <2>2, <3>1 DEF LooksInOrder, MidFlight, Agree
    <3> QED
      BY <1>1, <1>2, <3>1, <3>2 DEF RelayInv
  <2>3. CASE "registered" \notin read
    <3>1. Relay!LooksUp("recipient", Relay!Registered(event.to))
      BY <1>6, <2>3 DEF Relay!LooksUpRecipient
    <3>2. FactsFollow' /\ read \subseteq read' /\ read' \subseteq read \cup {"recipient"}
          /\ (steady' => steady /\ Agree("recipient")')
      BY <1>1, <1>3, <3>1, LookupsFollow
    <3>3. steady' => Agree("registered")' /\ (policy = "premium-post" => Agree("premium")')
      BY <1>1, <2>1, <3>2 DEF Agree
    <3>4. LooksInOrder'
      BY <1>1, <2>1, <3>2, <3>3 DEF LooksInOrder, MidFlight
    <3> QED
      BY <1>1, <1>2, <3>2, <3>4 DEF RelayInv
  <2> QED
    BY <2>2, <2>3
<1> QED
    BY <1>4, <1>5, <1>6

\* Accounts that change under an admission make it unsteady and add to what held.
LEMMA ChangesFollow ==
    ASSUME RelayInv, NEW links \in [Subscribers -> Npubs \cup {None}],
           NEW paying \in SUBSET Subscribers, Relay!Change(links, paying),
           \A u, v \in Subscribers : links[u] = links[v] /\ links[u] # None => u = v
    PROVE  RelayInv'
<1>1. /\ npub' = links /\ active' = paying /\ UNCHANGED <<policy, event, pc, read, permit>>
      /\ steady' => steady /\ ~MidFlight
      /\ MidFlight => held' = held \cup Relay!True(event, links, paying)
      /\ ~MidFlight => held' = held /\ (steady' <=> steady)
    BY DEF Relay!Change, MidFlight, RelayInv, RelayType
<1>2. RelayType' /\ NpubsUnique'
    BY <1>1 DEF RelayInv, RelayType, NpubsUnique
<1>3. Now' = Relay!True(event, links, paying) /\ (MidFlight' <=> MidFlight)
    BY <1>1 DEF Now, MidFlight
<1>4. FactsFollow'
    BY <1>1, <1>3 DEF RelayInv, FactsFollow
<1>5. LooksInOrder'
    BY <1>1, <1>3 DEF RelayInv, LooksInOrder, OnAllowlist, MidFlight
<1>6. Relay!AdmittedOnFacts'
    BY <1>1 DEF RelayInv, Relay!AdmittedOnFacts, MidFlight
<1> QED
    BY <1>2, <1>4, <1>5, <1>6 DEF RelayInv

LEMMA RelayStep == ASSUME RelayInv, [Relay!Next]_(Relay!vars) PROVE RelayInv'
<1>1. CASE UNCHANGED Relay!vars
    BY <1>1 DEF RelayInv, RelayType, FactsFollow, LooksInOrder, NpubsUnique, Now, Agree,
       OnAllowlist, MidFlight, Relay!AdmittedOnFacts, Relay!vars
<1>2. ASSUME NEW e \in Relay!Event, Relay!Receives(e) PROVE RelayInv'
  <2>1. /\ event' = e /\ held' = Relay!True(e, npub, active) /\ steady' = TRUE /\ permit' = FALSE
        /\ read' = IF e.author \in Allowed THEN {"allowlisted"} ELSE {}
        /\ pc' = IF ~e.fits THEN "done" ELSE IF e.author \in Allowed THEN "decide" ELSE "author"
        /\ UNCHANGED <<policy, npub, active>>
    BY <1>2 DEF Relay!Receives
  <2>2. RelayType' /\ NpubsUnique' /\ Relay!AdmittedOnFacts'
    BY <2>1 DEF RelayInv, RelayType, NpubsUnique, Relay!AdmittedOnFacts
  <2>3. Now' = held'
    BY <2>1 DEF Now
  <2>4. read' \subseteq held'
    BY <2>1 DEF Relay!True, Relay!Facts
  <2>5. FactsFollow' /\ LooksInOrder'
    BY <2>1, <2>3, <2>4 DEF FactsFollow, LooksInOrder, MidFlight, OnAllowlist
  <2> QED
    BY <2>2, <2>5 DEF RelayInv
<1>3. CASE Relay!LooksUpAuthor \/ Relay!LooksUpPremium \/ Relay!LooksUpRecipient
    BY <1>3, LookupSteps
<1>4. CASE Relay!Decides
    BY <1>4, DecidesRightly DEF Relay!Decides, RelayInv, RelayType, FactsFollow, LooksInOrder,
       NpubsUnique, MidFlight
<1>5. ASSUME NEW u \in Subscribers,
             (\E p \in Npubs : Relay!Links(u, p)) \/ Relay!Pays(u) \/ Relay!Lapses(u)
             \/ Relay!Erased(u)
      PROVE  RelayInv'
  <2>1. npub \in [Subscribers -> Npubs \cup {None}] /\ active \in SUBSET Subscribers /\ NpubsUnique
    BY DEF RelayInv, RelayType
  <2>2. ASSUME NEW p \in Npubs, Relay!Links(u, p) PROVE RelayInv'
    <3>1. /\ [npub EXCEPT ![u] = p] \in [Subscribers -> Npubs \cup {None}]
          /\ \A v, w \in Subscribers : /\ [npub EXCEPT ![u] = p][v] = [npub EXCEPT ![u] = p][w]
                                       /\ [npub EXCEPT ![u] = p][v] # None
                                       => v = w
      BY <2>1, <2>2 DEF Relay!Links, NpubsUnique
    <3> QED
      BY <2>1, <2>2, <3>1, ChangesFollow DEF Relay!Links
  <2>3. CASE Relay!Pays(u) \/ Relay!Lapses(u)
    <3>1. active \cup {u} \in SUBSET Subscribers /\ active \ {u} \in SUBSET Subscribers
      BY <2>1
    <3> QED
      BY <2>1, <2>3, <3>1, ChangesFollow DEF Relay!Pays, Relay!Lapses, NpubsUnique
  <2>4. CASE Relay!Erased(u)
    <3>1. /\ [npub EXCEPT ![u] = None] \in [Subscribers -> Npubs \cup {None}]
          /\ active \ {u} \in SUBSET Subscribers
          /\ \A v, w \in Subscribers : /\ [npub EXCEPT ![u] = None][v] = [npub EXCEPT ![u] = None][w]
                                       /\ [npub EXCEPT ![u] = None][v] # None
                                       => v = w
      BY <2>1 DEF NpubsUnique
    <3> QED
      BY <2>4, <3>1, ChangesFollow DEF Relay!Erased
  <2> QED
    BY <1>5, <2>2, <2>3, <2>4
<1> QED
    BY <1>1, <1>2, <1>3, <1>4, <1>5 DEF Relay!Next

\* An account's own premium is the only one its npub can name.
LEMMA RightsTold == RelayInv => Relay!NeverHidden
<1> SUFFICES ASSUME RelayInv, NEW u \in Subscribers, npub[u] # None
             PROVE  LET e == [author |-> npub[u], kind |-> "general", to |-> npub[u],
                              proven |-> FALSE, fits |-> TRUE]
                    IN  Relay!Decide(e, Relay!True(e, npub, active)) => Relay!CanPostGeneral(u)
    BY DEF Relay!NeverHidden
<1> DEFINE e == [author |-> npub[u], kind |-> "general", to |-> npub[u], proven |-> FALSE,
                 fits |-> TRUE]
<1>1. e.author = npub[u] /\ e.kind = "general"
    OBVIOUS
<1> HIDE DEF e
<1>2. "premium" \in Relay!True(e, npub, active) => u \in active
    BY <1>1 DEF Relay!True, RelayInv, RelayType, NpubsUnique
<1>3. "allowlisted" \in Relay!True(e, npub, active) => npub[u] \in Allowed
    BY <1>1 DEF Relay!True
<1>4. Relay!Decide(e, Relay!True(e, npub, active)) => Relay!CanPostGeneral(u)
    BY <1>1, <1>2, <1>3 DEF Relay!Decide, Relay!GiftwrapInbox, Relay!Wallet,
       Relay!CanPostGeneral, Relay!GeneralPostingRights
<1> QED
    BY <1>4 DEF e

\* For any accounts, allowlist and policies, and however accounts change between the
\* lookups of an admission: it fails closed, it decides as the facts say when they stayed,
\* and no account is told less than the relay grants it (event_admit, decide,
\* general_posting_rights).
THEOREM AdmissionIsFaithful == Relay!Spec => []AdmissionFaithful
<1>1. Relay!Init => RelayInv
    BY RelayInitially
<1>2. RelayInv /\ [Relay!Next]_(Relay!vars) => RelayInv'
    BY RelayStep
<1>3. RelayInv => AdmissionFaithful
    BY RightsTold DEF RelayInv, AdmissionFaithful, Relay!AdmissionFaithful
<1> QED
    BY <1>1, <1>2, <1>3, PTL DEF Relay!Spec
-------------------------------------------------------------------------------
(* The operator settings: what runs.                                       *)

\* What a PUT in flight carries: the overlay with its patch, once loaded; no field that
\* was captured at boot, once it is about to swap; and a valid configuration with the
\* captured values of those fields, once it is about to store it.
Carries(o) ==
    LET job == edits[o]
    IN  /\ job.pc # "idle" => job.patch \in Patches
        /\ job.pc \in {"put", "write"} => job.merged \in Config!Overlay
        /\ job.pc = "swap" => DOMAIN job.patch \intersect Config!RestartRequired = {}
        /\ job.pc = "store" => /\ job.hot \in Config!Config /\ Config!Validate(job.hot)
                               /\ \A f \in Config!RestartRequired : job.hot[f] = captured[f]

JobFields == {"pc", "patch", "expected", "merged", "todo", "found", "hot"}
IsEdits ==
    /\ edits = [o \in Operators |-> edits[o]]
    /\ \A o \in Operators : DOMAIN edits[o] = JobFields

ConfigInv ==
    /\ IsEdits /\ overlay \in Config!Overlay /\ running \in Config!Config
    /\ Config!RunningValid /\ Config!BootFieldsStay
    /\ \A o \in Operators : Carries(o)

LEMMA BaseIsValid == Base \in Config!Config /\ Config!Validate(Base)
    BY ConfigAssumption DEF Config!ConstantsOK

LEMMA RestartFields == Config!RestartRequired \subseteq Config!Fields
    BY DEF Config!RestartRequired, Config!Fields

\* Laying patches and overlays over configurations yields configurations.
LEMMA PatchApplied ==
    ASSUME NEW S, BOOLEAN \subseteq S, NEW c \in [Config!Fields -> S], NEW p \in Patches
    PROVE  /\ Config!ApplyPatch(c, p) \in [Config!Fields -> S]
           /\ \A f \in Config!Fields \ DOMAIN p : Config!ApplyPatch(c, p)[f] = c[f]
<1>1. PICK F \in SUBSET Config!Fields : p \in [F -> BOOLEAN]
    BY ConfigAssumption DEF Config!ConstantsOK
<1> QED
    BY <1>1 DEF Config!ApplyPatch

LEMMA OverlayApplied ==
    ASSUME NEW c \in Config!Config, NEW ov \in Config!Overlay
    PROVE  Config!ApplyOverlay(c, ov) \in Config!Config
    BY DEF Config!ApplyOverlay, Config!Config, Config!Overlay

LEMMA EffectiveIsValid ==
    ASSUME overlay \in Config!Overlay
    PROVE  Config!Effective \in Config!Config /\ Config!Validate(Config!Effective)
<1>1. Config!ApplyOverlay(Base, overlay) \in Config!Config
    BY BaseIsValid, OverlayApplied
<1> QED
    BY <1>1, BaseIsValid DEF Config!Effective

LEMMA NoJobShape == DOMAIN Config!NoJob = JobFields /\ Config!NoJob.pc = "idle"
    BY DEF Config!NoJob, JobFields

LEMMA ConfigInitially == Config!Init => ConfigInv
<1> SUFFICES ASSUME Config!Init PROVE ConfigInv
    OBVIOUS
<1>1. overlay \in Config!Overlay
  <2>1. \A f \in Config!Fields : Base[f] \in BOOLEAN
    BY BaseIsValid DEF Config!Config
  <2> QED
    BY <2>1 DEF Config!Init, Config!Overlay
<1>2. running = Base /\ captured = Base /\ edits = [o \in Operators |-> Config!NoJob]
    BY DEF Config!Init
<1>3. \A o \in Operators : Carries(o)
    BY <1>2, NoJobShape DEF Carries
<1> QED
    BY <1>1, <1>2, <1>3, BaseIsValid, NoJobShape DEF ConfigInv, IsEdits, Config!RunningValid,
       Config!BootFieldsStay

\* A step of one PUT leaves what the others carry.
LEMMA OthersCarryOn ==
    ASSUME ConfigInv, NEW o \in Operators, NEW job, Config!Goto(o, job), DOMAIN job = JobFields,
           UNCHANGED captured
    PROVE  /\ IsEdits' /\ edits'[o] = job
           /\ \A other \in Operators \ {o} : edits'[other] = edits[other] /\ Carries(other)'
<1>1. edits' = [edits EXCEPT ![o] = job] /\ edits = [p \in Operators |-> edits[p]]
    BY DEF Config!Goto, ConfigInv, IsEdits
<1>2. edits'[o] = job /\ \A other \in Operators \ {o} : edits'[other] = edits[other]
    BY <1>1
<1>3. IsEdits'
    BY <1>1, <1>2 DEF IsEdits, ConfigInv
<1>4. ASSUME NEW other \in Operators \ {o} PROVE Carries(other)'
  <2>1. Carries(other)
    BY DEF ConfigInv
  <2> QED
    BY <1>2, <2>1 DEF Carries
<1> QED
    BY <1>2, <1>3, <1>4

LEMMA ConfigStep == ASSUME ConfigInv, [Config!Next]_(Config!vars) PROVE ConfigInv'
<1>1. CASE UNCHANGED Config!vars
    BY <1>1 DEF ConfigInv, IsEdits, Carries, Config!RunningValid, Config!BootFieldsStay,
       Config!vars
<1>2. ASSUME NEW o \in Operators, NEW job, Config!Goto(o, job), DOMAIN job = JobFields,
             Carries(o)', UNCHANGED captured, overlay' \in Config!Overlay, running' \in Config!Config,
             Config!RunningValid', Config!BootFieldsStay'
      PROVE  ConfigInv'
    BY <1>2, OthersCarryOn DEF ConfigInv
<1>3. ASSUME NEW o \in Operators, NEW job, Config!Goto(o, job), job = Config!NoJob,
             UNCHANGED <<captured, overlay, running>>
      PROVE  ConfigInv'
  <2>1. edits'[o] = Config!NoJob /\ DOMAIN Config!NoJob = JobFields
    BY <1>3, NoJobShape, OthersCarryOn
  <2>2. Carries(o)'
    BY <2>1, NoJobShape DEF Carries
  <2> QED
    BY <1>2, <1>3, <2>1, <2>2 DEF ConfigInv, Config!RunningValid, Config!BootFieldsStay
<1>4. ASSUME NEW o \in Operators, NEW p \in Patches, NEW checked \in BOOLEAN,
             Config!Begin(o, p, checked)
      PROVE  ConfigInv'
  <2> DEFINE job == [Config!NoJob EXCEPT !.pc = "load", !.patch = p,
                                         !.expected = IF checked THEN version ELSE Unset]
  <2>1. Config!Goto(o, job) /\ UNCHANGED <<captured, overlay, running>>
    BY <1>4 DEF Config!Begin
  <2>2. job.pc = "load" /\ job.patch = p /\ DOMAIN job = JobFields
    BY NoJobShape DEF JobFields
  <2> HIDE DEF job
  <2>3. Carries(o)'
    BY <2>1, <2>2, OthersCarryOn DEF Carries
  <2> QED
    BY <1>2, <2>1, <2>2, <2>3 DEF ConfigInv, Config!RunningValid, Config!BootFieldsStay
<1>5. ASSUME NEW o \in Operators, Config!Load(o) PROVE ConfigInv'
  <2> DEFINE merged == Config!ApplyPatch(overlay, edits[o].patch)
             todo == SelectSeq(Config!Sections, LAMBDA s : s \in Config!Touched(edits[o].patch))
             job == [edits[o] EXCEPT !.pc = "put", !.merged = merged, !.todo = todo]
  <2>1. /\ edits[o].pc = "load" /\ UNCHANGED <<captured, overlay, running>>
        /\ Config!Goto(o, job) \/ Config!Goto(o, Config!NoJob)
    BY <1>5 DEF Config!Load
  <2>2. edits[o].patch \in Patches
    BY <2>1 DEF ConfigInv, Carries
  <2>3. merged \in Config!Overlay
    BY <2>2, PatchApplied DEF ConfigInv, Config!Overlay
  <2> HIDE DEF merged, todo
  <2>4. /\ job.pc = "put" /\ job.merged = merged /\ job.patch = edits[o].patch
        /\ DOMAIN job = JobFields
    BY DEF ConfigInv, IsEdits, JobFields
  <2> HIDE DEF job
  <2>5. CASE Config!Goto(o, job)
    <3>1. Carries(o)'
      BY <2>1, <2>2, <2>3, <2>4, <2>5, OthersCarryOn DEF Carries
    <3> QED
      BY <1>2, <2>1, <2>4, <2>5, <3>1 DEF ConfigInv, Config!RunningValid, Config!BootFieldsStay
  <2> QED
    BY <1>3, <2>1, <2>5
<1>6. ASSUME NEW o \in Operators, Config!PutRead(o) PROVE ConfigInv'
  <2> DEFINE job == [edits[o] EXCEPT !.pc = "write", !.found = version[Head(edits[o].todo)]]
  <2>1. /\ edits[o].pc = "put" /\ UNCHANGED <<captured, overlay, running>>
        /\ Config!Goto(o, job) \/ Config!Goto(o, Config!NoJob)
    BY <1>6 DEF Config!PutRead
  <2>2. /\ job.pc = "write" /\ job.merged = edits[o].merged /\ job.patch = edits[o].patch
        /\ DOMAIN job = JobFields
    BY DEF ConfigInv, IsEdits, JobFields
  <2> HIDE DEF job
  <2>3. CASE Config!Goto(o, job)
    <3>1. Carries(o)'
      BY <2>1, <2>2, <2>3, OthersCarryOn DEF Carries, ConfigInv
    <3> QED
      BY <1>2, <2>1, <2>2, <2>3, <3>1 DEF ConfigInv, Config!RunningValid, Config!BootFieldsStay
  <2> QED
    BY <1>3, <2>1, <2>3
<1>7. ASSUME NEW o \in Operators, Config!PutWrite(o) PROVE ConfigInv'
  <2> DEFINE job == [edits[o] EXCEPT !.pc = "put", !.todo = Tail(@), !.found = 0]
             s == Head(edits[o].todo)
  <2>1. /\ edits[o].pc = "write" /\ UNCHANGED <<captured, running>> /\ Config!Goto(o, job)
        /\ overlay' = [f \in Config!Fields |-> IF Config!SectionOf[f] = s THEN edits[o].merged[f]
                                               ELSE overlay[f]]
    BY <1>7 DEF Config!PutWrite
  <2>2. /\ job.pc = "put" /\ job.merged = edits[o].merged /\ job.patch = edits[o].patch
        /\ DOMAIN job = JobFields
    BY DEF ConfigInv, IsEdits, JobFields
  <2> HIDE DEF job, s
  <2>3. edits[o].merged \in Config!Overlay /\ overlay \in Config!Overlay
    BY <2>1 DEF ConfigInv, Carries
  <2>4. overlay' \in Config!Overlay
    BY <2>1, <2>3 DEF Config!Overlay
  <2>5. Carries(o)'
    BY <2>1, <2>2, <2>3, OthersCarryOn DEF Carries, ConfigInv
  <2> QED
    BY <1>2, <2>1, <2>2, <2>4, <2>5 DEF ConfigInv, Config!RunningValid, Config!BootFieldsStay
<1>8. ASSUME NEW o \in Operators, Config!Written(o) PROVE ConfigInv'
  <2> DEFINE job == [edits[o] EXCEPT !.pc = "swap"]
  <2>1. /\ edits[o].pc = "put" /\ UNCHANGED <<captured, overlay, running>>
        /\ \/ /\ DOMAIN edits[o].patch \intersect Config!RestartRequired = {}
              /\ Config!Goto(o, job)
           \/ Config!Goto(o, Config!NoJob)
    BY <1>8 DEF Config!Written
  <2>2. job.pc = "swap" /\ job.patch = edits[o].patch /\ DOMAIN job = JobFields
    BY DEF ConfigInv, IsEdits, JobFields
  <2> HIDE DEF job
  <2>3. CASE DOMAIN edits[o].patch \intersect Config!RestartRequired = {} /\ Config!Goto(o, job)
    <3>1. Carries(o)'
      BY <2>1, <2>2, <2>3, OthersCarryOn DEF Carries, ConfigInv
    <3> QED
      BY <1>2, <2>1, <2>2, <2>3, <3>1 DEF ConfigInv, Config!RunningValid, Config!BootFieldsStay
  <2> QED
    BY <1>3, <2>1, <2>3
<1>9. ASSUME NEW o \in Operators, Config!Swap(o) PROVE ConfigInv'
  <2> DEFINE hot == Config!ApplyPatch(running, edits[o].patch)
             job == [edits[o] EXCEPT !.pc = "store", !.hot = hot]
  <2>1. /\ edits[o].pc = "swap" /\ UNCHANGED <<captured, overlay, running>>
        /\ \/ Config!Validate(hot) /\ Config!Goto(o, job)
           \/ Config!Goto(o, Config!NoJob)
    BY <1>9 DEF Config!Swap
  <2>2. /\ edits[o].patch \in Patches
        /\ DOMAIN edits[o].patch \intersect Config!RestartRequired = {}
    BY <2>1 DEF ConfigInv, Carries
  <2>3. /\ hot \in Config!Config
        /\ \A f \in Config!RestartRequired : hot[f] = captured[f]
    BY <2>2, PatchApplied, RestartFields DEF ConfigInv, Config!Config, Config!BootFieldsStay
  <2> HIDE DEF hot
  <2>4. /\ job.pc = "store" /\ job.hot = hot /\ job.patch = edits[o].patch
        /\ DOMAIN job = JobFields
    BY DEF ConfigInv, IsEdits, JobFields
  <2> HIDE DEF job
  <2>5. CASE Config!Validate(hot) /\ Config!Goto(o, job)
    <3>1. Carries(o)'
      BY <2>1, <2>2, <2>3, <2>4, <2>5, OthersCarryOn DEF Carries
    <3> QED
      BY <1>2, <2>1, <2>4, <2>5, <3>1 DEF ConfigInv, Config!RunningValid, Config!BootFieldsStay
  <2> QED
    BY <1>3, <2>1, <2>5
<1>10. ASSUME NEW o \in Operators, Config!Store(o) PROVE ConfigInv'
  <2>1. /\ edits[o].pc = "store" /\ running' = edits[o].hot /\ Config!Goto(o, Config!NoJob)
        /\ UNCHANGED <<overlay, captured>>
    BY <1>10 DEF Config!Store
  <2>2. running' \in Config!Config /\ Config!RunningValid' /\ Config!BootFieldsStay'
    BY <2>1 DEF ConfigInv, Carries, Config!RunningValid, Config!BootFieldsStay
  <2>3. Carries(o)'
    BY <2>1, NoJobShape, OthersCarryOn DEF Carries
  <2> QED
    BY <1>2, <2>1, <2>2, <2>3, NoJobShape DEF ConfigInv
<1>11. ASSUME NEW o \in Operators, Config!Abort(o) PROVE ConfigInv'
    BY <1>3, <1>11 DEF Config!Abort
<1>12. CASE Config!Drain
    BY <1>12 DEF Config!Drain, ConfigInv, IsEdits, Carries, Config!RunningValid,
       Config!BootFieldsStay
<1>13. CASE Config!Start
  <2>1. /\ running' = Config!Effective /\ captured' = Config!Effective /\ UNCHANGED overlay
        /\ edits' = [o \in Operators |-> Config!NoJob]
    BY <1>13 DEF Config!Start
  <2>2. running' \in Config!Config /\ Config!RunningValid'
    BY <2>1, EffectiveIsValid DEF ConfigInv, Config!RunningValid
  <2>3. \A o \in Operators : Carries(o)'
    BY <2>1, NoJobShape DEF Carries
  <2> QED
    BY <2>1, <2>2, <2>3, NoJobShape DEF ConfigInv, IsEdits, Config!BootFieldsStay
<1> QED
    BY <1>1, <1>4, <1>5, <1>6, <1>7, <1>8, <1>9, <1>10, <1>11, <1>12, <1>13
    DEF Config!Next, Config!Put, Config!SelfRestart, Config!Boot

\* For any edits, consoles, crashes and restarts: the running configuration satisfies the
\* rules of boot, and no swap changes what clients and workers captured at boot
\* (admin_config_put, runtime_class).
THEOREM RunningStaysSound == Config!Spec => []RunningSound
<1>1. Config!Init => ConfigInv
    BY ConfigInitially
<1>2. ConfigInv /\ [Config!Next]_(Config!vars) => ConfigInv'
    BY ConfigStep
<1>3. ConfigInv => RunningSound
    BY DEF ConfigInv, RunningSound
<1> QED
    BY <1>1, <1>2, <1>3, PTL DEF Config!Spec
-------------------------------------------------------------------------------
(* The operator settings: what is stored.                                  *)

\* A saved section keeps its row, whose version only grows.
RowsKept ==
    /\ version = [s \in Config!SectionNames |-> version[s]]
    /\ \A s \in Saved : version[s] \in Nat /\ version[s] > 0

\* A PUT with versions never expects one that is still to come; while a section has the
\* version it expects, what the PUT merged has the section's other fields as they are
\* stored; and once it has read the row, it is at that version and stays there.
Guarded(o) ==
    LET job == edits[o]
        s == Head(job.todo)
    IN  /\ job.expected # Unset =>
              \A t \in Saved : job.expected[t] \in Nat /\ job.expected[t] <= version[t]
        /\ job.pc \in {"put", "write"} /\ job.expected # Unset =>
              \A t \in Saved : job.expected[t] = version[t] =>
                 \A f \in Config!Fields \ DOMAIN job.patch :
                    Config!SectionOf[f] = t => job.merged[f] = overlay[f]
        /\ job.pc = "write" /\ s \in Saved => job.found = version[s]
        /\ job.pc = "write" /\ job.expected # Unset => job.found = job.expected[s]

\* SELECT ... FOR UPDATE lets one transaction at a time past a row that exists.
OneWriter ==
    \A o, p \in Operators :
       /\ edits[o].pc = "write" /\ edits[p].pc = "write"
       /\ Head(edits[o].todo) = Head(edits[p].todo) /\ Head(edits[o].todo) \in Saved
       => o = p

GuardInv == ConfigInv /\ RowsKept /\ OneWriter /\ \A o \in Operators : Guarded(o)

LEMMA GuardInitially == Config!Init => GuardInv
<1> SUFFICES ASSUME Config!Init PROVE GuardInv
    OBVIOUS
<1>1. edits = [o \in Operators |-> Config!NoJob]
      /\ version = [s \in Config!SectionNames |-> IF s \in Saved THEN 1 ELSE 0]
    BY DEF Config!Init
<1>2. Config!NoJob.pc = "idle" /\ Config!NoJob.expected = Unset
    BY DEF Config!NoJob
<1>3. \A o \in Operators : Guarded(o)
    BY <1>1, <1>2 DEF Guarded
<1>4. RowsKept
    BY <1>1, ConfigAssumption DEF RowsKept, Config!ConstantsOK
<1> QED
    BY <1>1, <1>2, <1>3, <1>4, ConfigInitially DEF GuardInv, OneWriter

\* A step of one PUT that writes no row.
LEMMA QuietStep ==
    ASSUME GuardInv, ConfigInv', NEW o \in Operators, NEW job, Config!Goto(o, job),
           DOMAIN job = JobFields, UNCHANGED <<captured, overlay, version>>,
           Guarded(o)',
           job.pc = "write" => \A p \in Operators \ {o} :
               ~(edits[p].pc = "write" /\ Head(edits[p].todo) = Head(job.todo)
                 /\ Head(job.todo) \in Saved)
    PROVE  GuardInv'
<1>1. edits'[o] = job /\ \A p \in Operators \ {o} : edits'[p] = edits[p]
    BY OthersCarryOn DEF GuardInv
<1>2. ASSUME NEW p \in Operators \ {o} PROVE Guarded(p)'
  <2>1. Guarded(p) /\ edits'[p] = edits[p]
    BY <1>1 DEF GuardInv
  <2> QED
    BY <2>1 DEF Guarded
<1>3. OneWriter'
    BY <1>1 DEF GuardInv, OneWriter
<1>4. RowsKept'
    BY DEF GuardInv, RowsKept
<1> QED
    BY <1>2, <1>3, <1>4 DEF GuardInv

\* A step that ends a PUT, or all of them, and writes no row.
LEMMA EndedGuard ==
    ASSUME NEW o \in Operators, edits'[o] = Config!NoJob
    PROVE  Guarded(o)'
<1>1. Config!NoJob.pc = "idle" /\ Config!NoJob.expected = Unset
    BY DEF Config!NoJob
<1> QED
    BY <1>1 DEF Guarded

LEMMA EndStep ==
    ASSUME GuardInv, ConfigInv', NEW o \in Operators, Config!Goto(o, Config!NoJob),
           UNCHANGED <<captured, overlay, version>>
    PROVE  GuardInv'
<1>1. edits'[o] = Config!NoJob
    BY NoJobShape, OthersCarryOn DEF GuardInv
<1>2. Guarded(o)'
    BY <1>1, EndedGuard
<1> QED
    BY <1>2, NoJobShape, QuietStep

\* A write takes its section to the next version and touches no other.
LEMMA WriteStep ==
    ASSUME GuardInv, ConfigInv', NEW o \in Operators, Config!PutWrite(o)
    PROVE  GuardInv'
<1> DEFINE job == [edits[o] EXCEPT !.pc = "put", !.todo = Tail(@), !.found = 0]
           s == Head(edits[o].todo)
<1>1. /\ edits[o].pc = "write" /\ UNCHANGED captured /\ Config!Goto(o, job)
      /\ overlay' = [f \in Config!Fields |-> IF Config!SectionOf[f] = s THEN edits[o].merged[f]
                                             ELSE overlay[f]]
      /\ version' = [version EXCEPT ![s] = edits[o].found + 1]
    BY DEF Config!PutWrite
<1>2. /\ job.pc = "put" /\ job.merged = edits[o].merged /\ job.patch = edits[o].patch
      /\ job.expected = edits[o].expected /\ DOMAIN job = JobFields
    BY DEF GuardInv, ConfigInv, IsEdits, JobFields
<1> HIDE DEF job
<1>3. edits'[o] = job /\ \A p \in Operators \ {o} : edits'[p] = edits[p]
    BY <1>1, <1>2, OthersCarryOn DEF GuardInv
<1>4. s \in Saved => edits[o].found = version[s]
    BY <1>1 DEF GuardInv, Guarded
<1> HIDE DEF s
<1>5. /\ version' = [t \in Config!SectionNames |-> version'[t]]
      /\ \A t \in Saved : /\ t \in Config!SectionNames
                          /\ version[t] \in Nat /\ version[t] > 0
                          /\ version'[t] = IF t = s THEN version[t] + 1 ELSE version[t]
    BY <1>1, <1>4, ConfigAssumption DEF GuardInv, RowsKept, Config!ConstantsOK
<1>6. RowsKept'
    BY <1>5 DEF RowsKept
<1>7. OneWriter'
    BY <1>2, <1>3 DEF GuardInv, OneWriter
<1>8. \A f \in Config!Fields : Config!SectionOf[f] # s => overlay'[f] = overlay[f]
    BY <1>1
<1>9. ASSUME NEW p \in Operators PROVE Guarded(p)'
  <2>1. Guarded(p)
    BY DEF GuardInv
  <2>2. /\ edits'[p].expected = edits[p].expected /\ edits'[p].merged = edits[p].merged
        /\ edits'[p].patch = edits[p].patch
        /\ edits'[p].pc = "write" => p # o /\ edits'[p] = edits[p]
        /\ edits'[p].pc \in {"put", "write"} => edits[p].pc \in {"put", "write"}
    BY <1>1, <1>2, <1>3
  <2>3. edits'[p].expected # Unset =>
           \A t \in Saved : /\ edits'[p].expected[t] \in Nat
                            /\ edits'[p].expected[t] <= version'[t]
                            /\ t = s => edits'[p].expected[t] # version'[t]
                            /\ edits'[p].expected[t] = version'[t] =>
                                  edits[p].expected[t] = version[t] /\ t # s
    BY <1>5, <2>1, <2>2 DEF Guarded
  <2>4. ASSUME edits'[p].pc = "write", Head(edits[p].todo) \in Saved
        PROVE  Head(edits[p].todo) # s
    BY <1>1, <2>2, <2>4 DEF GuardInv, OneWriter, s
  <2>5. edits'[p].pc \in {"put", "write"} /\ edits'[p].expected # Unset =>
           \A t \in Saved : edits'[p].expected[t] = version'[t] =>
              \A f \in Config!Fields \ DOMAIN edits'[p].patch :
                 Config!SectionOf[f] = t => edits'[p].merged[f] = overlay'[f]
    BY <1>8, <2>1, <2>2, <2>3 DEF Guarded
  <2>6. edits'[p].pc = "write" /\ Head(edits'[p].todo) \in Saved
           => edits'[p].found = version'[Head(edits'[p].todo)]
    BY <1>5, <2>1, <2>2, <2>4 DEF Guarded
  <2>7. edits'[p].pc = "write" /\ edits'[p].expected # Unset
           => edits'[p].found = edits'[p].expected[Head(edits'[p].todo)]
    BY <2>1, <2>2 DEF Guarded
  <2> QED
    BY <2>3, <2>5, <2>6, <2>7 DEF Guarded
<1> QED
    BY <1>6, <1>7, <1>9 DEF GuardInv

LEMMA GuardStep == ASSUME GuardInv, [Config!Next]_(Config!vars) PROVE GuardInv'
<1>0. ConfigInv /\ ConfigInv'
    BY ConfigStep DEF GuardInv
<1>1. CASE UNCHANGED Config!vars
    BY <1>0, <1>1 DEF GuardInv, RowsKept, OneWriter, Guarded, Config!vars
<1>2. ASSUME NEW o \in Operators, NEW p \in Patches, NEW checked \in BOOLEAN,
             Config!Begin(o, p, checked)
      PROVE  GuardInv'
  <2> DEFINE job == [Config!NoJob EXCEPT !.pc = "load", !.patch = p,
                                         !.expected = IF checked THEN version ELSE Unset]
  <2>1. Config!Goto(o, job) /\ UNCHANGED <<captured, overlay, version>>
    BY <1>2 DEF Config!Begin
  <2>2. job.pc = "load" /\ job.expected \in {version, Unset} /\ DOMAIN job = JobFields
    BY NoJobShape DEF JobFields
  <2> HIDE DEF job
  <2>3. edits'[o] = job
    BY <1>0, <2>1, <2>2, OthersCarryOn
  <2>4. Guarded(o)'
    BY <2>1, <2>2, <2>3 DEF GuardInv, RowsKept, Guarded
  <2> QED
    BY <1>0, <2>1, <2>2, <2>4, QuietStep
<1>3. ASSUME NEW o \in Operators, Config!Load(o) PROVE GuardInv'
  <2> DEFINE merged == Config!ApplyPatch(overlay, edits[o].patch)
             todo == SelectSeq(Config!Sections, LAMBDA s : s \in Config!Touched(edits[o].patch))
             job == [edits[o] EXCEPT !.pc = "put", !.merged = merged, !.todo = todo]
  <2>1. /\ edits[o].pc = "load" /\ UNCHANGED <<captured, overlay, version>>
        /\ Config!Goto(o, job) \/ Config!Goto(o, Config!NoJob)
    BY <1>3 DEF Config!Load
  <2>2. \A f \in Config!Fields \ DOMAIN edits[o].patch : merged[f] = overlay[f]
    BY DEF Config!ApplyPatch
  <2> HIDE DEF merged, todo
  <2>3. /\ job.pc = "put" /\ job.merged = merged /\ job.patch = edits[o].patch
        /\ job.expected = edits[o].expected /\ DOMAIN job = JobFields
    BY <1>0 DEF ConfigInv, IsEdits, JobFields
  <2> HIDE DEF job
  <2>4. CASE Config!Goto(o, job)
    <3>1. edits'[o] = job
      BY <1>0, <2>1, <2>3, <2>4, OthersCarryOn
    <3>2. Guarded(o)'
      BY <2>1, <2>2, <2>3, <3>1 DEF GuardInv, Guarded
    <3> QED
      BY <1>0, <2>1, <2>3, <2>4, <3>2, QuietStep
  <2> QED
    BY <1>0, <2>1, <2>4, EndStep
<1>4. ASSUME NEW o \in Operators, Config!PutRead(o) PROVE GuardInv'
  <2> DEFINE s == Head(edits[o].todo)
             job == [edits[o] EXCEPT !.pc = "write", !.found = version[s]]
  <2>1. /\ edits[o].pc = "put" /\ UNCHANGED <<captured, overlay, version>> /\ ~Config!RowLocked(s)
        /\ \/ /\ Config!Goto(o, job)
              /\ edits[o].expected # Unset => edits[o].expected[s] = version[s]
           \/ Config!Goto(o, Config!NoJob)
    BY <1>4 DEF Config!PutRead
  <2>2. /\ job.pc = "write" /\ job.merged = edits[o].merged /\ job.patch = edits[o].patch
        /\ job.expected = edits[o].expected /\ job.found = version[s] /\ Head(job.todo) = s
        /\ DOMAIN job = JobFields
    BY <1>0 DEF ConfigInv, IsEdits, JobFields
  <2> HIDE DEF job
  <2>3. CASE /\ Config!Goto(o, job)
             /\ edits[o].expected # Unset => edits[o].expected[s] = version[s]
    <3>1. edits'[o] = job
      BY <1>0, <2>1, <2>2, <2>3, OthersCarryOn
    <3>2. Guarded(o)'
      BY <2>1, <2>2, <2>3, <3>1 DEF GuardInv, Guarded
    <3>3. ASSUME NEW p \in Operators \ {o}, edits[p].pc = "write", Head(edits[p].todo) = s,
                 s \in Saved
          PROVE  FALSE
      <4>1. edits[p].found > 0
        BY <3>3 DEF GuardInv, Guarded, RowsKept
      <4> QED
        BY <2>1, <3>3, <4>1 DEF Config!RowLocked
    <3> QED
      BY <1>0, <2>1, <2>2, <2>3, <3>2, <3>3, QuietStep
  <2> QED
    BY <1>0, <2>1, <2>3, EndStep
<1>5. ASSUME NEW o \in Operators, Config!PutWrite(o) PROVE GuardInv'
    BY <1>0, <1>5, WriteStep
<1>6. ASSUME NEW o \in Operators, Config!Written(o) \/ Config!Swap(o) PROVE GuardInv'
  <2>1. /\ UNCHANGED <<captured, overlay, version>>
        /\ \/ Config!Goto(o, [edits[o] EXCEPT !.pc = "swap"])
           \/ \E hot : Config!Goto(o, [edits[o] EXCEPT !.pc = "store", !.hot = hot])
           \/ Config!Goto(o, Config!NoJob)
    BY <1>6 DEF Config!Written, Config!Swap
  <2>2. ASSUME NEW job, Config!Goto(o, job), DOMAIN job = JobFields,
               job.pc \in {"swap", "store"}, job.expected = edits[o].expected
        PROVE  GuardInv'
    <3>1. edits'[o] = job
      BY <1>0, <2>1, <2>2, OthersCarryOn
    <3>2. Guarded(o)'
      BY <2>1, <2>2, <3>1 DEF GuardInv, Guarded
    <3> QED
      BY <1>0, <2>1, <2>2, <3>2, QuietStep
  <2>3. CASE Config!Goto(o, [edits[o] EXCEPT !.pc = "swap"])
    <3> DEFINE job == [edits[o] EXCEPT !.pc = "swap"]
    <3>1. DOMAIN job = JobFields /\ job.pc = "swap" /\ job.expected = edits[o].expected
      BY <1>0 DEF ConfigInv, IsEdits, JobFields
    <3> QED
      BY <2>2, <2>3, <3>1
  <2>4. ASSUME NEW hot, Config!Goto(o, [edits[o] EXCEPT !.pc = "store", !.hot = hot])
        PROVE  GuardInv'
    <3> DEFINE job == [edits[o] EXCEPT !.pc = "store", !.hot = hot]
    <3>1. DOMAIN job = JobFields /\ job.pc = "store" /\ job.expected = edits[o].expected
      BY <1>0 DEF ConfigInv, IsEdits, JobFields
    <3> QED
      BY <2>2, <2>4, <3>1
  <2> QED
    BY <1>0, <2>1, <2>3, <2>4, EndStep
<1>7. ASSUME NEW o \in Operators, Config!Store(o) \/ Config!Abort(o) PROVE GuardInv'
    BY <1>0, <1>7, EndStep DEF Config!Store, Config!Abort
<1>8. CASE Config!Drain
    BY <1>0, <1>8 DEF Config!Drain, GuardInv, RowsKept, OneWriter, Guarded
<1>9. CASE Config!Start
  <2>1. edits' = [o \in Operators |-> Config!NoJob] /\ UNCHANGED <<overlay, version>>
    BY <1>9 DEF Config!Start
  <2>2. \A o \in Operators : Guarded(o)' /\ edits'[o].pc = "idle"
    BY <2>1, EndedGuard, NoJobShape
  <2> QED
    BY <1>0, <2>1, <2>2 DEF GuardInv, RowsKept, OneWriter
<1> QED
    BY <1>1, <1>2, <1>3, <1>4, <1>5, <1>6, <1>7, <1>8, <1>9
    DEF Config!Next, Config!Put, Config!SelfRestart, Config!Boot

\* Only the write of a row changes the overlay, and it is the write of the row's lock
\* holder.
LEMMA WritesKeepOthers ==
    ASSUME GuardInv, [Config!Next]_(Config!vars)
    PROVE  Config!EditKeepsOthers(Saved)
<1> SUFFICES ASSUME NEW o \in Operators, edits[o].pc = "write", edits[o].expected # Unset,
                    edits'[o] # edits[o],
                    NEW f \in Config!Fields \ DOMAIN edits[o].patch,
                    Config!SectionOf[f] \in Saved
             PROVE  overlay'[f] = overlay[f]
    BY DEF Config!EditKeepsOthers
<1>1. CASE UNCHANGED overlay
    BY <1>1
<1>2. ASSUME NEW p \in Operators, Config!PutWrite(p) PROVE overlay'[f] = overlay[f]
  <2>1. p = o
    BY <1>2 DEF Config!PutWrite, Config!Goto, GuardInv, ConfigInv, IsEdits
  <2>2. overlay' = [g \in Config!Fields |->
                      IF Config!SectionOf[g] = Head(edits[o].todo) THEN edits[o].merged[g]
                      ELSE overlay[g]]
    BY <1>2, <2>1 DEF Config!PutWrite
  <2>3. CASE Config!SectionOf[f] = Head(edits[o].todo)
    <3>1. edits[o].expected[Config!SectionOf[f]] = version[Config!SectionOf[f]]
      BY <2>3 DEF GuardInv, Guarded
    <3>2. edits[o].merged[f] = overlay[f]
      BY <3>1 DEF GuardInv, Guarded
    <3> QED
      BY <2>2, <3>2
  <2> QED
    BY <2>2, <2>3
<1> QED
    BY <1>1, <1>2 DEF Config!Next, Config!Put, Config!Begin, Config!Load, Config!PutRead,
       Config!Written, Config!Swap, Config!Store, Config!Abort, Config!Drain,
       Config!SelfRestart, Config!Boot, Config!Start, Config!vars

\* For any number of consoles that edit at once, with crashes, restarts and broken
\* connections in between: a PUT that carries versions never undoes another operator's
\* edit of a section that was saved before (put_setting_audited).
THEOREM EditsAreGuarded == Config!Spec => GuardedEditKeepsOthers
<1>1. Config!Init => GuardInv
    BY GuardInitially
<1>2. GuardInv /\ [Config!Next]_(Config!vars) => GuardInv'
    BY GuardStep
<1>3. GuardInv /\ [Config!Next]_(Config!vars) => [Config!EditKeepsOthers(Saved)]_all
    BY WritesKeepOthers
<1> QED
    BY <1>1, <1>2, <1>3, PTL DEF Config!Spec, GuardedEditKeepsOthers
===============================================================================
