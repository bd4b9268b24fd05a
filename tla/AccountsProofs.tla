---------------------------- MODULE AccountsProofs ----------------------------
(***************************************************************************)
(* Identity is safe for any number of wallets, keys, accounts, concurrent  *)
(* requests, tokens and gate settings.  OneWalletPerRow is not inductive:  *)
(* update_pubkey_hash and upsert_all_keys write to a row chosen in earlier *)
(* steps.  IInv adds that every account is anchored in one wallet and that *)
(* the row a request is about to write, or to issue a session for, is its  *)
(* own wallet's or erased; row ids are never used twice.                   *)
(***************************************************************************)
EXTENDS Accounts, TLAPS

-------------------------------------------------------------------------------
(* Rows and wallets.                                                       *)

\* The row carries identities of wallet w, and no others.
Carries(row, w) ==
    /\ row.pkh # None => Owner[row.pkh] = w
    /\ row.key # None => Owner[row.key] = w
    /\ row.npub # None => row.npub = w
    /\ row.pkh # None \/ row.key # None \/ row.npub # None

\* Carries is WalletsOf with one element.
LEMMA CarriesOne ==
    ASSUME NEW row \in Row, NEW w \in Wallets
    PROVE  Carries(row, w) <=> WalletsOf(row) = {w}
<1>1. ASSUME Carries(row, w) PROVE WalletsOf(row) = {w}
  <2>1. \A a \in WalletsOf(row) : a = w
    BY <1>1 DEF Carries, WalletsOf
  <2>2. w \in WalletsOf(row)
    BY <1>1 DEF Carries, WalletsOf
  <2> QED
    BY <2>1, <2>2
<1>2. ASSUME WalletsOf(row) = {w} PROVE Carries(row, w)
    BY <1>2 DEF Carries, WalletsOf
<1> QED
    BY <1>1, <1>2

\* A lookup returns None or a row of the set it looks in.
LEMMA FoundIn ==
    ASSUME NEW S \in SUBSET Ids
    PROVE  /\ Found(S) = None => S = {}
           /\ Found(S) # None => Found(S) \in S
    BY AccountsAssumption DEF Found

-------------------------------------------------------------------------------
(* The inductive invariant.                                                *)

RowsOwned == \A i \in Ids : rows[i].state = "present" => \E w \in Wallets : Carries(rows[i], w)

\* Row i exists or existed, and is wallet w's as long as it exists.
Mine(i, w) ==
    /\ rows[i].state # "unused"
    /\ rows[i].state = "present" => Carries(rows[i], w)

SessionsOwned ==
    \A p \in sessions : rows[p[2]].state = "present" /\ Carries(rows[p[2]], p[1])

ExtensionSteps == {"lookup", "fingerprint", "stored", "move", "owner"}
Targeting == {"move", "backfill", "keys", "session"}

JobOwned(job) ==
    /\ job.pc \in ExtensionSteps => job.in.key # None
    /\ job.pc = "stored" => job.target \in Ids /\ rows[job.target].state # "unused"
    /\ job.pc \in Targeting => job.target \in Ids /\ Mine(job.target, job.in.w)

IInv ==
    /\ TypeOK
    /\ RowsOwned
    /\ SessionsOwned
    /\ \A s \in Slots : JobOwned(jobs[s])

\* What a step other than an erasure may do to a row.
RowMoves(i) ==
    \/ rows'[i] = rows[i]
    \/ /\ rows[i].state = "present" /\ rows'[i].state = "present"
       /\ \A w \in Wallets : Carries(rows[i], w) => Carries(rows'[i], w)
    \/ /\ rows[i].state = "unused" /\ rows'[i].state = "present"
       /\ \E w \in Wallets : Carries(rows'[i], w)

RowsMove == rows' \in [Ids -> Row] /\ \A i \in Ids : RowMoves(i)

\* No row that stays present changes hands.
RowsKept ==
    \A i \in Ids, w \in Wallets :
        /\ rows[i].state = "present" /\ rows'[i].state = "present"
        /\ Carries(rows[i], w)
        => Carries(rows'[i], w)

\* What every step is shown to keep.
Safe == IInv' /\ RowsKept

\* Rows that move this way stay owned, by the same wallet.
LEMMA MovesKeepOwners ==
    ASSUME IInv, RowsMove
    PROVE  /\ RowsOwned'
           /\ \A i \in Ids, w \in Wallets : Mine(i, w) => Mine(i, w)'
           /\ \A i \in Ids : rows[i].state # "unused" => rows'[i].state # "unused"
           /\ \A p \in sessions : rows'[p[2]].state = "present" /\ Carries(rows'[p[2]], p[1])
           /\ RowsKept
<1>1. RowsOwned'
    BY DEF IInv, RowsOwned, RowsMove, RowMoves
<1>2. \A i \in Ids, w \in Wallets : Mine(i, w) => Mine(i, w)'
    BY DEF RowsMove, RowMoves, Mine
<1>3. \A i \in Ids : rows[i].state # "unused" => rows'[i].state # "unused"
    BY DEF RowsMove, RowMoves
<1>4. ASSUME NEW p \in sessions
      PROVE  rows'[p[2]].state = "present" /\ Carries(rows'[p[2]], p[1])
  <2>1. p[1] \in Wallets /\ p[2] \in Ids
    BY DEF IInv, TypeOK
  <2>2. rows[p[2]].state = "present" /\ Carries(rows[p[2]], p[1])
    BY DEF IInv, SessionsOwned
  <2> QED
    BY <2>1, <2>2 DEF RowsMove, RowMoves
<1>5. RowsKept
    BY DEF RowsMove, RowMoves, RowsKept
<1> QED
    BY <1>1, <1>2, <1>3, <1>4, <1>5

\* The tables a request's step writes besides its own job.
TablesTypeOK ==
    /\ invites \in [Invites -> {"fresh", "used", "expired"}]
    /\ invoices \in [Invoices -> Invoice]

\* A step of one request keeps the invariant when it moves rows as above, leaves
\* a job of the right type that owns its target, and grants only owned sessions.
LEMMA RequestIsSafe ==
    ASSUME IInv, NEW s \in Slots, NEW job \in Job, Goto(s, job),
           job.pc # "idle" => job.in # None,
           RowsMove, JobOwned(job)', TablesTypeOK',
           policy' \in Policies, begun' \in 0..MaxRequests,
           NEW S \in SUBSET (Wallets \X Ids), sessions' = sessions \union S,
           \A p \in S : rows'[p[2]].state = "present" /\ Carries(rows'[p[2]], p[1])
    PROVE  Safe
<1>1. jobs' = [jobs EXCEPT ![s] = job] /\ jobs \in [Slots -> Job]
    BY DEF Goto, IInv, TypeOK
<1>2. TypeOK'
    BY <1>1 DEF IInv, TypeOK, RowsMove, TablesTypeOK
<1>3. RowsOwned'
    BY MovesKeepOwners
<1>4. SessionsOwned'
    BY MovesKeepOwners DEF SessionsOwned
<1>5. ASSUME NEW r \in Slots PROVE JobOwned(jobs[r])'
  <2>1. CASE r = s
    BY <1>1, <2>1 DEF JobOwned, Mine
  <2>2. CASE r # s
    <3>1. jobs'[r] = jobs[r] /\ jobs[r] \in Job /\ JobOwned(jobs[r])
        BY <1>1, <2>2 DEF IInv
    <3>2. jobs[r].pc \in Targeting => jobs[r].in.w \in Wallets
        BY <3>1, AccountsAssumption DEF Targeting, IInv, TypeOK, Job, Input
    <3>3. jobs[r].pc = "stored" => jobs[r].target \in Ids /\ rows'[jobs[r].target].state # "unused"
        BY <3>1, MovesKeepOwners DEF JobOwned
    <3>4. jobs[r].pc \in Targeting => jobs[r].target \in Ids /\ Mine(jobs[r].target, jobs[r].in.w)'
        BY <3>1, <3>2, MovesKeepOwners DEF JobOwned
    <3> QED
        BY <3>1, <3>3, <3>4 DEF JobOwned, Mine
  <2> QED
    BY <2>1, <2>2
<1> QED
    BY <1>2, <1>3, <1>4, <1>5, MovesKeepOwners DEF IInv, Safe

-------------------------------------------------------------------------------
(* The steps of a request.                                                 *)

\* Lookups, decisions and rejections: rows and sessions stay, only the job goes on.
LEMMA ReadIsSafe ==
    ASSUME IInv, NEW s \in Slots, NEW job \in Job, Goto(s, job),
           job.pc # "idle" => job.in # None, JobOwned(job),
           UNCHANGED <<rows, sessions, invites, invoices, policy>>, begun' \in 0..MaxRequests
    PROVE  Safe
<1>1. RowsMove
    BY DEF RowsMove, RowMoves, IInv, TypeOK
<1>2. TablesTypeOK' /\ policy' \in Policies
    BY DEF TablesTypeOK, IInv, TypeOK
<1>3. JobOwned(job)'
    BY DEF JobOwned, Mine
<1>4. sessions' = sessions \union {} /\ {} \in SUBSET (Wallets \X Ids)
    OBVIOUS
<1> QED
    BY <1>1, <1>2, <1>3, <1>4, RequestIsSafe

\* A request that ends leaves an idle job.
LEMMA EndIsSafe ==
    ASSUME IInv, NEW s \in Slots, Ends(s),
           UNCHANGED <<rows, sessions, invites, invoices, policy, begun>>
    PROVE  Safe
<1>1. NoJob \in Job /\ JobOwned(NoJob) /\ NoJob.pc = "idle"
    BY DEF NoJob, Job, JobOwned, Targeting, ExtensionSteps
<1>2. begun' \in 0..MaxRequests
    BY DEF IInv, TypeOK
<1> QED
    BY <1>1, <1>2, ReadIsSafe DEF Ends

\* What is known of a request in flight.
LEMMA JobFacts ==
    ASSUME IInv, NEW s \in Slots, jobs[s].pc # "idle"
    PROVE  /\ jobs[s] \in Job /\ jobs[s].in \in Inputs /\ jobs[s].in \in Input
           /\ jobs[s].in # None /\ jobs[s].in.w \in Wallets
           /\ jobs[s].in.key # None => Owner[jobs[s].in.key] = jobs[s].in.w
           /\ jobs[s].in.kind = "extension" => jobs[s].in.key # None
<1>1. jobs[s] \in Job /\ jobs[s].in # None
    BY DEF IInv, TypeOK
<1>2. jobs[s].in \in Inputs
    BY <1>1 DEF Job
<1> QED
    BY <1>1, <1>2, AccountsAssumption DEF Input

\* A row found by its pubkey_hash or its npub is the requesting wallet's.
LEMMA FoundIsMine ==
    ASSUME IInv, NEW w \in Wallets, NEW i \in Ids, rows[i].state = "present",
           \/ rows[i].npub = w
           \/ rows[i].pkh # None /\ Owner[rows[i].pkh] = w
           \/ rows[i].key # None /\ Owner[rows[i].key] = w
    PROVE  Mine(i, w)
<1>1. w # None
    BY AccountsAssumption
<1> QED
    BY <1>1 DEF IInv, RowsOwned, Carries, Mine

\* A job that has not chosen a row yet owns nothing.
LEMMA OwnsNothing ==
    ASSUME NEW job, job.pc \notin Targeting, job.pc # "stored",
           job.in.key # None \/ job.pc \notin ExtensionSteps
    PROVE  JobOwned(job)
    BY DEF JobOwned

\* An arriving request has looked at nothing yet.
LEMMA BeginIsSafe ==
    ASSUME IInv, NEW s \in Slots, NEW in \in Inputs, Begin(s, in)
    PROVE  Safe
<1> DEFINE job == [NoJob EXCEPT !.pc = IF in.kind = "extension" THEN "lookup" ELSE "npub",
                                !.in = in]
<1>1. job \in Job /\ job.in # None
    BY AccountsAssumption DEF NoJob, Job
<1>2. JobOwned(job)
    BY AccountsAssumption DEF JobOwned, NoJob, Targeting, ExtensionSteps
<1>3. begun' \in 0..MaxRequests
    BY AccountsAssumption DEF Begin, IInv, TypeOK
<1> QED
    BY <1>1, <1>2, <1>3, ReadIsSafe DEF Begin

\* The lookups and decisions of extension_register.
LEMMA ExtensionReadsAreSafe ==
    ASSUME IInv, NEW s \in Slots,
           LookupPubkey(s) \/ LookupFingerprint(s) \/ ReadStoredKey(s) \/ CheckFingerprintOwner(s)
    PROVE  Safe
<1> DEFINE j == jobs[s]
<1>0. /\ j.pc # "idle"
      /\ UNCHANGED <<rows, sessions, invites, invoices, policy, begun>>
    BY DEF LookupPubkey, LookupFingerprint, ReadStoredKey, CheckFingerprintOwner, Step, Reads
<1>1. /\ j \in Job /\ j.in \in Input /\ j.in # None /\ j.in.key # None
      /\ begun' \in 0..MaxRequests /\ JobOwned(j)
  <2>1. j.pc \in ExtensionSteps
    BY DEF LookupPubkey, LookupFingerprint, ReadStoredKey, CheckFingerprintOwner, Step,
       ExtensionSteps
  <2> QED
    BY <1>0, <2>1, JobFacts DEF IInv, TypeOK, JobOwned
<1>2. CASE LookupPubkey(s)
  <2> DEFINE me == Found(ByPubkey(j.in.key))
             pc == IF me = None /\ j.in.fp # None THEN "fingerprint" ELSE "owner"
             job == [j EXCEPT !.me = me, !.pc = pc]
  <2>1. me \in Ids \union {None} /\ pc \in {"fingerprint", "owner"}
    BY FoundIn DEF ByPubkey, Present
  <2>2. job \in Job /\ job.in = j.in /\ job.pc \in {"fingerprint", "owner"}
    <3> HIDE DEF me, pc
    <3> QED
        BY <1>1, <2>1 DEF Job
  <2>3. JobOwned(job)
    <3> HIDE DEF job
    <3> QED
        BY <1>1, <2>2, OwnsNothing DEF Targeting
  <2> QED
    BY <1>0, <1>1, <1>2, <2>2, <2>3, ReadIsSafe DEF LookupPubkey
<1>3. CASE LookupFingerprint(s)
  <2> DEFINE target == Found(ByFingerprint(j.in.fp))
             job1 == [j EXCEPT !.pc = "owner"]
             job2 == [j EXCEPT !.pc = "stored", !.target = target,
                               !.keyless = rows[target].pkh = None]
  <2>1. target # None => target \in Ids /\ rows[target].state = "present"
    BY FoundIn DEF ByFingerprint, Present
  <2>2. job1 \in Job /\ job1.in # None /\ JobOwned(job1)
    BY <1>1 DEF Job, JobOwned, Targeting, ExtensionSteps
  <2>3. target # None => job2 \in Job /\ job2.in # None /\ JobOwned(job2)
    BY <1>1, <2>1 DEF Job, JobOwned, Targeting, ExtensionSteps
  <2>4. Goto(s, job1) \/ (target # None /\ Goto(s, job2))
    BY <1>3 DEF LookupFingerprint
  <2> QED
    BY <1>0, <1>1, <2>2, <2>3, <2>4, ReadIsSafe
<1>4. CASE ReadStoredKey(s)
  <2> DEFINE stored == rows[j.target].key
             move == [j EXCEPT !.pc = "move", !.keyless = FALSE]
             leave == [j EXCEPT !.pc = "owner", !.target = None, !.keyless = FALSE]
  <2>1. j.pc = "stored" /\ j.target \in Ids /\ rows[j.target] \in Row
        /\ rows[j.target].state # "unused"
    BY <1>1, <1>4 DEF ReadStoredKey, Step, JobOwned, IInv, TypeOK
  <2>2. CASE /\ Goto(s, move)
             /\ \/ stored = j.in.key
                \/ stored # None /\ Owner[stored] = j.in.w
    <3>1. j.in.w \in Wallets /\ (j.in.key # None => Owner[j.in.key] = j.in.w)
        BY <1>0, JobFacts
    <3>2. rows[j.target].state = "present" => Mine(j.target, j.in.w)
        <4>1. CASE stored # None
            BY <2>1, <2>2, <3>1, <4>1, FoundIsMine
        <4>2. CASE stored = None
            BY <1>1, <2>1, <2>2, <4>2 DEF JobOwned, ExtensionSteps
        <4> QED
            BY <4>1, <4>2
    <3>3. move \in Job /\ move.in # None /\ JobOwned(move)
        BY <1>1, <2>1, <3>2 DEF Job, JobOwned, Targeting, ExtensionSteps, Mine
    <3> QED
        BY <1>0, <1>1, <2>2, <3>3, ReadIsSafe
  <2>3. CASE Goto(s, leave)
    <3>1. leave \in Job /\ leave.in = j.in /\ leave.pc = "owner"
        BY <1>1 DEF Job
    <3>2. JobOwned(leave)
        <4> HIDE DEF leave
        <4> QED
            BY <1>1, <3>1, OwnsNothing DEF Targeting
    <3> QED
        BY <1>0, <1>1, <2>3, <3>1, <3>2, ReadIsSafe
  <2>4. CASE Ends(s)
    BY <1>0, <2>4, EndIsSafe
  <2> QED
    BY <1>4, <2>2, <2>3, <2>4 DEF ReadStoredKey
<1>5. CASE CheckFingerprintOwner(s)
  <2> DEFINE owner == Found(ByFingerprint(j.in.fp))
             foreign == owner # None /\ owner # j.me
             fp == IF foreign THEN None ELSE j.in.fp
             pc == IF j.me # None THEN "reread" ELSE "gates"
             job == [j EXCEPT !.fp = fp, !.pc = pc]
  <2>1. job \in Job /\ job.in = j.in /\ job.pc \in {"reread", "gates"}
    <3>1. fp \in Wallets \union {None} /\ pc \in {"reread", "gates"}
        BY <1>1 DEF Input
    <3> HIDE DEF fp, pc
    <3> QED
        BY <1>1, <3>1 DEF Job
  <2>3. JobOwned(job)
    <3> HIDE DEF job
    <3> QED
        BY <1>1, <2>1, OwnsNothing DEF Targeting
  <2>2. Goto(s, job) \/ Ends(s)
    BY <1>5 DEF CheckFingerprintOwner
  <2> QED
    BY <1>0, <1>1, <2>1, <2>2, <2>3, ReadIsSafe, EndIsSafe
<1> QED
    BY <1>2, <1>3, <1>4, <1>5

\* The lookups and decisions of nostr_register, of the re-read and of the gates.
LEMMA OtherReadsAreSafe ==
    ASSUME IInv, NEW s \in Slots,
           NostrLookup(s) \/ FingerprintFree(s) \/ Reread(s) \/ Merge(s) \/ PlanGateConsume(s)
    PROVE  Safe
<1> DEFINE j == jobs[s]
<1>0. /\ j.pc # "idle"
      /\ UNCHANGED <<rows, sessions, invites, invoices, policy, begun>>
    BY DEF NostrLookup, FingerprintFree, Reread, Merge, PlanGateConsume, Step, Reads
<1>1. /\ j \in Job /\ j.in \in Input /\ j.in # None /\ j.in.w \in Wallets
      /\ j.in.key # None => Owner[j.in.key] = j.in.w
      /\ j.in.kind = "extension" => j.in.key # None
      /\ begun' \in 0..MaxRequests
    BY <1>0, JobFacts DEF IInv, TypeOK
<1>2. ASSUME NEW job \in Job, job.in = j.in, job.pc \notin Targeting, job.pc # "stored",
             job.pc \notin ExtensionSteps, Goto(s, job)
      PROVE  Safe
    BY <1>0, <1>1, <1>2, OwnsNothing, ReadIsSafe
<1>3. CASE NostrLookup(s)
  <2> DEFINE me == Found(ByNpub(j.in.w))
             pc == IF me # None THEN "reread" ELSE IF j.in.fp # None THEN "fpFree" ELSE "gates"
             job == [j EXCEPT !.me = me, !.fp = j.in.fp, !.pc = pc]
  <2>1. me \in Ids \union {None} /\ pc \in {"reread", "fpFree", "gates"}
    BY FoundIn DEF ByNpub, Present
  <2>2. job \in Job /\ job.in = j.in /\ job.pc \in {"reread", "fpFree", "gates"}
    <3>1. j.in.fp \in Wallets \union {None}
        BY <1>1 DEF Input
    <3> HIDE DEF me, pc
    <3> QED
        BY <1>1, <2>1, <3>1 DEF Job
  <2>3. Goto(s, job) \/ Ends(s)
    BY <1>3 DEF NostrLookup
  <2> HIDE DEF job
  <2> QED
    BY <1>0, <1>2, <2>2, <2>3, EndIsSafe DEF Targeting, ExtensionSteps
<1>4. CASE FingerprintFree(s)
  <2> DEFINE job == [j EXCEPT !.pc = "gates"]
  <2>1. job \in Job /\ job.in = j.in /\ job.pc = "gates"
    BY <1>1 DEF Job
  <2>2. Goto(s, job) \/ Ends(s)
    BY <1>4 DEF FingerprintFree
  <2> HIDE DEF job
  <2> QED
    BY <1>0, <1>2, <2>1, <2>2, EndIsSafe DEF Targeting, ExtensionSteps
<1>5. CASE Reread(s)
  <2> DEFINE S == IF j.in.kind = "extension" THEN ByPubkey(j.in.key) ELSE ByNpub(j.in.w)
             found == Found(S)
             pc == IF rows[found].fp = None /\ j.fp # None THEN "backfill" ELSE "keys"
             job == [j EXCEPT !.target = found, !.pc = pc]
             pc2 == IF j.in.kind = "nostr" /\ j.fp # None THEN "merge" ELSE "create"
             job2 == [j EXCEPT !.pc = pc2]
  <2>1. found # None => found \in Ids /\ Mine(found, j.in.w)
    <3>1. ASSUME NEW i \in S PROVE i \in Ids /\ Mine(i, j.in.w)
        <4>1. i \in Ids /\ rows[i].state = "present"
            BY <3>1 DEF ByPubkey, ByNpub, Present
        <4>2. \/ rows[i].npub = j.in.w
              \/ rows[i].pkh # None /\ Owner[rows[i].pkh] = j.in.w
            BY <1>1, <3>1 DEF ByPubkey, ByNpub
        <4> QED
            BY <1>1, <4>1, <4>2, FoundIsMine
    <3>2. S \in SUBSET Ids
        BY DEF ByPubkey, ByNpub, Present
    <3> QED
        BY <3>1, <3>2, FoundIn
  <2>2. CASE found # None /\ Goto(s, job)
    <3>1. job \in Job /\ job.in = j.in /\ job.pc \in {"backfill", "keys"} /\ job.target = found
        <4>1. pc \in {"backfill", "keys"}
            OBVIOUS
        <4> HIDE DEF found, pc
        <4> QED
            BY <1>1, <2>1, <2>2, <4>1 DEF Job
    <3>2. JobOwned(job)
        <4> HIDE DEF job, found
        <4> QED
            BY <2>1, <2>2, <3>1 DEF JobOwned, ExtensionSteps
    <3> HIDE DEF job
    <3> QED
        BY <1>0, <1>1, <2>2, <3>1, <3>2, ReadIsSafe
  <2>3. CASE Goto(s, job2)
    <3>1. job2 \in Job /\ job2.in = j.in /\ job2.pc \in {"merge", "create"}
        <4>1. pc2 \in {"merge", "create"}
            OBVIOUS
        <4> HIDE DEF pc2
        <4> QED
            BY <1>1, <4>1 DEF Job
    <3> HIDE DEF job2
    <3> QED
        BY <1>0, <1>2, <2>3, <3>1 DEF Targeting, ExtensionSteps
  <2> QED
    BY <1>5, <2>2, <2>3 DEF Reread
<1>6. CASE Merge(s)
  <2> DEFINE found == Found(ByFingerprint(j.fp))
             job == [j EXCEPT !.pc = "keys", !.target = found]
             job2 == [j EXCEPT !.pc = "create"]
  <2>1. found # None => found \in Ids /\ rows[found].state = "present"
    BY FoundIn DEF ByFingerprint, Present
  <2>2. CASE found # None /\ rows[found].npub = j.in.w /\ Goto(s, job)
    <3>1. Mine(found, j.in.w)
        BY <1>1, <2>1, <2>2, FoundIsMine
    <3>2. job \in Job /\ job.in = j.in /\ job.pc = "keys" /\ job.target = found
        <4> HIDE DEF found
        <4> QED
            BY <1>1, <2>1, <2>2 DEF Job
    <3>3. JobOwned(job)
        <4> HIDE DEF job, found
        <4> QED
            BY <2>1, <2>2, <3>1, <3>2 DEF JobOwned, ExtensionSteps
    <3> HIDE DEF job
    <3> QED
        BY <1>0, <1>1, <2>2, <3>2, <3>3, ReadIsSafe
  <2>3. CASE Goto(s, job2)
    <3>1. job2 \in Job /\ job2.in = j.in /\ job2.pc = "create"
        BY <1>1 DEF Job
    <3> HIDE DEF job2
    <3> QED
        BY <1>0, <1>2, <2>3, <3>1 DEF Targeting, ExtensionSteps
  <2>4. CASE Ends(s)
    BY <1>0, <2>4, EndIsSafe
  <2> QED
    BY <1>6, <2>2, <2>3, <2>4 DEF Merge
<1>7. CASE PlanGateConsume(s)
  <2>1. \/ Ends(s)
        \/ \E a \in {None, j.in.invite}, b \in {None, j.in.invoice} :
              Goto(s, [j EXCEPT !.pc = "register", !.invite = a, !.invoice = b])
    BY <1>7 DEF PlanGateConsume
  <2>2. ASSUME NEW a \in {None, j.in.invite}, NEW b \in {None, j.in.invoice},
               Goto(s, [j EXCEPT !.pc = "register", !.invite = a, !.invoice = b])
        PROVE  Safe
    <3> DEFINE job == [j EXCEPT !.pc = "register", !.invite = a, !.invoice = b]
    <3>1. a \in Invites \union {None} /\ b \in Invoices \union {None}
        BY <1>1 DEF Input
    <3>2. job \in Job /\ job.in = j.in /\ job.pc = "register"
        BY <1>1, <3>1 DEF Job
    <3>3. Goto(s, job)
        BY <2>2
    <3> HIDE DEF job
    <3> QED
        BY <1>2, <3>2, <3>3 DEF Targeting, ExtensionSteps
  <2> QED
    BY <1>0, <2>1, <2>2, EndIsSafe
<1> QED
    BY <1>3, <1>4, <1>5, <1>6, <1>7

-------------------------------------------------------------------------------
(* The writes of a request.                                                *)

\* A write of row t: every other row stays.
LEMMA OneRowMoves ==
    ASSUME IInv, NEW t \in Ids, NEW row \in Row, rows' = [rows EXCEPT ![t] = row],
           \/ /\ rows[t].state = "present" /\ row.state = "present"
              /\ \A w \in Wallets : Carries(rows[t], w) => Carries(row, w)
           \/ /\ rows[t].state = "unused" /\ row.state = "present"
              /\ \E w \in Wallets : Carries(row, w)
    PROVE  RowsMove /\ rows'[t] = row
    BY DEF RowsMove, RowMoves, IInv, TypeOK

\* A request that moved its rows and goes on with a target of its own.
LEMMA WriteIsSafe ==
    ASSUME IInv, NEW s \in Slots, NEW job \in Job, Goto(s, job), RowsMove,
           job.in # None, job.pc \in {"keys", "session"},
           job.target \in Ids, Mine(job.target, job.in.w)',
           TablesTypeOK', UNCHANGED <<sessions, policy, begun>>
    PROVE  Safe
<1>1. JobOwned(job)'
    BY DEF JobOwned, ExtensionSteps, Mine
<1>2. policy' \in Policies /\ begun' \in 0..MaxRequests
    BY DEF IInv, TypeOK
<1>3. sessions' = sessions \union {} /\ {} \in SUBSET (Wallets \X Ids)
    OBVIOUS
<1> QED
    BY <1>1, <1>2, <1>3, RequestIsSafe

\* update_pubkey_hash, backfill_optionals and upsert_all_keys write rows of the
\* requesting wallet, or nothing.
LEMMA TargetWritesAreSafe ==
    ASSUME IInv, NEW s \in Slots, MoveIdentity(s) \/ Backfill(s) \/ UpsertKeys(s)
    PROVE  Safe
<1> DEFINE j == jobs[s]
<1>0. /\ j.pc \in Targeting /\ j.pc # "idle"
      /\ UNCHANGED <<sessions, invites, invoices, policy, begun>>
    BY DEF MoveIdentity, Backfill, UpsertKeys, Step, Targeting
<1> PICK t \in Ids, w \in Wallets : t = j.target /\ w = j.in.w
    BY <1>0, JobFacts DEF IInv, JobOwned
<1>1. /\ j \in Job /\ j.in \in Input /\ j.in # None
      /\ j.in.key # None => Owner[j.in.key] = w
      /\ JobOwned(j) /\ Mine(t, w)
      /\ rows \in [Ids -> Row] /\ rows[t] \in Row
    BY <1>0, JobFacts DEF IInv, TypeOK, JobOwned
<1>2. j.in.key \in Keys \union {None}
    BY <1>1 DEF Input
<1>3. TablesTypeOK'
    BY <1>0 DEF TablesTypeOK, IInv, TypeOK
<1>4. ASSUME NEW pc \in {"keys", "session"}, Goto(s, [j EXCEPT !.pc = pc]),
             \/ rows' = rows
             \/ \E row \in Row : /\ rows' = [rows EXCEPT ![t] = row]
                                 /\ rows[t].state = "present" /\ row.state = "present"
                                 /\ Carries(row, w)
      PROVE  Safe
  <2> DEFINE next == [j EXCEPT !.pc = pc]
  <2>0. next \in Job /\ next.in = j.in /\ next.pc = pc /\ next.target = t
    BY <1>1 DEF Job
  <2>1. PICK job \in Job : /\ job = next /\ job.in = j.in
                           /\ job.pc = pc /\ job.target = t
    <3> HIDE DEF next
    <3> QED
        BY <2>0
  <2>2. RowsMove /\ Mine(t, w)'
    <3>1. CASE rows' = rows
        BY <1>1, <3>1 DEF RowsMove, RowMoves, Mine
    <3>2. ASSUME NEW row \in Row, rows' = [rows EXCEPT ![t] = row],
                 rows[t].state = "present", row.state = "present", Carries(row, w)
          PROVE  RowsMove /\ Mine(t, w)'
        <4>1. Carries(rows[t], w)
            BY <1>1, <3>2 DEF Mine
        <4>2. \A v \in Wallets : Carries(rows[t], v) => v = w
            BY <1>1, <4>1, CarriesOne
        <4>3. RowsMove /\ rows'[t] = row
            BY <1>1, <3>2, <4>2, OneRowMoves
        <4> QED
            BY <3>2, <4>3 DEF Mine
    <3> QED
        BY <1>4, <3>1, <3>2
  <2>3. Goto(s, job) /\ job.in.w = w
    BY <1>4, <2>1
  <2> QED
    BY <1>0, <1>1, <1>3, <2>1, <2>2, <2>3, WriteIsSafe
<1>5. ASSUME Ends(s), rows' = rows PROVE Safe
    BY <1>0, <1>5, EndIsSafe
<1>6. CASE MoveIdentity(s)
  <2> DEFINE new == [rows[t] EXCEPT !.pkh = j.in.key]
  <2>1. j.in.key # None
    BY <1>1, <1>6 DEF MoveIdentity, Step, JobOwned, ExtensionSteps
  <2>2. t \in Present => new \in Row /\ new.state = "present" /\ Carries(new, w)
    BY <1>1, <1>2, <2>1 DEF Present, Row, Mine, Carries
  <2>3. \/ Ends(s) /\ rows' = rows
        \/ /\ Goto(s, [j EXCEPT !.pc = "keys"])
           /\ rows' = IF t \in Present THEN [rows EXCEPT ![t] = new] ELSE rows
    BY <1>6 DEF MoveIdentity
  <2> HIDE DEF new
  <2> QED
    BY <1>1, <1>4, <1>5, <2>2, <2>3 DEF Present
<1>7. CASE Backfill(s)
  <2> DEFINE new == [rows[t] EXCEPT !.fp = IF rows[t].fp = None THEN j.fp ELSE rows[t].fp]
  <2>1. j.fp \in Wallets \union {None}
    BY <1>1 DEF Job
  <2>2. t \in Present => new \in Row /\ new.state = "present" /\ Carries(new, w)
    BY <1>1, <2>1 DEF Present, Row, Mine, Carries
  <2>3. \/ Ends(s) /\ rows' = rows
        \/ /\ t \in Present /\ rows' = [rows EXCEPT ![t] = new]
           /\ Goto(s, [j EXCEPT !.pc = "keys"])
    BY <1>7 DEF Backfill
  <2> HIDE DEF new
  <2> QED
    BY <1>1, <1>4, <1>5, <2>2, <2>3 DEF Present
<1>8. CASE UpsertKeys(s)
  <2> DEFINE new == [rows[t] EXCEPT !.key = j.in.key]
  <2>2. t \in Present /\ j.in.key # None
            => new \in Row /\ new.state = "present" /\ Carries(new, w)
    BY <1>1, <1>2 DEF Present, Row, Mine, Carries
  <2>3. \/ Ends(s) /\ rows' = rows
        \/ /\ j.in.key # None => t \in Present
           /\ Goto(s, [j EXCEPT !.pc = "session"])
           /\ rows' = IF j.in.key = None THEN rows ELSE [rows EXCEPT ![t] = new]
    BY <1>8 DEF UpsertKeys
  <2> HIDE DEF new
  <2> QED
    BY <1>1, <1>4, <1>5, <2>2, <2>3 DEF Present
<1> QED
    BY <1>6, <1>7, <1>8

\* create_user and create_user_consuming_gates insert a row of the requesting wallet.
LEMMA InsertsAreSafe ==
    ASSUME IInv, NEW s \in Slots, NEW i \in Ids,
           CreateUser(s, i) \/ CreateUserConsumingGates(s, i)
    PROVE  Safe
<1> DEFINE j == jobs[s]
<1>0. /\ j.pc # "idle" /\ rows[i].state = "unused"
      /\ UNCHANGED <<sessions, policy, begun>>
    BY DEF CreateUser, CreateUserConsumingGates, Step
<1> PICK w \in Wallets : w = j.in.w
    BY <1>0, JobFacts
<1>1. /\ j \in Job /\ j.in \in Input /\ j.in # None
      /\ j.in.key # None => Owner[j.in.key] = w
      /\ j.in.kind = "extension" => j.in.key # None
    BY <1>0, JobFacts
<1>2. ASSUME NEW key \in {None, j.in.key}, NEW tokens \in SUBSET Tokens
      PROVE  /\ NewUser(j, key, tokens) \in Row
             /\ NewUser(j, key, tokens).state = "present"
             /\ Carries(NewUser(j, key, tokens), w)
  <2>1. /\ j.in.key \in Keys \union {None} /\ j.in.name \in Names \union {None}
        /\ j.in.kind \in {"extension", "nostr"} /\ j.fp \in Wallets \union {None}
    BY <1>1 DEF Input, Job
  <2> QED
    BY <1>1, <1>2, <2>1, AccountsAssumption DEF NewUser, Row, Carries
<1>3. ASSUME NEW pc \in {"keys", "session"}, Goto(s, [j EXCEPT !.pc = pc, !.target = i]),
             NEW key \in {None, j.in.key}, NEW tokens \in SUBSET Tokens,
             rows' = [rows EXCEPT ![i] = NewUser(j, key, tokens)], TablesTypeOK'
      PROVE  Safe
  <2> DEFINE next == [j EXCEPT !.pc = pc, !.target = i]
  <2>0. next \in Job /\ next.in = j.in /\ next.pc = pc /\ next.target = i
    BY <1>1 DEF Job
  <2>1. PICK job \in Job : /\ job = next /\ job.in = j.in
                           /\ job.pc = pc /\ job.target = i
    <3> HIDE DEF next
    <3> QED
        BY <2>0
  <2>2. RowsMove /\ rows'[i] = NewUser(j, key, tokens)
    BY <1>0, <1>1, <1>2, <1>3, OneRowMoves
  <2>3. Mine(i, w)'
    BY <1>2, <2>2 DEF Mine
  <2>4. Goto(s, job) /\ job.in.w = w
    BY <1>3, <2>1
  <2> QED
    BY <1>0, <1>1, <1>3, <2>1, <2>2, <2>3, <2>4, WriteIsSafe
<1>4. ASSUME Ends(s), UNCHANGED <<rows, invites, invoices>> PROVE Safe
    BY <1>0, <1>4, EndIsSafe
<1>5. CASE CreateUser(s, i)
  <2>1. TablesTypeOK'
    BY <1>5 DEF CreateUser, TablesTypeOK, IInv, TypeOK
  <2>2. \/ Ends(s) /\ UNCHANGED <<rows, invites, invoices>>
        \/ /\ Goto(s, [j EXCEPT !.pc = "keys", !.target = i])
           /\ rows' = [rows EXCEPT ![i] = NewUser(j, None, {})]
    BY <1>5 DEF CreateUser
  <2> QED
    BY <1>3, <1>4, <2>1, <2>2
<1>6. CASE CreateUserConsumingGates(s, i)
  <2> DEFINE tokens == {j.invite, j.invoice} \ {None}
  <2>1. tokens \in SUBSET Tokens
    BY <1>1 DEF Job, Tokens
  <2>2. \/ Ends(s) /\ UNCHANGED <<rows, invites, invoices>>
        \/ /\ Goto(s, [j EXCEPT !.pc = "session", !.target = i])
           /\ rows' = [rows EXCEPT ![i] = NewUser(j, j.in.key, tokens)]
           /\ invites' = [c \in Invites |-> IF c = j.invite THEN "used" ELSE invites[c]]
           /\ invoices' = [v \in Invoices |->
                             IF v = j.invoice THEN [invoices[v] EXCEPT !.consumed = TRUE]
                                              ELSE invoices[v]]
    BY <1>6 DEF CreateUserConsumingGates
  <2>3. ASSUME invites' = [c \in Invites |-> IF c = j.invite THEN "used" ELSE invites[c]],
               invoices' = [v \in Invoices |->
                             IF v = j.invoice THEN [invoices[v] EXCEPT !.consumed = TRUE]
                                              ELSE invoices[v]]
        PROVE  TablesTypeOK'
    BY <2>3 DEF TablesTypeOK, IInv, TypeOK, Invoice
  <2> HIDE DEF tokens
  <2> QED
    BY <1>3, <1>4, <2>1, <2>2, <2>3
<1> QED
    BY <1>5, <1>6

\* issue_session grants a session of the target, and of nothing once it is erased.
LEMMA IssueSessionIsSafe ==
    ASSUME IInv, NEW s \in Slots, IssueSession(s)
    PROVE  Safe
<1> DEFINE j == jobs[s]
           S == IF j.target \in Present THEN {<<j.in.w, j.target>>} ELSE {}
<1>1. j.pc = "session" /\ JobOwned(j) /\ j.in.w \in Wallets
    BY JobFacts DEF IssueSession, Step, IInv
<1>2. j.target \in Ids /\ Mine(j.target, j.in.w)
    BY <1>1 DEF JobOwned, Targeting
<1>3. /\ UNCHANGED <<rows, invites, invoices, policy, begun>> /\ Goto(s, NoJob)
      /\ sessions' = sessions \union S
    BY DEF IssueSession, Step, Ends
<1>4. /\ S \in SUBSET (Wallets \X Ids)
      /\ \A p \in S : rows'[p[2]].state = "present" /\ Carries(rows'[p[2]], p[1])
    BY <1>1, <1>2, <1>3 DEF Mine, Present
<1>5. NoJob \in Job /\ NoJob.pc = "idle"
    BY DEF NoJob, Job
<1>6. JobOwned(NoJob)'
    BY DEF NoJob, JobOwned, Targeting, ExtensionSteps
<1>7. RowsMove /\ TablesTypeOK' /\ policy' \in Policies /\ begun' \in 0..MaxRequests
    BY <1>3 DEF RowsMove, RowMoves, TablesTypeOK, IInv, TypeOK
<1> HIDE DEF S
<1> QED
    BY <1>3, <1>4, <1>5, <1>6, <1>7, RequestIsSafe

-------------------------------------------------------------------------------
(* The other operations.                                                   *)

\* Operations that leave the requests alone and only move rows, add owned sessions
\* or drop sessions.
LEMMA OtherIsSafe ==
    ASSUME IInv, RowsMove, TablesTypeOK', policy' \in Policies, UNCHANGED <<jobs, begun>>,
           sessions' \subseteq Wallets \X Ids,
           \A p \in sessions' : \/ p \in sessions
                                \/ rows'[p[2]].state = "present" /\ Carries(rows'[p[2]], p[1])
    PROVE  Safe
<1>1. TypeOK'
    BY DEF IInv, TypeOK, RowsMove, TablesTypeOK
<1>2. RowsOwned' /\ SessionsOwned'
    BY MovesKeepOwners DEF SessionsOwned
<1>3. ASSUME NEW r \in Slots PROVE JobOwned(jobs[r])'
  <2>1. jobs'[r] = jobs[r] /\ jobs[r] \in Job /\ JobOwned(jobs[r])
    BY DEF IInv, TypeOK
  <2>2. jobs[r].pc \in Targeting => jobs[r].in.w \in Wallets
    BY JobFacts DEF Targeting
  <2>3. jobs[r].pc = "stored" => jobs[r].target \in Ids /\ rows'[jobs[r].target].state # "unused"
    BY <2>1, MovesKeepOwners DEF JobOwned
  <2>4. jobs[r].pc \in Targeting
           => /\ jobs[r].target \in Ids /\ rows'[jobs[r].target].state # "unused"
              /\ rows'[jobs[r].target].state = "present"
                    => Carries(rows'[jobs[r].target], jobs[r].in.w)
    BY <2>1, <2>2, MovesKeepOwners DEF JobOwned, Mine
  <2> QED
    BY <2>1, <2>3, <2>4 DEF JobOwned, Mine
<1> QED
    BY <1>1, <1>2, <1>3, MovesKeepOwners DEF IInv, Safe

\* Linking, login, renaming and logout act on the row of the caller's session or npub.
LEMMA AccountIsSafe ==
    ASSUME IInv, NEW i \in Ids, NEW w \in Wallets,
           \/ NostrLink(w, i) \/ NostrLogin(w, i) \/ Logout(w, i)
           \/ \E n \in Names : UpdateUsername(w, i, n)
    PROVE  Safe
<1>0. /\ UNCHANGED <<invites, invoices, policy, jobs, begun>>
      /\ TablesTypeOK' /\ policy' \in Policies
      /\ rows \in [Ids -> Row] /\ rows[i] \in Row /\ sessions \subseteq Wallets \X Ids
    BY DEF NostrLink, NostrLogin, Logout, UpdateUsername, Others, TablesTypeOK, IInv, TypeOK
<1>1. <<w, i>> \in sessions => rows[i].state = "present" /\ Carries(rows[i], w)
    BY DEF IInv, SessionsOwned
<1>2. w # None /\ \A n \in Names : n # None
    BY AccountsAssumption
<1>3. ASSUME NEW row \in Row, rows' = [rows EXCEPT ![i] = row], <<w, i>> \in sessions,
             row.state = "present", Carries(row, w), sessions' = sessions
      PROVE  Safe
  <2>1. \A v \in Wallets : Carries(rows[i], v) => v = w
    BY <1>0, <1>1, <1>3, CarriesOne
  <2>2. RowsMove
    BY <1>1, <1>3, <2>1, OneRowMoves
  <2> QED
    BY <1>0, <1>3, <2>2, OtherIsSafe
<1>4. CASE NostrLink(w, i)
  <2> DEFINE row == [rows[i] EXCEPT !.npub = w]
  <2>1. <<w, i>> \in sessions /\ rows' = [rows EXCEPT ![i] = row] /\ sessions' = sessions
    BY <1>4 DEF NostrLink
  <2>2. row \in Row /\ row.state = "present" /\ Carries(row, w)
    BY <1>0, <1>1, <1>2, <2>1 DEF Row, Carries
  <2> HIDE DEF row
  <2> QED
    BY <1>3, <2>1, <2>2
<1>5. CASE \E n \in Names : UpdateUsername(w, i, n)
  <2> PICK n \in Names : UpdateUsername(w, i, n)
    BY <1>5
  <2> DEFINE row == [rows[i] EXCEPT !.name = n]
  <2>1. <<w, i>> \in sessions /\ rows' = [rows EXCEPT ![i] = row] /\ sessions' = sessions
    BY DEF UpdateUsername
  <2>2. row \in Row /\ row.state = "present" /\ Carries(row, w)
    BY <1>0, <1>1, <2>1 DEF Row, Carries
  <2> HIDE DEF row
  <2> QED
    BY <1>3, <2>1, <2>2
<1>6. CASE NostrLogin(w, i) \/ Logout(w, i)
  <2>1. rows' = rows /\ RowsMove
    BY <1>0, <1>6 DEF NostrLogin, Logout, RowsMove, RowMoves
  <2>2. NostrLogin(w, i) => rows[i].state = "present" /\ Mine(i, w)
    BY FoundIsMine DEF NostrLogin, ByNpub, Present
  <2>3. \/ sessions' = sessions \ {<<w, i>>}
        \/ /\ sessions' = sessions \union {<<w, i>>}
           /\ rows[i].state = "present" /\ Carries(rows[i], w)
    BY <1>6, <2>2 DEF NostrLogin, Logout, Mine
  <2>4. /\ sessions' \subseteq Wallets \X Ids
        /\ \A p \in sessions' : \/ p \in sessions
                                \/ rows'[p[2]].state = "present" /\ Carries(rows'[p[2]], p[1])
    BY <1>0, <2>1, <2>3
  <2> QED
    BY <1>0, <2>1, <2>4, OtherIsSafe
<1> QED
    BY <1>4, <1>5, <1>6

\* Invoices, invites and settings touch no row and no session.
LEMMA GatesAreSafe ==
    ASSUME IInv,
           \/ \E v \in Invoices : Pay(v) \/ \E k \in Keys : PaymentInvoice(v, k)
           \/ \E c \in Invites : InviteExpires(c)
           \/ \E p \in Policies : SetPolicy(p)
    PROVE  Safe
<1>1. UNCHANGED <<rows, sessions, jobs, begun>> /\ policy' \in Policies
    BY DEF Pay, PaymentInvoice, InviteExpires, SetPolicy, Others, IInv, TypeOK
<1>2. TablesTypeOK'
  <2>1. invites \in [Invites -> {"fresh", "used", "expired"}] /\ invoices \in [Invoices -> Invoice]
    BY DEF IInv, TypeOK
  <2>2. ASSUME NEW v \in Invoices, Pay(v) PROVE TablesTypeOK'
    BY <2>1, <2>2 DEF Pay, TablesTypeOK, Invoice
  <2>3. ASSUME NEW v \in Invoices, NEW k \in Keys, PaymentInvoice(v, k) PROVE TablesTypeOK'
    BY <2>1, <2>3 DEF PaymentInvoice, TablesTypeOK, Invoice
  <2>4. ASSUME NEW c \in Invites, InviteExpires(c) PROVE TablesTypeOK'
    BY <2>1, <2>4 DEF InviteExpires, TablesTypeOK
  <2>5. ASSUME NEW p \in Policies, SetPolicy(p) PROVE TablesTypeOK'
    BY <2>1, <2>5 DEF SetPolicy, TablesTypeOK
  <2> QED
    BY <2>2, <2>3, <2>4, <2>5
<1>3. RowsMove /\ sessions' \subseteq Wallets \X Ids
    BY <1>1 DEF RowsMove, RowMoves, IInv, TypeOK
<1> QED
    BY <1>1, <1>2, <1>3, OtherIsSafe

\* An erased row carries nothing and never comes back: requests that chose it keep
\* a target that no longer exists.
LEMMA EraseIsSafe ==
    ASSUME IInv, NEW i \in Ids, Erase(i)
    PROVE  Safe
<1>1. /\ UNCHANGED <<invites, invoices, policy, jobs, begun>>
      /\ rows[i].state = "present" /\ rows \in [Ids -> Row]
      /\ sessions' = {p \in sessions : p[2] # i}
    BY DEF Erase, Others, Present, IInv, TypeOK
<1> DEFINE row == [NoRow EXCEPT !.state = "erased", !.tokens = rows[i].tokens]
<1>2. row \in Row /\ row.state = "erased" /\ rows' = [rows EXCEPT ![i] = row]
    BY <1>1 DEF Erase, NoRow, Row
<1> HIDE DEF row
<1>3. TypeOK'
    BY <1>1, <1>2 DEF IInv, TypeOK
<1>4. RowsOwned' /\ SessionsOwned'
    BY <1>1, <1>2 DEF IInv, TypeOK, RowsOwned, SessionsOwned
<1>5. ASSUME NEW r \in Slots PROVE JobOwned(jobs[r])'
  <2>1. jobs'[r] = jobs[r] /\ JobOwned(jobs[r])
    BY <1>1 DEF IInv
  <2> QED
    BY <1>1, <1>2, <2>1 DEF JobOwned, Mine
<1>6. RowsKept
    BY <1>1, <1>2 DEF RowsKept
<1> QED
    BY <1>3, <1>4, <1>5, <1>6 DEF IInv, Safe

-------------------------------------------------------------------------------
(* The theorems.                                                           *)

\* Every step keeps the invariant and the owner of every row.
LEMMA EveryStepIsSafe ==
    ASSUME IInv, [Next]_vars
    PROVE  Safe
<1>1. ASSUME NEW s \in Slots, RegistrationStep(s) PROVE Safe
  <2>1. ASSUME Abort(s) PROVE Safe
      BY <2>1, EndIsSafe DEF Abort
  <2> QED
      BY <1>1, <2>1, BeginIsSafe, ExtensionReadsAreSafe, OtherReadsAreSafe,
         TargetWritesAreSafe, InsertsAreSafe, IssueSessionIsSafe DEF RegistrationStep
<1>2. ASSUME NEW i \in Ids, AccountStep(i) PROVE Safe
  BY <1>2, AccountIsSafe, EraseIsSafe DEF AccountStep
<1>3. CASE UNCHANGED vars
  <2>1. RowsMove /\ TablesTypeOK' /\ policy' \in Policies /\ sessions' \subseteq Wallets \X Ids
      BY <1>3 DEF vars, RowsMove, RowMoves, TablesTypeOK, IInv, TypeOK
  <2> QED
      BY <1>3, <2>1, OtherIsSafe DEF vars
<1> QED
  BY <1>1, <1>2, <1>3, GatesAreSafe DEF Next

\* The invariant holds in every behaviour.
LEMMA Invariance == Spec => []IInv
<1>1. Init => IInv
  <2> SUFFICES ASSUME Init PROVE IInv
    OBVIOUS
  <2>1. NoRow \in Row /\ NoRow.state = "unused"
    BY DEF NoRow, Row
  <2>2. NoJob \in Job /\ NoJob.pc = "idle"
    BY DEF NoJob, Job
  <2>3. TypeOK
    BY <2>1, <2>2, AccountsAssumption DEF Init, TypeOK, Invoice
  <2>4. RowsOwned /\ SessionsOwned
    BY <2>1 DEF Init, RowsOwned, SessionsOwned
  <2>5. \A s \in Slots : JobOwned(jobs[s])
    BY <2>2 DEF Init, JobOwned, Targeting, ExtensionSteps
  <2> QED
    BY <2>3, <2>4, <2>5 DEF IInv
<1>2. IInv /\ [Next]_vars => IInv'
    BY EveryStepIsSafe DEF Safe
<1> QED
    BY <1>1, <1>2, PTL DEF Spec

\* Every table and every request in flight stays well formed.
THEOREM AccountsTypeCorrect == Spec => []TypeOK
<1>1. IInv => TypeOK
    BY DEF IInv
<1> QED
    BY <1>1, Invariance, PTL

\* The pubkey_hash, the on-file key and the npub of a row always belong to one
\* wallet, however the database calls of concurrent registrations interleave.
THEOREM OneWalletPerRowHolds == Spec => []OneWalletPerRow
<1>1. IInv => OneWalletPerRow
  <2> SUFFICES ASSUME IInv, NEW i \in Present, NEW a \in WalletsOf(rows[i]),
                      NEW b \in WalletsOf(rows[i])
               PROVE  a = b
    BY DEF OneWalletPerRow
  <2>1. i \in Ids /\ rows[i].state = "present" /\ rows[i] \in Row
    BY DEF Present, IInv, TypeOK
  <2>2. PICK w \in Wallets : Carries(rows[i], w)
    BY <2>1 DEF IInv, RowsOwned
  <2>3. WalletsOf(rows[i]) = {w}
    BY <2>1, <2>2, CarriesOne
  <2> QED
    BY <2>3
<1> QED
    BY <1>1, Invariance, PTL

\* Every session belongs to the wallet whose identity its row carries.
THEOREM SessionsToOwnersHolds == Spec => []SessionsToOwners
<1>1. IInv => SessionsToOwners
  <2> SUFFICES ASSUME IInv, NEW p \in sessions
               PROVE  p[2] \in Present /\ p[1] \in WalletsOf(rows[p[2]])
    BY DEF SessionsToOwners
  <2>1. p[1] \in Wallets /\ p[2] \in Ids /\ rows[p[2]] \in Row
    BY DEF IInv, TypeOK
  <2>2. rows[p[2]].state = "present" /\ Carries(rows[p[2]], p[1])
    BY DEF IInv, SessionsOwned
  <2>3. WalletsOf(rows[p[2]]) = {p[1]}
    BY <2>1, <2>2, CarriesOne
  <2> QED
    BY <2>1, <2>2, <2>3 DEF Present
<1> QED
    BY <1>1, Invariance, PTL

\* A row that survives a step still carries the wallet it carried before: no
\* rotation, adoption, link or key upsert hands an account to another wallet.
THEOREM AccountKeepsItsWalletHolds == Spec => AccountKeepsItsWallet
<1> DEFINE A == \A i \in Present :
                   rows'[i].state = "present" => WalletsOf(rows[i]) \subseteq WalletsOf(rows'[i])
<1>1. IInv /\ [Next]_vars => [A]_vars
  <2> SUFFICES ASSUME IInv, [Next]_vars, NEW i \in Present, rows'[i].state = "present"
               PROVE  WalletsOf(rows[i]) \subseteq WalletsOf(rows'[i])
    OBVIOUS
  <2>1. Safe
    BY EveryStepIsSafe
  <2>2. i \in Ids /\ rows[i].state = "present" /\ rows[i] \in Row /\ rows'[i] \in Row
    BY <2>1 DEF Present, IInv, Safe, TypeOK
  <2>3. PICK w \in Wallets : Carries(rows[i], w)
    BY <2>2 DEF IInv, RowsOwned
  <2>4. Carries(rows'[i], w)
    BY <2>1, <2>2, <2>3 DEF Safe, RowsKept
  <2> QED
    BY <2>2, <2>3, <2>4, CarriesOne
<1> QED
    BY <1>1, Invariance, PTL DEF Spec, AccountKeepsItsWallet

-------------------------------------------------------------------------------
(* Gate tokens.  TokensBuyOneAccount is inductive once the rows nobody has *)
(* inserted yet are known to hold no token; what a request planned to      *)
(* spend, some steps ago, does not matter, because the transaction claims  *)
(* the tokens again.                                                       *)

TokenInv ==
    /\ TokensBuyOneAccount
    /\ \A i \in Ids : rows[i].state = "unused" => rows[i].tokens = {}

\* The step spends nothing, and no row's history changes.
SpendsNothing ==
    /\ \A i \in Ids : /\ rows'[i].tokens = rows[i].tokens
                      /\ rows'[i].state = "unused" => rows[i].state = "unused"
    /\ \A c \in Invites : invites'[c] = "used" <=> invites[c] = "used"
    /\ \A v \in Invoices : invoices'[v].consumed <=> invoices[v].consumed

\* A step that spends nothing keeps the invariant.
LEMMA SpendsNothingKeeps ==
    ASSUME TokenInv, SpendsNothing
    PROVE  TokenInv'
<1>1. \A tok \in Tokens : Spent(tok)' <=> Spent(tok)
    BY DEF SpendsNothing, Spent
<1>2. \A i \in Ids : rows'[i].tokens = rows[i].tokens
    BY DEF SpendsNothing
<1>3. TokensBuyOneAccount'
    BY <1>1, <1>2 DEF TokenInv, TokensBuyOneAccount
<1> QED
    BY <1>3 DEF TokenInv, SpendsNothing

\* So does a step that rewrites one row and keeps what was spent on it.
LEMMA RewriteSpendsNothing ==
    ASSUME TypeOK, NEW i \in Ids, NEW new, rows' = [rows EXCEPT ![i] = new],
           new.tokens = rows[i].tokens, new.state # "unused", UNCHANGED <<invites, invoices>>
    PROVE  SpendsNothing
<1>1. \A j \in Ids : rows'[j] = IF j = i THEN new ELSE rows[j]
    BY DEF TypeOK
<1> QED
    BY <1>1 DEF SpendsNothing

\* A step that writes none of the three tables spends nothing.
LEMMA ReadsSpendNothing ==
    ASSUME UNCHANGED <<rows, invites, invoices>>
    PROVE  SpendsNothing
    BY DEF SpendsNothing

\* The steps of a request that update an existing row.
LEMMA UpdatesSpendNothing ==
    ASSUME TypeOK, NEW s \in Slots, MoveIdentity(s) \/ Backfill(s) \/ UpsertKeys(s)
    PROVE  SpendsNothing
<1>0. rows \in [Ids -> Row] /\ \A i \in Present : i \in Ids /\ rows[i] \in Row
    BY DEF TypeOK, Present
<1>1. CASE UNCHANGED rows
    BY <1>1, ReadsSpendNothing DEF MoveIdentity, Backfill, UpsertKeys
<1>2. CASE rows' # rows
  <2>1. PICK i : i = jobs[s].target
    OBVIOUS
  <2>2. i \in Present
    BY <1>2, <2>1 DEF MoveIdentity, Backfill, UpsertKeys
  <2>3. i \in Ids /\ rows[i] \in Row /\ rows[i].state = "present"
    BY <1>0, <2>2 DEF Present
  <2>4. \/ \E k : rows' = [rows EXCEPT ![i] = [rows[i] EXCEPT !.pkh = k]]
        \/ \E f : rows' = [rows EXCEPT ![i] = [rows[i] EXCEPT !.fp = f]]
        \/ \E k : rows' = [rows EXCEPT ![i] = [rows[i] EXCEPT !.key = k]]
    BY <1>2, <2>1, <2>2 DEF MoveIdentity, Backfill, UpsertKeys
  <2>5. \A x : \A new \in {[rows[i] EXCEPT !.pkh = x], [rows[i] EXCEPT !.fp = x],
                           [rows[i] EXCEPT !.key = x]} :
          new.tokens = rows[i].tokens /\ new.state = "present"
    BY <2>3 DEF Row
  <2>6. PICK new : /\ rows' = [rows EXCEPT ![i] = new]
                   /\ new.tokens = rows[i].tokens /\ new.state = "present"
    BY <2>4, <2>5
  <2>7. UNCHANGED <<invites, invoices>>
    BY DEF MoveIdentity, Backfill, UpsertKeys
  <2> QED
    BY <2>3, <2>6, <2>7, RewriteSpendsNothing
<1> QED
    BY <1>1, <1>2

\* The plain insert is of a row that was bought with nothing.
LEMMA CreateUserSpendsNothing ==
    ASSUME TypeOK, TokenInv, NEW s \in Slots, NEW i \in Ids, CreateUser(s, i)
    PROVE  SpendsNothing
<1>1. CASE UNCHANGED rows
    BY <1>1, ReadsSpendNothing DEF CreateUser
<1>2. CASE rows' = [rows EXCEPT ![i] = NewUser(jobs[s], None, {})]
  <2>1. /\ NewUser(jobs[s], None, {}).tokens = {} /\ rows[i].tokens = {}
        /\ NewUser(jobs[s], None, {}).state = "present"
    BY DEF NewUser, CreateUser, TokenInv
  <2>2. UNCHANGED <<invites, invoices>>
    BY DEF CreateUser
  <2> HIDE DEF NewUser
  <2> QED
    BY <1>2, <2>1, <2>2, RewriteSpendsNothing
<1> QED
    BY <1>1, <1>2 DEF CreateUser

\* create_user_consuming_gates: what it spends was unspent, is recorded with the
\* one row it inserts, and nothing is spent without that row.
LEMMA PurchaseKeeps ==
    ASSUME TypeOK, TokenInv, NEW s \in Slots, NEW i \in Ids, CreateUserConsumingGates(s, i)
    PROVE  TokenInv'
<1> DEFINE job == jobs[s]
           T == {job.invite, job.invoice} \ {None}
           new == NewUser(job, job.in.key, T)
<1>1. CASE UNCHANGED <<rows, invites, invoices>>
    BY <1>1, ReadsSpendNothing, SpendsNothingKeeps
<1>2. CASE /\ job.invite # None => invites[job.invite] = "fresh"
           /\ job.invoice # None => ~invoices[job.invoice].consumed
           /\ rows' = [rows EXCEPT ![i] = new]
           /\ invites' = [c \in Invites |-> IF c = job.invite THEN "used" ELSE invites[c]]
           /\ invoices' = [v \in Invoices |->
                             IF v = job.invoice THEN [invoices[v] EXCEPT !.consumed = TRUE]
                                                ELSE invoices[v]]
  <2>1. /\ job.invite \in Invites \union {None} /\ job.invoice \in Invoices \union {None}
        /\ None \notin Tokens /\ Invites \intersect Invoices = {}
    BY AccountsAssumption DEF TypeOK, Job, Tokens
  <2>2. new.tokens = T /\ new.state = "present" /\ rows[i].tokens = {}
    BY DEF NewUser, CreateUserConsumingGates, TokenInv
  <2> HIDE DEF new
  <2>3. \A j \in Ids : rows'[j] = IF j = i THEN new ELSE rows[j]
    BY <1>2 DEF TypeOK
  <2>4. \A tok \in T : tok \in Tokens /\ ~Spent(tok)
    BY <1>2, <2>1 DEF Spent, Tokens
  <2>5. \A tok \in Tokens : Spent(tok)' <=> Spent(tok) \/ tok \in T
    <3>1. \A c \in Invites : invites'[c] = "used" <=> invites[c] = "used" \/ c \in T
      BY <1>2, <2>1 DEF Tokens
    <3>2. \A v \in Invoices : invoices'[v].consumed <=> invoices[v].consumed \/ v \in T
      <4>1. \A v \in Invoices : /\ invoices[v].consumed \in BOOLEAN
                                /\ [invoices[v] EXCEPT !.consumed = TRUE].consumed = TRUE
        BY DEF TypeOK, Invoice
      <4> QED
        BY <1>2, <2>1, <4>1 DEF Tokens
    <3> HIDE DEF T
    <3> QED
      BY <2>1, <3>1, <3>2 DEF Spent, Tokens
  <2> HIDE DEF T
  <2>6. ASSUME NEW tok \in Tokens
        PROVE  /\ Spent(tok)' <=> \E j \in Ids : tok \in rows'[j].tokens
               /\ \A j, k \in Ids : tok \in rows'[j].tokens \intersect rows'[k].tokens => j = k
    <3>1. /\ Spent(tok) <=> \E j \in Ids : tok \in rows[j].tokens
          /\ \A j, k \in Ids : tok \in rows[j].tokens \intersect rows[k].tokens => j = k
      BY DEF TokenInv, TokensBuyOneAccount
    <3>2. \A j \in Ids : tok \in rows'[j].tokens <=>
                           (j = i /\ tok \in T) \/ tok \in rows[j].tokens
      BY <2>2, <2>3
    <3> QED
      BY <2>4, <2>5, <3>1, <3>2
  <2>7. \A j \in Ids : rows'[j].state = "unused" => rows'[j].tokens = {}
    BY <2>2, <2>3 DEF TokenInv
  <2> QED
    BY <2>6, <2>7 DEF TokenInv, TokensBuyOneAccount
<1> QED
    BY <1>1, <1>2 DEF CreateUserConsumingGates

\* Linking, signing in and out, renaming and erasing spend nothing.
LEMMA AccountSpendsNothing ==
    ASSUME TypeOK, NEW i \in Ids, AccountStep(i),
           \A p \in sessions : rows[p[2]].state = "present"
    PROVE  SpendsNothing
<1>0. rows[i] \in Row
    BY DEF TypeOK
<1>1. CASE Erase(i)
  <2> DEFINE new == [NoRow EXCEPT !.state = "erased", !.tokens = rows[i].tokens]
  <2>1. new.tokens = rows[i].tokens /\ new.state = "erased"
    BY DEF NoRow
  <2> HIDE DEF new
  <2> QED
    BY <1>1, <2>1, RewriteSpendsNothing DEF Erase, new
<1>2. ASSUME NEW w \in Wallets, NEW n \in Names, UpdateUsername(w, i, n)
      PROVE  SpendsNothing
  <2>1. rows[i].state = "present"
    BY <1>2 DEF UpdateUsername
  <2>2. LET new == [rows[i] EXCEPT !.name = n]
        IN  new.tokens = rows[i].tokens /\ new.state = "present"
    BY <1>0, <2>1 DEF Row
  <2> QED
    BY <1>2, <2>2, RewriteSpendsNothing DEF UpdateUsername
<1>3. CASE UNCHANGED <<rows, invites, invoices>>
    BY <1>3, ReadsSpendNothing
<1>4. ASSUME NEW w \in Wallets, NostrLink(w, i)
      PROVE  SpendsNothing
  <2>1. rows[i].state = "present"
    BY <1>4 DEF NostrLink
  <2>2. LET new == [rows[i] EXCEPT !.npub = w]
        IN  new.tokens = rows[i].tokens /\ new.state = "present"
    BY <1>0, <2>1 DEF Row
  <2> QED
    BY <1>4, <2>2, RewriteSpendsNothing DEF NostrLink
<1> QED
    BY <1>1, <1>2, <1>3, <1>4 DEF AccountStep, NostrLogin, Logout

\* Invoices, their payment, expiring invites and the operator spend nothing.
LEMMA OthersSpendNothing ==
    ASSUME TypeOK,
           \/ \E v \in Invoices : Pay(v) \/ \E k \in Keys : PaymentInvoice(v, k)
           \/ \E c \in Invites : InviteExpires(c)
           \/ \E p \in Policies : SetPolicy(p)
    PROVE  SpendsNothing
<1>1. ASSUME NEW v \in Invoices, Pay(v) \/ \E k \in Keys : PaymentInvoice(v, k)
      PROVE  SpendsNothing
  <2>1. \/ invoices' = [invoices EXCEPT ![v] = [invoices[v] EXCEPT !.paid = TRUE]]
        \/ \E k \in Keys : invoices' = [invoices EXCEPT ![v] = [invoices[v] EXCEPT !.bound = k]]
    BY <1>1 DEF Pay, PaymentInvoice
  <2>2. \A u \in Invoices : invoices'[u].consumed = invoices[u].consumed
    BY <2>1 DEF TypeOK, Invoice
  <2>3. UNCHANGED <<rows, invites>>
    BY <1>1 DEF Pay, PaymentInvoice
  <2> QED
    BY <2>2, <2>3 DEF SpendsNothing
<1>2. ASSUME NEW c \in Invites, InviteExpires(c)
      PROVE  SpendsNothing
  <2>1. \A d \in Invites : invites'[d] = IF d = c THEN "expired" ELSE invites[d]
    BY <1>2 DEF InviteExpires, TypeOK
  <2> QED
    BY <1>2, <2>1 DEF InviteExpires, SpendsNothing
<1>3. ASSUME NEW p \in Policies, SetPolicy(p)
      PROVE  SpendsNothing
    BY <1>3, ReadsSpendNothing DEF SetPolicy
<1> QED
    BY <1>1, <1>2, <1>3

\* Every step keeps TokenInv.
LEMMA StepKeepsTokens ==
    ASSUME IInv, TokenInv, [Next]_vars
    PROVE  TokenInv'
<1>0. TypeOK /\ \A p \in sessions : rows[p[2]].state = "present"
    BY DEF IInv, SessionsOwned
<1>1. ASSUME NEW s \in Slots, RegistrationStep(s)
      PROVE  TokenInv'
  <2>1. CASE MoveIdentity(s) \/ Backfill(s) \/ UpsertKeys(s)
    BY <1>0, <2>1, UpdatesSpendNothing, SpendsNothingKeeps
  <2>2. CASE \E i \in Ids : CreateUser(s, i)
    BY <1>0, <2>2, CreateUserSpendsNothing, SpendsNothingKeeps
  <2>3. CASE \E i \in Ids : CreateUserConsumingGates(s, i)
    BY <1>0, <2>3, PurchaseKeeps
  <2>4. CASE UNCHANGED <<rows, invites, invoices>>
    BY <2>4, ReadsSpendNothing, SpendsNothingKeeps
  <2> QED
    BY <1>1, <2>1, <2>2, <2>3, <2>4
    DEF RegistrationStep, Reads, Begin, LookupPubkey, LookupFingerprint, ReadStoredKey,
        CheckFingerprintOwner, NostrLookup, FingerprintFree, Reread, Merge, PlanGateConsume,
        IssueSession, Abort
<1>2. CASE UNCHANGED vars
    BY <1>2, ReadsSpendNothing, SpendsNothingKeeps DEF vars
<1>3. CASE \E i \in Ids : AccountStep(i)
    BY <1>0, <1>3, AccountSpendsNothing, SpendsNothingKeeps
<1>4. CASE \/ \E v \in Invoices : Pay(v) \/ \E k \in Keys : PaymentInvoice(v, k)
           \/ \E c \in Invites : InviteExpires(c)
           \/ \E p \in Policies : SetPolicy(p)
    BY <1>0, <1>4, OthersSpendNothing, SpendsNothingKeeps
<1> QED
    BY <1>1, <1>2, <1>3, <1>4 DEF Next

\* A gate token is spent exactly when one account was inserted with it, for any
\* number of requests that present it at once, whose rows collide, fail or are
\* erased later (create_user_consuming_gates).
THEOREM TokensBuyOneAccountHolds == Spec => []TokensBuyOneAccount
<1>1. Init => TokenInv
    BY DEF Init, NoRow, TokenInv, TokensBuyOneAccount, Spent, Tokens
<1>2. IInv /\ TokenInv /\ [Next]_vars => TokenInv'
    BY StepKeepsTokens
<1>3. TokenInv => TokensBuyOneAccount
    BY DEF TokenInv
<1> QED
    BY <1>1, <1>2, <1>3, Invariance, PTL DEF Spec
===============================================================================
