------------------------------ MODULE AuditChain ------------------------------
(***************************************************************************)
(* The audit chain of privileged actions (infra/db/admin_audit.rs).  Every *)
(* action appends one row in a transaction; appends serialise on a lock    *)
(* that the transaction holds to its end.  A hash is the tuple of what it  *)
(* covers: two hashes are equal exactly if their inputs are.               *)
(***************************************************************************)
EXTENDS Naturals, Sequences

CONSTANTS Actions,    \* the privileged actions of a behaviour
          NoAction

ConstantsOK == NoAction \notin Actions

VARIABLES log,     \* the rows of admin_audit_logs by seq
          tx,      \* tx[a]: the transaction that appends a's row
          lock     \* the action whose transaction holds CHAIN_LOCK_KEY

vars == <<log, tx, lock>>

Genesis == <<"genesis">>

\* A slip: the hash links to the row before and leaves the entry out.
ChainHashBare(prev, seq, entry) == <<prev, seq, "entry">>

\* chain_hash: an HMAC over the previous hash, the number and the entry.
ChainHash(prev, seq, entry) == <<prev, seq, entry>>

Row(seq, entry, prev) == [seq |-> seq, entry |-> entry, prev |-> prev,
                          hash |-> ChainHash(prev, seq, entry)]

\* A transaction: its step, and the number and hash of the row it will follow.
NoTx == [pc |-> "new", seq |-> 0, prev |-> Genesis]

TypeOK ==
    /\ \E n \in Nat : DOMAIN log = 1..n
    /\ \A i \in DOMAIN log : log[i].entry \in Actions
    /\ DOMAIN tx = Actions
    /\ \A a \in Actions : tx[a].pc \in {"new", "lock", "read", "insert", "ended"} /\ tx[a].seq \in Nat
    /\ lock \in Actions \cup {NoAction}

Init == log = <<>> /\ lock = NoAction /\ tx = [a \in Actions |-> NoTx]

Goes(a, pc) == tx' = [tx EXCEPT ![a].pc = pc]

Begin(a) == tx[a].pc = "new" /\ Goes(a, "lock") /\ UNCHANGED <<log, lock>>

Lock(a) ==
    /\ tx[a].pc = "lock" /\ lock = NoAction /\ lock' = a /\ Goes(a, "read")
    /\ UNCHANGED log

\* The row to follow: the last one committed, or the genesis hash.
ReadLast(a) ==
    /\ tx[a].pc = "read"
    /\ tx' = [tx EXCEPT ![a] = [pc |-> "insert", seq |-> Len(log),
                                prev |-> IF log = <<>> THEN Genesis ELSE log[Len(log)].hash]]
    /\ UNCHANGED <<log, lock>>

Unlocked(a) == lock' = IF lock = a THEN NoAction ELSE lock

\* The row is inserted with the next seq, which is UNIQUE, and the transaction commits.
Commit(a) ==
    /\ tx[a].pc = "insert"
    /\ log' = IF tx[a].seq = Len(log) THEN Append(log, Row(tx[a].seq + 1, a, tx[a].prev)) ELSE log
    /\ Goes(a, "ended") /\ Unlocked(a)

\* An error or a crash anywhere before that; the lock goes with the transaction.
RollBack(a) ==
    /\ tx[a].pc \in {"lock", "read", "insert"} /\ Goes(a, "ended") /\ Unlocked(a)
    /\ UNCHANGED log

Next == \E a \in Actions : Begin(a) \/ Lock(a) \/ ReadLast(a) \/ Commit(a) \/ RollBack(a)

Spec == Init /\ [][Next]_vars

\* verify_admin_audit_chain
Verify(rows) ==
    \A i \in DOMAIN rows :
       /\ rows[i].seq = i
       /\ rows[i].prev = IF i = 1 THEN Genesis ELSE rows[i - 1].hash
       /\ rows[i].hash = ChainHash(rows[i].prev, rows[i].seq, rows[i].entry)

-------------------------------------------------------------------------------
(* Properties.                                                             *)

\* Tables of n rows whose hashes the server wrote: what is left of the log after its
\* rows were edited, dropped or reordered by someone without the secret.
Edited(n) ==
    [1..n -> [seq : DOMAIN log, entry : Actions,
              prev : {Genesis} \cup {log[i].hash : i \in DOMAIN log},
              hash : {log[i].hash : i \in DOMAIN log}]]

\* However appends race, fail or are cut off, the log verifies; and of what can be
\* made of it by editing, only its beginnings do ("detects any edit, deletion, or
\* reorder", admin_audit.rs; dropping the last rows is not detected).
ChainTellsEdits ==
    /\ Verify(log)
    /\ \A n \in DOMAIN log : \A rows \in Edited(n) :
          Verify(rows) => \A i \in 1..n : rows[i] = log[i]
===============================================================================
