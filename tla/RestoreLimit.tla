----------------------------- MODULE RestoreLimit -----------------------------
(***************************************************************************)
(* The two governors of /auth/check-restore: attempts of one address, and  *)
(* failed attempts on one fingerprint, in the last hour.  Both counts are  *)
(* read before the answer is worked out and the attempt is recorded after  *)
(* it, by a statement whose failure is ignored.  Of the table restore_     *)
(* attempts the model keeps what its two COUNTs return.                    *)
(***************************************************************************)
EXTENDS Naturals, FiniteSets

CONSTANTS Fingerprints, Known,  \* fingerprints, and those of an account here
          Slots,                \* requests in flight, all from one address
          IpThreshold, FailThreshold,
          MaxLost               \* failed INSERTs

ConstantsOK ==
    /\ Fingerprints # {} /\ Known \subseteq Fingerprints
    /\ IsFiniteSet(Slots) /\ Slots # {}
    /\ IpThreshold \in Nat \ {0} /\ FailThreshold \in Nat \ {0} /\ MaxLost \in Nat

VARIABLES attempts,  \* rows of the address this hour
          failed,    \* failed[f]: rows of f this hour with success = FALSE
          probe,     \* Slots -> request
          answered,  \* attempts of the address answered this hour
          tried,     \* tried[f]: those on f
          lost       \* those that were not recorded

vars == <<attempts, failed, probe, answered, tried, lost>>

Steps == {"idle", "by_fingerprint", "answer"}
Probe == [pc : Steps, fp : Fingerprints]
NoProbe == [pc |-> "idle", fp |-> CHOOSE f \in Fingerprints : TRUE]

TypeOK ==
    /\ attempts \in Nat /\ failed \in [Fingerprints -> Nat]
    /\ probe \in [Slots -> Probe]
    /\ answered \in Nat /\ tried \in [Fingerprints -> Nat]
    /\ lost \in 0..MaxLost

Init ==
    /\ attempts = 0 /\ failed = [f \in Fingerprints |-> 0]
    /\ probe = [s \in Slots |-> NoProbe]
    /\ answered = 0 /\ tried = [f \in Fingerprints |-> 0]
    /\ lost = 0

\* A slip: the limit is checked with one attempt to spare.
IpRefusedLate == attempts > IpThreshold

\* The per-address governor: at the threshold the request is refused (429).
IpRefused == attempts >= IpThreshold

CountByIp(s, f) ==
    /\ probe[s].pc = "idle" /\ ~IpRefused
    /\ probe' = [probe EXCEPT ![s] = [pc |-> "by_fingerprint", fp |-> f]]
    /\ UNCHANGED <<attempts, failed, answered, tried, lost>>

\* The per-fingerprint governor counts failures only.
CountByFingerprint(s) ==
    /\ probe[s].pc = "by_fingerprint"
    /\ probe' = [probe EXCEPT ![s].pc =
                   IF failed[probe[s].fp] >= FailThreshold THEN "idle" ELSE "answer"]
    /\ UNCHANGED <<attempts, failed, answered, tried, lost>>

\* record_restore_attempt; its failure is ignored.
Record(f, success) ==
    \/ /\ attempts' = attempts + 1
       /\ failed' = IF success THEN failed ELSE [failed EXCEPT ![f] = @ + 1]
       /\ UNCHANGED lost
    \/ lost < MaxLost /\ lost' = lost + 1 /\ UNCHANGED <<attempts, failed>>

\* The keys are compared and the attempt is recorded; an unknown fingerprint fails.
Answer(s) ==
    /\ probe[s].pc = "answer"
    /\ \E success \in IF probe[s].fp \in Known THEN BOOLEAN ELSE {FALSE} :
          Record(probe[s].fp, success)
    /\ answered' = answered + 1 /\ tried' = [tried EXCEPT ![probe[s].fp] = @ + 1]
    /\ probe' = [probe EXCEPT ![s] = NoProbe]

\* An hour passes: the attempts no longer count (the requests in flight stay).
HourPasses ==
    /\ attempts > 0
    /\ attempts' = 0 /\ failed' = [f \in Fingerprints |-> 0]
    /\ answered' = 0 /\ tried' = [f \in Fingerprints |-> 0] /\ lost' = 0
    /\ UNCHANGED probe

Next ==
    \/ \E s \in Slots, f \in Fingerprints : CountByIp(s, f)
    \/ \E s \in Slots : CountByFingerprint(s) \/ Answer(s)
    \/ HourPasses

Spec == Init /\ [][Next]_vars

\* The governors overshoot by no more than the requests in flight: in an hour an
\* address is answered, and an unknown fingerprint is tried, at most the threshold plus
\* the other requests that were counted before, plus the attempts whose record was lost.
RestoreBounded ==
    LET slack == (Cardinality(Slots) - 1) + lost
    IN /\ answered <= IpThreshold + slack
       /\ \A f \in Fingerprints \ Known : tried[f] <= FailThreshold + slack
===============================================================================
