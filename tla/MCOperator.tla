------------------------------ MODULE MCOperator ------------------------------
(***************************************************************************)
(* What the operator runs: the admin plane and the settings (MCServices),  *)
(* admission to the relay (RelayAdmission) and the audit chain             *)
(* (AuditChain).  They share no state: focus chooses which one moves, so   *)
(* the states add up.                                                      *)
(***************************************************************************)
EXTENDS MCServices

CONSTANTS Npubs, Subscribers, Allowed, Policies, PowBits, MaxChanges, \* RelayAdmission
          Actions                                                     \* AuditChain

VARIABLES policy, npub, active, event, pc, read, held, steady, permit, changes, \* RelayAdmission
          log, tx, chainLock                                                    \* AuditChain

relayVars == <<policy, npub, active, event, pc, read, held, steady, permit, changes>>
auditVars == <<log, tx, chainLock>>

Relay == INSTANCE RelayAdmission WITH Users <- Subscribers

Audit == INSTANCE AuditChain WITH NoAction <- None, lock <- chainLock

ASSUME InstancesOK == Relay!ConstantsOK /\ Audit!ConstantsOK

Idle == UNCHANGED <<focus, vars, settings>>

OnRelay(A) == focus = "relay" /\ A /\ Idle /\ UNCHANGED auditVars
OnAudit(A) == focus = "audit" /\ A /\ Idle /\ UNCHANGED relayVars

InitOperator ==
    /\ InitServices /\ Relay!Init /\ Audit!Init
    /\ focus # "relay" => policy = "open"

NextOperator ==
    \/ NextServices /\ UNCHANGED <<relayVars, auditVars>>
    \/ OnRelay(Relay!Next) \/ OnAudit(Audit!Next)

SpecOperator ==
    /\ InitOperator /\ [][NextOperator]_<<all, relayVars, auditVars>>
    /\ \A o \in Operators : WF_all(OnConfig(Config!Put(o)))
    /\ WF_all(OnConfig(Config!Drain)) /\ WF_all(OnConfig(Config!SelfRestart))

(* The properties of the instances, by the names the configuration uses.   *)

\* The relay's verdict and the posting rights a client is told follow the facts
\* (event_admit, decide, general_posting_rights).
AdmissionFaithful == Relay!AdmissionFaithful

\* The audit log verifies, and of what can be made of it by editing only its
\* beginnings do (append_admin_audit, verify_admin_audit_chain).
ChainTellsEdits == Audit!ChainTellsEdits
===============================================================================
