------------------------------ MODULE MCErasure ------------------------------
(***************************************************************************)
(* Two promises to a user that must be kept in the end: a confirmed        *)
(* erasure, and the premium time an invoice bought (Premium).  They share  *)
(* no state: the initial state chooses which one moves, so the states add  *)
(* up, and the fairness of each is that of its own specification.          *)
(***************************************************************************)
EXTENDS Erasure

CONSTANTS Payers, Invoices, Rails, Primary, Plans, Slots, MaxPending, MaxTime, MaxOutages \* Premium

VARIABLES focus,
          rails, processor, rows, until, now, req, used, outages   \* Premium

premiumVars == <<rails, processor, rows, until, now, req, used, outages>>
all == <<focus, vars, premiumVars>>

Payments == INSTANCE Premium WITH Users <- Payers

ASSUME PaymentsOK == Payments!ConstantsOK

OnErasure(A) == focus = "erasure" /\ A /\ UNCHANGED <<focus, premiumVars>>
OnPremium(A) == focus = "premium" /\ A /\ UNCHANGED <<focus, vars>>

InitErasure == focus \in {"erasure", "premium"} /\ Init /\ Payments!Init
NextErasure == OnErasure(Next) \/ OnPremium(Payments!Next)

ErasureFairness ==
    /\ \A w \in Replicas : /\ WF_all(OnErasure(SweepSelect(w)))
                           /\ WF_all(OnErasure(\E i \in Ids : SweepExecute(w, i)))
    /\ <>[][~OnErasure(FaultStep)]_all

PremiumFairness ==
    /\ \A s \in Slots : /\ WF_all(OnPremium(Payments!Minting(s)))
                        /\ WF_all(OnPremium(Payments!Activating(s)))
    /\ \A i \in Invoices :
          SF_all(OnPremium(\E s \in Slots, u \in Payers : Payments!ActivateReads(s, u, i)))
    /\ WF_all(OnPremium(Payments!RailReturns))

SpecErasure ==
    /\ InitErasure /\ [][NextErasure]_all
    /\ ErasureFairness /\ PremiumFairness

(* The properties of the instances, by the names the configuration uses.   *)

\* Premium time is exactly what settled invoices bought, whichever activations race
\* (activate_premium).
PremiumIsPaidTime == Payments!PremiumIsPaidTime

\* What was paid is credited in the end (activate).
PaidIsCredited == Payments!PaidIsCredited
===============================================================================
