------------------------------ MODULE MCServices ------------------------------
(***************************************************************************)
(* Components that share no state with the rest or with each other,        *)
(* explored side by side: the initial state chooses which one moves, so    *)
(* the states add up instead of multiplying.                               *)
(***************************************************************************)
EXTENDS AdminKeys

CONSTANTS Focus,   \* the components to explore
          Operators, Patches, Base, Saved, MaxPuts, MaxBoots, Unset  \* OperatorConfig

VARIABLES focus, overlay, version, running, captured, state, due, edits, puts, boots

settings == <<overlay, version, running, captured, state, due, edits, puts, boots>>
all == <<focus, vars, settings>>

Fields == {"auto", "powEnabled", "powRequired", "premium", "confirmed", "invite",
           "relay", "premiumPost"}

\* Premium on, with what it needs, and self-restarts.
MCBase == [f \in Fields |-> f \in {"premium", "relay", "premiumPost", "confirmed", "auto"}]

MCPatches == {[premium |-> FALSE], [premium |-> TRUE], [confirmed |-> FALSE],
              [invite |-> TRUE, powEnabled |-> TRUE]}

Config == INSTANCE OperatorConfig WITH jobs <- edits

ASSUME ConfigAssumption == Config!ConstantsOK

OnConfig(A) == focus = "config" /\ A /\ UNCHANGED <<focus, vars>>
OnKeys(A) == focus = "keys" /\ A /\ UNCHANGED <<focus, settings>>

InitServices == focus \in Focus /\ Init /\ Config!Init

NextServices == OnKeys(Next) \/ OnConfig(Config!Next)

SpecServices ==
    /\ InitServices /\ [][NextServices]_all
    /\ \A o \in Operators : WF_all(OnConfig(Config!Put(o)))
    /\ WF_all(OnConfig(Config!Drain)) /\ WF_all(OnConfig(Config!SelfRestart))

(* The properties of OperatorConfig, by the names the configurations use.  *)

\* The running configuration always satisfies the rules of boot (the second
\* validation of admin_config_put), and a hot swap never changes what clients and
\* workers captured at boot (runtime_class).
RunningSound == Config!RunningValid /\ Config!BootFieldsStay

\* A PUT that carries versions never undoes another operator's edit of a section
\* that was saved before (put_setting_audited).
GuardedEditKeepsOthers == [][Config!EditKeepsOthers(Saved)]_all

\* The same of every section: "FOR UPDATE serializes concurrent writers to the same
\* section" (put_setting_audited).
EveryEditKeepsOthers == [][Config!EditKeepsOthers(Config!SectionNames)]_all

\* In auto mode what is stored comes into force by itself (the restart signal).
AutoApplied == Config!AutoApplied
===============================================================================
