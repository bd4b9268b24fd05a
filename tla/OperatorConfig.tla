---------------------------- MODULE OperatorConfig ----------------------------
(***************************************************************************)
(* The operator settings (api/admin.rs admin_config_get and _put,          *)
(* config_overlay.rs, infra/db/operator_settings.rs, the boot sequence of  *)
(* main.rs): a table of sections, one versioned document each, laid over   *)
(* the environment's configuration; the effective configuration of the     *)
(* running process; and PUT requests that load, merge, validate, write     *)
(* section by section and then swap the running configuration.  Settings   *)
(* are Boolean: premium-post or another write policy, at least one         *)
(* confirmation or none.                                                   *)
(***************************************************************************)
EXTENDS Naturals, Sequences, SequencesExt

CONSTANTS Operators,  \* consoles in use, one request each at a time
          Patches,    \* the edits they make: functions from some fields to values
          Base,       \* config_base: the configuration from the environment
          Saved,      \* the sections that have a row when the model starts
          MaxPuts,    \* bound: PUT requests begun
          MaxBoots,   \* bound: crashes and deployments (self-restarts are not bounded)
          Unset

Fields == {"auto", "powEnabled", "powRequired", "premium", "confirmed", "invite",
           "relay", "premiumPost"}

\* The section a field is stored in.
SectionOf == [f \in Fields |->
    CASE f = "auto" -> "console"
      [] f \in {"powEnabled", "powRequired"} -> "pow"
      [] f = "premium" -> "premium"
      [] f \in {"confirmed", "invite"} -> "registration"
      [] f \in {"relay", "premiumPost"} -> "relay"]

Sections == <<"console", "pow", "premium", "registration", "relay">>
SectionNames == Range(Sections)

\* runtime_class: fields captured by clients and workers built at boot.
RestartRequired == {"premium", "relay", "premiumPost"}

Config == [Fields -> BOOLEAN]
Overlay == [Fields -> BOOLEAN \union {Unset}]

\* Config::validate, as far as editable fields can break it: proof of work is not
\* required while it is off, and premium needs the relay with the premium-post
\* policy and invoices that wait for a confirmation.
Validate(c) ==
    /\ c["powRequired"] => c["powEnabled"]
    /\ c["premium"] => c["relay"] /\ c["premiumPost"] /\ c["confirmed"]

ConstantsOK ==
    /\ Unset \notin BOOLEAN
    /\ Base \in Config /\ Validate(Base)
    /\ \A p \in Patches : \E F \in SUBSET Fields : F # {} /\ p \in [F -> BOOLEAN]
    /\ Saved \subseteq SectionNames
    /\ MaxPuts \in Nat /\ MaxBoots \in Nat

VARIABLES overlay,   \* operator_settings: the stored documents
          version,   \* version[s] of a section, 0 while it has no row
          running,   \* the effective configuration, an ArcSwap
          captured,  \* history: the configuration clients and workers were built from
          state,     \* "serving", or "draining" after a self-restart was asked for
          due,       \* a self-restart is scheduled
          jobs, puts, boots

vars == <<overlay, version, running, captured, state, due, jobs, puts, boots>>

\* A PUT in flight: its patch, the versions it expects (Unset: not checked), the
\* overlay it loaded with its patch, the sections still to write, the version found
\* of the first of them, and the configuration it will store.
NoJob == [pc |-> "idle", patch |-> <<>>, expected |-> Unset, merged |-> Unset, todo |-> <<>>,
          found |-> 0, hot |-> Unset]

\* Laying an overlay or a patch over a configuration.
ApplyOverlay(c, ov) == [f \in Fields |-> IF ov[f] = Unset THEN c[f] ELSE ov[f]]
ApplyPatch(c, p) == [f \in Fields |-> IF f \in DOMAIN p THEN p[f] ELSE c[f]]

\* The configuration a boot takes: the environment alone when the overlay does not
\* validate.
Effective == LET c == ApplyOverlay(Base, overlay) IN IF Validate(c) THEN c ELSE Base

Version == 0..(MaxPuts + 1)

TypeOK ==
    /\ overlay \in Overlay
    /\ version \in [SectionNames -> Version]
    /\ running \in Config /\ captured \in Config
    /\ state \in {"serving", "draining"} /\ due \in BOOLEAN
    /\ \A o \in Operators :
          /\ jobs[o].pc \in {"idle", "load", "put", "write", "swap", "store"}
          /\ jobs[o].patch \in Patches \union {<<>>}
          /\ jobs[o].expected \in [SectionNames -> Version] \union {Unset}
          /\ jobs[o].merged \in Overlay \union {Unset}
          /\ jobs[o].todo \in Seq(SectionNames)
          /\ jobs[o].found \in Version
          /\ jobs[o].hot \in Config \union {Unset}
    /\ puts \in 0..MaxPuts /\ boots \in 0..MaxBoots

Init ==
    /\ overlay = [f \in Fields |-> IF SectionOf[f] \in Saved THEN Base[f] ELSE Unset]
    /\ version = [s \in SectionNames |-> IF s \in Saved THEN 1 ELSE 0]
    /\ running = Base /\ captured = Base
    /\ state = "serving" /\ due = FALSE
    /\ jobs = [o \in Operators |-> NoJob]
    /\ puts = 0 /\ boots = 0

-------------------------------------------------------------------------------
(* PUT /admin/config.                                                      *)

Goto(o, job) == jobs' = [jobs EXCEPT ![o] = job]

\* A request with the versions of an earlier GET, or without any.
Begin(o, p, checked) ==
    /\ jobs[o].pc = "idle" /\ state = "serving" /\ puts < MaxPuts
    /\ puts' = puts + 1
    /\ Goto(o, [NoJob EXCEPT !.pc = "load", !.patch = p,
                             !.expected = IF checked THEN version ELSE Unset])
    /\ UNCHANGED <<overlay, version, running, captured, state, due, boots>>

\* A transaction that found the row of section s holds its lock.
RowLocked(s) ==
    \E o \in Operators : jobs[o].pc = "write" /\ Head(jobs[o].todo) = s /\ jobs[o].found > 0

Touched(p) == {SectionOf[f] : f \in DOMAIN p}

\* load_settings_overlay, json_merge_skip_null and the validation of the whole
\* result against the rules of boot.
Load(o) ==
    LET job == jobs[o]
        merged == ApplyPatch(overlay, job.patch)
    IN  /\ job.pc = "load"
        /\ IF Validate(ApplyOverlay(Base, merged))
           THEN Goto(o, [job EXCEPT !.pc = "put", !.merged = merged,
                                    !.todo = SelectSeq(Sections, LAMBDA s : s \in Touched(job.patch))])
           ELSE Goto(o, NoJob)
        /\ UNCHANGED <<overlay, version, running, captured, state, due, puts, boots>>

\* A slip: the expected version is not compared.
PutReadUnguarded(o) ==
    LET s == Head(jobs[o].todo)
    IN  /\ jobs[o].pc = "put" /\ jobs[o].todo # <<>>
        /\ ~RowLocked(s)
        /\ Goto(o, [jobs[o] EXCEPT !.pc = "write", !.found = version[s]])
        /\ UNCHANGED <<overlay, version, running, captured, state, due, puts, boots>>

\* put_setting_audited, one transaction per section: SELECT ... FOR UPDATE, which
\* locks a row but not the absence of one.  A version that is not the expected one
\* ends the request; sections written before stay written.
PutRead(o) ==
    LET job == jobs[o]
        s == Head(job.todo)
    IN  /\ job.pc = "put" /\ job.todo # <<>>
        /\ ~RowLocked(s)
        /\ Goto(o, IF job.expected # Unset /\ job.expected[s] # version[s] THEN NoJob
                   ELSE [job EXCEPT !.pc = "write", !.found = version[s]])
        /\ UNCHANGED <<overlay, version, running, captured, state, due, puts, boots>>

\* INSERT ... ON CONFLICT DO UPDATE replaces the document; it waits for a lock that
\* another transaction has on the row.
PutWrite(o) ==
    LET job == jobs[o]
        s == Head(job.todo)
    IN  /\ job.pc = "write"
        /\ job.found > 0 \/ ~RowLocked(s)
        /\ overlay' = [f \in Fields |-> IF SectionOf[f] = s THEN job.merged[f] ELSE overlay[f]]
        /\ version' = [version EXCEPT ![s] = job.found + 1]
        /\ Goto(o, [job EXCEPT !.pc = "put", !.todo = Tail(@), !.found = 0])
        /\ UNCHANGED <<running, captured, state, due, puts, boots>>

\* All sections are written.  A restart-required field is left to the next boot,
\* which in auto mode the process asks for itself; otherwise the patch is swapped in.
Written(o) ==
    LET job == jobs[o]
    IN  /\ job.pc = "put" /\ job.todo = <<>>
        /\ IF DOMAIN job.patch \intersect RestartRequired # {}
           THEN /\ due' = (due \/ running["auto"])
                /\ Goto(o, NoJob)
           ELSE Goto(o, [job EXCEPT !.pc = "swap"]) /\ UNCHANGED due
        /\ UNCHANGED <<overlay, version, running, captured, state, puts, boots>>

\* A slip: the running configuration is rebuilt from all that is stored.
SwapPersisted(o) ==
    LET hot == ApplyOverlay(Base, jobs[o].merged)
    IN  /\ jobs[o].pc = "swap"
        /\ Goto(o, [jobs[o] EXCEPT !.pc = "store", !.hot = hot])
        /\ UNCHANGED <<overlay, version, running, captured, state, due, puts, boots>>

\* A slip: the patched configuration is not validated again.
SwapUnchecked(o) ==
    /\ jobs[o].pc = "swap"
    /\ Goto(o, [jobs[o] EXCEPT !.pc = "store", !.hot = ApplyPatch(running, jobs[o].patch)])
    /\ UNCHANGED <<overlay, version, running, captured, state, due, puts, boots>>

\* The patch is laid over the running configuration and validated once more; a
\* failure is an internal error, with the sections already written.
Swap(o) ==
    LET hot == ApplyPatch(running, jobs[o].patch)
    IN  /\ jobs[o].pc = "swap"
        /\ IF Validate(hot) THEN Goto(o, [jobs[o] EXCEPT !.pc = "store", !.hot = hot])
                            ELSE Goto(o, NoJob)
        /\ UNCHANGED <<overlay, version, running, captured, state, due, puts, boots>>

\* ArcSwap::store: whatever was stored since the load is overwritten.
Store(o) ==
    /\ jobs[o].pc = "store"
    /\ running' = jobs[o].hot
    /\ Goto(o, NoJob)
    /\ UNCHANGED <<overlay, version, captured, state, due, puts, boots>>

\* The connection breaks or the database fails: what is written stays.
Abort(o) ==
    /\ jobs[o].pc # "idle"
    /\ Goto(o, NoJob)
    /\ UNCHANGED <<overlay, version, running, captured, state, due, puts, boots>>

-------------------------------------------------------------------------------
(* The process.                                                            *)

\* shutdown_signal: no new requests, those in flight are served.
Drain ==
    /\ due /\ state = "serving"
    /\ state' = "draining"
    /\ UNCHANGED <<overlay, version, running, captured, due, jobs, puts, boots>>

\* A slip: the stored settings are not laid over the environment.
StartFromEnvironment ==
    /\ running' = Base /\ captured' = Base
    /\ state' = "serving" /\ due' = FALSE
    /\ jobs' = [o \in Operators |-> NoJob]
    /\ UNCHANGED <<overlay, version, puts>>

\* main: migrations, overlay, clients and workers, then requests.
Start ==
    /\ running' = Effective /\ captured' = Effective
    /\ state' = "serving" /\ due' = FALSE
    /\ jobs' = [o \in Operators |-> NoJob]
    /\ UNCHANGED <<overlay, version, puts>>

SelfRestart ==
    /\ state = "draining"
    /\ \A o \in Operators : jobs[o].pc = "idle"
    /\ Start
    /\ UNCHANGED boots

\* A crash or a deployment: requests in flight are lost.
Boot ==
    /\ boots < MaxBoots
    /\ boots' = boots + 1
    /\ Start

Put(o) == Load(o) \/ PutRead(o) \/ PutWrite(o) \/ Written(o) \/ Swap(o) \/ Store(o)

Next ==
    \/ \E o \in Operators :
          \/ \E p \in Patches, checked \in BOOLEAN : Begin(o, p, checked)
          \/ Put(o)
          \/ Abort(o)
    \/ Drain
    \/ SelfRestart
    \/ Boot

Spec == Init /\ [][Next]_vars

\* Requests are served, the 750 ms timer fires and the service manager restarts
\* the process.
FairSpec ==
    /\ Spec
    /\ \A o \in Operators : WF_vars(Put(o))
    /\ WF_vars(Drain) /\ WF_vars(SelfRestart)

-------------------------------------------------------------------------------
(* Properties.                                                             *)

\* The running configuration always satisfies the rules of boot, although edits are
\* validated against one configuration and swapped into another.
RunningValid == Validate(running)

\* What clients and workers captured at boot never changes under them: a swap never
\* brings in a restart-required field, not even one stored by an earlier PUT.
BootFieldsStay == \A f \in RestartRequired : running[f] = captured[f]

\* A PUT that carries versions replaces the document of one of these sections only
\* by the same document with the PUT's own patch.
EditKeepsOthers(sections) ==
    \A o \in Operators :
       jobs[o].pc = "write" /\ jobs[o].expected # Unset /\ jobs'[o] # jobs[o]
       => \A f \in Fields \ DOMAIN jobs[o].patch :
             SectionOf[f] \in sections => overlay'[f] = overlay[f]

\* A PUT that carries versions never undoes another operator's edit of a section
\* that was saved before (put_setting_audited).
GuardedEditKeepsOthers == [][EditKeepsOthers(Saved)]_vars

\* In auto mode a stored restart-required edit is in force after finitely many steps:
\* whatever is stored when the process comes back, it runs.
AutoApplied == due ~> (state = "serving" /\ ~due /\ running = Effective)
===============================================================================
