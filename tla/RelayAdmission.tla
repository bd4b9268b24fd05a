---------------------------- MODULE RelayAdmission ----------------------------
(***************************************************************************)
(* Admission of events to the operator's Nostr relay: event_admit looks    *)
(* the author and the recipients up, one query after the other, while      *)
(* accounts are linked, erased and gain or lose premium, and decide rules  *)
(* on what was read.  A lookup that fails counts as a no.  /premium/status *)
(* tells a client what the relay would say.                                *)
(***************************************************************************)
EXTENDS Naturals, FiniteSets

CONSTANTS Npubs, Users,
          Allowed,    \* npubs of the operator's write-allowlist
          Policies,   \* the write policies to explore
          PowBits,    \* whether deliveries from outside need a proof of work
          MaxChanges, \* how often accounts change
          None

ConstantsOK ==
    /\ Allowed \subseteq Npubs /\ None \notin Npubs /\ PowBits \in BOOLEAN /\ MaxChanges \in Nat
    /\ Policies \subseteq {"open", "author-allowlist", "inbox-outbox", "premium-post"}

VARIABLES policy,  \* WritePolicy, fixed at startup
          npub,    \* nostr_pubkey of each account
          active,  \* accounts whose premium_until lies ahead
          event,   \* the event being admitted
          pc,
          read,    \* what the lookups said
          held,    \* what was true at some time while they ran
          steady,  \* nothing changed and no lookup failed
          permit,
          changes

vars == <<policy, npub, active, event, pc, read, held, steady, permit, changes>>

Kinds == {"gift_wrap", "relay_list", "general"}
Wallet == {"gift_wrap", "relay_list"}
\* proven: enough leading zero bits (leading_zero_bits against inbound_pow_bits).
Event == [author : Npubs, kind : Kinds, to : Npubs, proven : BOOLEAN, fits : BOOLEAN]
Facts == {"allowlisted", "registered", "premium", "recipient"}

Registered(p) == \E u \in Users : npub[u] = p
PremiumNpub(p) == \E u \in Users : npub[u] = p /\ u \in active

TypeOK ==
    /\ policy \in Policies /\ npub \in [Users -> Npubs \cup {None}] /\ active \subseteq Users
    /\ event \in Event /\ pc \in {"idle", "author", "premium", "recipient", "decide", "done"}
    /\ read \subseteq Facts /\ held \subseteq Facts
    /\ steady \in BOOLEAN /\ permit \in BOOLEAN /\ changes \in 0..MaxChanges

\* The facts of an event's author and recipient as they are.
True(e, linked, paying) ==
    {f \in Facts : \/ f = "allowlisted" /\ e.author \in Allowed
                   \/ f = "registered" /\ \E u \in Users : linked[u] = e.author
                   \/ f = "premium" /\ \E u \in paying : linked[u] = e.author
                   \/ f = "recipient" /\ \E u \in Users : linked[u] = e.to}

SomeEvent == CHOOSE e \in Event : TRUE

Init ==
    /\ policy \in Policies
    /\ npub = [u \in Users |-> None] /\ active = {}
    /\ event = SomeEvent /\ pc = "idle" /\ read = {} /\ held = {}
    /\ steady = TRUE /\ permit = FALSE /\ changes = 0

-------------------------------------------------------------------------------
(* The decision (policy.rs).                                               *)

\* Delivery of a gift wrap to a registered user, behind the proof of work.
GiftwrapInbox(e, facts) ==
    e.kind = "gift_wrap" /\ "recipient" \in facts /\ (PowBits => e.proven)

\* A slip: the proof of work is not asked of deliveries.
DecideNoPow(e, facts) ==
    \/ "allowlisted" \in facts \/ policy = "open"
    \/ policy \in {"author-allowlist", "inbox-outbox"} /\ "registered" \in facts
    \/ policy = "inbox-outbox" /\ e.kind = "gift_wrap" /\ "recipient" \in facts
    \/ policy = "premium-post" /\ \/ "premium" \in facts
                                  \/ "registered" \in facts /\ e.kind \in Wallet
                                  \/ e.kind = "gift_wrap" /\ "recipient" \in facts

Decide(e, facts) ==
    \/ "allowlisted" \in facts
    \/ policy = "open"
    \/ policy = "author-allowlist" /\ "registered" \in facts
    \/ policy = "inbox-outbox" /\ ("registered" \in facts \/ GiftwrapInbox(e, facts))
    \/ policy = "premium-post" /\ \/ "premium" \in facts
                                  \/ "registered" \in facts /\ e.kind \in Wallet
                                  \/ "registered" \notin facts /\ GiftwrapInbox(e, facts)

-------------------------------------------------------------------------------
(* event_admit.                                                            *)

\* An oversized event is denied before any lookup; an author on the allowlist needs none.
\* Admissions share nothing, so one is enough.
Receives(e) ==
    /\ pc = "idle"
    /\ event' = e /\ held' = True(e, npub, active) /\ steady' = TRUE
    /\ read' = IF e.author \in Allowed THEN {"allowlisted"} ELSE {}
    /\ pc' = IF ~e.fits THEN "done" ELSE IF e.author \in Allowed THEN "decide" ELSE "author"
    /\ permit' = FALSE
    /\ UNCHANGED <<policy, npub, active, changes>>

\* A lookup of one fact, which may fail.
LooksUp(fact, holds) ==
    \/ read' = (IF holds THEN read \cup {fact} ELSE read) /\ UNCHANGED steady
    \/ steady' = FALSE /\ UNCHANGED read

LooksUpAuthor ==
    /\ pc = "author" /\ LooksUp("registered", Registered(event.author))
    /\ pc' = IF policy = "premium-post" THEN "premium" ELSE "recipient"
    /\ UNCHANGED <<policy, npub, active, event, held, permit, changes>>

LooksUpPremium ==
    /\ pc = "premium" /\ LooksUp("premium", PremiumNpub(event.author))
    /\ pc' = "recipient"
    /\ UNCHANGED <<policy, npub, active, event, held, permit, changes>>

\* The recipients are looked up only for an author who is not registered.
LooksUpRecipient ==
    /\ pc = "recipient"
    /\ IF "registered" \in read THEN UNCHANGED <<read, steady>>
       ELSE LooksUp("recipient", Registered(event.to))
    /\ pc' = "decide"
    /\ UNCHANGED <<policy, npub, active, event, held, permit, changes>>

Decides ==
    /\ pc = "decide" /\ permit' = Decide(event, read) /\ pc' = "done"
    /\ UNCHANGED <<policy, npub, active, event, read, held, steady, changes>>

-------------------------------------------------------------------------------
(* Accounts change meanwhile (nostr_link, activate, time, erasure).        *)

Change(linked, paying) ==
    /\ changes < MaxChanges /\ changes' = changes + 1
    /\ npub' = linked /\ active' = paying
    /\ steady' = (steady /\ pc \in {"idle", "done"})
    /\ held' = IF pc \in {"idle", "done"} THEN held ELSE held \cup True(event, linked, paying)
    /\ UNCHANGED <<policy, event, pc, read, permit>>

Links(u, p) == (\A v \in Users : npub[v] # p) /\ Change([npub EXCEPT ![u] = p], active)
Pays(u) == u \notin active /\ Change(npub, active \cup {u})
Lapses(u) == u \in active /\ Change(npub, active \ {u})
Erased(u) == npub[u] # None /\ Change([npub EXCEPT ![u] = None], active \ {u})

Next ==
    \/ \E e \in Event : Receives(e)
    \/ LooksUpAuthor \/ LooksUpPremium \/ LooksUpRecipient \/ Decides
    \/ \E u \in Users : (\E p \in Npubs : Links(u, p)) \/ Pays(u) \/ Lapses(u) \/ Erased(u)

Spec == Init /\ [][Next]_vars

-------------------------------------------------------------------------------
(* /premium/status.                                                        *)

\* general_posting_rights: the relay's decision on a general event, premium aside.
GeneralPostingRights(u) ==
    \/ npub[u] \in Allowed
    \/ policy = "open"
    \/ policy \in {"author-allowlist", "inbox-outbox"} /\ npub[u] # None

\* A slip: the allowlist is left to the client.
CanPostByPremium(u) == u \in active \/ policy = "open"

\* can_post_general
CanPostGeneral(u) == u \in active \/ GeneralPostingRights(u)

-------------------------------------------------------------------------------
(* Properties.                                                             *)

\* Admission fails closed: what is permitted was permissible on facts that held while
\* the lookups ran, whichever of them failed or went stale; and with neither, what is
\* permissible is permitted (event_admit, decide).
AdmittedOnFacts ==
    pc = "done" /\ event.fits =>
        LET wrap == event.kind = "gift_wrap" /\ "recipient" \in held /\ (PowBits => event.proven)
            may == \/ policy = "open" \/ "allowlisted" \in held
                   \/ policy # "premium-post" /\ "registered" \in held
                   \/ policy = "premium-post" /\ \/ "premium" \in held
                                                 \/ "registered" \in held /\ event.kind \in Wallet
                   \/ policy # "author-allowlist" /\ wrap
        IN (permit => may) /\ (steady => (may => permit))

\* A client is never told that it may not post what the relay would accept from it
\* (general_posting_rights).
NeverHidden ==
    \A u \in Users :
        LET e == [author |-> npub[u], kind |-> "general", to |-> npub[u], proven |-> FALSE,
                  fits |-> TRUE]
        IN npub[u] # None /\ Decide(e, True(e, npub, active)) => CanPostGeneral(u)

\* The relay's verdict and the posting rights a client is told both follow the facts.
AdmissionFaithful == AdmittedOnFacts /\ NeverHidden
===============================================================================
