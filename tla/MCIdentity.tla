------------------------------ MODULE MCIdentity ------------------------------
(***************************************************************************)
(* How a user gets in: registration (Accounts), sign-in (Sessions) and the *)
(* governors of the restore check (RestoreLimit).  They share no state:    *)
(* the initial state chooses which one moves, so the states add up.        *)
(***************************************************************************)
EXTENDS MCAccounts, TLC

CONSTANTS People, Registered, Npubs, LoginKeys, LegacyKeys, LoginIds, Nonces, Requests, \* Sessions
          Fingerprints, Known, Probes, IpThreshold, FailThreshold, MaxLost  \* RestoreLimit

VARIABLES focus,
          members, linked, holders, logins, nonces, calls,  \* Sessions
          attempts, failed, probe, answered, tried, lost    \* RestoreLimit

loginVars == <<members, linked, holders, logins, nonces, calls>>
restoreVars == <<attempts, failed, probe, answered, tried, lost>>
all == <<focus, vars, loginVars, restoreVars>>

Login == INSTANCE Sessions
         WITH Users <- People, Keys <- LoginKeys, Ids <- LoginIds, Slots <- Requests,
              users <- members, npub <- linked, sessions <- logins, req <- calls

Restore == INSTANCE RestoreLimit WITH Slots <- Probes

\* Requests are alike.
Alike == Permutations(Requests)

ASSUME InstancesOK == Login!ConstantsOK /\ Restore!ConstantsOK

InitIdentity ==
    /\ focus \in {"accounts", "sessions", "restore"}
    /\ Init /\ Login!Init /\ Restore!Init
    /\ focus # "accounts" => policy = CHOOSE p \in Policies : TRUE
    /\ focus # "sessions" => \A u \in DOMAIN linked : linked[u] = None

NextIdentity ==
    /\ UNCHANGED focus
    /\ \/ focus = "accounts" /\ Next /\ UNCHANGED <<loginVars, restoreVars>>
       \/ focus = "sessions" /\ Login!Next /\ UNCHANGED <<vars, restoreVars>>
       \/ focus = "restore" /\ Restore!Next /\ UNCHANGED <<vars, loginVars>>

SpecIdentity == InitIdentity /\ [][NextIdentity]_all

(* The properties of the instances, by the names the configuration uses.   *)

\* A sign-in is one right passed from token to token, and over once it has ended
\* (refresh_token, revoke_session, issue_session).
SignInsRefined == Login!SignInsRefined

\* However refreshes of one token race, a sign-in has at most one live session
\* (refresh_token).
OneLivePerLogin == Login!OneLivePerLogin

\* A challenge is honoured at most once, however many requests present it
\* (consume_challenge, website_verify).
HonouredOnce == Login!HonouredOnce

\* The governors of the restore check let no more through than their thresholds, the
\* requests that were in flight and the attempts that were not recorded
\* (check_restore).
RestoreBounded == Restore!RestoreBounded
===============================================================================
