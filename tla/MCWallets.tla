------------------------------- MODULE MCWallets -------------------------------
(***************************************************************************)
(* Money on its way in: the funding of tips (MCTips), the light-wallet     *)
(* import (LightWallet), the grin slatepack relay (GrinRelay), the grin    *)
(* scan (GrinScan) and the Electrum client (Electrum).  They share no      *)
(* state: the initial state chooses which one moves, so the states add up. *)
(***************************************************************************)
EXTENDS MCTips

CONSTANTS
    Requests, Paid, MaxMinors, MaxDepth, Capacities, None, MaxTip, MaxFaults,  \* LightWallet
    MaxCrashes,
    Ids, Slates, Accounts,                                                    \* GrinRelay
    Batch, Window, Fallbacks, Balances, MaxU64, MaxChanges,                   \* Electrum
    MaxScans, MaxNonce, Margin, MaxRestarts, Nobody                           \* GrinScan

VARIABLES focus,
          tip, account, capacity, cached, enabled, call, faults, crashes, \* LightWallet
          relays, used, parties, exchanges,                              \* GrinRelay
          server, failures, cooldown, asked, batch, elapsed,             \* Electrum
          finished, answer, healthy, broken,
          session, token, sessionOf, tokenOf, walletd, scan, spent,      \* GrinScan
          reused, level, scanned, scans, restarts, errors

walletVars == <<tip, account, capacity, cached, enabled, call, faults, crashes>>
relayVars == <<relays, used, parties, exchanges>>
clientVars == <<server, failures, cooldown, asked, batch, elapsed, finished, answer, healthy,
                broken>>
scanVars == <<session, token, sessionOf, tokenOf, walletd, scan, spent, reused, level, scanned,
              scans, restarts, errors>>
all == <<focus, vars, walletVars, relayVars, clientVars, scanVars>>

\* A payment to the primary address, a later one to the first subaddress.
MCPaid == {[height |-> 1, minor |-> 0], [height |-> 2, minor |-> 1]}

Wallet == INSTANCE LightWallet

Relay == INSTANCE GrinRelay
         WITH Users <- Accounts, Slots <- Requests, users <- parties, jobs <- exchanges

Client == INSTANCE Electrum WITH MaxFaults <- MaxChanges, call <- asked, faults <- broken

Scan == INSTANCE GrinScan
        WITH Calls <- Requests, wallet <- walletd, call <- scan, used <- spent, height <- level

\* Replicas and requests have the same names and are alike.
Alike == Permutations(Replicas \cup Requests)

ASSUME InstancesOK ==
    Wallet!ConstantsOK /\ Relay!ConstantsOK /\ Client!ConstantsOK /\ Scan!ConstantsOK

InitWallets ==
    /\ focus \in {"tips", "wallet", "relay", "client", "scan"}
    /\ Init /\ Wallet!Init /\ Relay!Init /\ Client!Init /\ Scan!Init
    /\ focus # "wallet" => capacity = 1 /\ enabled

NextWallets ==
    /\ UNCHANGED focus
    /\ \/ focus = "tips" /\ Next /\ UNCHANGED <<walletVars, relayVars, clientVars, scanVars>>
       \/ focus = "wallet" /\ Wallet!Next /\ UNCHANGED <<vars, relayVars, clientVars, scanVars>>
       \/ focus = "relay" /\ Relay!Next /\ UNCHANGED <<vars, walletVars, clientVars, scanVars>>
       \/ focus = "client" /\ Client!Next /\ UNCHANGED <<vars, walletVars, relayVars, scanVars>>
       \/ focus = "scan" /\ Scan!Next /\ UNCHANGED <<vars, walletVars, relayVars, clientVars>>

SpecWallets == InitWallets /\ [][NextWallets]_all

(* The properties of the instances, by the names the configuration uses.   *)

\* What an answer of the light-wallet endpoints promises is scanned (import_account,
\* confirmed_minor_max).
ScansWhatItPromises == Wallet!ScansWhatItPromises

\* A relay is changed only by its parties and only forward, whichever request or loop
\* wrote last (fetch_authorized, respond_grin_slatepack, finalize_grin_slatepack,
\* cancel_grin_slatepack).
RelayFollowsParties == Relay!RelayFollowsParties

\* A grin scan heals after a wallet restart, reaches the tip and reuses no nonce
\* (scan_rewind_hash, scan_via_grin_lws, encrypt).
GrinScanSound == Scan!GrinScanSound

\* A batch answer is exact and tagged by owner (sum_balances, get_utxos_tagged).
BatchExact == Client!BatchExact

\* A primary that is back serves calls again once the cooldown is over
\* (primary_in_cooldown, record_primary_failure).
PrimaryServesAgain == Client!PrimaryServesAgain
===============================================================================
