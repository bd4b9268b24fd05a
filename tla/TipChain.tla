------------------------------- MODULE TipChain -------------------------------
(***************************************************************************)
(* The blockchains the tip workers observe, as the code in src/src/tips    *)
(* uses them: a chain height, the height each transaction is mined at, and *)
(* which outputs of a tip address a sweep spends.  The nodes (Electrum,    *)
(* monero-lws and its daemon, grin) are external to the repository.        *)
(*                                                                         *)
(* A funding transaction pays the tip's address (for grin: creates the     *)
(* voucher output).  A sweep spends the outputs named by Inputs; a "sweep" *)
(* with no inputs is somebody's unrelated transaction whose id a caller    *)
(* may still report.  Two sweeps sharing an input exclude each other on    *)
(* chain: this is the claim race, the RBF replacement and the clawback.    *)
(***************************************************************************)
EXTENDS Integers

CONSTANTS
    Tips,          \* tip ids
    FundTxs,       \* ids of the transactions that may pay a tip address
    SweepTxs,      \* ids a caller may report as the sweep, ordered as numbers
    Inputs,        \* Inputs[x]: the funding outputs sweep x spends
    Worth,         \* Worth[S]: the amount the outputs S carry together
    MaxAmount,     \* bound: the largest receipt at an address
    MaxHeight,     \* bound: blocks of a behaviour
    MaxReorgs      \* bound: reorganisations of a behaviour

Txs == FundTxs \union SweepTxs
NoTx == 0

ASSUME TxAssumption ==
    /\ FundTxs \subseteq Nat \ {NoTx}
    /\ SweepTxs \subseteq Nat \ {NoTx}
    /\ FundTxs \intersect SweepTxs = {}
    /\ Inputs \in [SweepTxs -> SUBSET FundTxs]
    /\ Worth \in [SUBSET FundTxs -> 0..MaxAmount]

ASSUME ChainBoundAssumption ==
    MaxHeight \in Nat \ {0} /\ MaxReorgs \in Nat /\ MaxAmount \in Nat

VARIABLES
    height,        \* height of the chain's last block
    mined,         \* mined[t][x]: height of x on tip t's address, 0 = not mined
    reorgs         \* reorganisations so far

chainVars == <<height, mined, reorgs>>

ChainTypeOK ==
    /\ height \in 1..MaxHeight
    /\ mined \in [Tips -> [Txs -> 0..MaxHeight]]
    /\ reorgs \in 0..MaxReorgs

ChainInit ==
    /\ height = 1
    /\ mined = [t \in Tips |-> [x \in Txs |-> 0]]
    /\ reorgs = 0

-------------------------------------------------------------------------------
\* Confirmed outputs paying the address of t, and the confirmed sweeps of them.
Funded(t) == {f \in FundTxs : mined[t][f] > 0}
Spends(t) == {x \in SweepTxs : mined[t][x] > 0 /\ Inputs[x] # {}}
Spent(t) == {f \in FundTxs : \E x \in Spends(t) : f \in Inputs[x]}
Unspent(t) == Funded(t) \ Spent(t)

\* A set of pool transactions one block can take: sweeps spend outputs that
\* exist, are unspent, and are spent once.
Includable(t, S) ==
    /\ \A x \in S : mined[t][x] = 0
    /\ \A x \in S \intersect SweepTxs :
         /\ Inputs[x] \subseteq Unspent(t)
         /\ \A y \in (S \intersect SweepTxs) \ {x} : Inputs[x] \intersect Inputs[y] = {}

\* A block extends the chain, with some transactions of one tip's address.
NewBlock(t, S) ==
    /\ height < MaxHeight
    /\ Includable(t, S)
    /\ height' = height + 1
    /\ mined' = [mined EXCEPT ![t] =
                   [x \in Txs |-> IF x \in S THEN height + 1 ELSE @[x]]]
    /\ UNCHANGED reorgs

\* A branch of the same length forking off after block k replaces the blocks
\* above it: their transactions are back in the pool.
Reorg(k) ==
    /\ reorgs < MaxReorgs
    /\ reorgs' = reorgs + 1
    /\ mined' = [t \in Tips |-> [x \in Txs |-> IF mined[t][x] > k THEN 0 ELSE mined[t][x]]]
    /\ mined' # mined
    /\ UNCHANGED height

ChainNext ==
    \/ \E t \in Tips, S \in SUBSET Txs : NewBlock(t, S)
    \/ \E k \in 1..MaxHeight : Reorg(k)
===============================================================================
