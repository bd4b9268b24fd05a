------------------------------ MODULE MCAccounts ------------------------------
(* Instances of Accounts for TLC: wallet w1 with an old and a new derivation    *)
(* of its BTC key, wallet w2 with one key, who also sends w1's fingerprint.     *)
EXTENDS Accounts

CONSTANTS w1, w2, oldKey, newKey, otherKey, c1, v1

MCOwner == [k \in Keys |-> IF k = otherKey THEN w2 ELSE w1]

Extension(w, key, fp, proof, pow, invite, invoice) ==
    [kind |-> "extension", w |-> w, key |-> key, fp |-> fp, proof |-> proof, name |-> None,
     invite |-> invite, invoice |-> invoice, pow |-> pow]

Nostr(w, key, fp, name, invite) ==
    [kind |-> "nostr", w |-> w, key |-> key, fp |-> fp, proof |-> FALSE, name |-> name,
     invite |-> invite, invoice |-> None, pow |-> "valid"]

\* w1 registers, returns and rotates, with and without a proof of work; w2
\* presents w1's fingerprint and a rotation proof of its own on both paths.
MixedInputs ==
    {Extension(w1, oldKey, w1, FALSE, "valid", c1, None),
     Extension(w1, newKey, w1, TRUE, "valid", None, v1),
     Extension(w1, newKey, w1, TRUE, "none", None, None),
     Extension(w2, otherKey, w1, TRUE, "valid", c1, v1),
     Nostr(w1, oldKey, w1, "n", c1),
     Nostr(w2, None, w1, None, c1)}

\* One wallet that registers on both paths, as a client that always sends its
\* fingerprint does.
OneWalletInputs ==
    {Extension(w1, oldKey, w1, FALSE, "valid", None, None), Nostr(w1, oldKey, w1, None, None)}

AnyOrAll == {[mode |-> "any", invite |-> TRUE], [mode |-> "all", invite |-> TRUE]}
Open == {[mode |-> "any", invite |-> FALSE]}
===============================================================================
