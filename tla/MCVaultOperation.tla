-------------------------- MODULE MCVaultOperation --------------------------
(* Bounded instances of VaultOperation. *)
EXTENDS VaultOperation, TLC

CONSTANTS w1, w2, n1, k1

op(wallet, action, amount, key) ==
    [wallet |-> wallet, action |-> action, amount |-> amount, key |-> key,
     nonce |-> n1, signed |-> TRUE]

\* One wallet uses a key for both of its operations, another for a deposit;
\* a withdrawal without a key may pass the limit together with the first.
MCBodies == {op(w1, "deposit", 1, k1), op(w1, "withdrawal", 1, k1),
             op(w1, "withdrawal", 2, None), op(w2, "deposit", 1, k1)}

\* The signed deposits of one wallet, and a nonce of its own for each.
SignedBodies == {[op(w1, "deposit", 1, k1) EXCEPT !.nonce = n] : n \in Nonces}

Symmetry == Permutations(Requests)
=============================================================================
