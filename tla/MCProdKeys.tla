----------------------------- MODULE MCProdKeys -----------------------------
(***************************************************************************)
(* ProdKeys for TLC: three users, as in the program, and one more slot for *)
(* the rest of the file.                                                   *)
(***************************************************************************)
EXTENDS ProdKeys

CONSTANTS k1, k2, k3, k4, k5, k6, t

MCAccount == {1, 2, 3}
MCSlot == {1, 2, 3, 4}
MCKey == {k1, k2, k3, k4, k5, k6}
MCText == {t}

\* Keys are interchangeable, so it is enough that AWS mints them in one order:
\* every other behaviour differs from one of these in the names of the keys.
MintedInOrder ==
    \/ minted' = minted
    \/ minted' = minted \cup {CHOOSE k \in Key : k \notin minted}
=============================================================================
