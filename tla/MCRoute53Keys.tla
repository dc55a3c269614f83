---------------------------- MODULE MCRoute53Keys ----------------------------
(***************************************************************************)
(* Route53Keys for TLC: two users, as in the program, and one more slot    *)
(* for the rest of the file.                                               *)
(***************************************************************************)
EXTENDS Route53Keys

CONSTANTS k1, k2, k3, k4, k5, t

MCAccount == {1, 2}
MCSlot == {1, 2, 3}
MCKey == {k1, k2, k3, k4, k5}
MCText == {t}

\* Keys are interchangeable, so it is enough that AWS mints them in one order:
\* every other behaviour differs from one of these in the names of the keys.
MintedInOrder ==
    \/ minted' = minted
    \/ minted' = minted \cup {CHOOSE k \in Key : k \notin minted}
=============================================================================
