----------------------------- MODULE MCEnvProd -----------------------------
(***************************************************************************)
(* EnvProd for TLC: two users of the Route 53 program, run once beside the *)
(* prod program for two users (its third adds nothing to the interplay) or *)
(* twice at the same time; no other slot in the worksheet.                 *)
(***************************************************************************)
EXTENDS EnvProd, TLC

CONSTANTS k1, k2, k3, k4

MCAccount == {1, 2, 3, 4}
MCKey == {k1, k2, k3, k4}

\* Keys are interchangeable: nothing tells one minted key from another.
KeySymmetry == Permutations(MCKey)
=============================================================================
