---------------------------- MODULE MCNonprodKeys ----------------------------
(***************************************************************************)
(* NonprodKeys for TLC: the program's three users and two worksheets.  The *)
(* slot of the user a worksheet does not serve is the rest of that file.   *)
(***************************************************************************)
EXTENDS NonprodKeys

CONSTANTS k1, k2, k3, k4, k5, k6, t

MCAccount == {1, 2, 3}
MCSlot == {1, 2, 3}
MCKey == {k1, k2, k3, k4, k5, k6}
MCText == {t}

\* 1: dev storage, 2: preview storage, 3: the shared e-mail sender.
MCUses == <<{1, 3}, {2, 3}>>

\* Keys are interchangeable, so it is enough that AWS mints them in one order:
\* every other behaviour differs from one of these in the names of the keys.
MintedInOrder ==
    \/ minted' = minted
    \/ minted' = minted \cup {CHOOSE k \in Key : k \notin minted}

\* Either a signal comes during a run, or a person edits a worksheet during or
\* after it and the program is run again.
OneScenario ==
    /\ signals' > 0 => edits' = 0 /\ runs' = 1
    /\ runs' > 1 => edits' = edits
=============================================================================
