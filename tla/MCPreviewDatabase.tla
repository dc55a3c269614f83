------------------------- MODULE MCPreviewDatabase -------------------------
(***************************************************************************)
(* PreviewDatabase for TLC: more pull requests than slots.                 *)
(***************************************************************************)
EXTENDS PreviewDatabase

CONSTANTS p1, p2

MCPr == {p1, p2}
MCCopyFromDev == {p1}
MCMayOutlive == {p1}
=============================================================================
