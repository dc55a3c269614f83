---------------------------- MODULE MCMergeGate ----------------------------
(***************************************************************************)
(* MergeGate for TLC: two pull requests, each with one of a few plans, and *)
(* a third one where all three change the allow list and nothing else.     *)
(***************************************************************************)
EXTENDS MergeGate, TLC

CONSTANTS p1, p2, p3

MCPr == {p1, p2, p3}
MCSymmetry == Permutations({p1, p2})

MCPlans == {{"template", "bump"}, {"values", "bump"}, {"allow"}, {"source"},
            {"drop"}, {"unalert", "tidy"}}

Base == [template |-> "old", values |-> "old", version |-> 1,
         allow |-> TRUE, source |-> "old", alert |-> TRUE, dropped |-> FALSE,
         dash |-> "old", rules |-> "with", legacy |-> FALSE]

MCTrees == {Base, [Base EXCEPT !.allow = FALSE, !.dash = "none"], [Base EXCEPT !.legacy = TRUE]}

\* State constraint, in three parts.  The third pull request stands still unless main was Base
\* and the allow list is all that anybody has changed.
ThirdStill == fork[p3] = 1 /\ todo[p3] = {"allow"} /\ gen[p3] = "idle" /\ ci[p3] = 0

OnlyAllow ==
    /\ Tree(1) = Base /\ Pushes = {} /\ \A p \in MCPr : todo[p] \subseteq {"allow"}
    /\ \A tree \in {Tree(Tip)} \cup {branch[p] : p \in MCPr} :
           \A f \in File \ {"allow", "dash", "rules"} : tree[f] = Base[f]

\* Where the legacy ConfigMap is left somebody sets out to delete it.
Tidied == \/ ~Tree(Tip).legacy
          \/ \E p \in MCPr : "tidy" \in todo[p] \/ ~branch[p].legacy

Bounded == (ThirdStill \/ OnlyAllow) /\ Tidied
=============================================================================
