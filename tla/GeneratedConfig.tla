-------------------------- MODULE GeneratedConfig --------------------------
(***************************************************************************)
(* gen-configmaps.py: what is generated from the sources under             *)
(* observability/ and the lists in the script, and what --check finds.     *)
(*                                                                         *)
(* Of a tree of the repository these files matter:                         *)
(*   allow    a dashboard is in DASHBOARD_ALLOWLIST                        *)
(*   source   its JSON; "bad" if canonical_dashboard rejects it            *)
(*   alert    an alert is in the source of the rules                       *)
(*   dropped  it is in K3S_DROPPED_ALERTS                                  *)
(*   dash     the generated dashboard, "none" if there is no such file     *)
(*   rules    the generated rules: "with" or "without" the alert           *)
(*   legacy   the ConfigMap of an earlier generator is still there         *)
(* An output whose writing was cut short is "torn".                        *)
(***************************************************************************)

\* canonical_dashboard, drop_alert_rules: an error before anything is written.
BadDashboard(tree) == tree.allow /\ tree.source = "bad"

MissingAlert(tree) == tree.dropped /\ ~tree.alert

Rejected(tree) == BadDashboard(tree) \/ MissingAlert(tree)

Rules(tree) == IF tree.alert /\ ~tree.dropped THEN "with" ELSE "without"

Desired(tree) ==
    [dash |-> IF tree.allow THEN tree.source ELSE "none", rules |-> Rules(tree)]

-----------------------------------------------------------------------------
\* --check
Leftover(tree) == ~tree.allow /\ tree.dash # "none"

DriftOfDesired(tree) ==     \* fault: only what is desired is looked at
    \/ tree.allow /\ tree.dash # Desired(tree).dash
    \/ tree.rules # Desired(tree).rules

Drift(tree) ==
    \/ tree.legacy
    \/ Leftover(tree)
    \/ tree.allow /\ tree.dash # Desired(tree).dash     \* missing or changed
    \/ tree.rules # Desired(tree).rules

Checked(tree) == ~Rejected(tree) /\ ~Drift(tree)

-----------------------------------------------------------------------------
(***************************************************************************)
(* The steps of a generation: leftovers are removed from the directory of  *)
(* the dashboards, then every output is written.                           *)
(***************************************************************************)
Step == {"remove", "dash", "rules"}
Following == [remove |-> "dash", dash |-> "rules", rules |-> "done"]

WrittenOver(tree, step) ==      \* fault: leftovers stay
    CASE step = "remove" -> tree
      [] step = "dash" -> IF tree.allow THEN [tree EXCEPT !.dash = tree.source]
                                        ELSE tree
      [] step = "rules" -> [tree EXCEPT !.rules = Desired(tree).rules]

Written(tree, step) ==
    CASE step = "remove" -> IF tree.allow THEN tree ELSE [tree EXCEPT !.dash = "none"]
      [] step = "dash" -> IF tree.allow THEN [tree EXCEPT !.dash = Desired(tree).dash]
                                        ELSE tree
      [] step = "rules" -> [tree EXCEPT !.rules = Desired(tree).rules]

\* write_text truncates the file and then writes it.
CutShort(tree, step) ==
    CASE step = "remove" -> tree
      [] step = "dash" -> IF tree.allow THEN [tree EXCEPT !.dash = "torn"] ELSE tree
      [] step = "rules" -> [tree EXCEPT !.rules = "torn"]
=============================================================================
