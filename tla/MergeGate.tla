----------------------------- MODULE MergeGate -----------------------------
(***************************************************************************)
(* How changes get to the main branch, which Argo CD deploys: authors work *)
(* on branches and generate what gen-configmaps.py generates, CI validates *)
(* the merge of a branch with main, and a pull request whose head has      *)
(* passed is squashed onto main, whatever main has become since.  The      *)
(* deploy bot pushes to main directly.                                     *)
(*                                                                         *)
(* A tree of the repository is a record of files.  Of the app chart there  *)
(* are two files, a template and the values, and the version in            *)
(* Chart.yaml; the others are those of GeneratedConfig.  Git and GitHub    *)
(* are outside the repository: a file is merged as a whole.                *)
(***************************************************************************)
EXTENDS Naturals, Sequences, FiniteSets

CONSTANTS
    Pr,         \* pull requests
    Plans,      \* sets of tasks, one of them for each pull request
    Trees,      \* what main may be at first
    Versions,   \* chart versions
    MaxPushes   \* bound: pushes of the deploy bot

\* The files that matter; "version" is in Chart.yaml.
File == {"template", "values", "version", "allow", "source", "alert", "dropped",
         "dash", "rules", "legacy"}

\* What a pull request may set out to do.
Task == {"template", "values", "bump", "allow", "source", "drop", "unalert", "tidy"}

IsTree(t) == t = [f \in File |-> t[f]] /\ t.version \in Nat

VARIABLES
    main,       \* its commits: [tree, by, on]; CI had passed on commit `on'
    todo,       \* the tasks left of each pull request
    fork,       \* the commit of main its branch starts from, 0 once merged
    branch,     \* the tree of its branch
    gen,        \* gen-configmaps.py on the branch: "idle", a step, or "done"
    ci          \* the commit of main that CI of its head has passed on, or 0

vars == <<main, todo, fork, branch, gen, ci>>

Config == INSTANCE GeneratedConfig

\* The outputs are what the generator makes of the inputs, and it accepts them.
InStep(tree) ==
    /\ ~Config!Rejected(tree)
    /\ [dash |-> tree.dash, rules |-> tree.rules] = Config!Desired(tree)

\* A pull request stands for the dashboard that its author writes.  What is
\* found on main at first is as its generator has left it.
ASSUME MergeGateAssumption ==
    /\ Versions \subseteq Nat /\ Plans \subseteq SUBSET Task
    /\ Pr \cap {"bad", "none", "torn"} = {}
    /\ \A t \in Trees : /\ IsTree(t) /\ InStep(t)
                        /\ {t.allow, t.alert, t.dropped} \subseteq BOOLEAN
                        /\ t.source \notin Pr \cup {"none", "torn"}

Tip == Len(main)
Tree(i) == main[i].tree
ChartOf(tree) == <<tree.template, tree.values>>

Pushes == {i \in DOMAIN main : main[i].by = "bot"}

Init ==
    /\ \E tree \in Trees :
           /\ main = <<[tree |-> tree, by |-> "base", on |-> 0]>>
           /\ branch = [p \in Pr |-> tree]
    /\ todo \in [Pr -> Plans]
    /\ fork = [p \in Pr |-> 1]
    /\ gen = [p \in Pr |-> "idle"]
    /\ ci = [p \in Pr |-> 0]

-----------------------------------------------------------------------------
\* git merge, file by file.
Conflicts(base, ours, theirs) ==
    {f \in DOMAIN base : Cardinality({base[f], ours[f], theirs[f]}) = 3}

Merge(base, ours, theirs) ==
    [f \in DOMAIN base |-> IF theirs[f] = base[f] THEN ours[f] ELSE theirs[f]]

\* refs/pull/N/merge for the tip of main.
NoConflict(p) == Conflicts(Tree(fork[p]), Tree(Tip), branch[p]) = {}
Merged(p) == Merge(Tree(fork[p]), Tree(Tip), branch[p])

\* The version of the merge base of origin/main and HEAD, which is the merge.
BeforeOfFork(p) == Tree(fork[p]).version    \* fault: as if HEAD were the branch

Before(p) == Tree(Tip).version

\* validate_chart_version_bump
Bumped(p) ==
    ChartOf(Merged(p)) # ChartOf(Tree(Tip)) => Merged(p).version # Before(p)

-----------------------------------------------------------------------------
(***************************************************************************)
(* Authors.                                                                *)
(***************************************************************************)
Open(p) == fork[p] # 0
Resting(p) == Open(p) /\ gen[p] \notin Config!Step

\* What a task may make of a tree.
Outcomes(p, task, tree) ==
    CASE task = "template" -> {[tree EXCEPT !.template = p]}
      [] task = "values" -> {[tree EXCEPT !.values = p]}
      [] task = "bump" -> {[tree EXCEPT !.version = v] : v \in Versions \ {tree.version}}
      [] task = "allow" -> {[tree EXCEPT !.allow = ~@]}
      [] task = "source" -> {[tree EXCEPT !.source = s] : s \in {p, "bad"}}
      [] task = "drop" -> {[tree EXCEPT !.dropped = TRUE]}
      [] task = "unalert" -> {[tree EXCEPT !.alert = FALSE]}
      [] task = "tidy" -> {[tree EXCEPT !.legacy = FALSE]}

\* Every push makes a new head, which CI has not seen.
Push(p, tree) ==
    /\ branch' = [branch EXCEPT ![p] = tree]
    /\ ci' = [ci EXCEPT ![p] = 0]

\* The outputs are never edited by hand; a bad source is edited again.
Edit(p) ==
    /\ Resting(p)
    /\ \E task \in todo[p] : \E tree \in Outcomes(p, task, branch[p]) :
           /\ Push(p, tree)
           /\ todo' = [todo EXCEPT ![p] = IF task = "source" /\ tree.source = "bad"
                                          THEN @ ELSE @ \ {task}]
    /\ gen' = [gen EXCEPT ![p] = "idle"]
    /\ UNCHANGED <<main, fork>>

StartGenerator(p) ==
    /\ Resting(p) /\ ~Config!Rejected(branch[p])
    /\ gen' = [gen EXCEPT ![p] = "remove"]
    /\ UNCHANGED <<main, todo, fork, branch, ci>>

GeneratorStep(p) ==
    /\ Open(p) /\ gen[p] \in Config!Step
    /\ Push(p, Config!Written(branch[p], gen[p]))
    /\ gen' = [gen EXCEPT ![p] = Config!Following[@]]
    /\ UNCHANGED <<main, todo, fork>>

GeneratorDies(p) ==
    /\ Open(p) /\ gen[p] \in Config!Step
    /\ \/ Push(p, Config!CutShort(branch[p], gen[p]))
       \/ UNCHANGED <<branch, ci>>
    /\ gen' = [gen EXCEPT ![p] = "idle"]
    /\ UNCHANGED <<main, todo, fork>>

\* The author merges main into the branch.
Update(p) ==
    /\ Resting(p) /\ fork[p] # Tip /\ NoConflict(p)
    /\ Push(p, Merged(p))
    /\ fork' = [fork EXCEPT ![p] = Tip]
    /\ gen' = [gen EXCEPT ![p] = "idle"]
    /\ UNCHANGED <<main, todo>>

-----------------------------------------------------------------------------
(***************************************************************************)
(* CI, GitHub and the deploy bot.                                          *)
(***************************************************************************)
Validate(p) ==
    /\ Resting(p) /\ NoConflict(p)
    /\ Bumped(p) /\ Config!Checked(Merged(p))
    /\ ci' = [ci EXCEPT ![p] = Tip]
    /\ UNCHANGED <<main, todo, fork, branch, gen>>

\* The check belongs to the head: it is not run again when main moves.
Squash(p) ==
    /\ Resting(p) /\ ci[p] # 0 /\ NoConflict(p)
    /\ main' = Append(main, [tree |-> Merged(p), by |-> "pr", on |-> ci[p]])
    \* Nothing of the branch matters any more.
    /\ fork' = [fork EXCEPT ![p] = 0] /\ branch' = [branch EXCEPT ![p] = Tree(1)]
    /\ todo' = [todo EXCEPT ![p] = {}] /\ gen' = [gen EXCEPT ![p] = "idle"]
    /\ ci' = [ci EXCEPT ![p] = 0]

\* An image in the values, or a release file, which is none of these files.
BotPush ==
    /\ Cardinality(Pushes) < MaxPushes
    /\ \E content \in {"bot", Tree(Tip).values} :
           main' = Append(main, [tree |-> [Tree(Tip) EXCEPT !.values = content],
                                 by |-> "bot", on |-> Tip])
    /\ UNCHANGED <<todo, fork, branch, gen, ci>>

Next ==
    \/ BotPush
    \/ \E p \in Pr : \/ Edit(p) \/ Update(p) \/ Validate(p) \/ Squash(p)
                     \/ StartGenerator(p) \/ GeneratorStep(p) \/ GeneratorDies(p)

Spec == Init /\ [][Next]_vars

-----------------------------------------------------------------------------
(***************************************************************************)
(* Properties.                                                             *)
(***************************************************************************)

\* A squash on top of a commit that CI of its head has not seen.
Late(k) == main[k].by = "pr" /\ main[k].on < k - 1

\* A chart version stands for one content of the chart, as Argo CD and its
\* users take it to, however many pull requests bump it at once.  The gate
\* cannot keep this up over a push of the bot, a squash of a late head, or a
\* version that goes back: it asks for another version, not for a higher one.
VersionTellsChart ==
    \A j \in DOMAIN main : \A i \in 1..j :
        Tree(i).version = Tree(j).version /\ ChartOf(Tree(i)) # ChartOf(Tree(j)) =>
            \E k \in i + 1..j : \/ main[k].by = "bot" \/ Late(k)
                                \/ Tree(k).version < Tree(k - 1).version

\* The inputs of one output that may come from different pull requests without
\* a conflict.  The allow list is also the same again once others have taken a
\* dashboard out and put it back.
Paired == {<<"allow", "source">>, <<"source", "allow">>, <<"allow", "allow">>,
           <<"alert", "dropped">>, <<"dropped", "alert">>}

Changes(k, f) == Tree(k)[f] # Tree(k - 1)[f]

Crossed(k) == \E pair \in Paired : /\ Changes(k, pair[1])
                                   /\ \E j \in main[k].on + 1..k - 1 : Changes(j, pair[2])

\* What main holds is what the generator makes of the sources that main holds,
\* and the generator accepts them.  A late head can break this in one way
\* only: main has meanwhile changed an input of the same output.
GeneratedOnMain ==
    InStep(Tree(Tip)) \/ \E k \in DOMAIN main : Late(k) /\ Crossed(k)

\* A generation that comes to its end leaves a tree that --check accepts, no
\* matter where earlier ones died; the legacy ConfigMap alone stays.
GenerationHeals ==
    \A p \in Pr : gen[p] = "done" => Config!Checked([branch[p] EXCEPT !.legacy = FALSE])
=============================================================================
