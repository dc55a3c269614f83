--------------------------- MODULE MergeGate_proofs ---------------------------
(***************************************************************************)
(* Proofs about MergeGate: for any number of pull requests with any plans, *)
(* any length of main and any pushes of the bot.                           *)
(*                                                                         *)
(* The gate compares a version with the one before it only.  That two      *)
(* commits far apart do not share a version with different contents needs  *)
(* versions that never go back between them (Ordered).                     *)
(*                                                                         *)
(* That main is in step needs more than main: a branch, whose generations  *)
(* may have died, differs from its base in an output only where it differs *)
(* in an input (OutputsFollow), so that a squash over other people's       *)
(* changes puts main out of step only where CI has passed on inputs that   *)
(* are no longer there (OutOfStep).                                        *)
(***************************************************************************)
EXTENDS MergeGate, TLAPS, FiniteSetTheorems

VersionOf(k) == Tree(k).version

\* No commit after i up to j excuses a version that is used twice.
Clean(i, j) ==
    \A k \in i + 1..j : main[k].by # "bot" /\ ~Late(k) /\ VersionOf(k - 1) <= VersionOf(k)

MainOK ==
    /\ \E S : main \in Seq(S)
    /\ Tip > 0 /\ \A k \in 1..Tip : IsTree(Tree(k)) /\ main[k].on \in Nat

TypeOK ==
    /\ MainOK
    /\ fork \in [Pr -> 0..Tip] /\ ci \in [Pr -> 0..Tip]
    /\ DOMAIN branch = Pr /\ \A p \in Pr : IsTree(branch[p])
    /\ todo \in [Pr -> SUBSET Task] /\ DOMAIN gen = Pr

Ordered ==
    \A j \in 1..Tip : \A i \in 1..j :
        Clean(i, j) =>
            /\ VersionOf(i) <= VersionOf(j)
            /\ VersionOf(i) = VersionOf(j) => ChartOf(Tree(i)) = ChartOf(Tree(j))

\* CI has looked at what would be squashed onto the present main.
PassedOnTip == \A p \in Pr : Open(p) /\ ci[p] = Tip => Bumped(p)

\* What a generation under way has done.
Generated ==
    \A p \in Pr :
        /\ gen[p] \in Config!Step \cup {"done"} => ~Config!Rejected(branch[p])
        /\ gen[p] \in {"dash", "rules", "done"} /\ ~branch[p].allow =>
              branch[p].dash = "none"
        /\ gen[p] \in {"rules", "done"} /\ branch[p].allow =>
              branch[p].dash = branch[p].source
        /\ gen[p] = "done" => branch[p].rules = Config!Rules(branch[p])

IInv == TypeOK /\ Ordered /\ PassedOnTip /\ Generated

-----------------------------------------------------------------------------
\* What git and a person make of trees are trees.
LEMMA MergeIsTree ==
    ASSUME NEW b, NEW o, NEW t, IsTree(b), IsTree(o), IsTree(t)
    PROVE  IsTree(Merge(b, o, t))
<1>1. DOMAIN b = File /\ "version" \in File
    BY DEF IsTree, File
<1>2. Merge(b, o, t) = [f \in File |-> IF t[f] = b[f] THEN o[f] ELSE t[f]]
    BY <1>1 DEF Merge
<1> QED
    BY <1>1, <1>2 DEF IsTree

LEMMA ExceptIsTree ==
    ASSUME NEW t, IsTree(t), NEW f \in File, NEW v, f = "version" => v \in Nat
    PROVE  IsTree([t EXCEPT ![f] = v])
<1>1. DOMAIN t = File /\ "version" \in File
    BY DEF IsTree, File
<1> QED
    BY <1>1 DEF IsTree

LEMMA OutcomesAreTrees ==
    ASSUME NEW p, NEW task \in Task, NEW t, IsTree(t), NEW o \in Outcomes(p, task, t)
    PROVE  IsTree(o)
<1>1. CASE task = "template"
    BY <1>1, ExceptIsTree DEF Outcomes, File
<1>2. CASE task = "values"
    BY <1>2, ExceptIsTree DEF Outcomes, File
<1>3. CASE task = "bump"
    <2>1. PICK v \in Versions : o = [t EXCEPT !["version"] = v]
        BY <1>3 DEF Outcomes
    <2> QED
        BY <2>1, ExceptIsTree, MergeGateAssumption DEF File
<1>4. CASE task = "allow"
    <2>1. o = [t EXCEPT !["allow"] = ~t["allow"]]
        BY <1>4 DEF Outcomes, IsTree, File
    <2> QED
        BY <2>1, ExceptIsTree DEF File
<1>5. CASE task = "source"
    <2>1. PICK v \in {p, "bad"} : o = [t EXCEPT !["source"] = v]
        BY <1>5 DEF Outcomes
    <2> QED
        BY <2>1, ExceptIsTree DEF File
<1>6. CASE task = "drop"
    BY <1>6, ExceptIsTree DEF Outcomes, File
<1>7. CASE task = "unalert"
    BY <1>7, ExceptIsTree DEF Outcomes, File
<1>8. CASE task = "tidy"
    BY <1>8, ExceptIsTree DEF Outcomes, File
<1> QED
    BY <1>1, <1>2, <1>3, <1>4, <1>5, <1>6, <1>7, <1>8 DEF Task

LEMMA GeneratorTrees ==
    ASSUME NEW t, IsTree(t), NEW step \in Config!Step
    PROVE  IsTree(Config!Written(t, step)) /\ IsTree(Config!CutShort(t, step))
<1>1. CASE step = "remove"
    BY <1>1, ExceptIsTree DEF Config!Written, Config!CutShort, File
<1>2. CASE step = "dash"
    BY <1>2, ExceptIsTree DEF Config!Written, Config!CutShort, File
<1>3. CASE step = "rules"
    BY <1>3, ExceptIsTree DEF Config!Written, Config!CutShort, File
<1> QED
    BY <1>1, <1>2, <1>3 DEF Config!Step

-----------------------------------------------------------------------------
\* main is only added to.
LEMMA Appended ==
    ASSUME TypeOK, NEW c, main' = Append(main, c)
    PROVE  /\ Tip \in Nat /\ Tip' = Tip + 1 /\ main'[Tip + 1] = c
           /\ \A k \in 1..Tip : main'[k] = main[k]
           /\ \E S : main' \in Seq(S)
<1>1. PICK S : main \in Seq(S)
    BY DEF TypeOK, MainOK
<1>2. main \in Seq(S \cup {c}) /\ c \in S \cup {c}
    BY <1>1
<1>3. main' \in Seq(S \cup {c})
    BY <1>2
<1> QED
    BY <1>2, <1>3 DEF Tip

LEMMA OrderedStep ==
    ASSUME TypeOK, Ordered, NEW c, main' = Append(main, c), IsTree(c.tree), c.on \in Nat,
           \/ c.by = "bot"
           \/ c.by = "pr" /\ c.on < Tip
           \/ ChartOf(c.tree) # ChartOf(Tree(Tip)) => c.tree.version # VersionOf(Tip)
    PROVE  Ordered'
<1>0. Tip > 0 /\ Tip \in Nat
    BY Appended DEF TypeOK, MainOK
<1> PICK n \in Nat \ {0} : n = Tip
    BY <1>0
<1>1. /\ Tip = n /\ Tip' = n + 1 /\ main'[n + 1] = c
      /\ \A k \in 1..n : main'[k] = main[k]
    BY Appended
<1>2. /\ \A k \in 1..n : VersionOf(k)' = VersionOf(k) /\ Tree(k)' = Tree(k)
      /\ \A m : m = n + 1 => VersionOf(m)' = c.tree.version /\ Tree(m)' = c.tree
    BY <1>1 DEF VersionOf, Tree
<1>9. \A k \in 1..n : main'[k].by = main[k].by /\ (Late(k)' <=> Late(k))
    <2>1. \A k \in 1..n : main'[k].by = main[k].by /\ main'[k].on = main[k].on
        BY <1>1
    <2> QED
        BY <2>1 DEF Late
<1>10. ASSUME NEW m, m = n + 1
       PROVE  main'[m].by = c.by /\ (Late(m)' <=> (c.by = "pr" /\ c.on < n))
    <2>3. n \in Nat
        OBVIOUS
    <2>4. main'[m] = c
        BY <1>1, <1>10
    <2>5. m - 1 = n
        BY <1>10, <2>3
    <2>1. main'[m] = c /\ m - 1 = n
        BY <2>4, <2>5
    <2>2. Late(m)' <=> (main'[m].by = "pr" /\ main'[m].on < m - 1)
        BY DEF Late
    <2> QED
        BY <2>1, <2>2
<1>3. c.tree.version \in Nat /\ \A k \in 1..n : VersionOf(k) \in Nat
    BY <1>1 DEF IsTree, TypeOK, MainOK, VersionOf
<1> SUFFICES ASSUME NEW j \in 1..n + 1, NEW i \in 1..j, Clean(i, j)'
             PROVE  /\ VersionOf(i)' <= VersionOf(j)'
                    /\ VersionOf(i)' = VersionOf(j)' => ChartOf(Tree(i))' = ChartOf(Tree(j))'
    BY <1>1 DEF Ordered
<1>4. \A k \in i + 1..j : main'[k].by # "bot" /\ ~Late(k)' /\ VersionOf(k - 1)' <= VersionOf(k)'
    BY DEF Clean
<1>5. ASSUME NEW m \in 1..n, i <= m, m <= j
      PROVE  Clean(i, m)
    <2> SUFFICES ASSUME NEW k \in i + 1..m
                 PROVE  main[k].by # "bot" /\ ~Late(k) /\ VersionOf(k - 1) <= VersionOf(k)
        BY DEF Clean
    <2>1. k \in 1..n /\ k - 1 \in 1..n /\ k \in i + 1..j
        BY <1>1, <1>5
    <2> QED
        BY <1>1, <1>2, <1>9, <1>4, <2>1
<1>6. CASE j <= n
    <2>1. j \in 1..n /\ i \in 1..n /\ Clean(i, j)
        BY <1>1, <1>5, <1>6
    <2> QED
        BY <1>1, <1>2, <2>1 DEF Ordered, ChartOf
<1>7. CASE j = n + 1 /\ i = j
    BY <1>1, <1>2, <1>3, <1>7
<1>8. CASE j = n + 1 /\ i # j
    <2>1. i \in 1..n /\ Clean(i, n)
        BY <1>1, <1>5, <1>8
    <2>2. /\ VersionOf(i) <= VersionOf(n)
          /\ VersionOf(i) = VersionOf(n) => ChartOf(Tree(i)) = ChartOf(Tree(n))
        BY <1>1, <2>1 DEF Ordered
    <2>7. j \in i + 1..j /\ n = j - 1
        BY <1>1, <1>8
    <2>8. main'[j].by # "bot" /\ ~Late(j)' /\ \A k : k = j - 1 => VersionOf(k)' <= VersionOf(j)'
        BY <1>4, <2>7
    <2>9. main'[j].by = c.by /\ (Late(j)' <=> (c.by = "pr" /\ c.on < n))
        BY <1>8, <1>10
    <2>10. VersionOf(n)' <= VersionOf(j)' /\ VersionOf(n)' = VersionOf(n) /\ VersionOf(j)' = c.tree.version
        BY <1>2, <1>8, <2>7, <2>8
    <2>3. c.by # "bot" /\ ~(c.by = "pr" /\ c.on < n) /\ VersionOf(n) <= c.tree.version
        BY <2>8, <2>9, <2>10
    <2>4. /\ VersionOf(i)' = VersionOf(i) /\ VersionOf(j)' = c.tree.version
          /\ ChartOf(Tree(i))' = ChartOf(Tree(i)) /\ ChartOf(Tree(j))' = ChartOf(c.tree)
        BY <1>2, <1>8, <2>1 DEF ChartOf
    <2>5. VersionOf(i) \in Nat /\ VersionOf(n) \in Nat /\ c.tree.version \in Nat
        BY <1>1, <1>3, <2>1
    <2>6. ChartOf(c.tree) # ChartOf(Tree(n)) => c.tree.version # VersionOf(n)
        BY <1>1, <2>3
    <2> QED
        BY <2>2, <2>3, <2>4, <2>5, <2>6
<1> QED
    BY <1>1, <1>6, <1>7, <1>8

-----------------------------------------------------------------------------
LEMMA MergedTrees ==
    ASSUME TypeOK
    PROVE  /\ Tip \in Nat \ {0} /\ IsTree(Tree(1)) /\ IsTree(Tree(Tip))
           /\ \A p \in Pr : Open(p) => IsTree(Merged(p))
<1>1. Tip \in Nat /\ Tip > 0
    BY DEF TypeOK, MainOK, Tip
<1>2. 1 \in 1..Tip /\ Tip \in 1..Tip
    BY <1>1
<1>3. ASSUME NEW p \in Pr, Open(p)
      PROVE  IsTree(Merged(p))
    <2>1. fork[p] \in 1..Tip
        BY <1>1, <1>3 DEF TypeOK, Open
    <2> QED
        BY <1>2, <2>1, MergeIsTree DEF TypeOK, MainOK, Merged
<1> QED
    BY <1>1, <1>2, <1>3 DEF TypeOK, MainOK

LEMMA MainAppended ==
    ASSUME TypeOK, NEW c, main' = Append(main, c), IsTree(c.tree), c.on \in Nat
    PROVE  MainOK' /\ Tip' = Tip + 1
<1>0. Tip \in Nat
    BY MergedTrees
<1> PICK n \in Nat : n = Tip
    BY <1>0
<1>1. /\ Tip = n /\ Tip' = n + 1 /\ main'[n + 1] = c
      /\ \A k \in 1..n : main'[k] = main[k] /\ IsTree(Tree(k)) /\ main[k].on \in Nat
      /\ \E S : main' \in Seq(S)
    BY Appended DEF TypeOK, MainOK
<1>2. ASSUME NEW k \in 1..n + 1
      PROVE  IsTree(Tree(k))' /\ main'[k].on \in Nat
    <2>1. ASSUME k \in 1..n
          PROVE  Tree(k)' = Tree(k) /\ IsTree(Tree(k)) /\ main'[k].on \in Nat
        BY <1>1, <2>1 DEF Tree
    <2>2. ASSUME k = n + 1
          PROVE  Tree(k)' = c.tree /\ main'[k].on \in Nat
        BY <1>1, <2>2 DEF Tree
    <2>3. k \in 1..n \/ k = n + 1
        OBVIOUS
    <2> QED
        BY <2>1, <2>2, <2>3 DEF IsTree
<1>3. Tip' > 0
    BY <1>1
<1> QED
    BY <1>1, <1>2, <1>3 DEF MainOK

LEMMA TypeStep == TypeOK /\ [Next]_vars => TypeOK'
<1> SUFFICES ASSUME TypeOK, [Next]_vars
             PROVE  TypeOK'
    OBVIOUS
<1> USE DEF Push
<1>1. CASE BotPush
    <2>1. PICK content \in {"bot", Tree(Tip).values} :
              main' = Append(main, [tree |-> [Tree(Tip) EXCEPT !.values = content],
                                    by |-> "bot", on |-> Tip])
        BY <1>1 DEF BotPush
    <2>2. IsTree([Tree(Tip) EXCEPT !["values"] = content]) /\ Tip \in Nat
        BY MergedTrees, ExceptIsTree DEF File
    <2>3. MainOK' /\ Tip' = Tip + 1
        BY <2>1, <2>2, MainAppended
    <2> QED
        BY <1>1, <2>2, <2>3 DEF BotPush, TypeOK
<1>2. ASSUME NEW p \in Pr, Squash(p)
      PROVE  TypeOK'
    <2>1. Open(p) /\ Tip \in Nat /\ ci[p] \in Nat /\ IsTree(Merged(p)) /\ IsTree(Tree(1))
        BY <1>2, MergedTrees DEF Squash, Resting, TypeOK
    <2>2. MainOK' /\ Tip' = Tip + 1
        BY <1>2, <2>1, MainAppended DEF Squash
    <2>3. DOMAIN branch' = Pr /\ \A q \in Pr : IsTree(branch'[q])
        BY <1>2, <2>1 DEF Squash, TypeOK
    <2>4. fork' \in [Pr -> 0..Tip'] /\ ci' \in [Pr -> 0..Tip']
        BY <1>2, <2>1, <2>2 DEF Squash, TypeOK
    <2>5. todo' \in [Pr -> SUBSET Task] /\ DOMAIN gen' = Pr
        BY <1>2 DEF Squash, TypeOK
    <2> QED
        BY <2>2, <2>3, <2>4, <2>5 DEF TypeOK
<1>3. ASSUME UNCHANGED main, NEW p \in Pr, NEW t, IsTree(t),
             branch' = [branch EXCEPT ![p] = t], ci' = [ci EXCEPT ![p] = 0],
             fork' = fork \/ fork' = [fork EXCEPT ![p] = Tip],
             todo' \in [Pr -> SUBSET Task], DOMAIN gen' = Pr
      PROVE  TypeOK'
    <2>1. MainOK' /\ Tip' = Tip /\ Tip \in Nat
        BY <1>3, MergedTrees DEF TypeOK, MainOK, Tip, Tree, IsTree
    <2>2. DOMAIN branch' = Pr /\ \A q \in Pr : IsTree(branch'[q])
        BY <1>3 DEF TypeOK
    <2>3. fork' \in [Pr -> 0..Tip'] /\ ci' \in [Pr -> 0..Tip']
        BY <1>3, <2>1 DEF TypeOK
    <2> QED
        BY <1>3, <2>1, <2>2, <2>3 DEF TypeOK
<1>4. ASSUME NEW p \in Pr, Edit(p)
      PROVE  TypeOK'
    <2>1. PICK task \in todo[p] : \E t \in Outcomes(p, task, branch[p]) :
              /\ Push(p, t)
              /\ todo' = [todo EXCEPT ![p] = IF task = "source" /\ t.source = "bad"
                                             THEN @ ELSE @ \ {task}]
        BY <1>4 DEF Edit
    <2>4. PICK t \in Outcomes(p, task, branch[p]) :
              /\ Push(p, t)
              /\ todo' = [todo EXCEPT ![p] = IF task = "source" /\ t.source = "bad"
                                             THEN @ ELSE @ \ {task}]
        BY <2>1
    <2>2. task \in Task /\ todo' \in [Pr -> SUBSET Task] /\ DOMAIN gen' = Pr
        BY <1>4, <2>1, <2>4 DEF Edit, TypeOK
    <2>3. IsTree(t)
        BY <2>2, OutcomesAreTrees DEF TypeOK
    <2> QED
        BY <1>3, <1>4, <2>4, <2>2, <2>3 DEF Edit
<1>5. ASSUME NEW p \in Pr, Update(p)
      PROVE  TypeOK'
    <2>1. IsTree(Merged(p)) /\ todo' \in [Pr -> SUBSET Task] /\ DOMAIN gen' = Pr
        BY <1>5, MergedTrees DEF Update, Resting, TypeOK
    <2> QED
        BY <1>3, <1>5, <2>1 DEF Update
<1>6. ASSUME NEW p \in Pr, GeneratorStep(p)
      PROVE  TypeOK'
    <2>1. /\ IsTree(Config!Written(branch[p], gen[p]))
          /\ todo' \in [Pr -> SUBSET Task] /\ DOMAIN gen' = Pr
        BY <1>6, GeneratorTrees DEF GeneratorStep, TypeOK
    <2> QED
        BY <1>3, <1>6, <2>1 DEF GeneratorStep
<1>7. ASSUME UNCHANGED <<main, fork, branch>>, ci' \in [Pr -> 0..Tip],
             todo' \in [Pr -> SUBSET Task], DOMAIN gen' = Pr
      PROVE  TypeOK'
    BY <1>7 DEF TypeOK, MainOK, Tip, Tree, IsTree
<1>8. ASSUME NEW p \in Pr, GeneratorDies(p)
      PROVE  TypeOK'
    <2>1. /\ IsTree(Config!CutShort(branch[p], gen[p]))
          /\ todo' \in [Pr -> SUBSET Task] /\ DOMAIN gen' = Pr /\ ci \in [Pr -> 0..Tip]
        BY <1>8, GeneratorTrees DEF GeneratorDies, TypeOK
    <2>2. CASE Push(p, Config!CutShort(branch[p], gen[p]))
        BY <1>3, <1>8, <2>1, <2>2 DEF GeneratorDies
    <2>3. CASE UNCHANGED <<branch, ci>>
        BY <1>7, <1>8, <2>1, <2>3 DEF GeneratorDies
    <2> QED
        BY <1>8, <2>2, <2>3 DEF GeneratorDies
<1>9. ASSUME NEW p \in Pr, StartGenerator(p)
      PROVE  TypeOK'
    <2>1. todo' \in [Pr -> SUBSET Task] /\ DOMAIN gen' = Pr /\ ci' \in [Pr -> 0..Tip]
        BY <1>9 DEF StartGenerator, TypeOK
    <2> QED
        BY <1>7, <1>9, <2>1 DEF StartGenerator
<1>10. ASSUME NEW p \in Pr, Validate(p)
       PROVE  TypeOK'
    <2>1. todo' \in [Pr -> SUBSET Task] /\ DOMAIN gen' = Pr /\ ci' \in [Pr -> 0..Tip]
        BY <1>10, MergedTrees DEF Validate, TypeOK
    <2> QED
        BY <1>7, <1>10, <2>1 DEF Validate
<1>11. CASE UNCHANGED vars
    BY <1>7, <1>11 DEF vars, TypeOK
<1> QED
    BY <1>1, <1>2, <1>4, <1>5, <1>6, <1>8, <1>9, <1>10, <1>11 DEF Next

-----------------------------------------------------------------------------
\* Versions and the contents they stand for.
LEMMA OrderStep == TypeOK /\ Ordered /\ PassedOnTip /\ [Next]_vars => Ordered'
<1> SUFFICES ASSUME TypeOK, Ordered, PassedOnTip, [Next]_vars
             PROVE  Ordered'
    OBVIOUS
<1>1. CASE BotPush
    <2>1. PICK content \in {"bot", Tree(Tip).values} :
              main' = Append(main, [tree |-> [Tree(Tip) EXCEPT !.values = content],
                                    by |-> "bot", on |-> Tip])
        BY <1>1 DEF BotPush
    <2>2. IsTree([Tree(Tip) EXCEPT !["values"] = content]) /\ Tip \in Nat
        BY MergedTrees, ExceptIsTree DEF File
    <2> QED
        BY <2>1, <2>2, OrderedStep
<1>2. ASSUME NEW p \in Pr, Squash(p)
      PROVE  Ordered'
    <2> DEFINE c == [tree |-> Merged(p), by |-> "pr", on |-> ci[p]]
    <2>1. Open(p) /\ Tip \in Nat /\ ci[p] \in 0..Tip /\ IsTree(Merged(p))
        BY <1>2, MergedTrees DEF Squash, Resting, TypeOK
    <2>2. main' = Append(main, c) /\ c.tree = Merged(p) /\ c.by = "pr" /\ c.on = ci[p]
        BY <1>2 DEF Squash
    <2>3. CASE ci[p] < Tip
        <3> HIDE DEF c
        <3> QED
            BY <2>1, <2>2, <2>3, OrderedStep
    <2>4. CASE ci[p] = Tip
        <3>1. Bumped(p)
            BY <2>1, <2>4 DEF PassedOnTip
        <3>2. ChartOf(c.tree) # ChartOf(Tree(Tip)) => c.tree.version # VersionOf(Tip)
            BY <2>2, <3>1 DEF Bumped, Before, VersionOf
        <3> HIDE DEF c
        <3> QED
            BY <2>1, <2>2, <3>2, OrderedStep
    <2> QED
        BY <2>1, <2>3, <2>4
<1>3. CASE UNCHANGED main
    BY <1>3 DEF Ordered, Clean, Late, VersionOf, Tree, Tip, ChartOf
<1> QED
    BY <1>1, <1>2, <1>3 DEF Next, vars, Edit, Update, Validate, StartGenerator,
                            GeneratorStep, GeneratorDies

\* The check of a head is of what would be squashed onto the same main.
LEMMA PassedStep == TypeOK /\ PassedOnTip /\ [Next]_vars => PassedOnTip'
<1> SUFFICES ASSUME TypeOK, PassedOnTip, [Next]_vars
             PROVE  PassedOnTip'
    OBVIOUS
<1>0. Tip \in Nat \ {0} /\ ci \in [Pr -> 0..Tip] /\ DOMAIN branch = Pr /\ DOMAIN fork = Pr
    BY MergedTrees DEF TypeOK
<1>1. ASSUME NEW c, main' = Append(main, c), NEW p, ci' = ci \/ ci' = [ci EXCEPT ![p] = 0]
      PROVE  PassedOnTip'
    BY <1>0, <1>1, Appended DEF PassedOnTip
<1>2. ASSUME UNCHANGED main, NEW p \in Pr,
             ci'[p] = 0 \/ (ci'[p] = ci[p] /\ fork'[p] = fork[p] /\ branch'[p] = branch[p]),
             \A q \in Pr \ {p} : /\ ci'[q] = ci[q] /\ fork'[q] = fork[q]
                                 /\ branch'[q] = branch[q]
      PROVE  PassedOnTip'
    <2> SUFFICES ASSUME NEW q \in Pr, Open(q)', (ci[q] = Tip)'
                 PROVE  Bumped(q)'
        BY DEF PassedOnTip
    <2>1. Tip' = Tip /\ main' = main
        BY <1>2 DEF Tip
    <2>2. ci'[q] = ci[q] /\ fork'[q] = fork[q] /\ branch'[q] = branch[q]
        BY <1>0, <1>2, <2>1
    <2>3. Bumped(q)
        BY <2>1, <2>2 DEF PassedOnTip, Open
    <2> QED
        BY <2>1, <2>2, <2>3 DEF Bumped, Merged, Before, Tree, ChartOf
<1>3. CASE BotPush
    BY <1>1, <1>3 DEF BotPush
<1>4. ASSUME NEW p \in Pr, Squash(p)
      PROVE  PassedOnTip'
    BY <1>1, <1>4 DEF Squash
<1>5. ASSUME NEW p \in Pr, Validate(p)
      PROVE  PassedOnTip'
    <2> SUFFICES ASSUME NEW q \in Pr, Open(q)', (ci[q] = Tip)'
                 PROVE  Bumped(q)'
        BY DEF PassedOnTip
    <2>1. main' = main /\ fork' = fork /\ branch' = branch /\ Tip' = Tip
        BY <1>5 DEF Validate, Tip
    <2>2. CASE q = p
        BY <1>5, <2>1, <2>2 DEF Validate, Bumped, Merged, Before, Tree, ChartOf
    <2>3. CASE q # p
        <3>1. ci'[q] = ci[q]
            BY <1>0, <1>5, <2>3 DEF Validate
        <3>2. Bumped(q)
            BY <2>1, <3>1 DEF PassedOnTip, Open
        <3> QED
            BY <2>1, <3>2 DEF Bumped, Merged, Before, Tree, ChartOf
    <2> QED
        BY <2>2, <2>3
<1>6. ASSUME NEW p \in Pr, Edit(p) \/ GeneratorStep(p) \/ Update(p) \/ GeneratorDies(p)
      PROVE  PassedOnTip'
    BY <1>0, <1>2, <1>6 DEF Edit, GeneratorStep, Update, GeneratorDies, Push
<1>7. ASSUME UNCHANGED <<main, fork, branch, ci>>
      PROVE  PassedOnTip'
    BY <1>7 DEF PassedOnTip, Open, Tip, Bumped, Merged, Before, Tree, ChartOf
<1> QED
    BY <1>3, <1>4, <1>5, <1>6, <1>7 DEF Next, vars, StartGenerator

\* A generation does one output after the other.
LEMMA GeneratedStep == TypeOK /\ Generated /\ [Next]_vars => Generated'
<1> SUFFICES ASSUME TypeOK, Generated, [Next]_vars, NEW q \in Pr
             PROVE  /\ gen'[q] \in Config!Step \cup {"done"} => ~Config!Rejected(branch'[q])
                    /\ gen'[q] \in {"dash", "rules", "done"} /\ ~branch'[q].allow =>
                           branch'[q].dash = "none"
                    /\ gen'[q] \in {"rules", "done"} /\ branch'[q].allow =>
                           branch'[q].dash = branch'[q].source
                    /\ gen'[q] = "done" => branch'[q].rules = Config!Rules(branch'[q])
    BY DEF Generated
<1>0. DOMAIN gen = Pr /\ DOMAIN branch = Pr /\ IsTree(branch[q])
    BY DEF TypeOK
<1>1. CASE gen'[q] = gen[q] /\ branch'[q] = branch[q]
    BY <1>1 DEF Generated
<1>2. CASE gen'[q] = "idle"
    BY <1>2 DEF Config!Step
<1>3. CASE StartGenerator(q)
    BY <1>0, <1>3 DEF StartGenerator
<1>4. CASE GeneratorStep(q)
    <2>0. /\ branch'[q] = Config!Written(branch[q], gen[q])
          /\ gen'[q] = Config!Following[gen[q]] /\ gen[q] \in Config!Step
        BY <1>0, <1>4 DEF GeneratorStep, Push
    <2>1. DOMAIN branch[q] = File /\ ~Config!Rejected(branch[q])
        BY <1>0, <2>0 DEF IsTree, Generated
    <2>2. CASE gen[q] = "remove"
        <3>1. gen'[q] = "dash" /\ branch'[q] = IF branch[q].allow THEN branch[q]
                                               ELSE [branch[q] EXCEPT !.dash = "none"]
            BY <2>0, <2>2 DEF Config!Following, Config!Written
        <3> QED
            BY <2>1, <3>1 DEF File, Config!Rejected, Config!BadDashboard, Config!MissingAlert
    <2>3. CASE gen[q] = "dash"
        <3>1. gen'[q] = "rules" /\ branch'[q] = IF branch[q].allow
                                                THEN [branch[q] EXCEPT !.dash = branch[q].source]
                                                ELSE branch[q]
            BY <2>0, <2>3 DEF Config!Following, Config!Written, Config!Desired
        <3>2. ~branch[q].allow => branch[q].dash = "none"
            BY <2>3 DEF Generated
        <3> QED
            BY <2>1, <3>1, <3>2 DEF File, Config!Rejected, Config!BadDashboard,
                                    Config!MissingAlert
    <2>4. CASE gen[q] = "rules"
        <3>1. gen'[q] = "done"
              /\ branch'[q] = [branch[q] EXCEPT !.rules = Config!Rules(branch[q])]
            BY <2>0, <2>4 DEF Config!Following, Config!Written, Config!Desired
        <3>2. /\ ~branch[q].allow => branch[q].dash = "none"
              /\ branch[q].allow => branch[q].dash = branch[q].source
            BY <2>4 DEF Generated
        <3> QED
            BY <2>1, <3>1, <3>2 DEF File, Config!Rejected, Config!BadDashboard,
                                    Config!MissingAlert, Config!Rules
    <2> QED
        BY <2>0, <2>2, <2>3, <2>4 DEF Config!Step
<1>5. ASSUME NEW p \in Pr, Edit(p) \/ Update(p) \/ Squash(p) \/ GeneratorDies(p)
      PROVE  gen'[q] = "idle" \/ (gen'[q] = gen[q] /\ branch'[q] = branch[q])
    BY <1>0, <1>5 DEF Edit, Update, Squash, GeneratorDies, Push
<1>6. ASSUME NEW p \in Pr \ {q}, StartGenerator(p) \/ GeneratorStep(p)
      PROVE  gen'[q] = gen[q] /\ branch'[q] = branch[q]
    BY <1>0, <1>6 DEF StartGenerator, GeneratorStep, Push
<1>7. ASSUME NEW p \in Pr, Validate(p)
      PROVE  gen'[q] = gen[q] /\ branch'[q] = branch[q]
    BY <1>7 DEF Validate
<1>8. CASE BotPush \/ UNCHANGED vars
    BY <1>1, <1>8 DEF BotPush, vars
<1> QED
    BY <1>1, <1>2, <1>3, <1>4, <1>5, <1>6, <1>7, <1>8 DEF Next

LEMMA InitIInv == Init => IInv
<1> SUFFICES ASSUME Init
             PROVE  IInv
    OBVIOUS
<1>1. PICK tree \in Trees : /\ main = <<[tree |-> tree, by |-> "base", on |-> 0]>>
                            /\ branch = [p \in Pr |-> tree]
    BY DEF Init
<1>2. Tip = 1 /\ Tree(1) = tree /\ main[1].on = 0 /\ IsTree(tree)
    BY <1>1, MergeGateAssumption DEF Tip, Tree
<1>3. TypeOK
    <2>1. main \in Seq({main[1]})
        BY <1>1
    <2>2. MainOK
        <3>1. \A k \in 1..Tip : k = 1
            BY <1>2
        <3> QED
            BY <1>2, <2>1, <3>1 DEF MainOK
    <2>3. fork \in [Pr -> 0..Tip] /\ ci \in [Pr -> 0..Tip]
        BY <1>2 DEF Init
    <2>4. DOMAIN branch = Pr /\ \A p \in Pr : IsTree(branch[p])
        BY <1>1, <1>2
    <2>5. todo \in [Pr -> SUBSET Task] /\ DOMAIN gen = Pr
        BY MergeGateAssumption DEF Init
    <2> QED
        BY <2>2, <2>3, <2>4, <2>5 DEF TypeOK
<1>4. Ordered
    BY <1>2, <1>3 DEF Ordered, TypeOK, MainOK, IsTree, VersionOf
<1>5. PassedOnTip
    BY <1>2 DEF PassedOnTip, Init
<1>6. Generated
    BY DEF Generated, Init, Config!Step
<1> QED
    BY <1>3, <1>4, <1>5, <1>6 DEF IInv

\* What holds of main, of the branches and of the generations after every step
\* of authors, CI, GitHub and the bot.
THEOREM Invariance == Spec => []IInv
<1>1. IInv /\ [Next]_vars => IInv'
    BY TypeStep, OrderStep, PassedStep, GeneratedStep DEF IInv
<1> QED
    BY InitIInv, <1>1, PTL DEF Spec

\* One chart version stands for one content of the chart, unless the bot has
\* pushed, a late head was squashed or the version went back in between: for
\* any number of pull requests, whatever each of them sets out to do.
THEOREM VersionsTell == Spec => []VersionTellsChart
<1>1. IInv => VersionTellsChart
    <2> SUFFICES ASSUME TypeOK, Ordered, NEW j \in DOMAIN main, NEW i \in 1..j,
                        Tree(i).version = Tree(j).version,
                        ChartOf(Tree(i)) # ChartOf(Tree(j))
                 PROVE  \E k \in i + 1..j : \/ main[k].by = "bot" \/ Late(k)
                                            \/ Tree(k).version < Tree(k - 1).version
        BY DEF IInv, VersionTellsChart
    <2>0. Tip \in Nat /\ DOMAIN main = 1..Tip
        BY MergedTrees DEF TypeOK, MainOK, Tip
    <2>1. j \in 1..Tip /\ ~Clean(i, j)
        BY <2>0 DEF Ordered, VersionOf
    <2>2. PICK k \in i + 1..j :
              ~(main[k].by # "bot" /\ ~Late(k) /\ VersionOf(k - 1) <= VersionOf(k))
        BY <2>1 DEF Clean
    <2>3. k \in 1..Tip /\ k - 1 \in 1..Tip
        BY <2>0, <2>1
    <2>4. VersionOf(k) \in Nat /\ VersionOf(k - 1) \in Nat
        BY <2>3 DEF TypeOK, MainOK, IsTree, VersionOf
    <2> QED
        BY <2>2, <2>4 DEF VersionOf
<1> QED
    BY Invariance, <1>1, PTL

\* A generation that ends has made its branch pass --check, however many of
\* the earlier ones have died in the middle of a file.
THEOREM GeneratorHeals == Spec => []GenerationHeals
<1>1. IInv => GenerationHeals
    <2> SUFFICES ASSUME TypeOK, Generated, NEW p \in Pr, gen[p] = "done"
                 PROVE  Config!Checked([branch[p] EXCEPT !.legacy = FALSE])
        BY DEF IInv, GenerationHeals
    <2>1. /\ DOMAIN branch[p] = File /\ ~Config!Rejected(branch[p])
          /\ branch[p].rules = Config!Rules(branch[p])
          /\ branch[p].allow => branch[p].dash = branch[p].source
          /\ ~branch[p].allow => branch[p].dash = "none"
        BY DEF TypeOK, IsTree, Generated
    <2> QED
        BY <2>1 DEF File, Config!Checked, Config!Rejected, Config!BadDashboard,
                    Config!MissingAlert, Config!Drift, Config!Leftover, Config!Desired,
                    Config!Rules
<1> QED
    BY Invariance, <1>1, PTL
-----------------------------------------------------------------------------
\* The inputs of the generator, as any author may have left them.
Input == {"allow", "source", "alert", "dropped"}

Proper(t) ==
    /\ t.allow \in BOOLEAN /\ t.alert \in BOOLEAN /\ t.dropped \in BOOLEAN
    /\ t.source \notin {"none", "torn"}

\* Nobody brings a deleted alert back, or takes one off the list.
Onward(s, t) == (t.alert => s.alert) /\ (s.dropped => t.dropped)

\* What the author of p makes of b.
BranchOf(p, b, t) == Proper(t) /\ Onward(b, t) /\ t.source \in {b.source, "bad", p}

\* An output of the branch differs from that of its base only with an input.
OutputsFollow(p, b, t) ==
    /\ t.dash \in {b.dash, "torn"} \/ t.allow # b.allow \/ t.source = p
    /\ t.rules \in {b.rules, "torn"} \/ t.alert # b.alert \/ t.dropped # b.dropped

Forked(p) == Tree(fork[p])

MainInputs ==
    /\ \A i \in 1..Tip : /\ Proper(Tree(i)) /\ (main[i].by = "pr" => main[i].on # 0)
                         /\ \A p \in Pr : Open(p) => Tree(i).source # p
    /\ \A j \in 1..Tip : \A i \in 1..j :
           /\ Onward(Tree(i), Tree(j))
           /\ \A f \in Input : (\A k \in i + 1..j : ~Changes(k, f)) => Tree(i)[f] = Tree(j)[f]

BranchInputs ==
    \A p \in Pr : Open(p) =>
        /\ BranchOf(p, Forked(p), branch[p])
        /\ "source" \in todo[p] => branch[p].source # p
        /\ "allow" \in todo[p] => branch[p].allow = Forked(p).allow

\* What CI has found of the merge with the commit it has seen.
Passed ==
    \A p \in Pr : Open(p) /\ ci[p] # 0 =>
        /\ fork[p] <= ci[p]
        /\ Conflicts(Forked(p), Tree(ci[p]), branch[p]) = {}
        /\ Config!Checked(Merge(Forked(p), Tree(ci[p]), branch[p]))

AllInStep ==
    /\ \A i \in 1..Tip : InStep(Tree(i))
    /\ \A p \in Pr : Open(p) => OutputsFollow(p, Forked(p), branch[p])

LateCrossing == \E k \in 1..Tip : Late(k) /\ Crossed(k)

JInv == MainInputs /\ BranchInputs /\ Passed /\ (LateCrossing \/ AllInStep)

-----------------------------------------------------------------------------
\* What git makes of one file.
LEMMA ThreeDiffer ==
    ASSUME NEW a, NEW b, NEW c, a # b, b # c, a # c
    PROVE  Cardinality({a, b, c}) = 3
<1>1. IsFiniteSet({a}) /\ Cardinality({a}) = 1
    BY FS_Singleton
<1>2. {a, b} = {a} \cup {b} /\ {a, b, c} = {a, b} \cup {c}
    OBVIOUS
<1>3. IsFiniteSet({a, b}) /\ Cardinality({a, b}) = 2
    BY <1>1, <1>2, FS_AddElement
<1> QED
    BY <1>2, <1>3, FS_AddElement

LEMMA MergedFile ==
    ASSUME NEW b, IsTree(b), NEW o, NEW t, NEW f \in File
    PROVE  /\ t[f] = b[f] => Merge(b, o, t)[f] = o[f]
           /\ t[f] # b[f] => Merge(b, o, t)[f] = t[f]
           /\ Conflicts(b, o, t) = {} => t[f] = b[f] \/ o[f] = b[f] \/ o[f] = t[f]
<1>1. DOMAIN b = File
    BY DEF IsTree
<1>2. t[f] = b[f] \/ o[f] = b[f] \/ o[f] = t[f] \/ Cardinality({b[f], o[f], t[f]}) = 3
    BY ThreeDiffer
<1> QED
    BY <1>1, <1>2 DEF Merge, Conflicts

LEMMA InStepIs ==
    ASSUME NEW t
    PROVE  InStep(t) <=> /\ t.allow => t.source # "bad" /\ t.dash = t.source
                         /\ ~t.allow => t.dash = "none"
                         /\ t.dropped => t.alert
                         /\ t.alert /\ ~t.dropped => t.rules = "with"
                         /\ ~(t.alert /\ ~t.dropped) => t.rules = "without"
<1>1. [dash |-> t.dash, rules |-> t.rules] = Config!Desired(t) <=>
          /\ t.dash = IF t.allow THEN t.source ELSE "none"
          /\ t.rules = Config!Rules(t)
    BY DEF Config!Desired
<1> QED
    BY <1>1 DEF InStep, Config!Rejected, Config!BadDashboard, Config!MissingAlert, Config!Rules

LEMMA CheckedInStep ==
    ASSUME NEW t, Config!Checked(t)
    PROVE  InStep(t)
BY InStepIs DEF Config!Checked, Config!Rejected, Config!Drift, Config!Leftover, Config!Desired,
                Config!BadDashboard, Config!MissingAlert, Config!Rules

-----------------------------------------------------------------------------
\* Where a merge changes no input of an output, it leaves the output alone, or
\* torn: a branch changes outputs with their inputs only.
LEMMA QuietDash ==
    ASSUME NEW p, NEW b, NEW o, NEW t, IsTree(b), Proper(b), Proper(o), InStep(b), InStep(o),
           BranchOf(p, b, t), OutputsFollow(p, b, t), o.source # p, b.source # p,
           Conflicts(b, o, t) = {},
           NEW m, m = Merge(b, o, t), m.allow = o.allow, m.source # p
    PROVE  m.dash = o.dash \/ m.dash = "torn"
<1>1. "dash" \in File /\ "allow" \in File /\ "source" \in File
    BY DEF File
<1>2. /\ t.dash = b.dash => m.dash = o.dash
      /\ t.dash # b.dash => m.dash = t.dash /\ (o.dash = b.dash \/ o.dash = t.dash)
      /\ t.allow # b.allow => o.allow = t.allow
      /\ t.source # b.source => m.source = t.source
    BY <1>1, MergedFile
<1>3. t.source # p
    BY <1>2
<1>4. t.allow # b.allow => b.dash # o.dash
    BY <1>2, InStepIs DEF Proper, BranchOf
<1> QED
    BY <1>2, <1>3, <1>4 DEF OutputsFollow

LEMMA QuietRules ==
    ASSUME NEW p, NEW b, NEW o, NEW t, IsTree(b), Proper(b), Proper(o), InStep(b), InStep(o),
           BranchOf(p, b, t), OutputsFollow(p, b, t), Onward(b, o), Conflicts(b, o, t) = {},
           NEW m, m = Merge(b, o, t), m.alert = o.alert, m.dropped = o.dropped
    PROVE  m.rules = o.rules \/ m.rules = "torn"
<1>1. "rules" \in File /\ "alert" \in File /\ "dropped" \in File
    BY DEF File
<1>2. /\ t.rules = b.rules => m.rules = o.rules
      /\ t.rules # b.rules => m.rules = t.rules /\ (o.rules = b.rules \/ o.rules = t.rules)
      /\ t.alert # b.alert => o.alert = t.alert
      /\ t.dropped # b.dropped => o.dropped = t.dropped
    BY <1>1, MergedFile
<1>3. t.alert # b.alert => o.rules # b.rules
    BY <1>2, InStepIs DEF Proper, BranchOf, Onward
<1>4. t.dropped # b.dropped => o.rules # b.rules
    BY <1>2, InStepIs DEF Proper, BranchOf, Onward
<1> QED
    BY <1>2, <1>3, <1>4 DEF OutputsFollow

\* CI has accepted x, the merge of the branch t with main at c.  Squashed on o,
\* which main has become since, the branch gives m.
LEMMA DashInStep ==
    ASSUME NEW p, NEW b, NEW c, NEW o, NEW t, IsTree(b), Proper(b), Proper(c), Proper(o),
           InStep(b), InStep(c), InStep(o), BranchOf(p, b, t), OutputsFollow(p, b, t),
           b.source # p, c.source # p, o.source # p,
           Conflicts(b, o, t) = {}, Conflicts(b, c, t) = {},
           NEW x, x = Merge(b, c, t), InStep(x),
           NEW m, m = Merge(b, o, t),
           m.allow # o.allow => c.source = o.source /\ c.allow = o.allow,
           m.source # o.source => c.allow = o.allow
    PROVE  /\ m.allow => m.source # "bad" /\ m.dash = m.source
           /\ ~m.allow => m.dash = "none"
<1>0. "dash" \in File /\ "allow" \in File /\ "source" \in File
    BY DEF File
<1>1. /\ t.dash = b.dash => m.dash = o.dash /\ x.dash = c.dash
      /\ t.dash # b.dash => m.dash = t.dash /\ x.dash = t.dash
      /\ t.allow = b.allow => m.allow = o.allow /\ x.allow = c.allow
      /\ t.allow # b.allow => m.allow = t.allow /\ x.allow = t.allow
      /\ t.source = b.source => m.source = o.source /\ x.source = c.source
      /\ t.source # b.source => m.source = t.source /\ x.source = t.source
    BY <1>0, MergedFile
<1>2. CASE m.allow = o.allow /\ m.source = o.source
    <2>1. m.dash = o.dash \/ m.dash = "torn"
        BY <1>2, QuietDash
    <2>2. CASE m.dash = o.dash
        BY <1>2, <2>2, InStepIs
    <2>3. CASE m.dash = "torn"
        <3>1. o.dash # "torn" /\ x.dash # "torn"
            BY <1>1, InStepIs DEF Proper, BranchOf
        <3> QED
            BY <1>1, <2>3, <3>1
    <2> QED
        BY <2>1, <2>2, <2>3
<1>3. CASE c.allow = o.allow /\ c.source = o.source
    <2>1. c.dash = o.dash
        BY <1>3, InStepIs DEF Proper
    <2>2. m.allow = x.allow /\ m.source = x.source /\ m.dash = x.dash
        BY <1>1, <1>3, <2>1
    <2> QED
        BY <2>2, InStepIs
<1>4. CASE c.allow = o.allow /\ t.source # b.source
    <2>1. m.allow = x.allow /\ m.source = x.source /\ x.source \in {"bad", p}
        BY <1>1, <1>4 DEF BranchOf
    <2>2. CASE m.dash = x.dash
        BY <2>1, <2>2, InStepIs
    <2>3. CASE m.dash = o.dash /\ x.dash = c.dash
        <3>1. ~x.allow
            BY <1>1, <2>1, <2>3, InStepIs DEF Proper, BranchOf
        <3>2. ~o.allow
            BY <1>4, <2>3, <3>1, InStepIs DEF Proper
        <3> QED
            BY <2>1, <2>3, <3>1, <3>2, InStepIs
    <2> QED
        BY <1>1, <2>2, <2>3
<1> QED
    BY <1>1, <1>2, <1>3, <1>4

LEMMA RulesInStep ==
    ASSUME NEW p, NEW b, NEW c, NEW o, NEW t, IsTree(b), Proper(b), Proper(c), Proper(o),
           InStep(b), InStep(c), InStep(o), BranchOf(p, b, t), OutputsFollow(p, b, t),
           Onward(b, o), Onward(c, o), Conflicts(b, o, t) = {}, Conflicts(b, c, t) = {},
           NEW x, x = Merge(b, c, t), InStep(x),
           NEW m, m = Merge(b, o, t),
           m.alert # o.alert => c.dropped = o.dropped,
           m.dropped # o.dropped => c.alert = o.alert
    PROVE  /\ m.dropped => m.alert
           /\ m.alert /\ ~m.dropped => m.rules = "with"
           /\ ~(m.alert /\ ~m.dropped) => m.rules = "without"
<1>0. "rules" \in File /\ "alert" \in File /\ "dropped" \in File
    BY DEF File
<1>1. /\ t.rules = b.rules => m.rules = o.rules /\ x.rules = c.rules
      /\ t.rules # b.rules => m.rules = t.rules /\ x.rules = t.rules
      /\ t.alert = b.alert => m.alert = o.alert /\ x.alert = c.alert
      /\ t.alert # b.alert => m.alert = t.alert /\ x.alert = t.alert
      /\ t.dropped = b.dropped => m.dropped = o.dropped /\ x.dropped = c.dropped
      /\ t.dropped # b.dropped => m.dropped = t.dropped /\ x.dropped = t.dropped
    BY <1>0, MergedFile
<1>2. CASE m.alert = o.alert /\ m.dropped = o.dropped
    <2>1. m.rules = o.rules \/ m.rules = "torn"
        BY <1>2, QuietRules
    <2>2. CASE m.rules = o.rules
        BY <1>2, <2>2, InStepIs
    <2>3. CASE m.rules = "torn"
        <3>1. o.rules # "torn" /\ x.rules # "torn"
            BY <1>1, InStepIs
        <3> QED
            BY <1>1, <2>3, <3>1
    <2> QED
        BY <2>1, <2>2, <2>3
<1>3. CASE c.alert = o.alert /\ c.dropped = o.dropped
    <2>1. c.rules = o.rules
        BY <1>3, InStepIs DEF Proper
    <2>2. m.alert = x.alert /\ m.dropped = x.dropped /\ m.rules = x.rules
        BY <1>1, <1>3, <2>1
    <2> QED
        BY <2>2, InStepIs
<1>4. m.alert # o.alert => c.alert = o.alert
    BY <1>0, <1>1, MergedFile DEF Proper, BranchOf, Onward
<1>5. m.dropped # o.dropped => c.dropped = o.dropped
    BY <1>0, <1>1, MergedFile DEF Proper, BranchOf, Onward
<1> QED
    BY <1>2, <1>3, <1>4, <1>5

\* What one merge puts out of step, two pull requests have crossed on.
LEMMA OutOfStep ==
    ASSUME NEW p, NEW b, NEW c, NEW o, NEW t, IsTree(b), Proper(b), Proper(c), Proper(o),
           InStep(b), InStep(c), InStep(o), BranchOf(p, b, t), OutputsFollow(p, b, t),
           b.source # p, c.source # p, o.source # p, Onward(b, o), Onward(c, o),
           Conflicts(b, o, t) = {}, Conflicts(b, c, t) = {},
           InStep(Merge(b, c, t)), ~InStep(Merge(b, o, t))
    PROVE  \E f \in Input, g \in Input : /\ <<f, g>> \in Paired
                                         /\ Merge(b, o, t)[f] # o[f] /\ c[g] # o[g]
<1> DEFINE m == Merge(b, o, t)
           x == Merge(b, c, t)
<1>1. CASE m.allow # o.allow /\ (c.source # o.source \/ c.allow # o.allow)
    BY <1>1 DEF Input, Paired
<1>2. CASE m.source # o.source /\ c.allow # o.allow
    BY <1>2 DEF Input, Paired
<1>3. CASE m.alert # o.alert /\ c.dropped # o.dropped
    BY <1>3 DEF Input, Paired
<1>4. CASE m.dropped # o.dropped /\ c.alert # o.alert
    BY <1>4 DEF Input, Paired
<1>5. CASE /\ m.allow # o.allow => c.source = o.source /\ c.allow = o.allow
           /\ m.source # o.source => c.allow = o.allow
           /\ m.alert # o.alert => c.dropped = o.dropped
           /\ m.dropped # o.dropped => c.alert = o.alert
    <2> HIDE DEF m, x
    <2>1. m = Merge(b, o, t) /\ x = Merge(b, c, t) /\ InStep(x) /\ ~InStep(m)
        BY DEF m, x
    <2>2. /\ m.allow => m.source # "bad" /\ m.dash = m.source
          /\ ~m.allow => m.dash = "none"
        BY <1>5, <2>1, DashInStep
    <2>3. /\ m.dropped => m.alert
          /\ m.alert /\ ~m.dropped => m.rules = "with"
          /\ ~(m.alert /\ ~m.dropped) => m.rules = "without"
        BY <1>5, <2>1, RulesInStep
    <2> QED
        BY <2>1, <2>2, <2>3, InStepIs
<1> QED
    BY <1>1, <1>2, <1>3, <1>4, <1>5

LEMMA MergeIsBranch ==
    ASSUME NEW p, NEW b, NEW o, NEW t, IsTree(b), Proper(b), Proper(o), BranchOf(p, b, t)
    PROVE  BranchOf(p, o, Merge(b, o, t))
<1> DEFINE m == Merge(b, o, t)
<1>1. \A f \in File : m[f] = o[f] \/ (t[f] # b[f] /\ m[f] = t[f])
    BY MergedFile
<1> HIDE DEF m
<1>2. /\ m.allow = o.allow \/ m.allow = t.allow
      /\ m.source = o.source \/ (t.source # b.source /\ m.source = t.source)
      /\ m.alert = o.alert \/ (t.alert # b.alert /\ m.alert = t.alert)
      /\ m.dropped = o.dropped \/ (t.dropped # b.dropped /\ m.dropped = t.dropped)
    BY <1>1 DEF File
<1>3. Proper(m)
    <2>1. Proper(o) /\ Proper(t)
        BY DEF BranchOf
    <2>2. m.allow \in BOOLEAN /\ m.alert \in BOOLEAN /\ m.dropped \in BOOLEAN
        BY <1>2, <2>1, Zenon DEF Proper
    <2> QED
        BY <1>2, <2>1, <2>2 DEF Proper
<1>4. Onward(o, m) /\ m.source \in {o.source, "bad", p}
    BY <1>2 DEF BranchOf, Proper, Onward
<1> QED
    BY <1>3, <1>4 DEF m, BranchOf

-----------------------------------------------------------------------------
LEMMA InputsAppended ==
    ASSUME TypeOK, MainInputs, NEW c, main' = Append(main, c), Proper(c.tree),
           Onward(Tree(Tip), c.tree), c.by = "pr" => c.on # 0,
           \A q \in Pr : Open(q)' => Open(q) /\ c.tree.source # q
    PROVE  MainInputs'
<1>0. Tip \in Nat \ {0}
    BY MergedTrees
<1> PICK n \in Nat \ {0} : n = Tip
    BY <1>0
<1>1. /\ Tip' = n + 1
      /\ \A k \in 1..n : main'[k] = main[k] /\ Tree(k)' = Tree(k)
      /\ \A k : k = n + 1 => main'[k] = c /\ Tree(k)' = c.tree
    <2>1. Tip' = n + 1 /\ main'[n + 1] = c /\ \A k \in 1..n : main'[k] = main[k]
        BY Appended
    <2> QED
        BY <2>1 DEF Tree
<1>2. ASSUME NEW i \in 1..n + 1
      PROVE  /\ Proper(Tree(i))' /\ (main'[i].by = "pr" => main'[i].on # 0)
             /\ \A q \in Pr : Open(q)' => Tree(i)'.source # q
    <2>1. CASE i \in 1..n
        <3>1. Proper(Tree(i)) /\ (main[i].by = "pr" => main[i].on # 0)
              /\ \A q \in Pr : Open(q) => Tree(i).source # q
            BY <2>1 DEF MainInputs
        <3>2. main'[i] = main[i] /\ Tree(i)' = Tree(i)
            BY <1>1, <2>1
        <3> QED
            BY <3>1, <3>2 DEF Proper
    <2>2. CASE i = n + 1
        <3>1. main'[i] = c /\ Tree(i)' = c.tree
            BY <1>1, <2>2
        <3> QED
            BY <3>1 DEF Proper
    <2>3. i \in 1..n \/ i = n + 1
        OBVIOUS
    <2> QED
        BY <2>1, <2>2, <2>3
<1>3. ASSUME NEW j \in 1..n + 1, NEW i \in 1..j
      PROVE  /\ Onward(Tree(i), Tree(j))'
             /\ \A f \in Input : (\A k \in i + 1..j : ~Changes(k, f)') =>
                                     Tree(i)'[f] = Tree(j)'[f]
    <2>1. ASSUME NEW k \in 2..n, NEW f
          PROVE  Changes(k, f)' <=> Changes(k, f)
        <3>1. Tree(k)' = Tree(k) /\ \A h : h = k - 1 => Tree(h)' = Tree(h)
            BY <1>1
        <3> QED
            BY <3>1 DEF Changes
    <2>2. CASE j \in 1..n
        <3>1. i \in 1..n /\ Tree(i)' = Tree(i) /\ Tree(j)' = Tree(j)
            BY <1>1, <2>2
        <3>2. Onward(Tree(i), Tree(j))'
            BY <2>2, <3>1 DEF MainInputs, Onward
        <3>3. ASSUME NEW f \in Input, \A k \in i + 1..j : ~Changes(k, f)'
              PROVE  Tree(i)'[f] = Tree(j)'[f]
            <4>1. \A k \in i + 1..j : ~Changes(k, f)
                BY <2>1, <2>2, <3>1, <3>3
            <4> QED
                BY <2>2, <3>1, <4>1 DEF MainInputs
        <3> QED
            BY <3>2, <3>3
    <2>3. CASE j = n + 1 /\ i = j
        BY <2>3 DEF Onward
    <2>4. CASE j = n + 1 /\ i # j
        <3>1. i \in 1..n /\ Tree(i)' = Tree(i) /\ Tree(j)' = c.tree
            BY <1>1, <2>4
        <3>2. Onward(Tree(i), Tree(n)) /\ Onward(Tree(n), c.tree)
            BY <3>1 DEF MainInputs
        <3>3. ASSUME NEW f \in Input, \A k \in i + 1..j : ~Changes(k, f)'
              PROVE  Tree(i)'[f] = Tree(j)'[f]
            <4>1. \A k \in i + 1..n : ~Changes(k, f)
                BY <2>1, <2>4, <3>1, <3>3
            <4>2. Tree(i)[f] = Tree(n)[f]
                BY <3>1, <4>1 DEF MainInputs
            <4>3. ~Changes(j, f)'
                BY <2>4, <3>1, <3>3
            <4>4. \A h : h = j - 1 => Tree(h)' = Tree(n)
                BY <1>1, <2>4
            <4>5. Tree(j)'[f] = Tree(n)[f]
                BY <4>3, <4>4 DEF Changes
            <4> QED
                BY <3>1, <4>2, <4>5
        <3>4. Onward(Tree(i), Tree(j))'
            BY <3>1, <3>2 DEF Onward
        <3> QED
            BY <3>3, <3>4
    <2> QED
        BY <2>2, <2>3, <2>4
<1> QED
    BY <1>1, <1>2, <1>3 DEF MainInputs

-----------------------------------------------------------------------------
\* What authors and the generator make of a branch t of b.
LEMMA Edited ==
    ASSUME NEW p, NEW b, NEW t, IsTree(t), Proper(b), BranchOf(p, b, t), p \notin {"none", "torn"},
           NEW task \in Task, NEW e \in Outcomes(p, task, t),
           task = "source" => t.source # p, task = "allow" => t.allow = b.allow
    PROVE  /\ BranchOf(p, b, e) /\ (OutputsFollow(p, b, t) => OutputsFollow(p, b, e))
           /\ IF task = "source" THEN e.source \in {p, "bad"} ELSE e.source = t.source
           /\ task # "allow" => e.allow = t.allow
<1>0. DOMAIN t = File
    BY DEF IsTree
<1>1. CASE task \in {"template", "values", "bump", "tidy"}
    <2>1. /\ e.allow = t.allow /\ e.source = t.source /\ e.alert = t.alert
          /\ e.dropped = t.dropped /\ e.dash = t.dash /\ e.rules = t.rules
        BY <1>0, <1>1 DEF Outcomes, File
    <2> QED
        BY <1>1, <2>1 DEF BranchOf, Proper, Onward, OutputsFollow
<1>2. CASE task = "allow"
    <2>1. /\ e.allow = ~t.allow /\ e.source = t.source /\ e.alert = t.alert
          /\ e.dropped = t.dropped /\ e.dash = t.dash /\ e.rules = t.rules
        BY <1>0, <1>2 DEF Outcomes, File
    <2>2. e.allow \in BOOLEAN /\ e.allow # t.allow
        BY <2>1 DEF BranchOf, Proper
    <2> QED
        BY <1>2, <2>1, <2>2 DEF BranchOf, Proper, Onward, OutputsFollow
<1>3. CASE task = "source"
    <2>1. /\ e.allow = t.allow /\ e.source \in {p, "bad"} /\ e.alert = t.alert
          /\ e.dropped = t.dropped /\ e.dash = t.dash /\ e.rules = t.rules
        BY <1>0, <1>3 DEF Outcomes, File
    <2> QED
        BY <1>3, <2>1 DEF BranchOf, Proper, Onward, OutputsFollow
<1>4. CASE task = "drop"
    <2>1. /\ e.allow = t.allow /\ e.source = t.source /\ e.alert = t.alert
          /\ e.dropped = TRUE /\ e.dash = t.dash /\ e.rules = t.rules
        BY <1>0, <1>4 DEF Outcomes, File
    <2> QED
        BY <1>4, <2>1 DEF BranchOf, Proper, Onward, OutputsFollow
<1>5. CASE task = "unalert"
    <2>1. /\ e.allow = t.allow /\ e.source = t.source /\ e.alert = FALSE
          /\ e.dropped = t.dropped /\ e.dash = t.dash /\ e.rules = t.rules
        BY <1>0, <1>5 DEF Outcomes, File
    <2> QED
        BY <1>5, <2>1 DEF BranchOf, Proper, Onward, OutputsFollow
<1> QED
    BY <1>1, <1>2, <1>3, <1>4, <1>5 DEF Task

\* A generation leaves the inputs alone, finished or not.
LEMMA InputsGenerated ==
    ASSUME NEW p, NEW b, NEW t, IsTree(t), BranchOf(p, b, t), NEW step \in Config!Step,
           NEW e, e = Config!Written(t, step) \/ e = Config!CutShort(t, step)
    PROVE  /\ BranchOf(p, b, e) /\ e.source = t.source /\ e.allow = t.allow
           /\ e.alert = t.alert /\ e.dropped = t.dropped
<1>0. DOMAIN t = File
    BY DEF IsTree
<1>1. /\ e.source = t.source /\ e.allow = t.allow
      /\ e.alert = t.alert /\ e.dropped = t.dropped
    BY <1>0 DEF Config!Written, Config!CutShort, Config!Step, File
<1> QED
    BY <1>1 DEF BranchOf, Proper, Onward

LEMMA OutputsGenerated ==
    ASSUME NEW p, NEW b, NEW t, IsTree(t), Proper(b), InStep(b), BranchOf(p, b, t),
           OutputsFollow(p, b, t), ~Config!Rejected(t), NEW step \in Config!Step,
           NEW e, e = Config!Written(t, step) \/ e = Config!CutShort(t, step)
    PROVE  OutputsFollow(p, b, e)
<1>0. DOMAIN t = File
    BY DEF IsTree
<1>1. /\ e.source = t.source /\ e.allow = t.allow
      /\ e.alert = t.alert /\ e.dropped = t.dropped
    BY InputsGenerated
<1>2. \/ e.dash \in {t.dash, "torn"}
      \/ ~t.allow /\ e.dash = "none"
      \/ t.allow /\ e.dash = t.source
    BY <1>0 DEF Config!Written, Config!CutShort, Config!Step, Config!Desired, File
<1>3. e.rules \in {t.rules, "torn"} \/ e.rules = Config!Rules(t)
    BY <1>0 DEF Config!Written, Config!CutShort, Config!Step, Config!Desired, File
<1>4. t.allow = b.allow /\ t.source # p => e.dash \in {b.dash, "torn"}
    BY <1>2, InStepIs DEF BranchOf, OutputsFollow, Config!Rejected, Config!BadDashboard
<1>5. t.alert = b.alert /\ t.dropped = b.dropped => e.rules \in {b.rules, "torn"}
    BY <1>3, InStepIs DEF OutputsFollow, Config!Rules
<1> QED
    BY <1>1, <1>4, <1>5 DEF OutputsFollow

LEMMA OutputsMerged ==
    ASSUME NEW p, NEW b, NEW o, NEW t, IsTree(b), Proper(b), Proper(o), InStep(b), InStep(o),
           BranchOf(p, b, t), OutputsFollow(p, b, t), Onward(b, o), o.source # p, b.source # p,
           Conflicts(b, o, t) = {}
    PROVE  OutputsFollow(p, o, Merge(b, o, t))
<1> DEFINE m == Merge(b, o, t)
<1> HIDE DEF m
<1>1. m = Merge(b, o, t)
    BY DEF m
<1>2. m.allow = o.allow /\ m.source # p => m.dash \in {o.dash, "torn"}
    BY <1>1, QuietDash
<1>3. m.alert = o.alert /\ m.dropped = o.dropped => m.rules \in {o.rules, "torn"}
    BY <1>1, QuietRules
<1> QED
    BY <1>1, <1>2, <1>3 DEF OutputsFollow

-----------------------------------------------------------------------------
\* What a step can do to main, and to a pull request.
LEMMA MainKept ==
    ASSUME TypeOK, [Next]_vars
    PROVE  /\ Tip \in Nat \ {0} /\ Tip' \in Nat \ {0} /\ Tip <= Tip'
           /\ \A k \in 1..Tip : main'[k] = main[k] /\ Tree(k)' = Tree(k)
<1>0. Tip \in Nat \ {0}
    BY MergedTrees
<1>1. CASE UNCHANGED main
    BY <1>0, <1>1 DEF Tip, Tree
<1>2. ASSUME NEW c, main' = Append(main, c)
      PROVE  Tip' = Tip + 1 /\ \A k \in 1..Tip : main'[k] = main[k]
    BY <1>2, Appended
<1>3. CASE \E c : main' = Append(main, c)
    <2>1. Tip' = Tip + 1 /\ \A k \in 1..Tip : main'[k] = main[k]
        BY <1>2, <1>3
    <2>2. \A k \in 1..Tip : Tree(k)' = Tree(k)
        BY <2>1 DEF Tree
    <2> QED
        BY <1>0, <2>1, <2>2
<1> QED
    BY <1>1, <1>3 DEF Next, vars, BotPush, Edit, Update, Validate, Squash, StartGenerator,
                      GeneratorStep, GeneratorDies

LEMMA OpenKnown ==
    ASSUME TypeOK, MainInputs, NEW p \in Pr, Open(p)
    PROVE  /\ fork[p] \in 1..Tip /\ IsTree(Forked(p)) /\ IsTree(branch[p])
           /\ Proper(Forked(p)) /\ Proper(Tree(Tip)) /\ Onward(Forked(p), Tree(Tip))
           /\ Forked(p).source # p /\ Tree(Tip).source # p
<1>0. Tip \in Nat \ {0}
    BY MergedTrees
<1> PICK n \in Nat \ {0} : n = Tip
    BY <1>0
<1>1. fork[p] \in 1..n /\ n \in 1..n
    BY DEF TypeOK, Open
<1>2. IsTree(Forked(p)) /\ IsTree(branch[p])
    BY <1>1 DEF TypeOK, MainOK, Forked
<1>3. Proper(Forked(p)) /\ Proper(Tree(n)) /\ Forked(p).source # p /\ Tree(n).source # p
    BY <1>1 DEF MainInputs, Forked
<1>4. Onward(Forked(p), Tree(n))
    BY <1>1 DEF MainInputs, Forked
<1> QED
    BY <1>1, <1>2, <1>3, <1>4

\* Others' steps leave a pull request alone.
LEMMA OthersKept ==
    ASSUME TypeOK, [Next]_vars, NEW q \in Pr,
           ~Edit(q), ~Update(q), ~Squash(q), ~GeneratorStep(q), ~GeneratorDies(q)
    PROVE  /\ fork'[q] = fork[q] /\ branch'[q] = branch[q] /\ todo'[q] = todo[q]
           /\ ci'[q] = ci[q] \/ Validate(q)
<1>0. /\ DOMAIN fork = Pr /\ DOMAIN branch = Pr /\ DOMAIN todo = Pr /\ DOMAIN ci = Pr
    BY DEF TypeOK
<1>1. CASE BotPush \/ UNCHANGED vars
    BY <1>1 DEF BotPush, vars
<1>2. ASSUME NEW p \in Pr, Edit(p)
      PROVE  /\ fork' = fork /\ p # q /\ branch'[q] = branch[q] /\ todo'[q] = todo[q]
             /\ ci'[q] = ci[q]
    BY <1>0, <1>2 DEF Edit, Push
<1>3. ASSUME NEW p \in Pr, Update(p) \/ Squash(p) \/ GeneratorStep(p) \/ GeneratorDies(p)
      PROVE  /\ fork'[q] = fork[q] /\ branch'[q] = branch[q] /\ todo'[q] = todo[q]
             /\ ci'[q] = ci[q]
    BY <1>0, <1>3 DEF Update, Squash, GeneratorStep, GeneratorDies, Push
<1>4. ASSUME NEW p \in Pr, Validate(p) \/ StartGenerator(p)
      PROVE  /\ fork'[q] = fork[q] /\ branch'[q] = branch[q] /\ todo'[q] = todo[q]
             /\ ci'[q] = ci[q] \/ Validate(q)
    BY <1>0, <1>4 DEF Validate, StartGenerator
<1> QED
    BY <1>1, <1>2, <1>3, <1>4 DEF Next

LEMMA MainInputsStep == TypeOK /\ MainInputs /\ BranchInputs /\ [Next]_vars => MainInputs'
<1> SUFFICES ASSUME TypeOK, MainInputs, BranchInputs, [Next]_vars
             PROVE  MainInputs'
    OBVIOUS
<1>0. /\ Tip \in Nat \ {0} /\ IsTree(Tree(Tip)) /\ Proper(Tree(Tip))
      /\ \A q \in Pr : Open(q) => Tree(Tip).source # q
    <2>1. Tip \in Nat \ {0} /\ Tip \in 1..Tip /\ IsTree(Tree(Tip))
        BY MergedTrees
    <2> QED
        BY <2>1 DEF MainInputs
<1>1. CASE BotPush
    <2>1. PICK content \in {"bot", Tree(Tip).values} :
              main' = Append(main, [tree |-> [Tree(Tip) EXCEPT !.values = content],
                                    by |-> "bot", on |-> Tip])
        BY <1>1 DEF BotPush
    <2> DEFINE t == [Tree(Tip) EXCEPT !.values = content]
               c == [tree |-> t, by |-> "bot", on |-> Tip]
    <2>2. \A f \in Input : t[f] = Tree(Tip)[f]
        BY <1>0 DEF IsTree, Input, File
    <2>3. /\ t.allow = Tree(Tip).allow /\ t.source = Tree(Tip).source
          /\ t.alert = Tree(Tip).alert /\ t.dropped = Tree(Tip).dropped
        BY <2>2 DEF Input
    <2>4. c.tree = t /\ c.by = "bot" /\ main' = Append(main, c) /\ UNCHANGED fork
        BY <1>1, <2>1 DEF BotPush
    <2>5. \A q \in Pr : Open(q)' => Open(q) /\ t.source # q
        BY <1>0, <2>3, <2>4 DEF Open
    <2> HIDE DEF t, c
    <2>6. Proper(t) /\ Onward(Tree(Tip), t)
        BY <1>0, <2>3 DEF Proper, Onward
    <2> QED
        BY <2>4, <2>5, <2>6, InputsAppended
<1>2. ASSUME NEW p \in Pr, Squash(p)
      PROVE  MainInputs'
    <2> DEFINE c == [tree |-> Merged(p), by |-> "pr", on |-> ci[p]]
    <2>1. /\ main' = Append(main, c) /\ c.tree = Merged(p) /\ c.on # 0
          /\ Open(p) /\ fork' = [fork EXCEPT ![p] = 0]
        BY <1>2 DEF Squash, Resting
    <2>2. BranchOf(p, Tree(Tip), Merged(p))
        BY <2>1, OpenKnown, MergeIsBranch DEF BranchInputs, Merged, Forked
    <2>3. Proper(Merged(p)) /\ Onward(Tree(Tip), Merged(p))
        BY <2>2 DEF BranchOf
    <2>4. \A q \in Pr : Open(q)' => Open(q) /\ q # p
        BY <2>1 DEF Open, TypeOK
    <2>5. \A q \in Pr : Open(q)' => Open(q) /\ Merged(p).source # q
        BY <1>0, <2>2, <2>4, MergeGateAssumption DEF BranchOf
    <2> HIDE DEF c
    <2> QED
        BY <2>1, <2>3, <2>5, InputsAppended
<1>3. CASE UNCHANGED main /\ \A q \in Pr : Open(q)' => Open(q)
    <2>1. Tip' = Tip /\ \A i : main'[i] = main[i] /\ Tree(i)' = Tree(i)
        BY <1>3 DEF Tip, Tree
    <2>2. \A k, f : Changes(k, f)' <=> Changes(k, f)
        BY <2>1 DEF Changes
    <2>3. \A i \in 1..Tip' : /\ Proper(Tree(i))' /\ (main'[i].by = "pr" => main'[i].on # 0)
                             /\ \A p \in Pr : Open(p)' => Tree(i)'.source # p
        BY <1>3, <2>1 DEF MainInputs, Proper
    <2>4. \A j \in 1..Tip' : \A i \in 1..j : Onward(Tree(i), Tree(j))'
        BY <2>1 DEF MainInputs, Onward
    <2>5. \A j \in 1..Tip' : \A i \in 1..j : \A f \in Input :
              (\A k \in i + 1..j : ~Changes(k, f)') => Tree(i)'[f] = Tree(j)'[f]
        BY <2>1, <2>2 DEF MainInputs
    <2> QED
        BY <2>3, <2>4, <2>5 DEF MainInputs
<1>4. ASSUME NEW p \in Pr, Edit(p) \/ Validate(p) \/ StartGenerator(p) \/ GeneratorStep(p)
                           \/ GeneratorDies(p) \/ Update(p)
      PROVE  UNCHANGED main /\ \A q \in Pr : Open(q)' => Open(q)
    BY <1>4 DEF Edit, Validate, StartGenerator, GeneratorStep, GeneratorDies, Update, Resting,
                Open, TypeOK
<1>5. CASE UNCHANGED vars
    BY <1>3, <1>5 DEF vars, Open
<1> QED
    BY <1>1, <1>2, <1>3, <1>4, <1>5 DEF Next

LEMMA BranchInputsStep ==
    TypeOK /\ MainInputs /\ BranchInputs /\ [Next]_vars => BranchInputs'
<1> SUFFICES ASSUME TypeOK, MainInputs, BranchInputs, [Next]_vars, NEW q \in Pr, Open(q)'
             PROVE  /\ BranchOf(q, Forked(q), branch[q])'
                    /\ "source" \in todo'[q] => branch'[q].source # q
                    /\ "allow" \in todo'[q] => branch'[q].allow = Forked(q)'.allow
    BY DEF BranchInputs
<1>0. /\ DOMAIN fork = Pr /\ DOMAIN branch = Pr /\ DOMAIN todo = Pr /\ q \notin {"bad", "none", "torn"}
    BY MergeGateAssumption DEF TypeOK
<1>1. CASE fork'[q] = fork[q] /\ branch'[q] = branch[q] /\ todo'[q] = todo[q]
    <2>1. Open(q)
        BY <1>1 DEF Open
    <2>2. Forked(q)' = Forked(q)
        BY <1>1, <2>1, OpenKnown, MainKept DEF Forked
    <2> QED
        BY <1>1, <2>1, <2>2 DEF BranchInputs, BranchOf, Proper, Onward
<1>2. ASSUME NEW e, Open(q), branch'[q] = e, BranchOf(q, Forked(q), e), UNCHANGED <<main, fork>>,
             "source" \in todo'[q] => e.source # q,
             "allow" \in todo'[q] => e.allow = Forked(q).allow
      PROVE  /\ BranchOf(q, Forked(q), branch[q])'
             /\ "source" \in todo'[q] => branch'[q].source # q
             /\ "allow" \in todo'[q] => branch'[q].allow = Forked(q)'.allow
    <2>1. Forked(q)' = Forked(q)
        BY <1>2 DEF Forked, Tree
    <2> QED
        BY <1>2, <2>1 DEF BranchOf, Proper, Onward
<1>3. CASE Edit(q)
    <2>1. PICK task \in todo[q] : \E e \in Outcomes(q, task, branch[q]) :
              /\ Push(q, e)
              /\ todo' = [todo EXCEPT ![q] = IF task = "source" /\ e.source = "bad"
                                             THEN @ ELSE @ \ {task}]
        BY <1>3 DEF Edit
    <2>2. PICK e \in Outcomes(q, task, branch[q]) :
              /\ Push(q, e)
              /\ todo' = [todo EXCEPT ![q] = IF task = "source" /\ e.source = "bad"
                                             THEN @ ELSE @ \ {task}]
        BY <2>1
    <2>3. /\ Open(q) /\ UNCHANGED <<main, fork>> /\ task \in Task /\ branch'[q] = e
          /\ todo'[q] = IF task = "source" /\ e.source = "bad" THEN todo[q]
                        ELSE todo[q] \ {task}
        BY <1>0, <1>3, <2>2 DEF Edit, Resting, Push, TypeOK
    <2>4. /\ BranchOf(q, Forked(q), branch[q])
          /\ "source" \in todo[q] => branch[q].source # q
          /\ "allow" \in todo[q] => branch[q].allow = Forked(q).allow
        BY <2>3 DEF BranchInputs
    <2>5. /\ BranchOf(q, Forked(q), e)
          /\ IF task = "source" THEN e.source \in {q, "bad"} ELSE e.source = branch[q].source
          /\ task # "allow" => e.allow = branch[q].allow
        BY <1>0, <2>3, <2>4, OpenKnown, Edited
    <2>6. "source" \in todo'[q] => e.source # q
        BY <1>0, <2>3, <2>4, <2>5
    <2>7. "allow" \in todo'[q] => e.allow = Forked(q).allow
        BY <2>3, <2>4, <2>5
    <2> QED
        BY <1>2, <2>3, <2>5, <2>6, <2>7
<1>4. CASE Update(q)
    <2> DEFINE o == Tree(Tip)
               m == Merge(Forked(q), o, branch[q])
    <2>1. /\ Open(q) /\ UNCHANGED <<main, todo>> /\ branch'[q] = m /\ fork'[q] = Tip
        BY <1>0, <1>4 DEF Update, Resting, Push, Merged, Forked
    <2>2. /\ BranchOf(q, Forked(q), branch[q])
          /\ "source" \in todo[q] => branch[q].source # q
          /\ "allow" \in todo[q] => branch[q].allow = Forked(q).allow
        BY <2>1 DEF BranchInputs
    <2>3. /\ IsTree(Forked(q)) /\ Proper(Forked(q)) /\ Proper(o) /\ o.source # q
        BY <2>1, OpenKnown
    <2>4. Forked(q)' = o
        BY <2>1 DEF Forked, Tree
    <2>5. BranchOf(q, o, m)
        BY <2>2, <2>3, MergeIsBranch
    <2>6. /\ m.source = o.source \/ m.source = branch[q].source
          /\ branch[q].allow = Forked(q).allow => m.allow = o.allow
        BY <2>3, MergedFile DEF File
    <2> HIDE DEF o, m
    <2> QED
        BY <2>1, <2>2, <2>3, <2>4, <2>5, <2>6 DEF BranchOf, Proper, Onward
<1>5. CASE Squash(q)
    BY <1>0, <1>5 DEF Squash, Open
<1>6. ASSUME NEW step \in Config!Step, Open(q), UNCHANGED <<main, fork, todo>>,
             \/ branch'[q] = Config!Written(branch[q], step)
             \/ branch'[q] = Config!CutShort(branch[q], step)
      PROVE  /\ BranchOf(q, Forked(q), branch[q])'
             /\ "source" \in todo'[q] => branch'[q].source # q
             /\ "allow" \in todo'[q] => branch'[q].allow = Forked(q)'.allow
    <2> DEFINE e == branch'[q]
    <2>1. /\ BranchOf(q, Forked(q), branch[q])
          /\ "source" \in todo[q] => branch[q].source # q
          /\ "allow" \in todo[q] => branch[q].allow = Forked(q).allow
        BY <1>6 DEF BranchInputs
    <2>2. BranchOf(q, Forked(q), e) /\ e.source = branch[q].source /\ e.allow = branch[q].allow
        BY <1>6, <2>1, OpenKnown, InputsGenerated
    <2> QED
        BY <1>2, <1>6, <2>1, <2>2
<1>7. CASE GeneratorStep(q) \/ GeneratorDies(q)
    <2>1. /\ gen[q] \in Config!Step /\ Open(q) /\ UNCHANGED <<main, fork, todo>>
          /\ \/ branch'[q] = Config!Written(branch[q], gen[q])
             \/ branch'[q] = Config!CutShort(branch[q], gen[q])
             \/ branch'[q] = branch[q]
        BY <1>0, <1>7 DEF GeneratorStep, GeneratorDies, Push
    <2> QED
        BY <1>1, <1>6, <2>1
<1> QED
    BY <1>1, <1>3, <1>4, <1>5, <1>7, OthersKept


\* CI's findings are about a commit that stays where it is.
LEMMA ChecksStep == TypeOK /\ Passed /\ [Next]_vars => Passed'
<1> SUFFICES ASSUME TypeOK, Passed, [Next]_vars, NEW q \in Pr, Open(q)', ci'[q] # 0
             PROVE  /\ fork'[q] <= ci'[q]
                    /\ Conflicts(Forked(q), Tree(ci[q]), branch[q])' = {}
                    /\ Config!Checked(Merge(Forked(q), Tree(ci[q]), branch[q]))'
    BY DEF Passed
<1>0. /\ DOMAIN fork = Pr /\ DOMAIN branch = Pr /\ DOMAIN ci = Pr
      /\ fork[q] \in 0..Tip /\ ci[q] \in 0..Tip /\ Tip \in Nat \ {0}
    BY MergedTrees DEF TypeOK
<1>1. ASSUME fork'[q] = fork[q], branch'[q] = branch[q], NEW c \in 1..Tip, ci'[q] = c,
             fork[q] <= c, Conflicts(Forked(q), Tree(c), branch[q]) = {},
             Config!Checked(Merge(Forked(q), Tree(c), branch[q]))
      PROVE  /\ fork'[q] <= ci'[q]
             /\ Conflicts(Forked(q), Tree(ci[q]), branch[q])' = {}
             /\ Config!Checked(Merge(Forked(q), Tree(ci[q]), branch[q]))'
    <2>1. fork[q] \in 1..Tip
        BY <1>0, <1>1 DEF Open
    <2>2. Tree(fork[q])' = Tree(fork[q]) /\ Tree(ci[q])' = Tree(c)
        <3>1. \A k \in 1..Tip : main'[k] = main[k]
            BY MainKept
        <3> QED
            BY <1>1, <2>1, <3>1 DEF Tree
    <2>3. Forked(q)' = Forked(q)
        BY <2>2 DEF Forked
    <2>4. Conflicts(Forked(q), Tree(ci[q]), branch[q])' = Conflicts(Forked(q), Tree(c), branch[q])
        BY <1>1, <2>2, <2>3 DEF Conflicts
    <2>5. Merge(Forked(q), Tree(ci[q]), branch[q])' = Merge(Forked(q), Tree(c), branch[q])
        BY <1>1, <2>2, <2>3 DEF Merge
    <2>6. Config!Checked(Merge(Forked(q), Tree(ci[q]), branch[q]))'
        BY <1>1, <2>5 DEF Config!Checked, Config!Rejected, Config!Drift, Config!Leftover,
                          Config!Desired, Config!BadDashboard, Config!MissingAlert, Config!Rules
    <2> QED
        BY <1>1, <2>4, <2>6
<1>2. ci'[q] = 0 \/ Validate(q)
      \/ (fork'[q] = fork[q] /\ branch'[q] = branch[q] /\ ci'[q] = ci[q])
    <2>1. CASE Edit(q) \/ Update(q) \/ Squash(q) \/ GeneratorStep(q)
        BY <1>0, <2>1 DEF Edit, Update, Squash, GeneratorStep, Push
    <2>2. CASE GeneratorDies(q)
        BY <1>0, <2>2 DEF GeneratorDies, Push
    <2> QED
        BY <2>1, <2>2, OthersKept
<1>3. CASE Validate(q)
    BY <1>0, <1>1, <1>3 DEF Validate, Resting, Open, NoConflict, Merged, Forked
<1>4. CASE fork'[q] = fork[q] /\ branch'[q] = branch[q] /\ ci'[q] = ci[q]
    BY <1>0, <1>1, <1>4 DEF Passed, Open
<1> QED
    BY <1>2, <1>3, <1>4

LEMMA CrossingKept == TypeOK /\ MainInputs /\ LateCrossing /\ [Next]_vars => LateCrossing'
<1> SUFFICES ASSUME TypeOK, MainInputs, [Next]_vars, NEW k \in 1..Tip, Late(k), Crossed(k)
             PROVE  k \in 1..Tip' /\ Late(k)' /\ Crossed(k)'
    BY DEF LateCrossing
<1>0. /\ Tip \in Nat /\ Tip' \in Nat /\ Tip <= Tip'
      /\ \A j \in 1..Tip : main'[j] = main[j] /\ Tree(j)' = Tree(j)
    BY MainKept
<1>1. main[k].on \in Nat \ {0} /\ main[k].on < k - 1
    BY DEF Late, MainInputs, TypeOK, MainOK
<1>2. Late(k)'
    BY <1>0 DEF Late
<1>3. ASSUME NEW j \in 2..k, NEW f
      PROVE  Changes(j, f)' <=> Changes(j, f)
    <2>1. Tree(j)' = Tree(j) /\ \A h : h = j - 1 => Tree(h)' = Tree(h)
        BY <1>0
    <2> QED
        BY <2>1 DEF Changes
<1>4. PICK pair \in Paired : Changes(k, pair[1]) /\ \E j \in main[k].on + 1..k - 1 : Changes(j, pair[2])
    BY DEF Crossed
<1>5. PICK j \in main[k].on + 1..k - 1 : Changes(j, pair[2])
    BY <1>4
<1>6. j \in 2..k /\ k \in 2..k /\ main'[k].on = main[k].on
    BY <1>0, <1>1
<1>7. Changes(k, pair[1])' /\ Changes(j, pair[2])'
    BY <1>3, <1>4, <1>5, <1>6
<1> QED
    BY <1>0, <1>2, <1>5, <1>6, <1>7 DEF Crossed

-----------------------------------------------------------------------------
\* What is added to main is in step, or crosses on what main has changed.
LEMMA InStepAppended ==
    ASSUME TypeOK, NEW c, main' = Append(main, c), InStep(c.tree),
           \A i \in 1..Tip : InStep(Tree(i))
    PROVE  \A i \in 1..Tip' : InStep(Tree(i))'
<1>0. Tip \in Nat
    BY MergedTrees
<1> PICK n \in Nat : n = Tip
    BY <1>0
<1>1. Tip' = n + 1 /\ main'[n + 1] = c /\ \A k \in 1..n : main'[k] = main[k]
    BY Appended
<1>2. ASSUME NEW i \in 1..n + 1
      PROVE  InStep(Tree(i))'
    <2>1. PICK t : t = Tree(i)' /\ InStep(t)
        <3>1. CASE i \in 1..n
            BY <1>1, <3>1 DEF Tree
        <3>2. CASE i = n + 1
            BY <1>1, <3>2 DEF Tree
        <3> QED
            BY <3>1, <3>2
    <2> QED
        BY <2>1 DEF InStep, Config!Rejected, Config!Desired, Config!BadDashboard,
                    Config!MissingAlert, Config!Rules
<1> QED
    BY <1>1, <1>2

LEMMA LateAppended ==
    ASSUME TypeOK, NEW c, main' = Append(main, c), c.by = "pr", c.on \in 1..Tip - 1,
           NEW f, NEW g, <<f, g>> \in Paired, c.tree[f] # Tree(Tip)[f],
           NEW j \in c.on + 1..Tip, Changes(j, g)
    PROVE  LateCrossing'
<1>0. Tip \in Nat
    BY MergedTrees
<1> PICK n \in Nat : n = Tip
    BY <1>0
<1> DEFINE k == n + 1
<1>1. Tip' = k /\ main'[k] = c /\ \A i \in 1..n : main'[i] = main[i] /\ Tree(i)' = Tree(i)
    BY Appended DEF Tree
<1>2. k - 1 = n /\ k \in 1..k /\ n \in 1..n /\ j \in 2..n /\ j - 1 \in 1..n
    OBVIOUS
<1>3. Tree(k)' = c.tree /\ Tree(k - 1)' = Tree(n) /\ main'[k].by = "pr" /\ main'[k].on = c.on
    <2>1. Tree(k)' = c.tree /\ main'[k].by = "pr" /\ main'[k].on = c.on
        BY <1>1 DEF Tree
    <2>2. \A h : h = n => Tree(h)' = Tree(n)
        BY <1>1, <1>2
    <2> QED
        BY <1>2, <2>1, <2>2
<1>4. Tree(j)' = Tree(j) /\ Tree(j - 1)' = Tree(j - 1)
    <2>1. \A h : h = j - 1 => Tree(h)' = Tree(h)
        BY <1>1, <1>2
    <2> QED
        BY <1>1, <1>2, <2>1
<1> HIDE DEF k
<1>5. Changes(k, f)' /\ Changes(j, g)'
    BY <1>3, <1>4 DEF Changes
<1>6. Late(k)'
    BY <1>2, <1>3 DEF Late
<1>7. j \in main'[k].on + 1..k - 1
    BY <1>2, <1>3
<1>8. Crossed(k)'
    <2> DEFINE pair == <<f, g>>
    <2>1. pair \in Paired /\ Changes(k, pair[1])' /\ Changes(j, pair[2])'
        BY <1>5
    <2> HIDE DEF pair
    <2> QED
        BY <1>7, <2>1 DEF Crossed
<1> QED
    BY <1>1, <1>2, <1>6, <1>8 DEF LateCrossing

LEMMA MainStaysInStep ==
    ASSUME TypeOK, MainInputs, BranchInputs, Passed, AllInStep, [Next]_vars
    PROVE  LateCrossing' \/ \A i \in 1..Tip' : InStep(Tree(i))'
<1>0. Tip \in Nat \ {0} /\ IsTree(Tree(Tip))
    BY MergedTrees
<1>1. CASE BotPush
    <2>1. PICK content \in {"bot", Tree(Tip).values} :
              main' = Append(main, [tree |-> [Tree(Tip) EXCEPT !.values = content],
                                    by |-> "bot", on |-> Tip])
        BY <1>1 DEF BotPush
    <2> DEFINE t == [Tree(Tip) EXCEPT !.values = content]
               c == [tree |-> t, by |-> "bot", on |-> Tip]
    <2>2. /\ t.allow = Tree(Tip).allow /\ t.source = Tree(Tip).source
          /\ t.alert = Tree(Tip).alert /\ t.dropped = Tree(Tip).dropped
          /\ t.dash = Tree(Tip).dash /\ t.rules = Tree(Tip).rules
        BY <1>0 DEF IsTree, File
    <2>3. c.tree = t /\ main' = Append(main, c)
        BY <2>1
    <2> HIDE DEF t, c
    <2>4. InStep(Tree(Tip)) /\ \A i \in 1..Tip : InStep(Tree(i))
        BY <1>0 DEF AllInStep
    <2>5. InStep(t)
        BY <2>2, <2>4, InStepIs
    <2> QED
        BY <2>3, <2>4, <2>5, InStepAppended
<1>2. ASSUME NEW p \in Pr, Squash(p)
      PROVE  LateCrossing' \/ \A i \in 1..Tip' : InStep(Tree(i))'
    <2> PICK n \in Nat \ {0} : n = Tip
        BY <1>0
    <2> PICK c : c = [tree |-> Merged(p), by |-> "pr", on |-> ci[p]]
        OBVIOUS
    <2>1. /\ main' = Append(main, c) /\ c.tree = Merged(p) /\ c.by = "pr" /\ c.on = ci[p]
          /\ Open(p) /\ NoConflict(p) /\ ci[p] \in 1..n /\ n \in 1..n
        BY <1>2 DEF Squash, Resting, TypeOK
    <2>2. CASE InStep(Merged(p))
        BY <2>1, <2>2, InStepAppended DEF AllInStep
    <2>3. CASE ~InStep(Merged(p))
        <3> DEFINE b == Forked(p)
                   s == Tree(ci[p])
                   o == Tree(n)
                   t == branch[p]
        <3>1. Merged(p) = Merge(b, o, t) /\ Conflicts(b, o, t) = {}
            BY <2>1 DEF Merged, Forked, NoConflict
        <3>2. Conflicts(b, s, t) = {} /\ InStep(Merge(b, s, t))
            BY <2>1, CheckedInStep DEF Passed
        <3>3. ci[p] \in 1..n - 1
            BY <2>1, <2>3, <3>1, <3>2
        <3>4. /\ fork[p] \in 1..n /\ IsTree(b) /\ Proper(b) /\ Proper(o) /\ Onward(b, o)
              /\ b.source # p /\ o.source # p
            BY <2>1, OpenKnown
        <3>5. Proper(s) /\ s.source # p /\ Onward(s, o)
            BY <2>1 DEF MainInputs
        <3>6. InStep(b) /\ InStep(s) /\ InStep(o) /\ OutputsFollow(p, b, t)
            BY <2>1, <3>4 DEF AllInStep, Forked
        <3>7. BranchOf(p, b, t)
            BY <2>1 DEF BranchInputs
        <3> HIDE DEF b, s, o, t
        <3>8. PICK f \in Input, g \in Input : /\ <<f, g>> \in Paired
                                              /\ Merge(b, o, t)[f] # o[f] /\ s[g] # o[g]
            BY <2>3, <3>1, <3>2, <3>4, <3>5, <3>6, <3>7, OutOfStep
        <3>9. PICK j \in ci[p] + 1..n : Changes(j, g)
            BY <2>1, <3>8 DEF MainInputs, s, o
        <3>10. c.on \in 1..Tip - 1 /\ c.tree[f] # Tree(Tip)[f] /\ j \in c.on + 1..Tip
            BY <2>1, <3>1, <3>3, <3>8 DEF o
        <3> QED
            BY <2>1, <3>8, <3>9, <3>10, LateAppended
    <2> QED
        BY <2>2, <2>3
<1>3. CASE UNCHANGED main
    <2>1. Tip' = Tip /\ \A i : Tree(i)' = Tree(i)
        BY <1>3 DEF Tip, Tree
    <2>2. \A i \in 1..Tip' : InStep(Tree(i))
        BY <2>1 DEF AllInStep
    <2> QED
        BY <2>1, <2>2 DEF InStep, Config!Rejected, Config!Desired, Config!BadDashboard,
                          Config!MissingAlert, Config!Rules
<1>4. ASSUME NEW p \in Pr, Edit(p) \/ Validate(p) \/ StartGenerator(p) \/ GeneratorStep(p)
                           \/ GeneratorDies(p) \/ Update(p)
      PROVE  UNCHANGED main
    BY <1>4 DEF Edit, Validate, StartGenerator, GeneratorStep, GeneratorDies, Update
<1> QED
    BY <1>1, <1>2, <1>3, <1>4 DEF Next, vars

\* Outputs change with their inputs only, whatever is done to a branch.
LEMMA BranchesFollow ==
    ASSUME TypeOK, Generated, MainInputs, BranchInputs, AllInStep, [Next]_vars, NEW q \in Pr,
           Open(q)'
    PROVE  OutputsFollow(q, Forked(q), branch[q])'
<1>0. /\ DOMAIN fork = Pr /\ DOMAIN branch = Pr /\ DOMAIN todo = Pr
      /\ q \notin {"bad", "none", "torn"}
    BY MergeGateAssumption DEF TypeOK
<1>1. CASE fork'[q] = fork[q] /\ branch'[q] = branch[q]
    <2>1. Open(q)
        BY <1>1 DEF Open
    <2>2. Forked(q)' = Forked(q)
        BY <1>1, <2>1, OpenKnown, MainKept DEF Forked
    <2> QED
        BY <1>1, <2>1, <2>2 DEF AllInStep, OutputsFollow
<1>2. ASSUME NEW e, NEW b, branch'[q] = e, Forked(q)' = b, OutputsFollow(q, b, e)
      PROVE  OutputsFollow(q, Forked(q), branch[q])'
    BY <1>2 DEF OutputsFollow
<1>3. ASSUME Open(q)
      PROVE  /\ IsTree(Forked(q)) /\ IsTree(branch[q]) /\ Proper(Forked(q)) /\ InStep(Forked(q))
             /\ Proper(Tree(Tip)) /\ InStep(Tree(Tip)) /\ Onward(Forked(q), Tree(Tip))
             /\ Forked(q).source # q /\ Tree(Tip).source # q
             /\ BranchOf(q, Forked(q), branch[q]) /\ OutputsFollow(q, Forked(q), branch[q])
    <2>1. fork[q] \in 1..Tip /\ Tip \in 1..Tip
        BY <1>3, OpenKnown, MergedTrees
    <2>2. InStep(Forked(q)) /\ InStep(Tree(Tip))
        BY <2>1 DEF AllInStep, Forked
    <2>3. BranchOf(q, Forked(q), branch[q]) /\ OutputsFollow(q, Forked(q), branch[q])
        BY <1>3 DEF BranchInputs, AllInStep
    <2> QED
        BY <1>3, <2>2, <2>3, OpenKnown
<1>4. CASE Edit(q)
    <2>1. PICK task \in todo[q] : \E e \in Outcomes(q, task, branch[q]) : Push(q, e)
        BY <1>4 DEF Edit
    <2>2. PICK e \in Outcomes(q, task, branch[q]) : Push(q, e)
        BY <2>1
    <2>3. /\ Open(q) /\ UNCHANGED <<main, fork>> /\ task \in Task /\ branch'[q] = e
        BY <1>0, <1>4, <2>2 DEF Edit, Resting, Push, TypeOK
    <2>4. /\ task = "source" => branch[q].source # q
          /\ task = "allow" => branch[q].allow = Forked(q).allow
        BY <2>1, <2>3 DEF BranchInputs
    <2>5. OutputsFollow(q, Forked(q), e)
        BY <1>0, <1>3, <2>3, <2>4, Edited
    <2>6. Forked(q)' = Forked(q)
        BY <2>3 DEF Forked, Tree
    <2> QED
        BY <1>2, <2>3, <2>5, <2>6
<1>5. CASE Update(q)
    <2> DEFINE m == Merge(Forked(q), Tree(Tip), branch[q])
    <2>1. /\ Open(q) /\ UNCHANGED main /\ branch'[q] = m /\ fork'[q] = Tip
          /\ Conflicts(Forked(q), Tree(Tip), branch[q]) = {}
        BY <1>0, <1>5 DEF Update, Resting, Push, Merged, Forked, NoConflict
    <2>2. Forked(q)' = Tree(Tip)
        BY <2>1 DEF Forked, Tree
    <2>3. OutputsFollow(q, Tree(Tip), m)
        BY <1>3, <2>1, OutputsMerged
    <2> HIDE DEF m
    <2> QED
        BY <1>2, <2>1, <2>2, <2>3
<1>6. CASE GeneratorStep(q) \/ GeneratorDies(q)
    <2>1. /\ gen[q] \in Config!Step /\ Open(q) /\ UNCHANGED <<main, fork>>
          /\ \/ branch'[q] = Config!Written(branch[q], gen[q])
             \/ branch'[q] = Config!CutShort(branch[q], gen[q])
             \/ branch'[q] = branch[q]
        BY <1>0, <1>6 DEF GeneratorStep, GeneratorDies, Push
    <2>2. ~Config!Rejected(branch[q])
        BY <2>1 DEF Generated
    <2>3. Forked(q)' = Forked(q)
        BY <2>1 DEF Forked, Tree
    <2>4. CASE branch'[q] = branch[q]
        BY <1>1, <2>1, <2>4
    <2>5. CASE \/ branch'[q] = Config!Written(branch[q], gen[q])
               \/ branch'[q] = Config!CutShort(branch[q], gen[q])
        <3>1. PICK e : e = branch'[q]
            OBVIOUS
        <3>2. OutputsFollow(q, Forked(q), e)
            BY <1>3, <2>1, <2>2, <2>5, <3>1, OutputsGenerated
        <3> QED
            BY <1>2, <2>3, <3>1, <3>2
    <2> QED
        BY <2>1, <2>4, <2>5
<1>7. CASE Squash(q)
    BY <1>0, <1>7 DEF Squash, Open
<1> QED
    BY <1>1, <1>4, <1>5, <1>6, <1>7, OthersKept

LEMMA JInvStep == IInv /\ JInv /\ [Next]_vars => JInv'
<1> SUFFICES ASSUME IInv, JInv, [Next]_vars
             PROVE  JInv'
    OBVIOUS
<1>1. TypeOK /\ Generated /\ MainInputs /\ BranchInputs /\ Passed
    BY DEF IInv, JInv
<1>2. MainInputs' /\ BranchInputs' /\ Passed'
    BY <1>1, MainInputsStep, BranchInputsStep, ChecksStep
<1>3. CASE LateCrossing
    BY <1>1, <1>2, <1>3, CrossingKept DEF JInv
<1>4. CASE AllInStep
    <2>1. \A q \in Pr : Open(q)' => OutputsFollow(q, Forked(q), branch[q])'
        BY <1>1, <1>4, BranchesFollow
    <2>2. LateCrossing' \/ \A i \in 1..Tip' : InStep(Tree(i))'
        BY <1>1, <1>4, MainStaysInStep
    <2> QED
        BY <1>2, <2>1, <2>2 DEF JInv, AllInStep
<1> QED
    BY <1>3, <1>4 DEF JInv

LEMMA InitJInv == Init => JInv
<1> SUFFICES ASSUME Init
             PROVE  JInv
    OBVIOUS
<1>1. PICK tree \in Trees : /\ main = <<[tree |-> tree, by |-> "base", on |-> 0]>>
                            /\ branch = [p \in Pr |-> tree]
    BY DEF Init
<1>2. /\ IsTree(tree) /\ InStep(tree) /\ Proper(tree) /\ \A p \in Pr : tree.source # p
    BY MergeGateAssumption DEF Proper
<1>3. Tip = 1 /\ main[1].by = "base" /\ Tree(1) = tree /\ \A i \in 1..Tip : i = 1
    BY <1>1 DEF Tip, Tree
<1>4. \A p \in Pr : fork[p] = 1 /\ ci[p] = 0 /\ branch[p] = tree
    BY <1>1 DEF Init
<1>5. Onward(tree, tree) /\ \A p : BranchOf(p, tree, tree) /\ OutputsFollow(p, tree, tree)
    BY <1>2 DEF Onward, BranchOf, OutputsFollow
<1>6. MainInputs
    BY <1>2, <1>3, <1>5 DEF MainInputs
<1>7. BranchInputs
    BY <1>2, <1>3, <1>4, <1>5 DEF BranchInputs, Forked
<1>8. Passed
    BY <1>4 DEF Passed
<1>9. AllInStep
    BY <1>2, <1>3, <1>4, <1>5 DEF AllInStep, Forked
<1> QED
    BY <1>6, <1>7, <1>8, <1>9 DEF JInv

\* What main and the branches hold comes from their inputs, up to the first
\* squash of a late head that crosses on what main has changed.
THEOREM InputsInvariance == Spec => []JInv
<1>1. (IInv /\ JInv) /\ [Next]_vars => (IInv /\ JInv)'
    BY JInvStep, TypeStep, OrderStep, PassedStep, GeneratedStep DEF IInv
<1> QED
    BY InitIInv, InitJInv, <1>1, PTL DEF Spec

\* Main holds what the generator makes of its own sources, which it accepts,
\* as long as no late head is squashed over a change to an input of the same
\* output: for any number of pull requests, edits, merges and dead generations.
THEOREM MainInStep == Spec => []GeneratedOnMain
<1>1. TypeOK /\ JInv => GeneratedOnMain
    <2> SUFFICES ASSUME TypeOK, JInv
                 PROVE  GeneratedOnMain
        OBVIOUS
    <2>1. Tip \in Nat \ {0} /\ DOMAIN main = 1..Tip
        BY MergedTrees DEF TypeOK, MainOK, Tip
    <2>2. CASE LateCrossing
        BY <2>1, <2>2 DEF LateCrossing, GeneratedOnMain
    <2>3. CASE AllInStep
        BY <2>1, <2>3 DEF AllInStep, GeneratedOnMain
    <2> QED
        BY <2>2, <2>3 DEF JInv
<1>2. IInv => TypeOK
    BY DEF IInv
<1> QED
    BY Invariance, InputsInvariance, <1>1, <1>2, PTL
=============================================================================
