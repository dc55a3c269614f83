--------------------------- MODULE PreviewBudget ---------------------------
(***************************************************************************)
(* contracts/preview_budget.py: the quota of the preview namespace against *)
(* the Pods of two pull requests and the shared ones, in one of the three  *)
(* resources, which the code treats alike.                                 *)
(*                                                                         *)
(* A Pod is [init, containers, sidecar]: what each of its init containers  *)
(* and ordinary containers asks for, and whether an init container stays   *)
(* (restartPolicy Always).                                                 *)
(***************************************************************************)
EXTENDS Integers, Sequences, Functions, FiniteSetsExt

Slots == 2
Shared == {"postgres", "orphanCheck"}
PerSlot == {"app", "createdb", "dropdb"}

Total(amounts) ==
    LET upTo[i \in 0..Len(amounts)] == IF i = 0 THEN 0 ELSE upTo[i - 1] + amounts[i]
    IN  upTo[Len(amounts)]

\* An init container is over before the ordinary ones start.
PodTotalOfAll(pod) ==   \* fault: as if all ran at once
    Total(pod.containers) + Total(pod.init)

PodTotal(pod) == Max({Total(pod.containers)} \cup Range(pod.init))

Expected(pods) ==
    Slots * (PodTotal(pods["app"]) + PodTotal(pods["createdb"]) + PodTotal(pods["dropdb"]))
    + PodTotal(pods["postgres"]) + PodTotal(pods["orphanCheck"])

BudgetHolds(pods, quota) ==
    (\A name \in DOMAIN pods : ~pods[name].sidecar) /\ quota = Expected(pods)

\* What the code counts: the Pods of Deployments and Jobs, which it looks up by
\* name, with amounts that are numbers.  Pods of other kinds it takes not to be
\* there; it does not refuse them.
IsPods(pods) ==
    /\ DOMAIN pods = PerSlot \cup Shared
    /\ \A name \in DOMAIN pods :
           pods[name].containers \in Seq(Nat) /\ pods[name].init \in Seq(Nat)

-----------------------------------------------------------------------------
(***************************************************************************)
(* For reference: the worst moment of the namespace.  Every Pod of each    *)
(* slot and every shared one is missing, or at one of its init containers, *)
(* or at its ordinary ones (with the sidecars, if it has any).             *)
(***************************************************************************)
Phases(pod) ==
    {0} \cup IF pod.sidecar THEN {Total(pod.init) + Total(pod.containers)}
             ELSE Range(pod.init) \cup {Total(pod.containers)}

Running == (PerSlot \X (1..Slots)) \cup (Shared \X {0})

Moments(pods) ==
    {m \in [Running -> UNION {Phases(pods[name]) : name \in DOMAIN pods}] :
        \A who \in Running : m[who] \in Phases(pods[who[1]])}

Load(m) ==
    LET OfSlot(slot) == m[<<"app", slot>>] + m[<<"createdb", slot>>] + m[<<"dropdb", slot>>]
    IN  OfSlot(1) + OfSlot(2) + m[<<"postgres", 0>>] + m[<<"orphanCheck", 0>>]

WorstCase(pods) == Max({Load(m) : m \in Moments(pods)})
=============================================================================
