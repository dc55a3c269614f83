-------------------------- MODULE PreviewDatabase --------------------------
(***************************************************************************)
(* The databases of pull request previews: the ApplicationSet that makes   *)
(* an Application of every selected pull request, Argo CD's sync waves,    *)
(* the createdb Job with its script preview-database-bootstrap.sh, and the *)
(* dropdb hook that runs after the Application is gone.                    *)
(*                                                                         *)
(* Argo CD, Kubernetes and PostgreSQL are outside the repository.  Any     *)
(* statement of the script can fail and any Pod can die between two; a Job *)
(* that is replaced or deleted normally takes its Pod with it, but for the *)
(* pull requests in MayOutlive the Pod may go on running.                  *)
(***************************************************************************)
EXTENDS Integers, FiniteSets

CONSTANTS
    Pr,             \* pull requests
    Slots,          \* how many PR Services the ResourceQuota admits
    CopyFromDev,    \* the pull requests rendered with copyFromDev.enabled
    MayOutlive      \* the pull requests whose Pods may outlive their Job

ASSUME PreviewAssumption ==
    /\ IsFiniteSet(Pr)
    /\ Slots \in Nat
    /\ CopyFromDev \subseteq Pr
    /\ MayOutlive \subseteq Pr

VARIABLES
    selected,   \* open, labelled `preview' and with a release record
    app,        \* the Application, see App
    services,   \* the pull requests that have their app Service
    running,    \* the pull requests whose Deployment has been rolled out
    db,         \* umc_product_pr<N>
    pods,       \* for each PR the Pod of its createdb Job, and an older one
    dropper,    \* the pull requests with a dropdb Pod
    haunted     \* history: of these a Pod has outlived its Job

cluster == <<app, services, running>>
vars == <<selected, cluster, db, pods, dropper, haunted>>

\* "idle": exists, and no sync is going on.
App == {"none", "idle", "syncing", "closing"}

\* The statement of the script a Pod comes to next.
Working == {"read", "drop", "create", "prepare", "restore", "cleanup", "mark"}
Pod == Working \cup {"none", "failed", "done"}
Which == {"job", "stray"}

\* "bare": created, without extensions; "empty": with them; "partial": the dump
\* broke off and what had arrived was committed; "clean": the external state
\* copied from dev has been removed.
Data == {"absent", "bare", "empty", "partial", "restored", "clean"}
Database == [data : Data, marked : BOOLEAN]
NoDatabase == [data |-> "absent", marked |-> FALSE]

Exists(p) == db[p].data # "absent"
Live(p) == app[p] \in {"idle", "syncing"}

Init ==
    /\ selected = {} /\ app = [p \in Pr |-> "none"]
    /\ services = {} /\ running = {}
    /\ db = [p \in Pr |-> NoDatabase]
    /\ pods = [p \in Pr |-> [w \in Which |-> "none"]]
    /\ dropper = {} /\ haunted = {}

-----------------------------------------------------------------------------
(***************************************************************************)
(* The decisions of the code.  An operator marked as a fault is a mistake  *)
(* a change could make in the one below it.                                *)
(***************************************************************************)

\* What the script does after it has looked at the database.
DecideByName(p) ==      \* fault: the completion marker is not looked at
    IF p \in CopyFromDev /\ Exists(p) THEN "drop" ELSE "create"

Decide(p) ==
    IF db[p].marked THEN "done"
    ELSE IF p \in CopyFromDev /\ Exists(p) THEN "drop" ELSE "create"

\* The order of its statements.
ThenUnclean ==          \* fault: the external state is cleaned up last
    [drop |-> "create", create |-> "prepare", restore |-> "mark",
     cleanup |-> "done", mark |-> "cleanup"]

Then ==
    [drop |-> "create", create |-> "prepare", restore |-> "cleanup",
     cleanup |-> "mark", mark |-> "done"]

\* Wave -1 is done when the Job has succeeded.
WaveDoneByEnd(p) == pods[p]["job"] \in {"done", "failed"}  \* fault: or failed

WaveDone(p) == pods[p]["job"] = "done"

\* Wave -2: the Service is there or the quota admits it.
AdmittedByJob(p) == TRUE    \* fault: the Service comes after the database

Admitted(p) == p \in services \/ Cardinality(services) < Slots

\* Argo CD runs the PostDelete hook again until it succeeds.
HookDueOnce(p) == app[p] = "closing" /\ db[p].marked   \* fault: whole copies only

HookDue(p) == app[p] = "closing"

-----------------------------------------------------------------------------
(***************************************************************************)
(* GitHub, the ApplicationSet and Argo CD.                                 *)
(***************************************************************************)
Select(p) ==
    /\ selected' = selected \cup {p} /\ selected' # selected
    /\ UNCHANGED <<cluster, db, pods, dropper, haunted>>

Unselect(p) ==
    /\ p \in selected /\ selected' = selected \ {p}
    /\ UNCHANGED <<cluster, db, pods, dropper, haunted>>

Generate(p) ==
    /\ p \in selected /\ app[p] = "none"
    /\ app' = [app EXCEPT ![p] = "idle"]
    /\ UNCHANGED <<selected, services, running, db, pods, dropper, haunted>>

\* The Job of p goes away or is replaced, and its new state is `then'.  A Pod
\* of it is killed, unless it becomes a stray.
ReplaceJob(p, then) ==
    \/ /\ pods' = [pods EXCEPT ![p]["job"] = then]
       /\ UNCHANGED haunted
    \/ /\ p \in MayOutlive /\ pods[p]["job"] \in Working
       /\ pods' = [pods EXCEPT ![p] = [job |-> then, stray |-> pods[p]["job"]]]
       /\ haunted' = haunted \cup {p}

\* A sync: the first one, after a new commit, or a retry.  Wave -2 makes the
\* Service, wave -1 replaces the Job (Force=true, Replace=true).
Sync(p) ==
    /\ app[p] = "idle" /\ Admitted(p)
    /\ app' = [app EXCEPT ![p] = "syncing"]
    /\ services' = services \cup {p}
    /\ ReplaceJob(p, "read")
    /\ UNCHANGED <<selected, running, db, dropper>>

\* Wave 0.
Rollout(p) ==
    /\ app[p] = "syncing" /\ WaveDone(p)
    /\ app' = [app EXCEPT ![p] = "idle"]
    /\ running' = running \cup {p}
    /\ UNCHANGED <<selected, services, db, pods, dropper, haunted>>

\* The Job has failed, or somebody terminates the sync under way; the Pod of
\* the Job goes on.
SyncEnds(p) ==
    /\ app[p] = "syncing"
    /\ app' = [app EXCEPT ![p] = "idle"]
    /\ UNCHANGED <<selected, services, running, db, pods, dropper, haunted>>

\* The ApplicationSet deletes the Application and Argo CD prunes what it owns.
Delete(p) ==
    /\ p \notin selected /\ Live(p)
    /\ app' = [app EXCEPT ![p] = "closing"]
    /\ services' = services \ {p} /\ running' = running \ {p}
    /\ ReplaceJob(p, "none")
    /\ UNCHANGED <<selected, db, dropper>>

-----------------------------------------------------------------------------
(***************************************************************************)
(* The createdb Pod.  psql opens a new connection for each statement and   *)
(* names the database, so that a Pod may come back to another database     *)
(* than the one it has left.                                               *)
(***************************************************************************)
At(p, w, step) == pods[p][w] = step

\* A stray that ends leaves no trace; a Pod of the Job leaves its result.
Moved(p, w, to) ==
    [pods EXCEPT ![p][w] = IF w = "stray" /\ to \notin Working THEN "none" ELSE to]

Continue(p, w, data, marked) ==
    /\ db' = [db EXCEPT ![p] = [data |-> data, marked |-> marked]]
    /\ pods' = Moved(p, w, Then[pods[p][w]])
    /\ UNCHANGED <<selected, cluster, dropper, haunted>>

ReadState(p, w) ==
    /\ At(p, w, "read")
    /\ pods' = Moved(p, w, Decide(p))
    /\ UNCHANGED <<selected, cluster, db, dropper, haunted>>

DropIncomplete(p, w) == At(p, w, "drop") /\ Continue(p, w, "absent", FALSE)

CreateDatabase(p, w) ==
    /\ At(p, w, "create")
    /\ IF Exists(p) THEN Continue(p, w, db[p].data, db[p].marked)
                    ELSE Continue(p, w, "bare", FALSE)

\* The extensions and, before a copy, the wait for dev and its extensions.
Prepare(p, w) ==
    /\ At(p, w, "prepare") /\ Exists(p)
    /\ db' = [db EXCEPT ![p].data = IF @ = "bare" THEN "empty" ELSE @]
    /\ pods' = Moved(p, w, IF p \in CopyFromDev THEN "restore" ELSE "done")
    /\ UNCHANGED <<selected, cluster, dropper, haunted>>

\* pg_dump | psql --single-transaction.
Restore(p, w) ==
    At(p, w, "restore") /\ db[p].data = "empty" /\ Continue(p, w, "restored", db[p].marked)

\* If pg_dump breaks off, psql finds the end of its input and commits; the Pod
\* fails, thanks to pipefail.
RestorePart(p, w) ==
    /\ At(p, w, "restore") /\ db[p].data = "empty"
    /\ db' = [db EXCEPT ![p].data = "partial"]
    /\ pods' = Moved(p, w, "failed")
    /\ UNCHANGED <<selected, cluster, dropper, haunted>>

\* clear_state passes over tables that are not there.
CleanUp(p, w) ==
    /\ At(p, w, "cleanup") /\ Exists(p)
    /\ Continue(p, w, IF db[p].data = "restored" THEN "clean" ELSE db[p].data,
                db[p].marked)

Mark(p, w) ==
    At(p, w, "mark") /\ Exists(p) /\ Continue(p, w, db[p].data, TRUE)

\* A statement fails or the Pod dies: set -euo pipefail.
PodFails(p, w) ==
    /\ pods[p][w] \in Working
    /\ pods' = Moved(p, w, "failed")
    /\ UNCHANGED <<selected, cluster, db, dropper, haunted>>

\* The Job controller starts another Pod (backoffLimit).
RetryPod(p) ==
    /\ At(p, "job", "failed")
    /\ pods' = [pods EXCEPT ![p]["job"] = "read"]
    /\ UNCHANGED <<selected, cluster, db, dropper, haunted>>

-----------------------------------------------------------------------------
(***************************************************************************)
(* The dropdb hook.                                                        *)
(***************************************************************************)
StartHook(p) ==
    /\ HookDue(p)
    /\ dropper' = dropper \cup {p} /\ dropper' # dropper
    /\ UNCHANGED <<selected, cluster, db, pods, haunted>>

\* The Pod may die before its DROP DATABASE or after it.
HookFails(p) ==
    /\ p \in dropper /\ dropper' = dropper \ {p}
    /\ db' \in {db, [db EXCEPT ![p] = NoDatabase]}
    /\ UNCHANGED <<selected, cluster, pods, haunted>>

HookSucceeds(p) ==
    /\ p \in dropper /\ dropper' = dropper \ {p}
    /\ db' = [db EXCEPT ![p] = NoDatabase]
    /\ app' = [app EXCEPT ![p] = IF @ = "closing" THEN "none" ELSE @]
    /\ UNCHANGED <<selected, services, running, pods, haunted>>

\* Somebody removes the finalizer of an Application that cannot be deleted;
\* a Pod of its hook may still be waiting.
RemoveFinalizer(p) ==
    /\ p \in MayOutlive /\ app[p] = "closing"
    /\ app' = [app EXCEPT ![p] = "none"]
    /\ haunted' = haunted \cup {p}
    /\ UNCHANGED <<selected, services, running, db, pods, dropper>>

-----------------------------------------------------------------------------
Script(p, w) ==
    \/ ReadState(p, w) \/ DropIncomplete(p, w) \/ CreateDatabase(p, w)
    \/ Prepare(p, w) \/ Restore(p, w) \/ RestorePart(p, w) \/ CleanUp(p, w)
    \/ Mark(p, w) \/ PodFails(p, w)

Next ==
    \E p \in Pr :
        \/ Select(p) \/ Unselect(p) \/ Generate(p)
        \/ Sync(p) \/ Rollout(p) \/ SyncEnds(p) \/ Delete(p)
        \/ RetryPod(p) \/ \E w \in Which : Script(p, w)
        \/ StartHook(p) \/ HookFails(p) \/ HookSucceeds(p) \/ RemoveFinalizer(p)

Spec == Init /\ [][Next]_vars

\* The ApplicationSet looks again every two minutes and Argo CD repeats the
\* hook, which may fail any number of times but not for ever.  Nothing is
\* promised about creation: Argo CD gives a sync up after five retries.
FairSpec ==
    /\ Spec
    /\ \A p \in Pr : /\ WF_vars(Delete(p)) /\ WF_vars(StartHook(p))
                     /\ SF_vars(HookSucceeds(p))

-----------------------------------------------------------------------------
(***************************************************************************)
(* Properties.                                                             *)
(***************************************************************************)
TypeOK ==
    /\ selected \in SUBSET Pr /\ app \in [Pr -> App]
    /\ services \in SUBSET Pr /\ running \in SUBSET Pr
    /\ db \in [Pr -> Database] /\ pods \in [Pr -> [Which -> Pod]]
    /\ dropper \in SUBSET Pr /\ haunted \in SUBSET Pr

\* Whatever fails and is retried, the completion marker is only on a whole
\* copy from which dev's sessions, tokens and outboxes have been removed
\* (unless a Pod has outlived its Job).
MarkedMeansClean ==
    \A p \in Pr \ haunted : db[p].marked => db[p].data = "clean"

\* The database an app may start on.
Whole(p) == IF p \in CopyFromDev THEN db[p].marked
                                 ELSE db[p].data \notin {"absent", "bare"}

\* An app never runs beside a database that is missing, half restored or
\* being dropped and copied again: a later sync leaves a whole one alone.
RunsOnWholeDatabase == \A p \in running \ haunted : Whole(p)

\* A pull request beyond the slots never leaves a database behind: the quota
\* on Services stops it before its createdb Job.
DatabasesFitSlots ==
    Cardinality({p \in Pr \ haunted : Live(p) /\ Exists(p)}) <= Slots

\* A preview that stays closed is gone in the end, database and all, however
\* often the hook fails and wherever the copy was when it was closed.
ClosedIsDropped ==
    \A p \in Pr :
        p \notin selected ~> \/ p \in selected \cup haunted
                             \/ app[p] = "none" /\ ~Exists(p)

\* The system implements the promise of PreviewContract.
Contract == INSTANCE PreviewContract WITH
    life <- [p \in Pr |-> IF Live(p) THEN "live" ELSE app[p]],
    stage <- [p \in Pr |-> IF p \in haunted THEN "void"
                           ELSE IF ~Exists(p) THEN "absent"
                           ELSE IF Whole(p) THEN "ready" ELSE "preparing"]

KeepsContract == Contract!Spec
=============================================================================
