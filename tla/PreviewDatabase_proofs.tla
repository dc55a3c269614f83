----------------------- MODULE PreviewDatabase_proofs -----------------------
(***************************************************************************)
(* Proofs about PreviewDatabase: for any number of pull requests and       *)
(* slots, whichever pull requests copy dev and whichever Pods may outlive  *)
(* their Job.                                                              *)
(***************************************************************************)
EXTENDS PreviewDatabase, FiniteSetTheorems, TLAPS

\* What happens to one pull request.
Step(p) ==
    \/ Select(p) \/ Unselect(p) \/ Generate(p)
    \/ Sync(p) \/ Rollout(p) \/ SyncEnds(p) \/ Delete(p)
    \/ RetryPod(p) \/ \E w \in Which : Script(p, w)
    \/ StartHook(p) \/ HookFails(p) \/ HookSucceeds(p) \/ RemoveFinalizer(p)

LEMMA NextIsStep == Next <=> \E p \in Pr : Step(p)
BY DEF Next, Step

-----------------------------------------------------------------------------
(***************************************************************************)
(* Types.                                                                  *)
(***************************************************************************)
LEMMA MovedType ==
    ASSUME TypeOK, NEW p \in Pr, NEW w \in Which, NEW to \in Pod
    PROVE  Moved(p, w, to) \in [Pr -> [Which -> Pod]]
BY DEF TypeOK, Moved, Pod

LEMMA ContinueType ==
    ASSUME TypeOK, NEW p \in Pr, NEW w \in Which, NEW data \in Data,
           NEW marked \in BOOLEAN, pods[p][w] \in DOMAIN Then,
           Continue(p, w, data, marked)
    PROVE  TypeOK'
<1>1. Then[pods[p][w]] \in Pod
    BY DEF Then, Pod, Working
<1>2. pods' \in [Pr -> [Which -> Pod]]
    BY <1>1, MovedType DEF Continue
<1>3. db' \in [Pr -> Database]
    BY DEF Continue, TypeOK, Database
<1> QED
    BY <1>2, <1>3 DEF Continue, TypeOK, cluster

LEMMA ReplaceJobType ==
    ASSUME TypeOK, NEW p \in Pr, NEW then \in Pod, ReplaceJob(p, then)
    PROVE  pods' \in [Pr -> [Which -> Pod]] /\ haunted' \in SUBSET Pr
BY DEF TypeOK, ReplaceJob, Which, Pod

LEMMA ScriptType ==
    ASSUME TypeOK, NEW p \in Pr, NEW w \in Which, Script(p, w)
    PROVE  TypeOK'
<1>0. db[p] \in Database
    BY DEF TypeOK
<1>1. CASE ReadState(p, w)
    <2>1. Decide(p) \in Pod
        BY DEF Decide, Pod, Working
    <2> QED
        BY <1>1, <2>1, MovedType DEF ReadState, TypeOK, cluster
<1>2. CASE DropIncomplete(p, w)
    BY <1>2, ContinueType DEF DropIncomplete, At, Data, Then
<1>3. CASE CreateDatabase(p, w)
    BY <1>0, <1>3, ContinueType DEF CreateDatabase, At, Data, Then, Database
<1>4. CASE Prepare(p, w)
    <2>1. pods' \in [Pr -> [Which -> Pod]]
        BY <1>4, MovedType DEF Prepare, Pod, Working
    <2>2. db' \in [Pr -> Database]
        BY <1>4 DEF Prepare, TypeOK, Database, Data
    <2> QED
        BY <1>4, <2>1, <2>2 DEF Prepare, TypeOK, cluster
<1>5. CASE Restore(p, w)
    BY <1>0, <1>5, ContinueType DEF Restore, At, Data, Then, Database
<1>6. CASE RestorePart(p, w)
    <2>1. pods' \in [Pr -> [Which -> Pod]]
        BY <1>6, MovedType DEF RestorePart, Pod
    <2>2. db' \in [Pr -> Database]
        BY <1>6 DEF RestorePart, TypeOK, Database, Data
    <2> QED
        BY <1>6, <2>1, <2>2 DEF RestorePart, TypeOK, cluster
<1>7. CASE CleanUp(p, w)
    BY <1>0, <1>7, ContinueType DEF CleanUp, At, Data, Then, Database
<1>8. CASE Mark(p, w)
    BY <1>0, <1>8, ContinueType DEF Mark, At, Data, Then, Database
<1>9. CASE PodFails(p, w)
    <2>1. pods' \in [Pr -> [Which -> Pod]]
        BY <1>9, MovedType DEF PodFails, Pod
    <2> QED
        BY <1>9, <2>1 DEF PodFails, TypeOK, cluster
<1> QED
    BY <1>1, <1>2, <1>3, <1>4, <1>5, <1>6, <1>7, <1>8, <1>9 DEF Script

LEMMA TypeStep ==
    ASSUME TypeOK, [Next]_vars
    PROVE  TypeOK'
<1>1. CASE UNCHANGED vars
    BY <1>1 DEF vars, cluster, TypeOK
<1>2. ASSUME NEW p \in Pr, Step(p)
      PROVE  TypeOK'
    <2>1. CASE Select(p) \/ Unselect(p)
        BY <2>1 DEF Select, Unselect, cluster, TypeOK
    <2>2. CASE Generate(p) \/ Rollout(p) \/ SyncEnds(p)
        BY <2>2 DEF Generate, Rollout, SyncEnds, TypeOK, App
    <2>3. CASE Sync(p)
        <3>1. pods' \in [Pr -> [Which -> Pod]] /\ haunted' \in SUBSET Pr
            BY <2>3, ReplaceJobType DEF Sync, Pod, Working
        <3> QED
            BY <2>3, <3>1 DEF Sync, TypeOK, App
    <2>4. CASE Delete(p)
        <3>1. pods' \in [Pr -> [Which -> Pod]] /\ haunted' \in SUBSET Pr
            BY <2>4, ReplaceJobType DEF Delete, Pod
        <3> QED
            BY <2>4, <3>1 DEF Delete, TypeOK, App
    <2>5. CASE RetryPod(p)
        BY <2>5 DEF RetryPod, TypeOK, cluster, Which, Pod, Working
    <2>6. CASE \E w \in Which : Script(p, w)
        BY <2>6, ScriptType
    <2>7. CASE StartHook(p)
        BY <2>7 DEF StartHook, TypeOK, cluster
    <2>8. CASE HookFails(p) \/ HookSucceeds(p)
        <3>1. db' \in [Pr -> Database]
            <4>1. NoDatabase \in Database
                BY DEF NoDatabase, Database, Data
            <4>2. db' = db \/ db' = [db EXCEPT ![p] = NoDatabase]
                BY <2>8 DEF HookFails, HookSucceeds
            <4> QED
                BY <4>1, <4>2 DEF TypeOK
        <3>2. app' \in [Pr -> App]
            BY <2>8 DEF HookFails, HookSucceeds, cluster, TypeOK, App
        <3> QED
            BY <2>8, <3>1, <3>2 DEF HookFails, HookSucceeds, cluster, TypeOK
    <2>9. CASE RemoveFinalizer(p)
        BY <2>9 DEF RemoveFinalizer, TypeOK, App
    <2> QED
        BY <1>2, <2>1, <2>2, <2>3, <2>4, <2>5, <2>6, <2>7, <2>8, <2>9 DEF Step
<1> QED
    BY <1>1, <1>2, NextIsStep

\* The variables keep their types: a Pod of the bootstrap script is at one of
\* its steps and no preview has more Pods than its Job and a stray one.
THEOREM TypeCorrect == Spec => []TypeOK
<1>1. Init => TypeOK
    BY PreviewAssumption
    DEF Init, TypeOK, App, NoDatabase, Database, Data, Pod
<1> QED
    BY <1>1, TypeStep, PTL DEF Spec

-----------------------------------------------------------------------------
(***************************************************************************)
(* The inductive invariant.  The marker is right because the Pod that sets *)
(* it has itself seen the database through every earlier statement, and    *)
(* nobody else has touched it in the meantime: not a second Pod, since     *)
(* there is no stray, and not the dropdb hook, since the Application is    *)
(* not being deleted.                                                      *)
(***************************************************************************)
Job(p) == pods[p]["job"]

\* What the Pod at each statement knows of the database.
Knows(p) ==
    /\ Job(p) \in {"drop", "create", "prepare", "restore", "cleanup", "mark"}
           => ~db[p].marked
    /\ Job(p) \in {"drop", "restore", "cleanup", "mark"} => p \in CopyFromDev
    /\ Job(p) = "drop" => Exists(p)
    /\ Job(p) = "create" /\ p \in CopyFromDev => ~Exists(p)
    /\ Job(p) = "prepare" => Exists(p) /\ (p \in CopyFromDev => db[p].data = "bare")
    /\ Job(p) = "restore" => db[p].data = "empty"
    /\ Job(p) = "cleanup" => db[p].data = "restored"
    /\ Job(p) = "mark" => db[p].data = "clean"
    /\ Job(p) = "done" => Whole(p)

\* Who is there beside it.
Alone(p) ==
    /\ pods[p]["stray"] = "none"
    /\ Job(p) # "none" \/ p \in running => Live(p)
    /\ p \in dropper => app[p] = "closing"
    /\ app[p] = "none" => ~Exists(p)
    /\ Job(p) # "none" \/ (Live(p) /\ Exists(p)) => p \in services

Sound(p) ==
    \/ p \in haunted
    \/ /\ Knows(p) /\ Alone(p)
       /\ db[p].marked => db[p].data = "clean"
       /\ p \in running => Whole(p)

IInv ==
    /\ TypeOK
    /\ \A p \in Pr : Sound(p)
    /\ Cardinality(services) <= Slots

\* A step of one pull request leaves the others as they are.
Same(q) ==
    /\ app'[q] = app[q] /\ db'[q] = db[q] /\ pods'[q] = pods[q]
    /\ q \in services' <=> q \in services
    /\ q \in running' <=> q \in running
    /\ q \in dropper' <=> q \in dropper
    /\ q \in haunted' <=> q \in haunted

LEMMA ScriptOthers ==
    ASSUME TypeOK, NEW p \in Pr, NEW w \in Which, Script(p, w), NEW q \in Pr, q # p
    PROVE  Same(q)
BY DEF Script, ReadState, DropIncomplete, CreateDatabase, Prepare, Restore,
       RestorePart, CleanUp, Mark, PodFails, Continue, Moved, cluster, Same, TypeOK

LEMMA Others ==
    ASSUME TypeOK, NEW p \in Pr, Step(p), NEW q \in Pr, q # p
    PROVE  Same(q)
<1>1. CASE \E w \in Which : Script(p, w)
    BY <1>1, ScriptOthers
<1>2. CASE Sync(p) \/ Delete(p)
    BY <1>2 DEF Sync, Delete, ReplaceJob, Same, TypeOK
<1>3. CASE \/ Select(p) \/ Unselect(p) \/ Generate(p) \/ Rollout(p) \/ SyncEnds(p)
           \/ RetryPod(p)
    BY <1>3 DEF Select, Unselect, Generate, Rollout, SyncEnds, RetryPod, cluster,
                Same, TypeOK
<1>4. CASE StartHook(p) \/ HookFails(p) \/ HookSucceeds(p) \/ RemoveFinalizer(p)
    BY <1>4 DEF StartHook, HookFails, HookSucceeds, RemoveFinalizer, cluster, Same,
                TypeOK
<1> QED
    BY <1>1, <1>2, <1>3, <1>4 DEF Step

LEMMA SameSound ==
    ASSUME NEW q \in Pr, Sound(q), Same(q)
    PROVE  Sound(q)'
BY DEF Sound, Same, Knows, Alone, Job, Whole, Live, Exists

\* The statements of the script, for the Pod of the Job.
LEMMA ScriptSound ==
    ASSUME TypeOK, NEW p \in Pr, NEW w \in Which, Script(p, w), Sound(p), p \notin haunted
    PROVE  Sound(p)'
<1> DEFINE s == Job(p)
<1>1. w = "job"
    BY DEF Sound, Alone, Script, ReadState, DropIncomplete, CreateDatabase, Prepare,
           Restore, RestorePart, CleanUp, Mark, PodFails, At, Which, Working
<1>2. /\ UNCHANGED <<selected, app, services, running, dropper, haunted>>
      /\ s \in Working
      /\ db'[p].data # "absent" => Exists(p) \/ p \in services
    BY <1>1 DEF Script, ReadState, DropIncomplete, CreateDatabase, Prepare, Restore,
       RestorePart, CleanUp, Mark, PodFails, Continue, Sound, Alone, Job, cluster, At,
       Working, Exists
<1>3. pods[p] \in [Which -> Pod] /\ db[p] \in Database /\ p \in DOMAIN pods /\ p \in DOMAIN db
    BY DEF TypeOK
<1>4. /\ pods'[p]["stray"] = "none"
      /\ s # "none"
      /\ Live(p) /\ p \in services
    BY <1>1, <1>2, <1>3 DEF Script, ReadState, DropIncomplete, CreateDatabase, Prepare,
       Restore, RestorePart, CleanUp, Mark, PodFails, Continue, Moved, Sound, Alone, Job,
       Working, Which, TypeOK
<1>5. Alone(p)'
    BY <1>2, <1>4 DEF Alone, Live, Sound, Job, Exists
<1>6. ASSUME NEW to \in Pod, pods' = Moved(p, "job", to)
      PROVE  Job(p)' = to
    BY <1>3, <1>6 DEF Moved, Job, TypeOK, Which
<1>7. CASE ReadState(p, w)
    <2>1. Decide(p) \in Pod
        BY DEF Decide, Pod, Working
    <2>2. Job(p)' = Decide(p) /\ db' = db
        BY <1>1, <1>6, <1>7, <2>1 DEF ReadState
    <2> QED
        BY <1>2, <1>5, <2>2 DEF Decide, Sound, Knows, Whole, Exists
<1>8. CASE DropIncomplete(p, w)
    <2>1. s = "drop" /\ Job(p)' = "create" /\ db'[p] = NoDatabase
        BY <1>1, <1>3, <1>6, <1>8
        DEF DropIncomplete, Continue, At, Then, Pod, Working, Job, NoDatabase
    <2> QED
        BY <1>2, <1>5, <2>1 DEF Sound, Knows, Whole, Exists, NoDatabase
<1>9. CASE CreateDatabase(p, w)
    <2>1. s = "create"
        BY <1>1, <1>9 DEF CreateDatabase, At, Job
    <2>2. CASE Exists(p)
        <3>1. Continue(p, w, db[p].data, db[p].marked)
            BY <1>9, <2>2 DEF CreateDatabase
        <3>2. Job(p)' = "prepare" /\ db'[p].data = db[p].data /\ db'[p].marked = db[p].marked
            BY <1>1, <1>3, <1>6, <2>1, <3>1 DEF Continue, Then, Pod, Working, Job
        <3> QED
            BY <1>2, <1>5, <2>1, <2>2, <3>2 DEF Sound, Knows, Whole, Exists
    <2>3. CASE ~Exists(p)
        <3>1. Continue(p, w, "bare", FALSE)
            BY <1>9, <2>3 DEF CreateDatabase
        <3>2. Job(p)' = "prepare" /\ db'[p].data = "bare" /\ db'[p].marked = FALSE
            BY <1>1, <1>3, <1>6, <2>1, <3>1 DEF Continue, Then, Pod, Working, Job
        <3> QED
            BY <1>2, <1>5, <2>1, <2>3, <3>2 DEF Sound, Knows, Whole, Exists
    <2> QED
        BY <2>2, <2>3
<1>10. CASE Prepare(p, w)
    <2>1. /\ s = "prepare"
          /\ Job(p)' = IF p \in CopyFromDev THEN "restore" ELSE "done"
          /\ db'[p].marked = db[p].marked
          /\ db'[p].data = IF db[p].data = "bare" THEN "empty" ELSE db[p].data
        BY <1>1, <1>3, <1>6, <1>10 DEF Prepare, At, Pod, Working, Job, Database
    <2> QED
        BY <1>2, <1>5, <2>1 DEF Sound, Knows, Whole, Exists
<1>11. CASE Restore(p, w)
    <2>1. /\ s = "restore" /\ Job(p)' = "cleanup"
          /\ db'[p] = [data |-> "restored", marked |-> db[p].marked]
        BY <1>1, <1>3, <1>6, <1>11 DEF Restore, Continue, At, Then, Pod, Working, Job
    <2> QED
        BY <1>2, <1>5, <2>1 DEF Sound, Knows, Whole, Exists
<1>12. CASE RestorePart(p, w)
    <2>1. /\ s = "restore" /\ Job(p)' = "failed"
          /\ db'[p].marked = db[p].marked /\ db'[p].data = "partial"
        BY <1>1, <1>3, <1>6, <1>12 DEF RestorePart, At, Pod, Job, Database
    <2> QED
        BY <1>2, <1>5, <2>1 DEF Sound, Knows, Whole, Exists
<1>13. CASE CleanUp(p, w)
    <2>1. /\ s = "cleanup" /\ Job(p)' = "mark"
          /\ db'[p] = [data |-> IF db[p].data = "restored" THEN "clean" ELSE db[p].data,
                       marked |-> db[p].marked]
        BY <1>1, <1>3, <1>6, <1>13 DEF CleanUp, Continue, At, Then, Pod, Working, Job
    <2> QED
        BY <1>2, <1>5, <2>1 DEF Sound, Knows, Whole, Exists
<1>14. CASE Mark(p, w)
    <2>1. /\ s = "mark" /\ Job(p)' = "done"
          /\ db'[p] = [data |-> db[p].data, marked |-> TRUE]
        BY <1>1, <1>3, <1>6, <1>14 DEF Mark, Continue, At, Then, Pod, Working, Job
    <2> QED
        BY <1>2, <1>5, <2>1 DEF Sound, Knows, Whole, Exists
<1>15. CASE PodFails(p, w)
    <2>1. Job(p)' = "failed" /\ db' = db
        BY <1>1, <1>3, <1>6, <1>15 DEF PodFails, Pod, cluster
    <2> QED
        BY <1>2, <1>5, <2>1 DEF Sound, Knows, Whole, Exists
<1> QED
    BY <1>7, <1>8, <1>9, <1>10, <1>11, <1>12, <1>13, <1>14, <1>15 DEF Script

LEMMA StepSound ==
    ASSUME TypeOK, NEW p \in Pr, Step(p), Sound(p)
    PROVE  Sound(p)'
<1>1. p \in haunted => p \in haunted'
    BY DEF Step, Select, Unselect, Generate, Sync, Rollout, SyncEnds, Delete, RetryPod,
           ReplaceJob, Script, ReadState, DropIncomplete, CreateDatabase, Prepare, Restore,
           RestorePart, CleanUp, Mark, PodFails, Continue, StartHook, HookFails,
           HookSucceeds, RemoveFinalizer
<1>2. SUFFICES ASSUME p \notin haunted, p \notin haunted'
               PROVE  Sound(p)'
    BY <1>1 DEF Sound
<1>3. /\ pods \in [Pr -> [Which -> Pod]] /\ app \in [Pr -> App]
      /\ Knows(p) /\ Alone(p)
      /\ db[p].marked => db[p].data = "clean"
      /\ p \in running => Whole(p)
    BY <1>2 DEF Sound, TypeOK
<1>4. CASE Select(p) \/ Unselect(p) \/ StartHook(p)
    BY <1>2, <1>3, <1>4 DEF Select, Unselect, StartHook, HookDue, cluster, Sound,
                    Knows, Alone, Job, Live, Exists, Whole
<1>5. CASE Generate(p)
    BY <1>2, <1>3, <1>5 DEF Generate, Sound, Knows, Alone, Job, Live, Exists, Whole
<1>6. CASE Rollout(p) \/ SyncEnds(p)
    BY <1>2, <1>3, <1>6 DEF Rollout, SyncEnds, WaveDone, Sound, Knows, Alone, Job, Live,
                            Exists, Whole
<1>7. CASE Sync(p)
    <2>1. pods' = [pods EXCEPT ![p]["job"] = "read"]
        BY <1>2, <1>7 DEF Sync, ReplaceJob, TypeOK
    <2>2. Job(p)' = "read" /\ pods'[p]["stray"] = "none"
        BY <1>3, <2>1 DEF Job, Alone, Which
    <2> QED
        BY <1>2, <1>3, <1>7, <2>2 DEF Sync, Sound, Knows, Alone, Live, Exists, Whole
<1>8. CASE Delete(p)
    <2>1. pods' = [pods EXCEPT ![p]["job"] = "none"]
        BY <1>2, <1>8 DEF Delete, ReplaceJob, TypeOK
    <2>2. Job(p)' = "none" /\ pods'[p]["stray"] = "none"
        BY <1>3, <2>1 DEF Job, Alone, Which
    <2>3. app'[p] = "closing" /\ p \notin running' /\ db' = db /\ dropper' = dropper
        BY <1>3, <1>8 DEF Delete
    <2> QED
        BY <1>2, <1>3, <2>2, <2>3 DEF Sound, Knows, Alone, Live, Exists, Whole
<1>9. CASE RetryPod(p)
    <2>1. Job(p) = "failed" /\ Job(p)' = "read" /\ pods'[p]["stray"] = "none"
        BY <1>3, <1>9 DEF RetryPod, At, Job, Alone, Which
    <2> QED
        BY <1>2, <1>3, <1>9, <2>1 DEF RetryPod, cluster, Sound, Knows, Alone, Live, Exists,
                                      Whole
<1>10. CASE \E w \in Which : Script(p, w)
    BY <1>2, <1>10, ScriptSound
<1>11. CASE HookFails(p) \/ HookSucceeds(p)
    <2>1. /\ app[p] = "closing" /\ app'[p] \in {"closing", "none"} /\ p \notin dropper'
          /\ db'[p] = NoDatabase \/ (db'[p] = db[p] /\ app'[p] = "closing")
        BY <1>3, <1>11 DEF HookFails, HookSucceeds, cluster, Alone, TypeOK
    <2> QED
        BY <1>2, <1>3, <1>11, <2>1 DEF HookFails, HookSucceeds, cluster, Sound, Knows, Alone, Job, Live, Exists,
                                       Whole, NoDatabase
<1>12. CASE RemoveFinalizer(p)
    BY <1>2, <1>12 DEF RemoveFinalizer
<1> QED
    BY <1>4, <1>5, <1>6, <1>7, <1>8, <1>9, <1>10, <1>11, <1>12 DEF Step

\* The quota: only a sync adds a Service.
LEMMA QuotaStep ==
    ASSUME TypeOK, NEW p \in Pr, Step(p), Cardinality(services) <= Slots
    PROVE  Cardinality(services') <= Slots
<1>1. IsFiniteSet(services)
    BY PreviewAssumption, FS_Subset DEF TypeOK
<1>2. Cardinality(services) \in Nat /\ Slots \in Nat
    BY <1>1, FS_CardinalityType, PreviewAssumption
<1>3. CASE Sync(p)
    <2>1. Cardinality(services \cup {p}) =
              IF p \in services THEN Cardinality(services) ELSE Cardinality(services) + 1
        BY <1>1, FS_AddElement
    <2> QED
        BY <1>2, <1>3, <2>1 DEF Sync, Admitted
<1>4. CASE Delete(p)
    <2>1. services' \subseteq services
        BY <1>4 DEF Delete
    <2>2. Cardinality(services') <= Cardinality(services) /\ IsFiniteSet(services')
        BY <1>1, <2>1, FS_Subset
    <2>3. Cardinality(services') \in Nat
        BY <2>2, FS_CardinalityType
    <2> QED
        BY <1>2, <2>2, <2>3
<1>5. CASE UNCHANGED services
    BY <1>5
<1> QED
    BY <1>3, <1>4, <1>5 DEF Step, Select, Unselect, Generate, Rollout, SyncEnds, RetryPod,
       Script, ReadState, DropIncomplete, CreateDatabase, Prepare, Restore, RestorePart,
       CleanUp, Mark, PodFails, Continue, StartHook, HookFails, HookSucceeds,
       RemoveFinalizer, cluster

\* Whatever fails or overlaps, the marker, the copy, the pods and the quota
\* agree as IInv says (the bootstrap script and the hook Jobs).
THEOREM Invariance == Spec => []IInv
<1>1. ASSUME Init
      PROVE  IInv
    <2>1. TypeOK
        BY <1>1, PreviewAssumption DEF Init, TypeOK, App, NoDatabase, Database, Data, Pod
    <2>2. ASSUME NEW p \in Pr
          PROVE  Sound(p)
        BY <1>1 DEF Init, Sound, Knows, Alone, Job, Live, Exists, Whole, NoDatabase, Which
    <2>3. Cardinality(services) <= Slots
        BY <1>1, FS_EmptySet, PreviewAssumption DEF Init
    <2> QED
        BY <2>1, <2>2, <2>3 DEF IInv
<1>2. ASSUME IInv, [Next]_vars
      PROVE  IInv'
    <2>1. TypeOK'
        BY <1>2, TypeStep DEF IInv
    <2>2. CASE UNCHANGED vars
        <3>1. ASSUME NEW q \in Pr
              PROVE  Sound(q)'
            BY <1>2, <2>2, <3>1, SameSound DEF IInv, Same, vars, cluster
        <3> QED
            BY <1>2, <2>1, <2>2, <3>1 DEF IInv, vars, cluster
    <2>3. ASSUME NEW p \in Pr, Step(p)
          PROVE  IInv'
        <3>1. ASSUME NEW q \in Pr
              PROVE  Sound(q)'
            BY <1>2, <2>3, <3>1, StepSound, Others, SameSound DEF IInv
        <3>2. Cardinality(services') <= Slots
            BY <1>2, <2>3, QuotaStep DEF IInv
        <3> QED
            BY <2>1, <3>1, <3>2 DEF IInv
    <2> QED
        BY <1>2, <2>2, <2>3, NextIsStep
<1> QED
    BY <1>1, <1>2, PTL DEF Spec

-----------------------------------------------------------------------------
(***************************************************************************)
(* What it gives.                                                          *)
(***************************************************************************)

\* The completion marker is only on a whole, cleaned copy, whatever failed and
\* was retried.
THEOREM MarkerHonest == Spec => []MarkedMeansClean
<1>1. IInv => MarkedMeansClean
    BY DEF IInv, Sound, MarkedMeansClean
<1> QED
    BY <1>1, Invariance, PTL

\* An app never runs beside a database that is missing or half copied.
THEOREM AppsRunOnWholes == Spec => []RunsOnWholeDatabase
<1>1. IInv => RunsOnWholeDatabase
    BY DEF IInv, Sound, RunsOnWholeDatabase, TypeOK
<1> QED
    BY <1>1, Invariance, PTL

\* The quota on Services bounds the databases of open previews.
THEOREM QuotaBounds == Spec => []DatabasesFitSlots
<1>1. ASSUME IInv
      PROVE  DatabasesFitSlots
    <2> DEFINE D == {p \in Pr \ haunted : Live(p) /\ Exists(p)}
    <2>1. D \subseteq services
        BY <1>1 DEF IInv, Sound, Alone
    <2>2. IsFiniteSet(services)
        BY <1>1, PreviewAssumption, FS_Subset DEF IInv, TypeOK
    <2>3. IsFiniteSet(D) /\ Cardinality(D) <= Cardinality(services)
        BY <2>1, <2>2, FS_Subset
    <2>4. Cardinality(D) \in Nat /\ Cardinality(services) \in Nat /\ Slots \in Nat
        BY <2>2, <2>3, FS_CardinalityType, PreviewAssumption
    <2>5. Cardinality(services) <= Slots
        BY <1>1 DEF IInv
    <2>6. Cardinality(D) <= Slots
        BY <2>3, <2>4, <2>5
    <2> QED
        BY <2>6 DEF DatabasesFitSlots
<1> QED
    BY <1>1, Invariance, PTL

-----------------------------------------------------------------------------
(***************************************************************************)
(* The refinement.                                                         *)
(***************************************************************************)
LifeOf(p) == IF Live(p) THEN "live" ELSE app[p]
StageOf(p) == IF p \in haunted THEN "void"
              ELSE IF ~Exists(p) THEN "absent"
              ELSE IF Whole(p) THEN "ready" ELSE "preparing"

life == [p \in Pr |-> LifeOf(p)]
stage == [p \in Pr |-> StageOf(p)]

\* The steps of PreviewContract, seen from one pull request.
Allowed(p) ==
    \/ LifeOf(p) = "none" /\ LifeOf(p)' = "live" /\ StageOf(p)' = StageOf(p)
    \/ LifeOf(p) = "live" /\ LifeOf(p)' = "closing" /\ StageOf(p)' = StageOf(p)
    \/ /\ LifeOf(p) = "live" /\ LifeOf(p)' = "live"
       /\ \/ StageOf(p) = "absent" /\ StageOf(p)' = "preparing"
          \/ StageOf(p) = "preparing" /\ StageOf(p)' = "absent"
          \/ StageOf(p) = "preparing" /\ StageOf(p)' = "ready"
    \/ /\ LifeOf(p) = "closing" /\ LifeOf(p)' \in {"closing", "none"}
       /\ StageOf(p) # "void" /\ StageOf(p)' = "absent"
    \/ StageOf(p)' = "void"
    \/ LifeOf(p)' = LifeOf(p) /\ StageOf(p)' = StageOf(p)

LEMMA ScriptAllowed ==
    ASSUME TypeOK, NEW p \in Pr, NEW w \in Which, Script(p, w), Sound(p), p \notin haunted
    PROVE  Allowed(p)
<1>1. w = "job"
    BY DEF Sound, Alone, Script, ReadState, DropIncomplete, CreateDatabase, Prepare,
           Restore, RestorePart, CleanUp, Mark, PodFails, At, Which, Working
<1>2. /\ Live(p) /\ app' = app /\ p \notin haunted'
      /\ p \in DOMAIN db /\ db[p] \in Database
    BY <1>1 DEF Script, ReadState, DropIncomplete, CreateDatabase, Prepare, Restore,
       RestorePart, CleanUp, Mark, PodFails, Continue, Sound, Alone, Job, cluster, At,
       Working, TypeOK
<1>3. LifeOf(p) = "live" /\ LifeOf(p)' = "live"
    BY <1>2 DEF LifeOf, Live
<1>4. CASE ReadState(p, w) \/ PodFails(p, w)
    BY <1>2, <1>3, <1>4 DEF ReadState, PodFails, Allowed, StageOf, Whole, Exists
<1>5. CASE DropIncomplete(p, w)
    BY <1>1, <1>2, <1>3, <1>5 DEF DropIncomplete, At, Continue, Allowed, StageOf, Whole, Exists,
       Sound, Knows, Job
<1>6. CASE CreateDatabase(p, w)
    BY <1>1, <1>2, <1>3, <1>6 DEF CreateDatabase, At, Continue, Allowed, StageOf, Whole, Exists,
       Sound, Knows, Job
<1>7. CASE Prepare(p, w)
    BY <1>1, <1>2, <1>3, <1>7 DEF Prepare, At, Allowed, StageOf, Whole, Exists,
       Sound, Knows, Job, Database
<1>8. CASE Restore(p, w)
    BY <1>1, <1>2, <1>3, <1>8 DEF Restore, At, Continue, Allowed, StageOf, Whole, Exists,
       Sound, Knows, Job
<1>9. CASE RestorePart(p, w)
    BY <1>1, <1>2, <1>3, <1>9 DEF RestorePart, At, Allowed, StageOf, Whole, Exists,
       Sound, Knows, Job, Database
<1>10. CASE CleanUp(p, w)
    BY <1>1, <1>2, <1>3, <1>10 DEF CleanUp, At, Continue, Allowed, StageOf, Whole, Exists,
       Sound, Knows, Job
<1>11. CASE Mark(p, w)
    BY <1>1, <1>2, <1>3, <1>11 DEF Mark, At, Continue, Allowed, StageOf, Whole, Exists,
       Sound, Knows, Job
<1> QED
    BY <1>4, <1>5, <1>6, <1>7, <1>8, <1>9, <1>10, <1>11 DEF Script

LEMMA StepAllowed ==
    ASSUME TypeOK, NEW p \in Pr, Step(p), Sound(p)
    PROVE  Allowed(p)
<1>1. p \in haunted => p \in haunted'
    BY DEF Step, Select, Unselect, Generate, Sync, Rollout, SyncEnds, Delete, RetryPod,
           ReplaceJob, Script, ReadState, DropIncomplete, CreateDatabase, Prepare, Restore,
           RestorePart, CleanUp, Mark, PodFails, Continue, StartHook, HookFails,
           HookSucceeds, RemoveFinalizer
<1>2. CASE p \in haunted'
    BY <1>2 DEF Allowed, StageOf
<1>3. SUFFICES ASSUME p \notin haunted, p \notin haunted'
               PROVE  Allowed(p)
    BY <1>1, <1>2
<1>4. p \in DOMAIN app /\ p \in DOMAIN db /\ app[p] \in App
    BY DEF TypeOK
<1>5. CASE \E w \in Which : Script(p, w)
    BY <1>3, <1>5, ScriptAllowed
<1>6. CASE Select(p) \/ Unselect(p) \/ StartHook(p) \/ RetryPod(p)
    BY <1>3, <1>6 DEF Select, Unselect, StartHook, RetryPod, cluster, Allowed,
                      LifeOf, StageOf, Live, Whole, Exists
<1>7. CASE Sync(p) \/ Rollout(p) \/ SyncEnds(p)
    BY <1>3, <1>4, <1>7 DEF Sync, Rollout, SyncEnds, Allowed, LifeOf, StageOf, Live, Whole,
                            Exists
<1>8. CASE Generate(p) \/ Delete(p)
    BY <1>3, <1>4, <1>8 DEF Generate, Delete, Allowed, LifeOf, StageOf, Live, Whole, Exists
<1>9. CASE HookFails(p) \/ HookSucceeds(p)
    <2>1. /\ app[p] = "closing" /\ app'[p] \in {"closing", "none"}
          /\ db'[p] = NoDatabase \/ (db'[p] = db[p] /\ app'[p] = "closing")
        BY <1>3, <1>4, <1>9 DEF HookFails, HookSucceeds, cluster, Sound, Alone
    <2> QED
        BY <1>3, <2>1 DEF Allowed, LifeOf, StageOf, Live, Whole, Exists, NoDatabase
<1>10. CASE RemoveFinalizer(p)
    BY <1>3, <1>10 DEF RemoveFinalizer
<1> QED
    BY <1>5, <1>6, <1>7, <1>8, <1>9, <1>10 DEF Step

LEMMA SameMapped ==
    ASSUME NEW q \in Pr, Same(q)
    PROVE  LifeOf(q)' = LifeOf(q) /\ StageOf(q)' = StageOf(q)
BY DEF Same, LifeOf, StageOf, Live, Whole, Exists

LEMMA RefineStep ==
    ASSUME IInv, [Next]_vars
    PROVE  [Contract!Next]_(Contract!vars)
<1>1. CASE UNCHANGED vars
    BY <1>1 DEF vars, cluster, Contract!vars, Live, Whole, Exists
<1>2. ASSUME NEW p \in Pr, Step(p)
      PROVE  [Contract!Next]_(Contract!vars)
    <2>1. /\ life' = [life EXCEPT ![p] = LifeOf(p)']
          /\ stage' = [stage EXCEPT ![p] = StageOf(p)']
          /\ life[p] = LifeOf(p) /\ stage[p] = StageOf(p)
        <3>1. ASSUME NEW q \in Pr, q # p
              PROVE  LifeOf(q)' = LifeOf(q) /\ StageOf(q)' = StageOf(q)
            BY <1>2, <3>1, Others, SameMapped DEF IInv
        <3> QED
            BY <3>1 DEF life, stage
    <2>2. Allowed(p)
        BY <1>2, StepAllowed DEF IInv
    <2>3. CASE LifeOf(p) = "none" /\ LifeOf(p)' = "live" /\ StageOf(p)' = StageOf(p)
        <3>1. Contract!Open(p)
            BY <2>1, <2>3
            DEF Contract!Open, Contract!Lives, life, stage, LifeOf, StageOf
        <3> QED
            BY <3>1 DEF Contract!Next
    <2>4. CASE LifeOf(p) = "live" /\ LifeOf(p)' = "closing" /\ StageOf(p)' = StageOf(p)
        <3>1. Contract!Close(p)
            BY <2>1, <2>4
            DEF Contract!Close, Contract!Lives, life, stage, LifeOf, StageOf
        <3> QED
            BY <3>1 DEF Contract!Next
    <2>5. CASE /\ LifeOf(p) = "live" /\ LifeOf(p)' = "live"
               /\ \/ StageOf(p) = "absent" /\ StageOf(p)' = "preparing"
                  \/ StageOf(p) = "preparing" /\ StageOf(p)' = "absent"
        <3>1. life' = life
            BY <2>1, <2>5 DEF life
        <3>2. Contract!Prepare(p)
            BY <2>1, <2>5, <3>1
            DEF Contract!Prepare, Contract!Goes, life, stage, LifeOf, StageOf
        <3> QED
            BY <3>2 DEF Contract!Next
    <2>6. CASE /\ LifeOf(p) = "live" /\ LifeOf(p)' = "live"
               /\ StageOf(p) = "preparing" /\ StageOf(p)' = "ready"
        <3>1. life' = life
            BY <2>1, <2>6 DEF life
        <3>2. Contract!Finish(p)
            BY <2>1, <2>6, <3>1
            DEF Contract!Finish, Contract!Goes, life, stage, LifeOf, StageOf
        <3> QED
            BY <3>2 DEF Contract!Next
    <2>7. CASE /\ LifeOf(p) = "closing" /\ LifeOf(p)' \in {"closing", "none"}
               /\ StageOf(p) # "void" /\ StageOf(p)' = "absent"
        <3>1. Contract!Drop(p)
            BY <2>1, <2>7
            DEF Contract!Drop, Contract!Lives, life, stage, LifeOf, StageOf
        <3> QED
            BY <3>1 DEF Contract!Next
    <2>8. CASE StageOf(p)' = "void"
        <3>1. LifeOf(p)' \in Contract!Life
            BY <1>2, TypeStep DEF IInv, TypeOK, LifeOf, Live, App, Contract!Life
        <3>2. Contract!Void(p)
            BY <2>1, <2>8, <3>1 DEF Contract!Void, life, stage, LifeOf, StageOf
        <3> QED
            BY <3>2 DEF Contract!Next
    <2>9. CASE LifeOf(p)' = LifeOf(p) /\ StageOf(p)' = StageOf(p)
        <3>1. life' = life /\ stage' = stage
            BY <2>1, <2>9 DEF life, stage
        <3> QED
            BY <3>1 DEF Contract!vars, life, stage, LifeOf, StageOf
    <2> QED
        BY <2>2, <2>3, <2>4, <2>5, <2>6, <2>7, <2>8, <2>9 DEF Allowed
<1> QED
    BY <1>1, <1>2, NextIsStep

\* The system keeps the promise of PreviewContract: only the deletion of its
\* Application takes a whole database away.
THEOREM Refines == Spec => KeepsContract
<1>1. Init => Contract!Init
    BY DEF Init, Contract!Init, NoDatabase, Live, Whole, Exists
<1> QED
    BY <1>1, RefineStep, Invariance, PTL DEF Spec, KeepsContract, Contract!Spec
=============================================================================
