------------------------- MODULE ValidateRun_proofs -------------------------
(***************************************************************************)
(* Proofs about ValidateRun: for any set of trees, whatever guards their   *)
(* charts have lost, whatever their Applications render, their projects    *)
(* permit and their stores read, and for any missing tools.                *)
(*                                                                         *)
(* A run is a walk over Order.  What a check has found stays true to the   *)
(* end because nothing writes what it has read (WritersFirst).             *)
(***************************************************************************)
EXTENDS ValidateRun, TLAPS, SequenceTheorems, FiniteSetTheorems

Done(n) == {Order[i] : i \in 1..n}

\* The place in the order at which each group of files is written.
Writer == [desired |-> 5, previews |-> 6, testApi |-> 7, renders |-> 9, argocd |-> 10,
           platform |-> 11, observability |-> 12, configs |-> 12]

TypeOK ==
    /\ tree \in Trees /\ strict \in BOOLEAN
    /\ disk \in [File -> {"absent", "stale", "fresh"}]
    /\ at \in 0..24 /\ outcome \in {"running", "green", "red"}

\* Every check behind us has passed or is recorded as skipped.
Walk ==
    /\ passed \cup skipped = Done(at) /\ passed \cap skipped = {}
    /\ skipped \subseteq Optional

\* What should have been written by now has been, by this run.
Rendered ==
    \A f \in File \ tree.gone : Writer[f] <= at => disk[f] = "fresh"

\* What the checks have found is still so.
Findings ==
    /\ \A check \in passed : Gates!Passes(tree.guards, check)
    /\ "contracts" \in passed => ContractsHold
    /\ "projects" \in passed => Kinds!Accepts(tree.apps, tree.projects, disk)

Verdict == Green => at = 24 /\ (strict => skipped = {})

IInv ==
    TypeOK /\ Walk /\ Rendered /\ stale \subseteq tree.gone /\ Findings /\ Verdict

-----------------------------------------------------------------------------
\* The order of the checks.
LEMMA OrderLength == Len(Order) = 24 /\ DOMAIN Order = 1..24
    BY DEF Order

LEMMA OrderInjective ==
    ASSUME NEW i \in 1..24, NEW j \in 1..24, Order[i] = Order[j]
    PROVE  i = j
    BY SMTT(60) DEF Order

LEMMA DoneNext ==
    ASSUME NEW n \in 0..23
    PROVE  Done(n + 1) = Done(n) \cup {Order[n + 1]} /\ Order[n + 1] \notin Done(n)
<1>1. 1..n + 1 = 1..n \cup {n + 1}
    OBVIOUS
<1>2. Done(n + 1) = Done(n) \cup {Order[n + 1]}
    BY <1>1 DEF Done
<1>3. ASSUME Order[n + 1] \in Done(n)
      PROVE  FALSE
    <2>1. PICK i \in 1..n : Order[i] = Order[n + 1]
        BY <1>3 DEF Done
    <2>2. i \in 1..24 /\ n + 1 \in 1..24 /\ i # n + 1
        OBVIOUS
    <2> QED
        BY <2>1, <2>2, OrderInjective
<1> QED
    BY <1>2, <1>3

LEMMA DoneAll == Done(24) = Check
    BY OrderLength DEF Done, Check

\* What the check at each place writes.  Nothing is written after the renders
\* are compared with the projects.
LEMMA WritersFirst ==
    ASSUME NEW i \in 13..24
    PROVE  Writes(Order[i]) = {}
    BY SMTT(60) DEF Order, Writes, File

LEMMA WritersRun ==
    ASSUME NEW f \in File
    PROVE  /\ Writer[f] \in 1..12 /\ f \in Writes(Order[Writer[f]])
           /\ Order[Writer[f]] \notin Optional
    BY SMTT(60) DEF Order, Writes, File, Writer, Optional

LEMMA ProjectsAt ==
    ASSUME NEW i \in 1..24, Order[i] = "projects"
    PROVE  i = 13
    BY SMTT(60) DEF Order

\* Everything a check reads has been written before it.
LEMMA ReadsWritten ==
    ASSUME NEW i \in 1..24, tree \in Trees, NEW f \in Reads(Order[i])
    PROVE  f \in File /\ Writer[f] < i
<1>1. CASE f \in Needs(Order[i])
    BY SMTT(60), <1>1 DEF Needs, Order, File, Writer
<1>2. CASE f \in Globs(Order[i])
    <2>1. CASE Order[i] = "observability"
        <3>0. Globs("observability") = {"platform"}
            BY DEF Globs
        <3>1. f = "platform" /\ i = 12
            BY SMTT(60), <1>2, <2>1, <3>0 DEF Order
        <3> QED
            BY <3>1 DEF File, Writer
    <2>2. CASE Order[i] = "projects"
        <3>1. f \in {app.file : app \in tree.apps} \ {"", "git"}
            BY <1>2, <2>2 DEF Globs
        <3>4. i = 13
            BY <2>2, ProjectsAt
        <3>2. f \in File
            BY <3>1, ValidateAssumption
        <3>3. Writer[f] \in 1..12
            BY <3>2, WritersRun
        <3> QED
            BY <3>2, <3>3, <3>4
    <2>3. CASE Order[i] \notin {"observability", "projects"}
        BY <1>2, <2>3 DEF Globs
    <2> QED
        BY <2>1, <2>2, <2>3
<1> QED
    BY <1>1, <1>2 DEF Reads

-----------------------------------------------------------------------------
LEMMA InitIInv == Init => IInv
<1> SUFFICES ASSUME Init
             PROVE  IInv
    OBVIOUS
<1>1. TypeOK
    BY DEF Init, TypeOK
<1>2. Walk
    BY DEF Init, Walk, Done
<1>3. Rendered
    BY WritersRun DEF Init, Rendered
<1> QED
    BY <1>1, <1>2, <1>3 DEF Init, IInv, Findings, Verdict, Green

LEMMA PassStep ==
    ASSUME IInv, NEW check \in Check, Pass(check)
    PROVE  IInv'
<1> USE DEF IInv
<1>1. /\ at \in 0..23 /\ check = Order[at + 1] /\ at' = at + 1 /\ outcome = "running"
      /\ passed' = passed \cup {check} /\ UNCHANGED <<tree, strict, skipped, outcome>>
    BY OrderLength DEF Pass, Coming, TypeOK
<1>2. TypeOK'
    BY <1>1 DEF TypeOK, Pass
<1>3. Walk'
    BY <1>1, DoneNext DEF Walk
<1>4. Rendered'
    <2> SUFFICES ASSUME NEW f \in File \ tree.gone, Writer[f] <= at + 1
                 PROVE  disk'[f] = "fresh"
        BY <1>1 DEF Rendered
    <2>1. Writer[f] \in Int
        BY WritersRun
    <2>2. CASE Writer[f] <= at
        BY <2>2 DEF Rendered, Pass
    <2>3. CASE Writer[f] = at + 1
        BY <1>1, <2>3, WritersRun DEF Pass
    <2> QED
        BY <1>1, <2>1, <2>2, <2>3
<1>5. stale' \subseteq tree'.gone
    <2> SUFFICES ASSUME NEW f \in Reads(check), disk[f] = "stale", f \notin tree.gone
                 PROVE  FALSE
        BY <1>1 DEF Pass
    <2>1. f \in File /\ Writer[f] < at + 1
        BY <1>1, ReadsWritten DEF TypeOK
    <2>2. Writer[f] <= at
        BY <1>1, <2>1, WritersRun
    <2> QED
        BY <2>1, <2>2 DEF Rendered
<1>6. Findings'
    <2>1. \A c \in passed' : Gates!Passes(tree'.guards, c)
        BY <1>1 DEF Findings, Pass, Holds
    <2>2. ContractsHold' <=> ContractsHold
        BY <1>1 DEF ContractsHold
    <2>3. "contracts" \in passed' => ContractsHold'
        BY <1>1, <2>2 DEF Findings, Pass, Holds
    <2>4. ASSUME "projects" \in passed'
          PROVE  Kinds!Accepts(tree.apps, tree.projects, disk)'
        <3>1. PICK i \in 1..at + 1 : Order[i] = "projects"
            BY <1>1, <1>3, <2>4 DEF Walk, Done
        <3>2. at + 1 \in 13..24
            BY <1>1, <3>1, ProjectsAt
        <3>3. disk' = disk
            BY <1>1, <3>2, WritersFirst DEF Pass, TypeOK
        <3>4. Kinds!Accepts(tree.apps, tree.projects, disk)
            BY <1>1, <2>4 DEF Findings, Pass, Holds
        <3> QED
            BY <1>1, <3>3, <3>4
    <2> QED
        BY <2>1, <2>3, <2>4 DEF Findings
<1>7. Verdict'
    BY <1>1 DEF Verdict, Green
<1> QED
    BY <1>2, <1>3, <1>4, <1>5, <1>6, <1>7

LEMMA SkipStep ==
    ASSUME IInv, NEW check \in Check, Skip(check)
    PROVE  IInv'
<1> USE DEF IInv
<1>1. /\ at \in 0..23 /\ check = Order[at + 1] /\ at' = at + 1 /\ outcome = "running"
      /\ skipped' = skipped \cup {check} /\ check \in Optional
      /\ UNCHANGED <<tree, strict, disk, passed, outcome, stale>>
    BY OrderLength DEF Skip, Coming, TypeOK, Recorded
<1>2. TypeOK'
    BY <1>1 DEF TypeOK
<1>3. Walk'
    BY <1>1, DoneNext DEF Walk
<1>4. Rendered'
    <2> SUFFICES ASSUME NEW f \in File \ tree.gone, Writer[f] <= at + 1
                 PROVE  disk[f] = "fresh"
        BY <1>1 DEF Rendered
    <2>1. Writer[f] \in Int /\ Writer[f] # at + 1
        BY <1>1, WritersRun
    <2> QED
        BY <1>1, <2>1 DEF Rendered
<1>5. Findings'
    BY <1>1 DEF Findings, ContractsHold
<1>6. Verdict'
    BY <1>1 DEF Verdict, Green
<1> QED
    BY <1>1, <1>2, <1>3, <1>4, <1>5, <1>6

LEMMA OtherStep ==
    ASSUME IInv, Finish \/ UNCHANGED vars \/ \E check \in Check : Fail(check)
    PROVE  IInv'
<1> USE DEF IInv
<1>1. UNCHANGED <<tree, strict, disk, at, passed, skipped, stale>>
    BY DEF Finish, vars, Fail
<1>2. TypeOK' /\ Walk' /\ Rendered' /\ (stale \subseteq tree.gone)' /\ Findings'
    <2>1. TypeOK'
        BY <1>1 DEF TypeOK, Finish, vars, Fail
    <2>2. Walk' /\ Rendered'
        BY <1>1 DEF Walk, Rendered
    <2>3. Findings'
        BY <1>1 DEF Findings, ContractsHold
    <2> QED
        BY <1>1, <2>1, <2>2, <2>3
<1>3. Verdict'
    <2>1. CASE Finish
        BY <1>1, <2>1, OrderLength DEF Finish, Verdict, Green
    <2>2. CASE UNCHANGED vars
        BY <2>2 DEF vars, Verdict, Green
    <2>3. CASE \E check \in Check : Fail(check)
        BY <2>3 DEF Fail, Verdict, Green
    <2> QED
        BY <2>1, <2>2, <2>3
<1> QED
    BY <1>2, <1>3

\* What holds throughout a run.
THEOREM Invariance == Spec => []IInv
<1>1. IInv /\ [Next]_vars => IInv'
    BY PassStep, SkipStep, OtherStep DEF Next
<1> QED
    BY InitIInv, <1>1, PTL DEF Spec

\* A chart that passes the checks with negative renders.
AllPass(chart) ==
    \A check \in {"previews", "testApi", "guards"} : Gates!Passes(chart, check)

\* The checks that no tool can be missing for have passed in a green run.
LEMMA GreenFindings ==
    ASSUME IInv, Green
    PROVE  /\ AllPass(tree.guards) /\ ContractsHold
           /\ Kinds!Accepts(tree.apps, tree.projects, disk)
<1>1. passed \cup skipped = Done(24) /\ skipped \subseteq Optional
    BY DEF IInv, Walk, Verdict
<1>2. {"previews", "testApi", "guards", "contracts", "projects"} \subseteq Done(24)
    <2>1. /\ Order[6] = "previews" /\ Order[7] = "testApi" /\ Order[8] = "guards"
          /\ Order[14] = "contracts" /\ Order[13] = "projects"
        BY DEF Order
    <2> QED
        BY <2>1 DEF Done
<1>3. {"previews", "testApi", "guards", "contracts", "projects"} \cap Optional = {}
    BY DEF Optional
<1> QED
    BY <1>1, <1>2, <1>3 DEF IInv, Findings, AllPass

\* A green run has left nothing out in silence, nothing at all if it was
\* strict, and has read no file of an earlier run that this tree writes.
THEOREM GreenChecked == Spec => []GreenMeansChecked
<1>1. IInv => GreenMeansChecked
    BY DoneAll DEF IInv, GreenMeansChecked, Walk, Verdict
<1> QED
    BY Invariance, <1>1, PTL

-----------------------------------------------------------------------------
\* Argo CD syncs whatever a green run has seen of whatever Applications and
\* projects: the four kinds of errors leave no room for another.
THEOREM GreenSyncs == Spec => []GreenTreeSyncs
<1>1. IInv => GreenTreeSyncs
    <2> SUFFICES ASSUME IInv, Green
                 PROVE  GreenTreeSyncs
        BY DEF GreenTreeSyncs
    <2>1. Kinds!Accepts(tree.apps, tree.projects, disk)
        BY GreenFindings
    <2>2. ASSUME NEW app \in tree.apps, Seen(app)
          PROVE  Kinds!Read(app, disk) = app.objects
        <3>1. app.project \in DOMAIN tree.projects
            BY <2>1 DEF Kinds!Accepts, Kinds!RejectedKinds
        <3>2. Kinds!Fresh(app, disk)
            BY <2>1, <2>2, <3>1 DEF Seen, Kinds!Accepts, Kinds!MissingRenders
        <3> QED
            BY <3>2 DEF Kinds!Fresh, Kinds!Missing, Kinds!Read
    <2>3. ASSUME NEW app \in tree.apps, Seen(app)
          PROVE  /\ app.project \in DOMAIN tree.projects
                 /\ \A o \in app.objects : Kinds!Permits(tree.projects[app.project], o)
        BY <2>1, <2>2, <2>3 DEF Kinds!Accepts, Kinds!RejectedKinds
    <2>4. ASSUME NEW name \in DOMAIN tree.projects, tree.projects[name].listed,
                 \A app \in {a \in tree.apps : a.project = name} : Seen(app),
                 NEW kind \in tree.projects[name].whitelist,
                 kind \notin tree.projects[name].extras
          PROVE  \E app \in {a \in tree.apps : a.project = name} :
                     \E o \in app.objects : kind = o.kind
        <3> DEFINE shown == Kinds!Resources(tree.apps, name, disk)
        <3>1. tree.projects[name].whitelist \subseteq
                  ({o.kind : o \in shown} \ ClusterKinds) \cup tree.projects[name].extras
            BY <2>1, <2>4 DEF Kinds!Accepts, Kinds!DriftErrors, Kinds!Drift
        <3>2. PICK o \in shown : kind = o.kind
            BY <2>4, <3>1
        <3>3. PICK app \in {a \in tree.apps : a.project = name} : o \in Kinds!Read(app, disk)
            BY <3>2 DEF Kinds!Resources
        <3> QED
            BY <2>2, <2>4, <3>2, <3>3
    <2>5. ASSUME NEW name \in DOMAIN tree.projects, tree.projects[name].listed,
                 \A app \in {a \in tree.apps : a.project = name} : Seen(app)
          PROVE  tree.projects[name].whitelist \subseteq
                     (UNION {{o.kind : o \in app.objects} :
                                app \in {a \in tree.apps : a.project = name}})
                     \cup tree.projects[name].extras
        <3> SUFFICES ASSUME NEW kind \in tree.projects[name].whitelist,
                            kind \notin tree.projects[name].extras
                     PROVE  kind \in UNION {{o.kind : o \in app.objects} :
                                       app \in {a \in tree.apps : a.project = name}}
            OBVIOUS
        <3>1. PICK app \in {a \in tree.apps : a.project = name} :
                  \E o \in app.objects : kind = o.kind
            BY <2>4, <2>5
        <3>2. kind \in {o.kind : o \in app.objects}
            BY <3>1
        <3> QED
            BY <3>2
    <2> QED
        BY <2>3, <2>5 DEF GreenTreeSyncs
<1> QED
    BY Invariance, <1>1, PTL

-----------------------------------------------------------------------------
\* Whatever secrets are expected, whatever the stores' prefixes and the keys:
\* after a green run dev's namespaces, if AWS trusts them with no role but
\* DevRole, get dev's values only, and whoever assumes it gets all of dev's.
THEOREM GreenDevStays == Spec => []DevStaysInDev
<1>1. IInv => DevStaysInDev
    <2> DEFINE w == tree.wiring
    <2> SUFFICES ASSUME IInv, Green, NEW datum \in w.data
                 PROVE  LET path == Wiring!Path(w, datum)
                            got == Wiring!Delivered(w, datum)
                        IN  /\ got \subseteq {Wiring!Worksheet(path)}
                            /\ Wiring!OnlyDev(w, datum.namespace) => got \subseteq {"dev"}
                            /\ (/\ Wiring!Under(path, "dev")
                                /\ w.stores[datum.namespace].role = "dev"
                                /\ datum.namespace \in w.roles["dev"].trusts)
                                   => got = {"dev"}
        BY DEF DevStaysInDev
    <2> DEFINE path == Wiring!Path(w, datum)
               got == Wiring!Delivered(w, datum)
               ns == datum.namespace
    <2>1. Wiring!WiringHolds(w)
        BY GreenFindings DEF ContractsHold
    <2>2. path \in Wiring!Sources(w)
        BY DEF Wiring!Sources
    <2>3. path \in DOMAIN w.uploads /\ w.uploads[path] = Wiring!Worksheet(path)
        BY <2>1, <2>2 DEF Wiring!WiringHolds, Wiring!UploadsMatch
    <2>4. got = IF Wiring!MayRead(w, ns, path) THEN {Wiring!Worksheet(path)} ELSE {}
        BY <2>3 DEF Wiring!Delivered
    <2>5. Wiring!Under(path, "dev") => Wiring!Worksheet(path) = "dev"
        BY DEF Wiring!Under, Wiring!Worksheet
    <2>6. /\ "dev" \in DOMAIN w.roles /\ 1 \in DOMAIN w.roles["dev"].statements
          /\ w.roles["dev"].statements[1] = Wiring!DevSources(w)
        BY <2>1 DEF Wiring!WiringHolds, Wiring!DevReads, Wiring!HasDevRole
    <2>7. ASSUME Wiring!OnlyDev(w, ns), Wiring!MayRead(w, ns, path)
          PROVE  Wiring!Under(path, "dev")
        <3>1. Wiring!Readable(w.roles["dev"]) = Wiring!DevSources(w)
            BY <2>6, <2>7 DEF Wiring!OnlyDev, Wiring!Readable
        <3>2. path \in Wiring!DevSources(w) \/ Wiring!Wild \in Wiring!DevSources(w)
            BY <2>7, <3>1 DEF Wiring!OnlyDev, Wiring!MayRead
        <3>3. Len(Wiring!Wild) = 1
            BY DEF Wiring!Wild
        <3>4. ~Wiring!Under(Wiring!Wild, "dev")
            BY <3>3 DEF Wiring!Under
        <3> QED
            BY <3>2, <3>4 DEF Wiring!DevSources
    <2>8. ASSUME Wiring!Under(path, "dev"), w.stores[ns].role = "dev",
                 ns \in w.roles["dev"].trusts
          PROVE  Wiring!MayRead(w, ns, path)
        <3>1. path \in w.roles["dev"].statements[1]
            BY <2>2, <2>6, <2>8 DEF Wiring!DevSources
        <3>2. path \in Wiring!Readable(w.roles["dev"])
            BY <2>6, <3>1 DEF Wiring!Readable
        <3> QED
            BY <2>6, <2>8, <3>2 DEF Wiring!MayRead
    <2> QED
        BY <2>4, <2>5, <2>7, <2>8
<1> QED
    BY Invariance, <1>1, PTL

-----------------------------------------------------------------------------
\* What values must be like to run into each guard.
LEMMA ViolatedBy ==
    ASSUME NEW v, NEW g \in Gates!Violated(v)
    PROVE  \/ g \in v.unlimited /\ v.ingress /\ v.deployed
           \/ g = "digest" /\ v.deployed /\ ~v.digest
           \/ g = "seedRuntime" /\ v.deployed /\ v.seed /\ ("seed" \notin v.secrets \/ ~v.testApi)
           \/ g = "testApiEnv" /\ v.deployed /\ v.testApi /\ v.env = "prod"
           \/ g = "testApiRuntime" /\ v.deployed /\ v.testApi /\ ~v.runtime
           \/ g = "runtimeTestApi" /\ v.deployed /\ ~v.testApi /\ v.runtime
           \/ g = "bucket" /\ v.deployed /\ v.bucket # v.env
           \/ g = "region" /\ v.deployed /\ ~v.seoul
           \/ g = "prodSender" /\ v.deployed /\ v.provider = "ses" /\ v.env = "prod" /\ v.sender # "prod"
           \/ g = "otherSender" /\ v.deployed /\ v.provider = "ses" /\ v.env # "prod" /\ v.sender # "nonprod"
           \/ g = "qr" /\ v.deployed /\ ~v.qr
           \/ g = "fcmOn" /\ v.deployed /\ v.env # "preview" /\ ~v.fcm
           \/ g = "fcmOff" /\ v.deployed /\ v.env = "preview" /\ v.fcm
           \/ g = "fcmSecret" /\ v.deployed /\ v.fcm /\ "fcm" \notin v.secrets
           \/ g = "noFcmSecret" /\ v.deployed /\ v.env = "preview" /\ "fcm" \in v.secrets
           \/ g = "report" /\ v.deployed /\ v.env # "preview" /\ "report" \notin v.secrets
           \/ g = "seedSecret" /\ v.deployed /\ v.env = "dev" /\ "seed" \notin v.secrets
           \/ g = "issuer" /\ v.ingress /\ v.env # "preview" /\ v.issuer # "production"
           \/ g = "target" /\ v.ingress /\ v.deployed /\ v.target = "bootstrap"
           \/ g = "testApiIngressEnv" /\ v.ingress /\ v.deployed /\ v.testApi /\ v.env = "prod"
<1>1. CASE v.deployed /\ g \in Gates!DeploymentGuards(v)
    BY <1>1 DEF Gates!DeploymentGuards, Gates!TestApiGuards, Gates!StorageGuards,
              Gates!SenderGuards, Gates!FcmGuards, Gates!SecretGuards, Gates!If
<1>2. CASE v.ingress /\ g \in Gates!IngressGuards(v)
    BY <1>2 DEF Gates!IngressGuards, Gates!If
<1> QED
    BY <1>1, <1>2 DEF Gates!Violated

\* A chart that passes has a guard of every refused render.
LEMMA GuardLeft ==
    ASSUME NEW chart, AllPass(chart), NEW v \in Gates!Refused,
           NEW G, Gates!Violated(v) \subseteq G
    PROVE  \E g \in G : g \in chart
<1>1. v \in Gates!RefusedBy("previews") \/ v \in Gates!RefusedBy("guards")
    BY DEF Gates!RefusedBy
<1>2. Gates!Refuses(chart, v)
    BY <1>1 DEF AllPass, Gates!Passes
<1> QED
    BY <1>2 DEF Gates!Refuses

\* A guard that is the only one a negative render runs into, one lemma each.
LEMMA KeepsQr ==
    ASSUME NEW chart, AllPass(chart)
    PROVE  "qr" \in chart
<1> DEFINE v == [Gates!Prod EXCEPT !.qr = FALSE]
<1>1. /\ v.env = "prod" /\ v.bucket = "prod" /\ v.provider = "smtp" /\ v.secrets = {"fcm", "report"}
      /\ v.issuer = "production" /\ v.target = "public" /\ v.unlimited = {}
      /\ v.deployed /\ v.ingress /\ v.digest /\ ~v.qr /\ v.seoul
      /\ v.fcm /\ ~v.testApi /\ ~v.runtime /\ ~v.seed
    BY DEF Gates!Prod, Gates!Common, Gates!Desired
<1>2. v \in Gates!Refused
    BY DEF Gates!Refused, Gates!RefusedProd
<1> HIDE DEF v
<1>3. Gates!Violated(v) \subseteq {"qr"}
    BY <1>1, ViolatedBy
<1> QED
    BY <1>2, <1>3, GuardLeft

LEMMA KeepsFcmOn ==
    ASSUME NEW chart, AllPass(chart)
    PROVE  "fcmOn" \in chart
<1> DEFINE v == [Gates!Prod EXCEPT !.fcm = FALSE]
<1>1. /\ v.env = "prod" /\ v.bucket = "prod" /\ v.provider = "smtp" /\ v.secrets = {"fcm", "report"}
      /\ v.issuer = "production" /\ v.target = "public" /\ v.unlimited = {}
      /\ v.deployed /\ v.ingress /\ v.digest /\ v.qr /\ v.seoul
      /\ ~v.fcm /\ ~v.testApi /\ ~v.runtime /\ ~v.seed
    BY DEF Gates!Prod, Gates!Common, Gates!Desired
<1>2. v \in Gates!Refused
    BY DEF Gates!Refused, Gates!RefusedProd
<1> HIDE DEF v
<1>3. Gates!Violated(v) \subseteq {"fcmOn"}
    BY <1>1, ViolatedBy
<1> QED
    BY <1>2, <1>3, GuardLeft

LEMMA KeepsBucket ==
    ASSUME NEW chart, AllPass(chart)
    PROVE  "bucket" \in chart
<1> DEFINE v == [Gates!Prod EXCEPT !.bucket = "dev"]
<1>1. /\ v.env = "prod" /\ v.bucket = "dev" /\ v.provider = "smtp" /\ v.secrets = {"fcm", "report"}
      /\ v.issuer = "production" /\ v.target = "public" /\ v.unlimited = {}
      /\ v.deployed /\ v.ingress /\ v.digest /\ v.qr /\ v.seoul
      /\ v.fcm /\ ~v.testApi /\ ~v.runtime /\ ~v.seed
    BY DEF Gates!Prod, Gates!Common, Gates!Desired
<1>2. v \in Gates!Refused
    BY DEF Gates!Refused, Gates!RefusedProd
<1> HIDE DEF v
<1>3. Gates!Violated(v) \subseteq {"bucket"}
    BY <1>1, ViolatedBy
<1> QED
    BY <1>2, <1>3, GuardLeft

LEMMA KeepsProdSender ==
    ASSUME NEW chart, AllPass(chart)
    PROVE  "prodSender" \in chart
<1> DEFINE v == [Gates!Prod EXCEPT !.provider = "ses", !.sender = "nonprod"]
<1>1. /\ v.env = "prod" /\ v.bucket = "prod" /\ v.provider = "ses" /\ v.secrets = {"fcm", "report"}
      /\ v.issuer = "production" /\ v.target = "public" /\ v.unlimited = {} /\ v.sender = "nonprod"
      /\ v.deployed /\ v.ingress /\ v.digest /\ v.qr /\ v.seoul
      /\ v.fcm /\ ~v.testApi /\ ~v.runtime /\ ~v.seed
    BY DEF Gates!Prod, Gates!Common, Gates!Desired
<1>2. v \in Gates!Refused
    BY DEF Gates!Refused, Gates!RefusedProd
<1> HIDE DEF v
<1>3. Gates!Violated(v) \subseteq {"prodSender"}
    BY <1>1, ViolatedBy
<1> QED
    BY <1>2, <1>3, GuardLeft

LEMMA KeepsIssuer ==
    ASSUME NEW chart, AllPass(chart)
    PROVE  "issuer" \in chart
<1> DEFINE v == [Gates!Prod EXCEPT !.issuer = "staging"]
<1>1. /\ v.env = "prod" /\ v.bucket = "prod" /\ v.provider = "smtp" /\ v.secrets = {"fcm", "report"}
      /\ v.issuer = "staging" /\ v.target = "public" /\ v.unlimited = {}
      /\ v.deployed /\ v.ingress /\ v.digest /\ v.qr /\ v.seoul
      /\ v.fcm /\ ~v.testApi /\ ~v.runtime /\ ~v.seed
    BY DEF Gates!Prod, Gates!Common, Gates!Desired
<1>2. v \in Gates!Refused
    BY DEF Gates!Refused, Gates!RefusedProd
<1> HIDE DEF v
<1>3. Gates!Violated(v) \subseteq {"issuer"}
    BY <1>1, ViolatedBy
<1> QED
    BY <1>2, <1>3, GuardLeft

LEMMA KeepsTarget ==
    ASSUME NEW chart, AllPass(chart)
    PROVE  "target" \in chart
<1> DEFINE v == [Gates!Prod EXCEPT !.target = "bootstrap"]
<1>1. /\ v.env = "prod" /\ v.bucket = "prod" /\ v.provider = "smtp" /\ v.secrets = {"fcm", "report"}
      /\ v.issuer = "production" /\ v.target = "bootstrap" /\ v.unlimited = {}
      /\ v.deployed /\ v.ingress /\ v.digest /\ v.qr /\ v.seoul
      /\ v.fcm /\ ~v.testApi /\ ~v.runtime /\ ~v.seed
    BY DEF Gates!Prod, Gates!Common, Gates!Desired
<1>2. v \in Gates!Refused
    BY DEF Gates!Refused, Gates!RefusedProd
<1> HIDE DEF v
<1>3. Gates!Violated(v) \subseteq {"target"}
    BY <1>1, ViolatedBy
<1> QED
    BY <1>2, <1>3, GuardLeft

LEMMA KeepsTestApi ==
    ASSUME NEW chart, AllPass(chart)
    PROVE  {"testApiEnv", "testApiIngressEnv"} \cap chart # {}
<1> DEFINE v == [Gates!Prod EXCEPT !.testApi = TRUE, !.runtime = TRUE]
<1>1. /\ v.env = "prod" /\ v.bucket = "prod" /\ v.provider = "smtp" /\ v.secrets = {"fcm", "report"}
      /\ v.issuer = "production" /\ v.target = "public" /\ v.unlimited = {}
      /\ v.deployed /\ v.ingress /\ v.digest /\ v.qr /\ v.seoul
      /\ v.fcm /\ v.testApi /\ v.runtime /\ ~v.seed
    BY DEF Gates!Prod, Gates!Common, Gates!Desired
<1>2. v \in Gates!Refused
    BY DEF Gates!Refused, Gates!RefusedProd
<1> HIDE DEF v
<1>3. Gates!Violated(v) \subseteq {"testApiEnv", "testApiIngressEnv"}
    BY <1>1, ViolatedBy
<1> QED
    BY <1>2, <1>3, GuardLeft

LEMMA KeepsRegion ==
    ASSUME NEW chart, AllPass(chart)
    PROVE  "region" \in chart
<1> DEFINE v == [Gates!Dev EXCEPT !.seoul = FALSE]
<1>1. /\ v.env = "dev" /\ v.bucket = "dev" /\ v.provider = "smtp" /\ v.secrets = {"fcm", "report", "seed"}
      /\ v.issuer = "production" /\ v.target = "public" /\ v.unlimited = {}
      /\ v.deployed /\ v.ingress /\ v.digest /\ v.qr /\ ~v.seoul
      /\ v.fcm /\ v.testApi /\ v.runtime /\ v.seed
    BY DEF Gates!Dev, Gates!Common, Gates!Desired
<1>2. v \in Gates!Refused
    BY DEF Gates!Refused, Gates!RefusedDev
<1> HIDE DEF v
<1>3. Gates!Violated(v) \subseteq {"region"}
    BY <1>1, ViolatedBy
<1> QED
    BY <1>2, <1>3, GuardLeft

LEMMA KeepsOtherSender ==
    ASSUME NEW chart, AllPass(chart)
    PROVE  "otherSender" \in chart
<1> DEFINE v == [Gates!Dev EXCEPT !.provider = "ses", !.sender = "prod"]
<1>1. /\ v.env = "dev" /\ v.bucket = "dev" /\ v.provider = "ses" /\ v.secrets = {"fcm", "report", "seed"}
      /\ v.issuer = "production" /\ v.target = "public" /\ v.unlimited = {} /\ v.sender = "prod"
      /\ v.deployed /\ v.ingress /\ v.digest /\ v.qr /\ v.seoul
      /\ v.fcm /\ v.testApi /\ v.runtime /\ v.seed
    BY DEF Gates!Dev, Gates!Common, Gates!Desired
<1>2. v \in Gates!Refused
    BY DEF Gates!Refused, Gates!RefusedDev
<1> HIDE DEF v
<1>3. Gates!Violated(v) \subseteq {"otherSender"}
    BY <1>1, ViolatedBy
<1> QED
    BY <1>2, <1>3, GuardLeft

LEMMA KeepsRuntime ==
    ASSUME NEW chart, AllPass(chart)
    PROVE  "testApiRuntime" \in chart
<1> DEFINE v == [Gates!Dev EXCEPT !.runtime = FALSE]
<1>1. /\ v.env = "dev" /\ v.bucket = "dev" /\ v.provider = "smtp" /\ v.secrets = {"fcm", "report", "seed"}
      /\ v.issuer = "production" /\ v.target = "public" /\ v.unlimited = {}
      /\ v.deployed /\ v.ingress /\ v.digest /\ v.qr /\ v.seoul
      /\ v.fcm /\ v.testApi /\ ~v.runtime /\ v.seed
    BY DEF Gates!Dev, Gates!Common, Gates!Desired
<1>2. v \in Gates!Refused
    BY DEF Gates!Refused, Gates!RefusedDev
<1> HIDE DEF v
<1>3. Gates!Violated(v) \subseteq {"testApiRuntime"}
    BY <1>1, ViolatedBy
<1> QED
    BY <1>2, <1>3, GuardLeft

LEMMA KeepsDigest ==
    ASSUME NEW chart, AllPass(chart)
    PROVE  "digest" \in chart
<1> DEFINE v == Gates!WithoutDigest
<1>1. /\ v.env = "preview" /\ v.bucket = "preview" /\ v.provider = "smtp" /\ v.secrets = {}
      /\ v.issuer = "production" /\ v.target = "public" /\ v.unlimited = {}
      /\ v.deployed /\ v.ingress /\ ~v.digest /\ v.qr /\ v.seoul
      /\ ~v.fcm /\ v.testApi /\ v.runtime /\ ~v.seed
    BY DEF Gates!WithoutDigest, Gates!PreviewPr, Gates!Preview, Gates!Common, Gates!Desired
<1>2. v \in Gates!Refused
    BY DEF Gates!Refused, Gates!RefusedPreview
<1> HIDE DEF v
<1>3. Gates!Violated(v) \subseteq {"digest"}
    BY <1>1, ViolatedBy
<1> QED
    BY <1>2, <1>3, GuardLeft

LEMMA KeepsNoFcmSecret ==
    ASSUME NEW chart, AllPass(chart)
    PROVE  "noFcmSecret" \in chart
<1> DEFINE v == [Gates!Preview EXCEPT !.secrets = {"fcm"}]
<1>1. /\ v.env = "preview" /\ v.bucket = "preview" /\ v.provider = "smtp" /\ v.secrets = {"fcm"}
      /\ v.issuer = "production" /\ v.target = "public" /\ v.unlimited = {}
      /\ v.deployed /\ ~v.ingress /\ v.digest /\ v.qr /\ v.seoul
      /\ ~v.fcm /\ v.testApi /\ v.runtime /\ ~v.seed
    BY DEF Gates!Preview, Gates!Common, Gates!Desired
<1>2. v \in Gates!Refused
    BY DEF Gates!Refused, Gates!RefusedPreview
<1> HIDE DEF v
<1>3. Gates!Violated(v) \subseteq {"noFcmSecret"}
    BY <1>1, ViolatedBy
<1> QED
    BY <1>2, <1>3, GuardLeft

LEMMA KeepsSeed ==
    ASSUME NEW chart, AllPass(chart)
    PROVE  "seedRuntime" \in chart
<1> DEFINE v == [Gates!Preview EXCEPT !.seed = TRUE]
<1>1. /\ v.env = "preview" /\ v.bucket = "preview" /\ v.provider = "smtp" /\ v.secrets = {}
      /\ v.issuer = "production" /\ v.target = "public" /\ v.unlimited = {}
      /\ v.deployed /\ ~v.ingress /\ v.digest /\ v.qr /\ v.seoul
      /\ ~v.fcm /\ v.testApi /\ v.runtime /\ v.seed
    BY DEF Gates!Preview, Gates!Common, Gates!Desired
<1>2. v \in Gates!Refused
    BY DEF Gates!Refused, Gates!RefusedPreview
<1> HIDE DEF v
<1>3. Gates!Violated(v) \subseteq {"seedRuntime"}
    BY <1>1, ViolatedBy
<1> QED
    BY <1>2, <1>3, GuardLeft

LEMMA KeepsFcm ==
    ASSUME NEW chart, AllPass(chart)
    PROVE  {"fcmOff", "fcmSecret"} \cap chart # {}
<1> DEFINE v == [Gates!Preview EXCEPT !.fcm = TRUE]
<1>1. /\ v.env = "preview" /\ v.bucket = "preview" /\ v.provider = "smtp" /\ v.secrets = {}
      /\ v.issuer = "production" /\ v.target = "public" /\ v.unlimited = {}
      /\ v.deployed /\ ~v.ingress /\ v.digest /\ v.qr /\ v.seoul
      /\ v.fcm /\ v.testApi /\ v.runtime /\ ~v.seed
    BY DEF Gates!Preview, Gates!Common, Gates!Desired
<1>2. v \in Gates!Refused
    BY DEF Gates!Refused, Gates!RefusedPreview
<1> HIDE DEF v
<1>3. Gates!Violated(v) \subseteq {"fcmOff", "fcmSecret"}
    BY <1>1, ViolatedBy
<1> QED
    BY <1>2, <1>3, GuardLeft

LEMMA KeepsLimits ==
    ASSUME NEW chart, AllPass(chart), NEW limit \in Gates!Limits
    PROVE  limit \in chart
<1> DEFINE v == [Gates!Prod EXCEPT !.unlimited = {limit}]
<1>1. /\ v.env = "prod" /\ v.bucket = "prod" /\ v.provider = "smtp" /\ v.secrets = {"fcm", "report"}
      /\ v.issuer = "production" /\ v.target = "public" /\ v.unlimited = {limit}
      /\ v.deployed /\ v.ingress /\ v.digest /\ v.qr /\ v.seoul
      /\ v.fcm /\ ~v.testApi /\ ~v.runtime /\ ~v.seed
    BY DEF Gates!Prod, Gates!Common, Gates!Desired
<1>2. v \in Gates!Refused
    BY DEF Gates!Refused, Gates!UnlimitedEdges
<1> HIDE DEF v
<1>3. Gates!Violated(v) \subseteq {limit}
    BY <1>1, ViolatedBy
<1> QED
    BY <1>2, <1>3, GuardLeft

LEMMA KeepsShowIngress ==
    ASSUME NEW chart, AllPass(chart)
    PROVE  "showIngress" \in chart
<1> DEFINE v == [Gates!Dev EXCEPT !.ingress = FALSE]
<1>1. v.testApi /\ v.deployed
    BY DEF Gates!Dev, Gates!Common, Gates!Desired
<1>2. v \in Gates!WithoutTestApi
    BY DEF Gates!WithoutTestApi
<1> HIDE DEF v
<1>3. ~Gates!ShowsTestApi(chart, v)
    BY <1>2 DEF AllPass, Gates!Passes
<1> QED
    BY <1>1, <1>3 DEF Gates!ShowsTestApi

LEMMA NoOtherLimits ==
    ASSUME NEW v \in Gates!Refused
    PROVE  v.unlimited \subseteq Gates!Limits
<1> DEFINE Plain(w) == "unlimited" \in DOMAIN w /\ w.unlimited = {}
<1>1. Plain(Gates!Prod) /\ Plain(Gates!Dev) /\ Plain(Gates!Preview) /\ Plain(Gates!PreviewPr)
    BY DEF Gates!Prod, Gates!Dev, Gates!Preview, Gates!PreviewPr, Gates!Common, Gates!Desired
<1>2. CASE v \in Gates!RefusedProd
    BY <1>1, <1>2 DEF Gates!RefusedProd
<1>3. CASE v \in Gates!RefusedDev
    BY <1>1, <1>3 DEF Gates!RefusedDev
<1>4. CASE v \in Gates!RefusedPreview
    BY <1>1, <1>4 DEF Gates!RefusedPreview, Gates!WithoutDigest
<1>5. ASSUME NEW limit \in Gates!Limits, v = [Gates!Prod EXCEPT !.unlimited = {limit}]
      PROVE  v.unlimited = {limit}
    BY <1>1, <1>5
<1> QED
    BY <1>2, <1>3, <1>4, <1>5 DEF Gates!Refused, Gates!UnlimitedEdges

LEMMA GuardIs ==
    ASSUME NEW g \in Gates!Guard, g \notin Hidden
    PROVE  \/ g \in Gates!Limits
           \/ g \in {"digest", "seedRuntime", "testApiRuntime", "bucket", "region", "prodSender",
                     "otherSender", "qr", "fcmOn", "noFcmSecret", "issuer", "target",
                     "showIngress"}
<1>1. CASE g \in Gates!Limits \cup {"showDeployed", "showIngress"}
    BY <1>1 DEF Hidden
<1>2. ASSUME NEW v \in Gates!Refused, g \in Gates!Violated(v)
      PROVE  \/ g \in Gates!Limits
             \/ g \in {"digest", "seedRuntime", "testApiRuntime", "bucket", "region",
                       "prodSender", "otherSender", "qr", "fcmOn", "noFcmSecret", "issuer",
                       "target"}
    BY <1>2, ViolatedBy, NoOtherLimits DEF Hidden
<1> QED
    BY <1>1, <1>2 DEF Gates!Guard

\* A chart of a green run has every guard but hidden ones, and of two that hide
\* each other it has one.
THEOREM GreenShowsLoss == Spec => []LostGuardIsSeen
<1>1. IInv => LostGuardIsSeen
    <2> SUFFICES ASSUME IInv, Green
                 PROVE  LostGuardIsSeen
        BY DEF LostGuardIsSeen
    <2>1. AllPass(tree.guards)
        BY GreenFindings
    <2>2. ASSUME NEW g \in Gates!Guard \ tree.guards
          PROVE  g \in Hidden
        BY <2>1, <2>2, GuardIs, KeepsLimits, KeepsShowIngress, KeepsQr, KeepsFcmOn, KeepsBucket,
           KeepsProdSender, KeepsIssuer, KeepsTarget, KeepsRegion, KeepsOtherSender, KeepsRuntime,
           KeepsDigest, KeepsNoFcmSecret, KeepsSeed
    <2>3. {"fcmOff", "fcmSecret"} \cap tree.guards # {}
        BY <2>1, KeepsFcm
    <2>4. {"testApiEnv", "testApiIngressEnv"} \cap tree.guards # {}
        BY <2>1, KeepsTestApi
    <2> QED
        BY <2>2, <2>3, <2>4 DEF LostGuardIsSeen
<1> QED
    BY Invariance, <1>1, PTL

-----------------------------------------------------------------------------
\* Names of DNS records.
Sequence(name) == name # <<>> /\ \E T : name \in Seq(T)

LEMMA NamesAre ==
    ASSUME NEW name, Sequence(name)
    PROVE  Len(name) \in Nat \ {0} /\ DOMAIN name = 1..Len(name)
<1>1. PICK T : name \in Seq(T)
    BY DEF Sequence
<1> QED
    BY <1>1 DEF Sequence

LEMMA SameNames ==
    ASSUME NEW r, NEW x, Sequence(r), Sequence(x), Len(r) = Len(x),
           \A k \in 1..Len(r) : r[k] = x[k]
    PROVE  r = x
<1>1. PICK S : r \in Seq(S)
    BY DEF Sequence
<1>2. PICK T : x \in Seq(T)
    BY DEF Sequence
<1>3. r = [k \in 1..Len(r) |-> r[k]] /\ x = [k \in 1..Len(x) |-> x[k]]
    BY <1>1, <1>2
<1> QED
    BY <1>3

LEMMA FilledName ==
    ASSUME NEW name, Sequence(name), NEW hole, NEW piece
    PROVE  /\ Sequence(Dns!Filled(name, hole, piece))
           /\ Len(Dns!Filled(name, hole, piece)) = Len(name)
           /\ \A k \in 1..Len(name) :
                  Dns!Filled(name, hole, piece)[k] = IF name[k] = hole THEN piece ELSE name[k]
<1> DEFINE f == Dns!Filled(name, hole, piece)
<1>1. PICK S : name \in Seq(S)
    BY DEF Sequence
<1>2. Len(name) \in Nat \ {0} /\ DOMAIN name = 1..Len(name)
    BY NamesAre
<1>3. f \in [1..Len(name) -> S \cup {piece}]
    BY <1>1, <1>2 DEF Dns!Filled
<1>4. f \in Seq(S \cup {piece}) /\ Len(f) = Len(name)
    BY <1>2, <1>3
<1> QED
    BY <1>2, <1>4 DEF Dns!Filled, Sequence

LEMMA OwnerName ==
    ASSUME NEW host, Sequence(host), NEW type
    PROVE  /\ Sequence(Dns!Owner(type, host))
           /\ Len(Dns!Owner(type, host)) = Len(host) + 2
           /\ Dns!Owner(type, host)[1] = Dns!TxtPrefix /\ Dns!Owner(type, host)[2] = type
           /\ \A k \in 1..Len(host) : Dns!Owner(type, host)[k + 2] = host[k]
<1>1. PICK S : host \in Seq(S)
    BY DEF Sequence
<1> DEFINE T == S \cup {Dns!TxtPrefix, type}
           s == <<Dns!TxtPrefix, type>>
<1>2. host \in Seq(T) /\ s \in Seq(T) /\ Len(s) = 2
    BY <1>1
<1>3. /\ s \o host \in Seq(T) /\ Len(s \o host) = Len(host) + 2
      /\ \A k \in 1..Len(host) + 2 : (s \o host)[k] = IF k <= 2 THEN s[k] ELSE host[k - 2]
    BY <1>2, ConcatProperties
<1>4. Len(host) \in Nat
    BY <1>1
<1>5. s \o host # <<>>
    BY <1>3, <1>4
<1>6. \A k \in 1..Len(host) : (s \o host)[k + 2] = host[k]
    BY <1>3, <1>4
<1>7. (s \o host)[1] = s[1] /\ (s \o host)[2] = s[2]
    BY <1>3, <1>4
<1> QED
    BY <1>3, <1>5, <1>6, <1>7 DEF Sequence, Dns!Owner

\* Two names that are the same but for the sample are matched by the same
\* patterns, if these do not spell it out.
LEMMA LikeSample ==
    ASSUME NEW p, NEW r, NEW x, Sequence(p), Sequence(r), Sequence(x),
           Dns!Like(p, r), Dns!Holes(p, Dns!Sample) = {}, Len(x) = Len(r),
           \A k \in 1..Len(r) : r[k] # x[k] => r[k] = Dns!Sample
    PROVE  Dns!Like(p, x)
<1>1. \A k \in 1..Len(p) : p[k] # Dns!Sample
    BY NamesAre DEF Dns!Holes
<1>2. CASE p = r
    <2>1. \A k \in 1..Len(r) : r[k] = x[k]
        BY <1>1, <1>2
    <2>2. x = r
        BY <2>1, SameNames
    <2> QED
        BY <1>2, <2>2
<1>3. ASSUME NEW i \in Dns!Holes(p, Dns!Star), Len(r) - Len(p) >= -1,
             \A k \in 1..i - 1 : r[k] = p[k],
             \A k \in i + 1..Len(p) : r[Len(r) - Len(p) + k] = p[k]
      PROVE  Dns!Like(p, x)
    <2>1. i \in 1..Len(p) /\ Len(p) \in Nat /\ Len(r) \in Nat
        BY NamesAre DEF Dns!Holes
    <2>2. ASSUME NEW k \in 1..i - 1
          PROVE  x[k] = p[k]
        <3>1. k \in 1..Len(r) /\ k \in 1..Len(p) /\ r[k] = p[k]
            BY <1>3, <2>1
        <3> QED
            BY <1>1, <3>1
    <2>3. ASSUME NEW k \in i + 1..Len(p)
          PROVE  x[Len(x) - Len(p) + k] = p[k]
        <3>1. /\ Len(r) - Len(p) + k \in 1..Len(r) /\ k \in 1..Len(p)
              /\ r[Len(r) - Len(p) + k] = p[k]
            BY <1>3, <2>1
        <3> QED
            BY <1>1, <3>1
    <2> QED
        BY <1>3, <2>2, <2>3 DEF Dns!Like
<1> QED
    BY <1>2, <1>3 DEF Dns!Like

\* What a narrow pattern matches is one of the names, or in the preview domain.
LEMMA LikeNarrow ==
    ASSUME NEW p, NEW x, Sequence(p), Sequence(x), NEW S, Dns!Narrow(p, S), Dns!Like(p, x)
    PROVE  x \in S \/ x[Len(x)] = Dns!PreviewDomain
<1>1. CASE Dns!Holes(p, Dns!Star) = {}
    <2>1. Dns!Filled(p, Dns!Star, Dns!Sample) = p
        BY <1>1, FilledName, NamesAre, SameNames DEF Dns!Holes
    <2> QED
        BY <1>1, <2>1 DEF Dns!Narrow, Dns!Like
<1>2. ASSUME Dns!Holes(p, Dns!Star) # {}
      PROVE  x[Len(x)] = Dns!PreviewDomain
    <2>1. p[Len(p)] = Dns!PreviewDomain
        BY <1>2 DEF Dns!Narrow
    <2>2. CASE p = x
        BY <2>1, <2>2
    <2>3. ASSUME NEW i \in Dns!Holes(p, Dns!Star),
                 \A k \in i + 1..Len(p) : x[Len(x) - Len(p) + k] = p[k]
          PROVE  x[Len(x)] = Dns!PreviewDomain
        <3>1. i \in 1..Len(p) /\ p[i] = Dns!Star /\ Len(p) \in Nat /\ Len(x) \in Nat
            BY NamesAre DEF Dns!Holes
        <3>2. i # Len(p)
            BY <2>1, <3>1 DEF Dns!Star, Dns!PreviewDomain
        <3>3. Len(p) \in i + 1..Len(p) /\ Len(x) - Len(p) + Len(p) = Len(x)
            BY <3>1, <3>2
        <3>4. x[Len(x) - Len(p) + Len(p)] = p[Len(p)]
            BY <2>3, <3>3
        <3> QED
            BY <2>1, <3>3, <3>4
    <2> QED
        BY <2>2, <2>3 DEF Dns!Like
<1> QED
    BY <1>1, <1>2

\* What is matched begins like one of the names, or one begins with the sample.
LEMMA LikeBegins ==
    ASSUME NEW p, NEW x, Sequence(p), Sequence(x), NEW S, Dns!Narrow(p, S), Dns!Like(p, x)
    PROVE  \E name \in S : name[1] \in {x[1], Dns!Sample}
<1> DEFINE name == Dns!Filled(p, Dns!Star, Dns!Sample)
<1>1. name \in S
    BY DEF Dns!Narrow
<1>2. 1 \in 1..Len(p)
    BY NamesAre
<1>3. name[1] = IF p[1] = Dns!Star THEN Dns!Sample ELSE p[1]
    BY <1>2, FilledName
<1>4. p[1] = x[1] \/ p[1] = Dns!Star
    <2>1. CASE p = x
        BY <2>1
    <2>2. ASSUME NEW i \in Dns!Holes(p, Dns!Star), \A k \in 1..i - 1 : x[k] = p[k]
          PROVE  p[1] = x[1] \/ p[1] = Dns!Star
        <3>1. i \in 1..Len(p) /\ p[i] = Dns!Star /\ Len(p) \in Nat
            BY NamesAre DEF Dns!Holes
        <3>2. CASE i = 1
            BY <3>1, <3>2
        <3>3. CASE i # 1
            BY <2>2, <3>1, <3>3
        <3> QED
            BY <3>2, <3>3
    <2> QED
        BY <2>1, <2>2 DEF Dns!Like
<1> QED
    BY <1>1, <1>3, <1>4

\* The records of two pull requests differ where the sample stands.
LEMMA RecordsAlike ==
    ASSUME NEW host, Sequence(host), NEW number, NEW type
    PROVE  LET r == Dns!Filled(host, Dns!Number, Dns!Sample)
               x == Dns!Filled(host, Dns!Number, number)
           IN  /\ Sequence(r) /\ Sequence(x) /\ Len(x) = Len(r)
               /\ \A k \in 1..Len(r) : r[k] # x[k] => r[k] = Dns!Sample
               /\ Sequence(Dns!Owner(type, r)) /\ Sequence(Dns!Owner(type, x))
               /\ Len(Dns!Owner(type, x)) = Len(Dns!Owner(type, r))
               /\ \A k \in 1..Len(Dns!Owner(type, r)) :
                      Dns!Owner(type, r)[k] # Dns!Owner(type, x)[k] =>
                          Dns!Owner(type, r)[k] = Dns!Sample
<1> DEFINE r == Dns!Filled(host, Dns!Number, Dns!Sample)
           x == Dns!Filled(host, Dns!Number, number)
<1>1. /\ Sequence(r) /\ Sequence(x) /\ Len(x) = Len(r) /\ Len(r) = Len(host)
      /\ \A k \in 1..Len(r) : r[k] # x[k] => r[k] = Dns!Sample
    BY FilledName
<1> HIDE DEF r, x
<1>2. Len(r) \in Nat
    BY <1>1, NamesAre
<1>3. ASSUME NEW k \in 1..Len(r) + 2, Dns!Owner(type, r)[k] # Dns!Owner(type, x)[k]
      PROVE  Dns!Owner(type, r)[k] = Dns!Sample
    <2>1. k # 1 /\ k # 2
        BY <1>1, <1>3, OwnerName
    <2>2. PICK j \in 1..Len(r) : k = j + 2
        <3>1. k - 2 \in 1..Len(r) /\ k = (k - 2) + 2
            BY <1>2, <2>1
        <3> QED
            BY <3>1
    <2>3. Dns!Owner(type, r)[j + 2] = r[j] /\ Dns!Owner(type, x)[j + 2] = x[j]
        BY <1>1, OwnerName
    <2> QED
        BY <1>1, <1>3, <2>2, <2>3
<1> QED
    BY <1>1, <1>3, OwnerName DEF r, x

LEMMA TreeNames ==
    ASSUME tree \in Trees
    PROVE  /\ \A p \in tree.dns.external.names : Sequence(p)
           /\ \A name \in DnsNames : Sequence(name)
           /\ \A i \in tree.dns.ingresses \cup {tree.dns.api} :
                  \A host \in i.rules \cup i.tls \cup i.named : Sequence(host)
<1>1. \A name \in Dns!Name : Sequence(name)
    BY DEF Dns!Name, Sequence
<1> QED
    BY <1>1, ValidateAssumption

LEMMA HostsAre ==
    ASSUME tree \in Trees, NEW number, NEW host \in Dns!Hosts(tree.dns, number)
    PROVE  \E template : /\ Sequence(template) /\ host = Dns!Filled(template, Dns!Number, number)
                         /\ Dns!Filled(template, Dns!Number, Dns!Sample) \in
                                Dns!Hosts(tree.dns, Dns!Sample)
    BY TreeNames DEF Dns!Hosts

\* What a check of the records has found of a tree.
LEMMA RecordsChecked ==
    ASSUME tree \in Trees, Dns!NamesHold(tree.dns),
           NEW name \in Dns!RecordNames(Dns!Hosts(tree.dns, Dns!Sample), tree.dns.types)
    PROVE  \E p \in tree.dns.external.names : Sequence(p) /\ Dns!Like(p, name)
    BY TreeNames DEF Dns!NamesHold

LEMMA EveryPreview ==
    ASSUME tree \in Trees, Dns!DnsHolds(tree.dns),
           \A p \in tree.dns.external.names : Dns!Holes(p, Dns!Sample) = {},
           NEW number, NEW record \in RecordsOf(number), record[2] \in tree.dns.types
    PROVE  Dns!MayWrite(tree.dns, record[1], record[2])
<1> DEFINE dns == tree.dns
           sampled == Dns!Hosts(dns, Dns!Sample)
<1>1. dns.external.types = dns.types /\ Dns!NamesHold(dns)
    BY DEF Dns!DnsHolds, Dns!PoliciesHold
<1>2. SUFFICES \E p \in dns.external.names : Dns!Like(p, record[1])
    BY <1>1 DEF Dns!MayWrite
<1>3. CASE record \in Dns!Hosts(dns, number) \X dns.types
    <2>1. PICK template : /\ Sequence(template)
                          /\ record[1] = Dns!Filled(template, Dns!Number, number)
                          /\ Dns!Filled(template, Dns!Number, Dns!Sample) \in sampled
        BY <1>3, HostsAre
    <2>2. Dns!Filled(template, Dns!Number, Dns!Sample) \in Dns!RecordNames(sampled, dns.types)
        BY <2>1 DEF Dns!RecordNames
    <2>3. PICK p \in dns.external.names :
              Sequence(p) /\ Dns!Like(p, Dns!Filled(template, Dns!Number, Dns!Sample))
        BY <1>1, <2>2, RecordsChecked
    <2>4. Dns!Like(p, record[1])
        BY <2>1, <2>3, RecordsAlike, LikeSample
    <2> QED
        BY <2>4
<1>4. ASSUME NEW type \in dns.types \ {"TXT"}, NEW host \in Dns!Hosts(dns, number),
             record = <<Dns!Owner(type, host), "TXT">>
      PROVE  \E p \in dns.external.names : Dns!Like(p, record[1])
    <2>1. PICK template : /\ Sequence(template)
                          /\ host = Dns!Filled(template, Dns!Number, number)
                          /\ Dns!Filled(template, Dns!Number, Dns!Sample) \in sampled
        BY HostsAre
    <2>2. Dns!Owner(type, Dns!Filled(template, Dns!Number, Dns!Sample)) \in
              Dns!RecordNames(sampled, dns.types)
        BY <2>1 DEF Dns!RecordNames
    <2>3. PICK p \in dns.external.names :
              /\ Sequence(p)
              /\ Dns!Like(p, Dns!Owner(type, Dns!Filled(template, Dns!Number, Dns!Sample)))
        BY <1>1, <2>2, RecordsChecked
    <2>4. Dns!Like(p, Dns!Owner(type, host))
        BY <2>1, <2>3, RecordsAlike, LikeSample
    <2> QED
        BY <1>4, <2>4
<1> QED
    BY <1>3, <1>4 DEF RecordsOf

LEMMA NothingElse ==
    ASSUME tree \in Trees, Dns!DnsHolds(tree.dns), NEW name \in DnsNames, NEW type,
           Dns!MayWrite(tree.dns, name, type)
    PROVE  \/ name \in {record[1] : record \in RecordsOf(Dns!Sample)}
           \/ name[Len(name)] = Dns!PreviewDomain
<1> DEFINE dns == tree.dns
           names == Dns!RecordNames(Dns!Hosts(dns, Dns!Sample), dns.types)
<1>1. PICK p \in dns.external.names : Dns!Like(p, name)
    BY DEF Dns!MayWrite
<1>2. Dns!Narrow(p, names) /\ type \in dns.types
    BY DEF Dns!DnsHolds, Dns!NamesHold, Dns!PoliciesHold, Dns!MayWrite
<1>3. Sequence(p) /\ Sequence(name)
    BY TreeNames
<1>4. name \in names \/ name[Len(name)] = Dns!PreviewDomain
    BY <1>1, <1>2, <1>3, LikeNarrow
<1>5. ASSUME name \in Dns!Hosts(dns, Dns!Sample)
      PROVE  \E record \in RecordsOf(Dns!Sample) : name = record[1]
    <2>1. <<name, type>> \in RecordsOf(Dns!Sample)
        BY <1>2, <1>5 DEF RecordsOf
    <2> QED
        BY <2>1
<1>6. ASSUME NEW t \in dns.types \ {"TXT"}, NEW host \in Dns!Hosts(dns, Dns!Sample),
             name = Dns!Owner(t, host)
      PROVE  \E record \in RecordsOf(Dns!Sample) : name = record[1]
    <2>1. <<name, "TXT">> \in RecordsOf(Dns!Sample)
        BY <1>6 DEF RecordsOf
    <2> QED
        BY <2>1
<1> QED
    BY <1>4, <1>5, <1>6 DEF Dns!RecordNames

LEMMA ChallengesApart ==
    ASSUME tree \in Trees, Dns!DnsHolds(tree.dns),
           \A host \in Dns!Hosts(tree.dns, Dns!Sample) :
               host[1] \notin {Dns!Challenge, Dns!Sample},
           NEW name \in tree.dns.certManager.names
    PROVE  ~Dns!MayWrite(tree.dns, name, "TXT")
<1> DEFINE dns == tree.dns
           hosts == Dns!Hosts(dns, Dns!Sample)
<1> SUFFICES ASSUME NEW p \in dns.external.names, Dns!Like(p, name)
             PROVE  FALSE
    BY DEF Dns!MayWrite
<1>1. name \in Dns!Challenges
    BY DEF Dns!DnsHolds, Dns!PoliciesHold
<1>2. name[1] = Dns!Challenge /\ Sequence(name)
    <2>1. CASE name = <<Dns!Challenge, Dns!PreviewDomain>>
        <3>1. name \in Seq({Dns!Challenge, Dns!PreviewDomain})
            BY <2>1
        <3> QED
            BY <2>1, <3>1 DEF Sequence
    <2>2. ASSUME NEW label, name = <<Dns!Challenge, label, Dns!Zone>>
          PROVE  name[1] = Dns!Challenge /\ Sequence(name)
        <3>1. name \in Seq({Dns!Challenge, label, Dns!Zone})
            BY <2>2
        <3> QED
            BY <2>2, <3>1 DEF Sequence
    <2> QED
        BY <1>1, <2>1, <2>2 DEF Dns!Challenges
<1>3. Dns!Narrow(p, Dns!RecordNames(hosts, dns.types)) /\ Sequence(p)
    BY TreeNames DEF Dns!DnsHolds, Dns!NamesHold
<1>4. PICK other \in Dns!RecordNames(hosts, dns.types) : other[1] \in {Dns!Challenge, Dns!Sample}
    BY <1>2, <1>3, LikeBegins
<1>5. PICK type, host : host \in hosts /\ other = Dns!Owner(type, host)
    <2>1. other \notin hosts
        BY <1>4
    <2>2. other \in {Dns!Owner(type, host) : type \in dns.types \ {"TXT"}, host \in hosts}
        BY <1>4, <2>1 DEF Dns!RecordNames
    <2> HIDE DEF hosts
    <2> QED
        BY <2>2
<1>6. Sequence(host)
    <2>1. PICK template : /\ Sequence(template)
                          /\ host = Dns!Filled(template, Dns!Number, Dns!Sample)
        BY <1>5, HostsAre
    <2> QED
        BY <2>1, FilledName
<1>7. other[1] = Dns!TxtPrefix
    BY <1>5, <1>6, OwnerName
<1> QED
    BY <1>4, <1>7 DEF Dns!TxtPrefix, Dns!Challenge, Dns!Sample

\* After a green run ExternalDNS may make the records of every preview and of
\* no other name but below the preview domain: for any Ingresses and patterns,
\* although the run has only seen one preview.
THEOREM GreenDnsFits == Spec => []DnsRightsFit
<1>1. IInv => DnsRightsFit
    <2> SUFFICES ASSUME IInv, Green
                 PROVE  DnsRightsFit
        BY DEF DnsRightsFit
    <2>1. tree \in Trees /\ Dns!DnsHolds(tree.dns)
        BY GreenFindings DEF ContractsHold, IInv, TypeOK
    <2> QED
        BY <2>1, EveryPreview, NothingElse, ChallengesApart DEF DnsRightsFit
<1> QED
    BY Invariance, <1>1, PTL

-----------------------------------------------------------------------------
(***************************************************************************)
(* The quota.  Sums and greatest elements are not taken from the library's *)
(* folds, which no prover unfolds: that they exist is shown from the least *)
(* place at which they would not.                                          *)
(***************************************************************************)

\* Of the natural numbers in a set one is the least.
LEMMA Least ==
    ASSUME NEW T, T \subseteq Nat, T # {}
    PROVE  \E n \in T : \A m \in T : n <= m
<1>1. PICK n \in T : \A m \in T : ~(<<m, n>> \in OpToRel(<, Nat))
    <2> HIDE DEF OpToRel
    <2> QED
        BY NatLessThanWellFounded, WFMin
<1>2. \A m \in T : ~(m < n)
    BY <1>1 DEF OpToRel
<1> QED
    BY <1>2

\* The first sums of a list of numbers.
SumsOf(f, amounts, n) ==
    f = [i \in 0..n |-> IF i = 0 THEN 0 ELSE f[i - 1] + amounts[i]]

\* They exist ...
LEMMA SumsExist ==
    ASSUME NEW amounts, NEW n \in Nat, \A i \in 1..n : amounts[i] \in Nat
    PROVE  \E f : SumsOf(f, amounts, n)
<1> DEFINE Good(k) == \E g \in [0..n -> Nat] :
                          g[0] = 0 /\ \A i \in 1..k : g[i] = g[i - 1] + amounts[i]
           Bad == {k \in 0..n : ~Good(k)}
<1>1. Good(0)
    <2> DEFINE zero == [i \in 0..n |-> 0]
    <2>1. zero \in [0..n -> Nat] /\ zero[0] = 0
        OBVIOUS
    <2>2. \A i \in 1..0 : FALSE
        OBVIOUS
    <2> HIDE DEF zero
    <2> QED
        BY <2>1, <2>2
<1>2. ASSUME NEW k \in 1..n, Good(k - 1)
      PROVE  Good(k)
    <2>1. PICK g \in [0..n -> Nat] :
              g[0] = 0 /\ \A i \in 1..(k - 1) : g[i] = g[i - 1] + amounts[i]
        BY <1>2
    <2> DEFINE h == [g EXCEPT ![k] = g[k - 1] + amounts[k]]
    <2>2. k \in Nat /\ k # 0 /\ k \in 0..n /\ k - 1 \in 0..n /\ 0 \in 0..n
        OBVIOUS
    <2>3. g[k - 1] + amounts[k] \in Nat
        <3>1. g[k - 1] \in Nat
            BY <2>1, <2>2
        <3> QED
            BY <3>1
    <2>4. h \in [0..n -> Nat] /\ h[0] = 0
        BY <2>1, <2>2, <2>3
    <2>5. h[k] = h[k - 1] + amounts[k]
        BY <2>1, <2>2
    <2>6. ASSUME NEW i \in 1..(k - 1) PROVE h[i] = h[i - 1] + amounts[i]
        <3>1. i \in 0..n /\ i - 1 \in 0..n /\ i # k /\ i - 1 # k
            OBVIOUS
        <3> QED
            BY <2>1, <3>1
    <2> HIDE DEF h
    <2>7. \A i \in 1..k : i = k \/ i \in 1..(k - 1)
        OBVIOUS
    <2> QED
        BY <2>4, <2>5, <2>6, <2>7
<1> HIDE DEF Good
<1>3. Bad = {}
    <2> SUFFICES ASSUME Bad # {} PROVE FALSE
        OBVIOUS
    <2>1. Bad \subseteq Nat
        OBVIOUS
    <2>2. PICK k \in Bad : \A j \in Bad : k <= j
        <3> HIDE DEF Bad
        <3> QED
            BY <2>1, Least
    <2>3. k \in 1..n /\ k - 1 \in 0..n
        BY <1>1, <2>2
    <2>4. k - 1 \notin Bad
        BY <2>2, <2>3
    <2> QED
        BY <1>2, <2>2, <2>3, <2>4
<1>4. Good(n)
    BY <1>3
<1>5. PICK g \in [0..n -> Nat] : g[0] = 0 /\ \A i \in 1..n : g[i] = g[i - 1] + amounts[i]
    BY <1>4 DEF Good
<1>6. ASSUME NEW i \in 0..n
      PROVE  g[i] = IF i = 0 THEN 0 ELSE g[i - 1] + amounts[i]
    <2>1. i = 0 \/ i \in 1..n
        OBVIOUS
    <2> QED
        BY <1>5, <2>1
<1> QED
    BY <1>5, <1>6 DEF SumsOf

\* ... and are numbers.
LEMMA SumsAre ==
    ASSUME NEW amounts, NEW n \in Nat, \A i \in 1..n : amounts[i] \in Nat,
           NEW f, SumsOf(f, amounts, n)
    PROVE  f[n] \in Nat
<1> DEFINE Bad == {k \in 0..n : f[k] \notin Nat}
<1>1. Bad = {}
    <2> SUFFICES ASSUME Bad # {} PROVE FALSE
        OBVIOUS
    <2>1. Bad \subseteq Nat
        OBVIOUS
    <2>2. PICK k \in Bad : \A j \in Bad : k <= j
        <3> HIDE DEF Bad
        <3> QED
            BY <2>1, Least
    <2>3. f[0] = 0
        BY DEF SumsOf
    <2>4. k \in 1..n /\ k - 1 \in 0..n
        BY <2>2, <2>3
    <2>5. f[k - 1] \in Nat
        BY <2>2, <2>4
    <2>6. f[k] = f[k - 1] + amounts[k]
        BY <2>4 DEF SumsOf
    <2> QED
        BY <2>2, <2>4, <2>5, <2>6
<1> QED
    BY <1>1

\* The total of a list of numbers is a number.
LEMMA TotalIs ==
    ASSUME NEW amounts \in Seq(Nat)
    PROVE  Budget!Total(amounts) \in Nat
<1> DEFINE n == Len(amounts)
           f == CHOOSE f : SumsOf(f, amounts, n)
<1>1. n \in Nat /\ \A i \in 1..n : amounts[i] \in Nat
    BY LenProperties, ElementOfSeq
<1>2. Budget!Total(amounts) = f[n]
    BY DEF Budget!Total, SumsOf
<1>3. SumsOf(f, amounts, n)
    BY <1>1, SumsExist
<1> HIDE DEF f, n
<1> QED
    BY <1>1, <1>2, <1>3, SumsAre

\* A finite set of numbers has a greatest.
LEMMA MaxIs ==
    ASSUME NEW S, S \subseteq Nat, IsFiniteSet(S), S # {}
    PROVE  Budget!Max(S) \in S /\ \A x \in S : x <= Budget!Max(S)
<1> DEFINE Bad == {A \in SUBSET S : A # {} /\ ~\E x \in A : \A y \in A : x >= y}
<1>1. Bad = {}
    <2> SUFFICES ASSUME Bad # {} PROVE FALSE
        OBVIOUS
    <2>1. PICK A \in Bad : \A C \in Bad : ~(<<C, A>> \in StrictSubsetOrdering(S))
        <3>1. Bad \subseteq FiniteSubsetsOf(S)
            BY FS_FiniteSubsetsOfFinite
        <3> HIDE DEF Bad
        <3> QED
            BY <3>1, FS_StrictSubsetOrderingWellFounded, WFMin
    <2>2. PICK a \in A : TRUE
        BY <2>1
    <2>3. A \ {a} \notin Bad
        BY <2>1, <2>2 DEF StrictSubsetOrdering
    <2>4. CASE A \ {a} = {}
        BY <2>1, <2>2, <2>4
    <2>5. CASE A \ {a} # {}
        <3>1. PICK b \in A \ {a} : \A y \in A \ {a} : b >= y
            BY <2>1, <2>3, <2>5
        <3> QED
            BY <2>1, <2>2, <3>1
    <2> QED
        BY <2>4, <2>5
<1>2. \E x \in S : \A y \in S : x >= y
    BY <1>1
<1> QED
    BY <1>2 DEF Budget!Max

\* What a Pod without sidecars counts for is one of its phases, and the most
\* demanding.
LEMMA PodTotalIs ==
    ASSUME NEW pod, pod.containers \in Seq(Nat), pod.init \in Seq(Nat), ~pod.sidecar
    PROVE  /\ Budget!Phases(pod) \subseteq Nat
           /\ Budget!PodTotal(pod) \in Budget!Phases(pod)
           /\ \A x \in Budget!Phases(pod) : x <= Budget!PodTotal(pod)
<1> DEFINE S == {Budget!Total(pod.containers)} \cup Budget!Range(pod.init)
<1>1. Budget!Total(pod.containers) \in Nat
    BY TotalIs
<1>2. Budget!Range(pod.init) \subseteq Nat /\ IsFiniteSet(Budget!Range(pod.init))
    <2>1. Len(pod.init) \in Nat /\ DOMAIN pod.init = 1..Len(pod.init)
        BY LenProperties
    <2>2. IsFiniteSet(1..Len(pod.init))
        BY <2>1, FS_Interval
    <2>3. \A i \in 1..Len(pod.init) : pod.init[i] \in Nat
        BY ElementOfSeq
    <2>4. Budget!Range(pod.init) = Range(pod.init)
        BY DEF Budget!Range, Range
    <2>5. pod.init \in Surjection(1..Len(pod.init), Range(pod.init))
        BY <2>1, <2>3 DEF Range, Surjection
    <2> QED
        BY <2>1, <2>2, <2>3, <2>4, <2>5, FS_Surjection DEF Range
<1>3. S \subseteq Nat /\ IsFiniteSet(S) /\ S # {}
    BY <1>1, <1>2, FS_Singleton, FS_Union
<1>4. Budget!Max(S) \in S /\ \A x \in S : x <= Budget!Max(S)
    BY <1>3, MaxIs
<1>5. Budget!PodTotal(pod) = Budget!Max(S) /\ Budget!Phases(pod) = {0} \cup S
    BY DEF Budget!PodTotal, Budget!Phases
<1> HIDE DEF S
<1>6. \A x \in S : x \in Nat
    BY <1>3
<1> QED
    BY <1>4, <1>5, <1>6

\* What the check computes for Pods without sidecars is the load of the worst
\* moment: it is reached when each Pod is at its most demanding phase.
LEMMA ExpectedIsWorst ==
    ASSUME NEW pods, Budget!IsPods(pods), \A name \in DOMAIN pods : ~pods[name].sidecar
    PROVE  Budget!Expected(pods) = Budget!WorstCase(pods)
<1> DEFINE Names == Budget!PerSlot \cup Budget!Shared
           Top(name) == Budget!PodTotal(pods[name])
           Worst == [who \in Budget!Running |-> Top(who[1])]
           Loads == {Budget!Load(m) : m \in Budget!Moments(pods)}
<1>1. ASSUME NEW name \in Names
      PROVE  /\ Budget!Phases(pods[name]) \subseteq Nat
             /\ Top(name) \in Budget!Phases(pods[name])
             /\ \A x \in Budget!Phases(pods[name]) : x <= Top(name)
    BY PodTotalIs DEF Budget!IsPods
<1>2. \A name \in Names : Top(name) \in Nat
    BY <1>1
<1>3. /\ \A name \in Budget!PerSlot : <<name, 1>> \in Budget!Running /\ <<name, 2>> \in Budget!Running
      /\ \A name \in Budget!Shared : <<name, 0>> \in Budget!Running
      /\ \A who \in Budget!Running : who[1] \in Names
    BY DEF Budget!Running, Budget!Slots
<1>4. Worst \in Budget!Moments(pods)
    BY <1>1, <1>3 DEF Budget!Moments, Budget!IsPods
<1>5. Budget!Load(Worst) = Budget!Expected(pods)
    BY <1>2, <1>3 DEF Budget!Load, Budget!Expected, Budget!Slots, Budget!PerSlot, Budget!Shared
<1>6. ASSUME NEW m \in Budget!Moments(pods)
      PROVE  Budget!Load(m) <= Budget!Expected(pods) /\ Budget!Load(m) \in Nat
    <2>1. \A who \in Budget!Running : m[who] \in Nat /\ m[who] <= Top(who[1])
        BY <1>1, <1>3 DEF Budget!Moments
    <2>2. /\ \A name \in Budget!PerSlot : /\ m[<<name, 1>>] \in Nat /\ m[<<name, 1>>] <= Top(name)
                                          /\ m[<<name, 2>>] \in Nat /\ m[<<name, 2>>] <= Top(name)
          /\ \A name \in Budget!Shared : m[<<name, 0>>] \in Nat /\ m[<<name, 0>>] <= Top(name)
        BY <1>3, <2>1
    <2> HIDE DEF Top
    <2>3. Budget!Expected(pods) = 2 * (Top("app") + Top("createdb") + Top("dropdb"))
                                  + Top("postgres") + Top("orphanCheck")
        BY DEF Top, Budget!Expected, Budget!Slots
    <2> QED
        BY <1>2, <2>2, <2>3 DEF Budget!Load, Budget!PerSlot, Budget!Shared
<1>7. Budget!Expected(pods) \in Loads /\ \A x \in Loads : x \in Nat /\ x <= Budget!Expected(pods)
    BY <1>4, <1>5, <1>6
<1>8. Budget!WorstCase(pods) = Budget!Max(Loads)
    BY DEF Budget!WorstCase
<1> HIDE DEF Loads
<1>9. Budget!Max(Loads) \in Loads /\ \A x \in Loads : Budget!Max(Loads) >= x
    BY <1>7 DEF Budget!Max
<1> QED
    BY <1>7, <1>8, <1>9

\* The quota that a green run has accepted is the worst moment of the preview
\* namespace, for Pods with any number of containers and any amounts.
THEOREM GreenQuotaExact == Spec => []QuotaIsWorstCase
<1>1. IInv => QuotaIsWorstCase
    <2> SUFFICES ASSUME IInv, Green
                 PROVE  tree.quota = Budget!WorstCase(tree.pods)
        BY DEF QuotaIsWorstCase
    <2>1. tree \in Trees /\ Budget!BudgetHolds(tree.pods, tree.quota)
        BY GreenFindings DEF ContractsHold, IInv, TypeOK
    <2>2. Budget!IsPods(tree.pods)
        BY <2>1, ValidateAssumption
    <2> QED
        BY <2>1, <2>2, ExpectedIsWorst DEF Budget!BudgetHolds
<1> QED
    BY Invariance, <1>1, PTL
=============================================================================
