---------------------------- MODULE ProjectKinds ----------------------------
(***************************************************************************)
(* argocd_project_kinds.py: the resources that the Applications render,    *)
(* against what their AppProjects permit.                                  *)
(*                                                                         *)
(* An application is a record [name, project, file, objects, left]: the    *)
(* file of the validation directory that holds its render ("" if none is   *)
(* registered, "git" if its source is a directory, which is read itself    *)
(* and counts as missing without manifests),                               *)
(* what its source renders, and what an earlier validation has left in     *)
(* that file.  An object is [kind, name, namespace, labelled].             *)
(* A project is [cluster, barred, listed, whitelist, blacklist, extras]:   *)
(* two lists for kinds of the cluster and two for namespaced ones; `listed'*)
(* says that it has a namespaced whitelist at all.                         *)
(***************************************************************************)
CONSTANTS ClusterKind, Pinned       \* CLUSTER_SCOPED, PLATFORM_ARGOCD_OBJECTS

Any == "*"      \* as a kind; as a name, "" stands for every one

Matches(entries, kind) == kind \in entries \/ Any \in entries

NamedMatch(entries, o) ==
    \E entry \in entries : /\ entry.kind \in {o.kind, Any}
                           /\ entry.name \in {o.name, ""}

Permits(project, o) ==
    IF o.kind \in ClusterKind
    THEN NamedMatch(project.cluster, o) /\ ~NamedMatch(project.barred, o)
    ELSE /\ project.listed => Matches(project.whitelist, o.kind)
         /\ ~Matches(project.blacklist, o.kind)

-----------------------------------------------------------------------------
\* disk[f] is "fresh", "stale" or "absent".
Missing(app, disk) ==
    \/ app.file = ""
    \/ app.file = "git" /\ app.objects = {}
    \/ app.file \notin {"", "git"} /\ disk[app.file] = "absent"

Fresh(app, disk) ==
    \/ app.file = "git"
    \/ app.file # "" /\ disk[app.file] = "fresh"

Read(app, disk) == IF Missing(app, disk) THEN {}
                   ELSE IF Fresh(app, disk) THEN app.objects ELSE app.left

Resources(apps, name, disk) ==
    UNION {Read(app, disk) : app \in {a \in apps : a.project = name}}

MissingRenders(apps, projects, disk) ==
    {app \in apps : /\ Missing(app, disk) /\ app.project \in DOMAIN projects
                    /\ projects[app.project].listed}

RejectedKinds(apps, projects, disk) ==
    {app \in apps : \/ app.project \notin DOMAIN projects
                    \/ \E o \in Read(app, disk) : ~Permits(projects[app.project], o)}

\* A namespaced whitelist names exactly the kinds that are rendered and the
\* extras; a kind that it lacks has been rejected above.
DriftOfExtras(project, required) ==     \* fault: what is not rendered may stay
    Any \in project.whitelist \/ ~(project.extras \subseteq project.whitelist)

Drift(project, required) ==
    \/ Any \in project.whitelist
    \/ ~(project.whitelist \subseteq required \cup project.extras)
    \/ ~(project.extras \subseteq project.whitelist \ required)

DriftErrors(apps, projects, disk) ==
    {name \in DOMAIN projects :
        /\ projects[name].listed
        /\ Drift(projects[name],
                 {o.kind : o \in Resources(apps, name, disk)} \ ClusterKind)}

\* Whitelists go by kind; what `platform' may put into argocd is pinned by name.
PlatformErrors(apps, disk) ==
    {o \in Resources(apps, "platform", disk) :
        o.namespace = "argocd" /\ (<<o.kind, o.name>> \notin Pinned \/ o.labelled)}

Accepts(apps, projects, disk) ==
    /\ MissingRenders(apps, projects, disk) = {}
    /\ RejectedKinds(apps, projects, disk) = {}
    /\ DriftErrors(apps, projects, disk) = {}
    /\ PlatformErrors(apps, disk) = {}
=============================================================================
