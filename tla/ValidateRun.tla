---------------------------- MODULE ValidateRun ----------------------------
(***************************************************************************)
(* One run of scripts/validate.sh on one tree of the repository: renders   *)
(* and checks in a fixed order, checks left out for want of a tool, and    *)
(* the verdict of finish_validation.                                       *)
(*                                                                         *)
(* What the static checks decide is in ChartGates, ProjectKinds,           *)
(* PreviewBudget, SecretWiring and DnsRecords.  A check may also fail for  *)
(* any other reason.  A tree is a record [guards, apps, projects, pods,    *)
(* quota, wiring, dns, gone]; `gone' are files that its scripts no longer  *)
(* write.                                                                  *)
(***************************************************************************)
EXTENDS Integers, Sequences, FiniteSets

CONSTANTS
    Trees,      \* the trees that may be under review
    MayLack,    \* the optional checks whose tool may be missing
    Numbers,    \* of pull requests, other than the one that is rendered
    DnsNames,   \* names of DNS records
    Leftovers,  \* which groups of files an earlier run may have left
    ExpectedSecrets, SourceCount    \* of the External Secrets contract

ClusterKinds == {"Namespace", "ClusterRole"}
PinnedObjects == {<<"SecretStore", "aws">>}

Gates == INSTANCE ChartGates
Kinds == INSTANCE ProjectKinds WITH ClusterKind <- ClusterKinds, Pinned <- PinnedObjects
Budget == INSTANCE PreviewBudget
Wiring == INSTANCE SecretWiring
Dns == INSTANCE DnsRecords

VARIABLES
    tree,
    strict,     \* VALIDATE_STRICT=1
    disk,       \* the validation directory: each group of files
    at,         \* how many checks are behind us
    passed, skipped,
    outcome,    \* "running", "green" or "red"
    stale       \* history: files read that this run had not written

vars == <<tree, strict, disk, at, passed, skipped, outcome, stale>>

\* The checks in their order, and those that need a tool or the base branch.
Order ==
    <<"sources", "version", "argocdTree", "tests", "desired", "previews",
      "testApi", "guards", "renders", "argocd", "platform", "observability",
      "projects", "contracts", "syntax", "lint", "types", "cloudformation",
      "playbooks", "ansible", "schemas", "promql", "rules", "runtime">>

Optional == {"version", "lint", "types", "cloudformation", "playbooks",
             "ansible", "schemas", "promql", "rules", "runtime"}

Check == {Order[i] : i \in DOMAIN Order}

\* The files in groups.  "configs": rules, schemas and backend configurations.
File == {"desired", "previews", "testApi", "renders", "argocd", "platform",
         "observability", "configs"}

Writes(check) == CASE check = "observability" -> {"observability", "configs"}
                   [] check \in File \ {"observability"} -> {check}
                   [] OTHER -> {}

\* What a check names, and what it takes if it is there (a glob).
Needs(check) == CASE check = "observability" -> {"argocd"}
                  [] check = "contracts" -> {"renders", "previews", "observability"}
                  [] check = "schemas" -> {"renders", "argocd", "observability",
                                           "platform", "configs"}
                  [] check \in {"rules", "runtime"} -> {"configs"}
                  [] OTHER -> {}

Globs(check) == CASE check = "observability" -> {"platform"}
                  [] check = "projects" -> {app.file : app \in tree.apps} \ {"", "git"}
                  [] OTHER -> {}

Reads(check) == Needs(check) \cup Globs(check)

\* A registered render is one that validate.sh writes.  That the preview
\* namespace has Pods of five kinds only is taken for granted by the code.
ASSUME ValidateAssumption ==
    /\ DnsNames \subseteq Dns!Name
    /\ \A t \in Trees :
           /\ \A app \in t.apps : app.file \in File \cup {"", "git"}
           /\ Budget!IsPods(t.pods)
           /\ t.dns.external.names \subseteq Dns!Name
           /\ \A i \in t.dns.ingresses \cup {t.dns.api} :
                  i.rules \cup i.tls \cup i.named \subseteq Dns!Name

Init ==
    /\ tree \in Trees /\ strict \in BOOLEAN
    \* A new directory, or VALIDATION_OUTPUT_DIR as an earlier run left it.
    /\ \E left \in Leftovers :
           disk = [f \in File |-> IF f \in left THEN "stale" ELSE "absent"]
    /\ at = 0 /\ passed = {} /\ skipped = {} /\ outcome = "running" /\ stale = {}

-----------------------------------------------------------------------------
ContractsHold ==
    /\ Budget!BudgetHolds(tree.pods, tree.quota)
    /\ Wiring!WiringHolds(tree.wiring)
    /\ Dns!DnsHolds(tree.dns)

Holds(check) ==
    /\ \A f \in Needs(check) : disk[f] # "absent"
    /\ Gates!Passes(tree.guards, check)
    /\ CASE check = "projects" -> Kinds!Accepts(tree.apps, tree.projects, disk)
         [] check = "contracts" -> ContractsHold
         [] OTHER -> TRUE

Coming(check) == outcome = "running" /\ at < Len(Order) /\ check = Order[at + 1]

Pass(check) ==
    /\ Coming(check) /\ Holds(check)
    /\ disk' = [f \in File |-> IF f \in Writes(check) \ tree.gone THEN "fresh"
                               ELSE disk[f]]
    /\ passed' = passed \cup {check} /\ at' = at + 1
    /\ stale' = stale \cup {f \in Reads(check) : disk[f] = "stale"}
    /\ UNCHANGED <<tree, strict, skipped, outcome>>

\* set -e.
Fail(check) ==
    /\ Coming(check) /\ outcome' = "red"
    /\ UNCHANGED <<tree, strict, disk, at, passed, skipped, stale>>

\* optional_check, skip_check
Unrecorded(check) == skipped        \* fault: the reason is only printed

Recorded(check) == skipped \cup {check}

Skip(check) ==
    /\ Coming(check) /\ check \in Optional \cap MayLack
    /\ skipped' = Recorded(check) /\ at' = at + 1
    /\ UNCHANGED <<tree, strict, disk, passed, outcome, stale>>

Finish ==
    /\ outcome = "running" /\ at = Len(Order)
    /\ outcome' = IF skipped = {} \/ ~strict THEN "green" ELSE "red"
    /\ UNCHANGED <<tree, strict, disk, at, passed, skipped, stale>>

Next == Finish \/ \E check \in Check : Pass(check) \/ Fail(check) \/ Skip(check)

Spec == Init /\ [][Next]_vars

-----------------------------------------------------------------------------
(***************************************************************************)
(* Properties.  Each says what a reviewer may conclude from a green run.   *)
(***************************************************************************)
Green == outcome = "green"

\* Every check has run and passed on what this very run has rendered, or is
\* named among the skipped; none is skipped where a strict run was asked for.
\* A file of an earlier run is read only where the tree no longer writes it.
GreenMeansChecked ==
    Green => /\ passed \cup skipped = Check /\ passed \cap skipped = {}
             /\ strict => skipped = {}
             /\ stale \subseteq tree.gone

\* No guard that the negative renders are about can be lost unnoticed, except
\* those that another guard hides in every one of these renders.
Hidden == {"fcmOff", "fcmSecret", "report", "seedSecret", "runtimeTestApi",
           "testApiEnv", "testApiIngressEnv", "showDeployed"}

LostGuardIsSeen ==
    Green => LET lost == Gates!Guard \ tree.guards
             IN  /\ lost \subseteq Hidden
                 /\ ~({"fcmOff", "fcmSecret"} \subseteq lost)
                 /\ ~({"testApiEnv", "testApiIngressEnv"} \subseteq lost)

\* Argo CD will sync what is merged: every resource of an Application is one
\* that its project permits, and no project permits a kind that nothing needs.
\* Not seen are charts without a registered render in a project without a
\* whitelist, and renders that only an earlier run has made.
Seen(app) ==
    \/ Kinds!Fresh(app, disk)
    \/ /\ Kinds!Missing(app, disk)
       /\ app.project \in DOMAIN tree.projects => tree.projects[app.project].listed

GreenTreeSyncs ==
    Green =>
        /\ \A app \in tree.apps : Seen(app) =>
               /\ app.project \in DOMAIN tree.projects
               /\ \A o \in app.objects : Kinds!Permits(tree.projects[app.project], o)
        /\ \A name \in DOMAIN tree.projects :
               LET members == {app \in tree.apps : app.project = name}
                   needed == UNION {{o.kind : o \in app.objects} : app \in members}
               IN  tree.projects[name].listed /\ (\A app \in members : Seen(app)) =>
                       tree.projects[name].whitelist \subseteq
                           needed \cup tree.projects[name].extras

\* The quota of the preview namespace is exactly the worst moment of two pull
\* requests: no Pod of theirs is turned away, and there is no room for more.
QuotaIsWorstCase == Green => tree.quota = Budget!WorstCase(tree.pods)

\* Whatever the stores read, a Secret is filled from the worksheet its path
\* belongs to.  To a namespace that only DevRole trusts nothing comes but from
\* dev's worksheet, even if keys are crossed under a neutral prefix; and who
\* assumes DevRole gets whatever it reads of dev.  Of the other environments
\* only the union of all roles is compared.
DevStaysInDev ==
    Green =>
        LET wiring == tree.wiring
        IN  \A datum \in wiring.data :
                LET path == Wiring!Path(wiring, datum)
                    got == Wiring!Delivered(wiring, datum)
                IN  /\ got \subseteq {Wiring!Worksheet(path)}
                    /\ Wiring!OnlyDev(wiring, datum.namespace) => got \subseteq {"dev"}
                    /\ (/\ Wiring!Under(path, "dev")
                        /\ wiring.stores[datum.namespace].role = "dev"
                        /\ datum.namespace \in wiring.roles["dev"].trusts)
                           => got = {"dev"}

\* IAM lets ExternalDNS make the records of every preview, although the check
\* only sees those of the sample, unless a pattern spells the sample out; and
\* of other names none but below the preview domain.  The challenges stay with
\* cert-manager, unless a host begins like one or with the pull request.
RecordsOf(number) ==
    LET hosts == Dns!Hosts(tree.dns, number)
    IN  (hosts \X tree.dns.types) \cup
        {<<Dns!Owner(type, host), "TXT">> : type \in tree.dns.types \ {"TXT"}, host \in hosts}

DnsRightsFit ==
    Green =>
        LET dns == tree.dns
        IN  /\ (\A pattern \in dns.external.names : Dns!Holes(pattern, Dns!Sample) = {}) =>
                   \A number \in Numbers : \A record \in RecordsOf(number) :
                       record[2] \in dns.types => Dns!MayWrite(dns, record[1], record[2])
            /\ \A name \in DnsNames, type \in dns.types : Dns!MayWrite(dns, name, type) =>
                   \/ name \in {record[1] : record \in RecordsOf(Dns!Sample)}
                   \/ name[Len(name)] = Dns!PreviewDomain
            /\ (\A host \in Dns!Hosts(dns, Dns!Sample) : host[1] \notin {Dns!Challenge, Dns!Sample}) =>
                   \A name \in dns.certManager.names : ~Dns!MayWrite(dns, name, "TXT")
=============================================================================
