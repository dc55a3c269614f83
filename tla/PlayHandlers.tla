---------------------------- MODULE PlayHandlers ----------------------------
(***************************************************************************)
(* The bootstrap playbook, of which every role writes a setting to a file  *)
(* (or to a Secret) and notifies a handler that makes the running service  *)
(* take it over, and bootstrap-external-secrets-aws.sh, which does both    *)
(* itself for the credential of External Secrets.                          *)
(*                                                                         *)
(* A setting is represented by its version: what the inventory and the     *)
(* repository want, what is on the server, and what the running service    *)
(* has read.  Ansible, systemd and Kubernetes are outside the repository:  *)
(* any step can fail, and a play that fails forgets its notifications.     *)
(***************************************************************************)
EXTENDS Naturals, Sequences

CONSTANTS
    MaxVersion,     \* bound: versions of a setting
    MaxReboots      \* bound: reboots of the server

VARIABLES
    wanted, file, running,
    deployed,   \* the External Secrets controller is there
    at,         \* the step of the play, 0 if none is running
    notified,   \* the settings whose handlers will run
    outcome,    \* of the last play or script: "none", "green" or "failed"
    script,     \* the script: "idle", "apply", "restart" or "done"
    reboots,
    lost        \* history: a notification was forgotten, no restart since

host == <<wanted, file, running, deployed>>
vars == <<host, at, notified, outcome, script, reboots, lost>>

\* "secret": the aws-bootstrap Secret.
Setting == {"sshd", "journald", "kernel", "k3s", "secret"}

Init ==
    /\ wanted = [s \in Setting |-> 1] /\ file = [s \in Setting |-> 0]
    /\ running = [s \in Setting |-> 0] /\ deployed = FALSE
    /\ at = 0 /\ notified = {} /\ outcome = "none" /\ script = "idle"
    /\ reboots = 0 /\ lost = {}

-----------------------------------------------------------------------------
(***************************************************************************)
(* The play, as far as the settings are concerned.  "verify" stands for    *)
(* the tasks that only look, or change nothing of this, and may fail.      *)
(***************************************************************************)
PlayFlushedLate ==  \* fault: the handlers are left to the end of the roles
    <<"sshd", "verify", "revoke", "journald", "verify", "kernel",
      "k3s", "install", "start", "verify", "secret", "flush", "gitops">>

Play ==
    <<"sshd", "verify", "flush", "revoke",
      "journald", "verify", "kernel", "flush",
      "k3s", "install", "start", "flush", "verify",
      "secret", "flush", "gitops">>

Coming(step) == at > 0 /\ Play[at] = step

Ahead ==
    /\ at' = IF at = Len(Play) THEN 0 ELSE at + 1
    /\ outcome' = IF at = Len(Play) THEN "green" ELSE outcome
    /\ UNCHANGED <<script, reboots>>

StartPlay ==
    /\ at = 0 /\ at' = 1 /\ outcome' = "none"
    /\ UNCHANGED <<host, notified, script, reboots, lost>>

\* template and copy are idempotent; for the Secret, kubectl diff.
NotifiedOfFirst(s) ==       \* fault: notified where the file is created
    IF file[s] = 0 THEN notified \cup {s} ELSE notified

Notified(s) == IF file[s] # wanted[s] THEN notified \cup {s} ELSE notified

WriteSetting(s) ==
    /\ Coming(s)
    /\ file' = [file EXCEPT ![s] = wanted[s]]
    /\ notified' = Notified(s)
    /\ UNCHANGED <<wanted, running, deployed, lost>>
    /\ Ahead

\* A service that starts reads what is there.
ReadBy(services) ==
    /\ running' = [s \in Setting |-> IF s \in services THEN file[s] ELSE running[s]]
    /\ lost' = lost \ services

\* The handler of the Secret looks for the controller first.
Restarted(settings) == IF deployed THEN settings ELSE settings \ {"secret"}

Flush ==
    /\ Coming("flush")
    /\ ReadBy(Restarted(notified)) /\ notified' = {}
    /\ UNCHANGED <<wanted, file, deployed>>
    /\ Ahead

\* The installer runs if the version differs, and restarts the service;
\* `started' leaves a running service alone.
InstallK3s ==
    /\ Coming("install")
    /\ \/ ReadBy({"k3s"})
       \/ running["k3s"] # 0 /\ UNCHANGED <<running, lost>>
    /\ UNCHANGED <<wanted, file, deployed, notified>>
    /\ Ahead

StartK3s ==
    /\ Coming("start")
    /\ ReadBy(IF running["k3s"] = 0 THEN {"k3s"} ELSE {})
    /\ UNCHANGED <<wanted, file, deployed, notified>>
    /\ Ahead

\* verify, revoke; gitops: External Secrets is deployed, sooner or later.
OtherStep ==
    /\ \E step \in {"verify", "revoke", "gitops"} : Coming(step)
    /\ UNCHANGED <<host, notified, lost>>
    /\ Ahead

Deploy ==
    /\ outcome = "green" /\ ~deployed
    /\ deployed' = TRUE /\ ReadBy({"secret"})
    /\ UNCHANGED <<wanted, file, at, notified, outcome, script, reboots>>

\* What a step may restart, and have restarted when it fails.
RestartedBy(step) ==
    {s \in Setting :
        \/ step = "flush" /\ s \in Restarted(notified)
        \/ step = "install" /\ s = "k3s"
        \/ step = "start" /\ s = "k3s" /\ running[s] = 0}

\* A task fails or the connection breaks, maybe after the setting was written
\* and some of the services (`done') were restarted.
FailPlay ==
    /\ at > 0
    /\ \E wrote \in SUBSET ({Play[at]} \cap Setting),
          done \in SUBSET RestartedBy(Play[at]) :
           /\ file' = [s \in Setting |-> IF s \in wrote THEN wanted[s] ELSE file[s]]
           /\ running' = [s \in Setting |-> IF s \in done THEN file[s] ELSE running[s]]
    /\ lost' = {s \in lost \cup notified \cup {Play[at]} :
                   s \in Setting /\ running'[s] # file'[s]}
    /\ at' = 0 /\ notified' = {} /\ outcome' = "failed"
    /\ UNCHANGED <<wanted, deployed, script, reboots>>

-----------------------------------------------------------------------------
(***************************************************************************)
(* The script, run by hand at any time.                                    *)
(***************************************************************************)
ThenIfChanged ==    \* fault: restarted only if the Secret has changed
    IF file["secret"] = wanted["secret"] THEN "done" ELSE "restart"

Then == "restart"

StartScript ==
    /\ script \in {"idle", "done"} /\ script' = "apply"
    /\ UNCHANGED <<host, at, notified, outcome, reboots, lost>>

Apply ==
    /\ script = "apply" /\ script' = Then
    /\ file' = [file EXCEPT !["secret"] = wanted["secret"]]
    /\ UNCHANGED <<wanted, running, deployed, at, notified, outcome, reboots, lost>>

RestartByScript ==
    /\ script = "restart" /\ script' = "done"
    /\ ReadBy(Restarted({"secret"}))
    /\ UNCHANGED <<wanted, file, deployed, at, notified, outcome, reboots>>

FailScript ==
    /\ script \in {"apply", "restart"} /\ script' = "idle"
    /\ lost' = lost \cup {s \in {"secret"} : running[s] # file[s]}
    /\ UNCHANGED <<host, at, notified, outcome, reboots>>

-----------------------------------------------------------------------------
(***************************************************************************)
(* What happens between the runs, and to the server.                       *)
(***************************************************************************)
Change(s) ==
    /\ at = 0 /\ script \in {"idle", "done"} /\ wanted[s] < MaxVersion
    /\ wanted' = [wanted EXCEPT ![s] = @ + 1]
    /\ outcome' = "none" /\ script' = "idle"
    /\ UNCHANGED <<file, running, deployed, at, notified, reboots, lost>>

\* Every service comes up again; a play under way fails.
Reboot ==
    /\ reboots < MaxReboots /\ reboots' = reboots + 1
    /\ ReadBy({s \in Setting : s \in {"k3s", "secret"} => running[s] # 0})
    /\ at' = 0 /\ notified' = {}
    /\ outcome' = IF at > 0 THEN "failed" ELSE outcome
    /\ UNCHANGED <<wanted, file, deployed, script>>

Next ==
    \/ StartPlay \/ Flush \/ InstallK3s \/ StartK3s \/ OtherStep
    \/ \E s \in Setting : WriteSetting(s) \/ Change(s)
    \/ Deploy \/ FailPlay \/ Reboot
    \/ StartScript \/ Apply \/ RestartByScript \/ FailScript

Spec == Init /\ [][Next]_vars

-----------------------------------------------------------------------------
(***************************************************************************)
(* Properties.  What a failed play or script has forgotten no later play   *)
(* makes good, because it finds nothing to change: hence `lost'.  While    *)
(* the script is about to restart External Secrets, a play finds nothing   *)
(* to change either.                                                       *)
(***************************************************************************)
InEffect(s) == running[s] = wanted[s]

Excused(s) == s \in lost \/ (s = "secret" /\ (~deployed \/ script = "restart"))

\* What a step of the play builds on is in effect when it comes: accounts are
\* revoked under the new SSH policy, K3s starts under the new kernel
\* parameters, and GitOps goes on with the new credential.
BuildsOn ==
    [revoke |-> {"sshd"}, start |-> {"sshd", "journald", "kernel"},
     gitops |-> Setting]

StepsFindSettings ==
    \A step \in DOMAIN BuildsOn :
        Coming(step) => \A s \in BuildsOn[step] : InEffect(s) \/ Excused(s)

\* After a play that has ended well, and until something is changed, every
\* service runs with what the repository wants, however many plays failed
\* before and whatever reboots came between.
GreenMeansInEffect ==
    outcome = "green" => \A s \in Setting : /\ file[s] = wanted[s]
                                            /\ InEffect(s) \/ Excused(s)

\* The script makes good what was forgotten: once it has ended well, External
\* Secrets runs with the credential it was given, without any excuse.
ScriptHeals == script = "done" /\ deployed => InEffect("secret")
=============================================================================
