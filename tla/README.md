# A verification of the UMC Product infrastructure programs

This directory holds TLA+ models of the stateful programs of this repository, the
TLC configurations that check them and the proofs that TLAPS checks. The programs
that issue AWS keys and publish secrets come first: they change things outside the
repository that no `git revert` brings back. Then come what the cluster does by
itself with preview databases, what a play does to running services, and what the
validation of a change entitles its reviewer to.

Run everything from this directory:

    tlc -config MCRoute53Keys.cfg MCRoute53Keys
    tlapm Route53Keys_proofs.tla

## 1. The system

The repository describes a single-node K3s cluster and the accounts around it. Most
of it is declarations (Helm charts, Argo CD applications, CloudFormation). The parts
that act are these.

| Part | State it keeps | Operations | Hard behaviour | Status |
|---|---|---|---|---|
| `scripts/bootstrap_route53_access_keys.py` | IAM keys of two DNS users, `.env.prod` | issue, validate, re-read, replace, roll back | lost answers, signals, crashes, edits, a second run | `Route53Keys`, `EnvProd` |
| `scripts/bootstrap_aws_access_keys.py` | IAM keys of three prod users, `.env.prod` | issue, validate, replace, roll back | no signal is blocked, rollback from memory, no second read | `ProdKeys`, `EnvProd` |
| `scripts/bootstrap_nonprod_aws_access_keys.py` | IAM keys of three users, `.env.dev`, `.env.preview`, temporary files | issue, stage, replace two files, restore, roll back | two renames that must look like one | `NonprodKeys` |
| `scripts/bootstrap_aws_secrets.py` | AWS Secrets Manager sources | compare, create, verify | concurrent operators, half-done runs, administrators | `SecretPublication` |
| Preview databases (`preview-database-bootstrap.sh`, createdb and dropdb Jobs, ApplicationSet, quota) | the databases, their completion marker, Services | select, create, copy, clean up, mark, drop | retries that overlap, crash between steps, deletion during creation | `PreviewDatabase` |
| `ssh_access`, `k3s`, `common`, `external_secrets_bootstrap` roles and `bootstrap-external-secrets-aws.sh` | files, the `aws-bootstrap` Secret, running services, pending notifications | write, notify, flush, restart, revoke | notification lost when a later task fails, applied but not restarted, two writers | `PlayHandlers` (SSH, K3s and common partly) |
| `scripts/gen-configmaps.py` | dashboards and rules in the repository | generate, `--check` | interrupted generation, leftovers | `GeneratedConfig`, `MergeGate` |
| `scripts/validate_gitops_sources.py` and the workflow, with pull requests | main, branches, CI results | bump, validate, squash, push by the bot | main moves between check and merge | `MergeGate` |
| `scripts/validate.sh`, `validate-skips.sh`, the validators it calls | the validation directory, skipped checks | render, check, skip, verdict | files of an earlier run, a skipped check, a guard no render tries | `ValidateRun`, with `ChartGates`, `ProjectKinds`, `PreviewBudget`, `SecretWiring`, `DnsRecords` |
| Backup CronJob and database role Jobs | objects in S3, roles and grants | dump, upload, mark complete | interrupted upload | not modelled |
| `argocd` role and `bootstrap/` | cluster objects | apply in sequence | none of its own | not modelled |
| the other `scripts/validate_*.py` and `scripts/contracts/` | none | compare files with literals | none | not modelled |

How they interact. The three key programs and a person's editor share the worksheets
`.env.*`; nothing locks them. Each key program is a client of AWS IAM. The
publication program reads the finished worksheets and writes Secrets Manager, where
administrators rotate and delete. External Secrets copies the sources into the
cluster, with the credential that either the play or the script has given it.
`docs/operations/secrets.md` prescribes running the programs one after the other, but
no program enforces it. Changes reach the cluster through main, which Argo CD
follows; `validate.sh` runs in CI on the merge of a pull request with main.

What makes each part correct:

- Key issue: a key in a worksheet works; a key that is in no worksheet is gone, or the
  run said that it is not; nobody's edit is lost; success survives a power loss; no
  user ever has two keys.
- Publication: nothing is written while anything disagrees; what is stored never mixes two
  worksheets; "published" is true of every source; a half-done run never blocks the next.
- Preview databases: an app runs on a database only if its copy and its clean-up are
  complete; a completed one is taken away only by its deletion; no more databases than
  slots; a deleted preview is gone in the end.
- Handlers: a green play means that every service runs with what is wanted; accounts
  are revoked only under the new policy.
- Merging: what main holds is what its sources generate; a chart version stands for one
  content.
- Validation: a green run has checked what this tree renders, has tried every guard,
  and Argo CD will accept the result.

`PROJECT.json` lists the hazards with their lines and the properties that watch them.

## 2. Modules

| Module | Models |
|---|---|
| `KeyStore` | AWS IAM as the scripts call it, and worksheets; shared by all key modules |
| `KeyIssue` | abstract: what a key-issue run promises |
| `Route53Keys` | `bootstrap_route53_access_keys.py`, and its refinement of `KeyIssue` |
| `ProdKeys` | `bootstrap_aws_access_keys.py` |
| `NonprodKeys` | `bootstrap_nonprod_aws_access_keys.py` |
| `EnvProd` | composition over one `.env.prod`: extends `Route53Keys`, whose run is the first; beside it moves an instance of `ProdKeys`, or a second one of `Route53Keys` |
| `SecretPublication` | any number of runs of `bootstrap_aws_secrets.py` |
| `PreviewContract` | abstract: what becomes of the database of a preview |
| `PreviewDatabase` | ApplicationSet, Application, Jobs, Pods, script, quota, and the refinement of `PreviewContract` |
| `PlayHandlers` | the bootstrap play with its handlers, and the credential script |
| `GeneratedConfig` | what `gen-configmaps.py` computes, writes and checks |
| `MergeGate` | authors, CI, GitHub and the deploy bot around main; uses `GeneratedConfig` |
| `ChartGates`, `ProjectKinds`, `PreviewBudget`, `SecretWiring`, `DnsRecords` | what five of the checks decide |
| `ValidateRun` | one run of `validate.sh`; composes the five |
| `*_proofs` | theorems about the module they are named after; those about `EnvProd` are in `Route53Keys_proofs`, with the lemmas on the run they share |
| `MC*` | constants and reductions for TLC |

### From code to state and actions

**Key programs.** A run is one process. `pc` names the statement of `main()` it is at
and `at` the user its loops have reached; `snapshot` (`originals`), `held` (`issued`),
`committed`, `staged` and `replaced` are the local variables of the same meaning.
`iam` and `minted` are AWS. `ledger` is the worksheet as a process sees it, `disk` as
it would be after a power loss: `os.replace` changes the first, the directory's fsync
(or the file system of its own accord, `Writeback`) the second.

One action is one step that a signal, a crash or another process can come between:

- An AWS call is one action with a disjunct per outcome. Issuing a key has three:
  granted, refused, and granted with the answer lost.
- `with block_termination_signals()` is one action, for a signal inside it is delivered
  right after it. `ProdKeys` has no such blocks, so there `issued.append` and
  `committed = True` are actions of their own, and the signal between `os.replace` and
  `committed = True` is a state.
- `Interrupt` is SIGINT or SIGTERM, which the handler turns into an exception; where
  the exception goes depends on the clause the program is in. `Kill` is SIGKILL, after
  which nothing runs, not even `finally`. `PowerLoss` also takes the worksheet back to
  `disk`. `Rerun` starts the program again on what is there.
- The checks before the `try` block (caller, region, stacks, buckets, file type, mode,
  Git) change nothing. They are the refusal that `ReadLedger` and `Preflight` may give.

`report` is what the person at the terminal learns: `ok`, `refused` (an error before
any key was created), `failed` (an error), `incomplete` (the error that says the
rollback was incomplete), `killed`.

A worksheet is a function from slots to values. The slot of an IAM user stands for all
assignments the program fills for that user, which the code always checks and writes
together; the other slots are the rest of the file. Key ids and secrets are one value.

**Publication.** A run goes through the sources twice as `main()` does, first
`DescribeSecret` and `GetSecretObject` for each, then `CreateSecret` and
`VerifyCreated` for the missing ones. Two calls are two actions, so everything can
happen between them. `AdminStep` is an administrator who rotates, deletes or restores
a source. Before all that, `ReadWorksheets` takes only worksheets that keep the rules:
what a source may hold by itself is a set of payloads it may not (`Malformed`), and
the rules between environments are groups of places in the sources whose values must
differ (`Apart`) or agree (`Alike`).

**Preview databases.** `selected` are the labelled pull requests, `app` the state of
each Application, `services` who holds a slot of the Service quota, `running` whose
app is up. `pods[p]` are the Pods of a createdb Job; there are two, because a Job may
replace a Pod that is still there. A Pod goes through the script's branches one
statement at a time, against `db[p]`: the data of the database and the completion
marker. `dropper` are the dropdb hooks at work. `Sync` makes the Service before the
Job and `Rollout` follows the sync wave, as the annotations say. A Pod may also die,
or restore only a part, and a dropdb hook may fail before or after its `DROP DATABASE`.

**Plays.** A setting is represented by a version: `wanted` by the inventory and the
repository, in the `file`, and read by the `running` service. `Play` is the order of
roles and flushes; a task that fails at any step clears `notified`, as Ansible does, and
may have restarted some services before (`RestartedBy`), as an installer does that fails
after it.

**Merging.** A tree is a record of the files that matter. `main` is the list of
commits, each with what pushed it and the commit on which CI had passed. `fork` and
`branch` are a pull request, `gen` the progress of the generator on it, `ci` its check.
`GeneratorDies` stops between two outputs or inside a `write_text`. GitHub merges by
`Merge`, three ways and file by file; that the check belongs to the head, not to main,
is GitHub's behaviour without a required update.

**Validation.** `Order` is the order of the checks in the script, `disk` the groups of
files under the validation directory and whether they are of this run. A check passes
by what the modules it uses say of the tree, or fails for any other reason. In
`DnsRecords` a name is the sequence of its pieces, cut at the pull request's number and
at the star, so that `Like` is what IAM does with a pattern of one star.

History variables (`late`, `escaped`, `torn`, `astray`, `dropped`, `unrestored`,
`mislaid`, `touched`, `written`, `overlapped`, `haunted`, `lost`, `stale`) are read by
no guard. They mark the cases a property does not speak of, each of them a narrow and
named event.

Some operators are marked `fault`. They are mistakes a change could make in the
definition below them, and are used only to check that the properties notice.

## 3. What the runs check

| Run | Configuration | Result |
|---|---|---|
| `route53_keys` | 2 users, 5 keys, 1 signal, 1 edit, 2 runs | `RecordedKeysLive`, `OneKeyPerUser`, `NoSilentLeftover`, `SuccessIsDurable`, `EditsKept`, `RunsEnd` hold and `KeyIssue` is implemented (`KeepsPromise`) |
| `prod_keys` | 3 users, 6 keys, 1 signal, 2 runs | `RecordedKeysLive` unless torn, `NoSilentLeftover` but for lost or dropped answers, `SuccessIsDurable` |
| `prod_torn` | 3 users, 1 signal, 1 run | violated: a recorded key is taken back |
| `prod_dropped` | 3 users, 1 signal, 1 run | violated: an answered key is left behind in silence |
| `nonprod_keys` | 3 users, 2 files; 1 signal, or 1 edit and 2 runs | `BothOrNeither`, `RecordedKeysLive`, `SuccessIsDurable`, `NoTempsLeft`, `OneKeyPerUser`, `EditsKept` |
| `env_prod` | 2 Route 53 users beside 2 prod users or a second Route 53 run, 1 signal each | `RecordsKept`, in sequence and interleaved, `LedgerOfOneRun`, `OthersKeysLive` |
| `env_prod_rollback` | the same | `NamedKeysLive` violated: one run's rollback deletes the other's recorded keys |
| `secret_publication` | 2 runs, 2 sources, 4 payloads, 6 sheets of which 3 break a rule, 1 administrator step | `WritesAgree`, `PublishedMeansAll`, `OneWorksheetWins`, `LeftoversNeverBlock` |
| `preview_database` | 2 pull requests, 1 slot; one copies dev, and its Pods may outlive their Job | `MarkedMeansClean`, `RunsOnWholeDatabase`, `DatabasesFitSlots`, `ClosedIsDropped`; `PreviewContract` is implemented (`KeepsContract`) |
| `play_handlers` | 5 settings, each changed at most once, 1 reboot, any number of failing plays and script runs | `StepsFindSettings`, `GreenMeansInEffect`, `ScriptHeals` |
| `merge_gate` | 2 pull requests of 6 plans, 2 versions, 3 first trees, 1 push of the bot; a third pull request where all change only the allow list | `VersionTellsChart`, `GeneratedOnMain`, `GenerationHeals` |
| `validate_run` | trees with up to 2 lost guards, all kinds and lists of one project, quotas 8 to 12, two secrets that read each other's paths, IAM roles and worksheets that give them away, up to 3 DNS patterns more or less, other hosts, 2 pull requests besides the sample | `GreenMeansChecked`, `LostGuardIsSeen`, `GreenTreeSyncs`, `QuotaIsWorstCase`, `DevStaysInDev`, `DnsRightsFit` |

`preview_database` and `play_handlers` also check that the system never stops. The
others have `CHECK_DEADLOCK FALSE`: a program that has ended and is not started again
stops, and so does a repository whose pull requests are merged.

### Bounds, and why they are enough

- Users are the program's own two or three. `env_prod` leaves out the prod program's
  third user, which is treated like its second.
- `Key` has one key more than the runs can use for the users, or as many; minting
  fails when none is left, which is the outcome "refused".
- One signal reaches every state a signal can be delivered in. Two signals matter only
  in the except clause, and the single one reaches it too, after an ordinary failure.
- One edit is enough, for each property speaks of one line that changes. Two runs are
  enough for what a rerun finds, for a run leaves only `iam`, the worksheets and the
  temporary files behind.
- Two publication runs and two sources give every order of look and write. The sheets
  that keep the rules differ in the first source or in both; of the others, one repeats
  a password, one has shared values that disagree and one has a value of wrong form.
- Two previews are one more than the slots. Retries, failing Pods and failing hooks
  are not bounded at all.
- In `merge_gate` a third pull request is what it takes to have the allow list taken
  off and put on again behind a late head. A state constraint (`Bounded`) keeps it still
  unless main was the plain first tree and nobody has changed anything but the allow
  list (`ThirdStill`, `OnlyAllow`), and leaves a first tree with the legacy ConfigMap
  only where somebody deletes it (`Tidied`).
- Plays, failures and script runs are not bounded. A setting that changes once goes
  through every relation of wanted, written and running.
- The trees of `validate_run` depart from a sound tree in one respect at a time, since
  the checks do not share what they look at. Two lost guards are the least that can
  hide one another. An earlier run has left nothing, everything or the first groups of
  files. The secrets are two of dev and one each of prod, preview and platform, where
  the contract has 37: the check only tells dev from the rest, and a source with its
  store in another namespace from one at home.
- More of each of these is what the proofs are for.

`MintedInOrder` is an action constraint: keys are interchangeable, so each behaviour it
cuts differs from one it keeps in the names of the keys only. It replaces symmetry,
which TLC cannot combine with liveness. `OneScenario` lets `nonprod_keys` have either a
signal or an edit and a rerun, not both. Where only safety is checked, the other runs
use symmetry.

### Fairness

`Route53Keys!FairSpec` adds weak fairness of `Step`, the program's own next statement.
The code has no blocking wait of its own: `subprocess.run` returns when the AWS CLI
does, which has connect and read timeouts, the retries of `validate_issued_key` are
bounded, and there are no locks. Signals, crashes, edits, write-back and another run get
no fairness. `RunsEnd` therefore says that the loops, and above all the rollback, cannot
go round.

`PreviewDatabase!FairSpec` adds weak fairness of `Delete` and `StartHook`, for the
ApplicationSet looks again every two minutes and Argo CD repeats a failed hook, and
strong fairness of `HookSucceeds`: the hook may fail any number of times but not for
ever. Creation gets no fairness, for Argo CD gives a sync up after five retries.

### Findings

- `scripts/bootstrap_aws_access_keys.py:549`. A signal between `os.replace` and
  `committed = True` makes the rollback delete the keys that `.env.prod` names. The
  comment at line 553 says this only happens before the record.
- `scripts/bootstrap_aws_access_keys.py:532`. A signal between the answer and
  `issued.append` leaves a key that no rollback looks for, and the run does not say so.
  The other two programs have `block_termination_signals` at both places.
- `scripts/bootstrap_route53_access_keys.py:170`. With two runs at once, the rollback
  of the one that loses deletes the keys the winner has recorded. The comment at line
  149 relies on a check that no longer holds.

### Limits of the code that the properties name

These are conditions in the properties, not findings of a run, since no document
promises more, or only a comment says so in passing.

- An edit saved between the second read and the write is lost (`late`), and a source
  that administrators change while a run is going on is not looked at again (`touched`).
- A play that fails between a template and its flush forgets the notification, and no
  later play makes it good (`lost`). The comments at `ssh_access/tasks/main.yml:252`
  and `k3s/tasks/main.yml:94` speak only of the order within one play.
- The version guard compares the merge with main's tip at the time of CI. A head that
  is squashed later, a push of the bot or a version that goes back is not covered
  (`Late`, `VersionTellsChart`). `docs/operations/deployment.md:46-70` does not require
  branches to be up to date.
- Two pull requests that change different inputs of one output merge without a conflict
  and leave main out of step with its generator (`Crossed`). So does a late head that
  changes the allow list when others have meanwhile taken the dashboard off it and put
  it on again: the check was about the list in between.
- Generation never removes the legacy ConfigMap which `--check` complains of.
- `ProjectKinds` cannot judge projects without a whitelist, or charts without a render.
- The contract of the secrets compares the paths of all namespaces with those of all IAM
  roles, and by itself only the first statement of DevRole (`DevReads`). Anything else
  passes unseen: a preview source listed under ProdRole, a wildcard or a second statement
  in any role, keys of prod and preview crossed under a neutral prefix, whom a role
  trusts, and which role a store assumes (`SecretWiring`, whose `MayRead` is what AWS
  makes of it).
- In the prod program the rollback's loop catches `BootstrapError` only. Another
  exception, or the signal that ProdKeys blocks nowhere, leaves it with keys still to
  delete (`RollbackEscapes`, `escaped`).
- A temporary worksheet that cannot be removed stays, and so do those after it: the
  error ends the clean-up (`Cleanup`, `mislaid`).
- The DNS patterns are compared with the render of pull request 42 only. A pattern that
  spells the 42 out passes and fits no other preview, and a host that begins with the
  number lets a pattern's star reach the challenges of the certificates
  (`DnsRightsFit`).
- Eight guards of the chart are hidden by others in every negative render (`Hidden`).
- A Pod that outlives its Job or its Application can touch the database of the next
  preview of the same pull request (`haunted`); `docs/runbooks/preview-operations.md`
  (lines 215-218) has an operator look for such Pods.
- The docstring of `bootstrap_aws_secrets.py` says 33 sources, the contract has 37.

## 4. What is proved

The proofs assume only the named `ASSUME`s: users are a nonempty range of positive
numbers and have slots, the two programs on `.env.prod` have users of their own, keys
and text are different things, names of records are not empty, sources are numbered from
one and rules between environments speak of them, versions and bounds are naturals. The
first tree of main is one its generator has left in step, and a pull request is not
named like a state of a file ("bad", "none", "torn"). The renders registered with
`ProjectKinds` are files that `validate.sh` writes, and the preview namespace has its
five kinds of Pods, whose containers ask for amounts that are numbers: other Pods than
those of Deployments and Jobs are assumed absent, and no check refuses them. Everything
holds for any number of users,
keys, slots, sources, runs, pull requests and payloads, for any trees under review, and
for any bounds. Each proof has the same shape: the inductive invariant `IInv`, one lemma
per part of it or per kind of step, `Invariance`, and a theorem per property.

`Route53Keys_proofs`:

- No property of section 3 is inductive. "The worksheet never names a dead key" needs
  to know that the rollback only runs when the worksheet names none (`FlagAgrees`), and
  that a power loss cannot bring back a file with keys other than the present ones
  (`DiskAgrees`). "A failed run leaves nothing" needs to know at every point of
  `main()` which users may have keys (`KeysAccountedFor`) and where the loops are
  (`Position`). "Edits are kept" needs what the second read established (`CopyAgrees`).
- The proof has a lemma per kind of step: those that leave IAM and the files alone
  (`QuietStep`), minting (`CreateStep`), deletion (`DeleteStep`), listing, replacing,
  syncing, signals, edits and power loss. `InvStep` puts them together.
- From it follow `TypeCorrect`, `RecordSafe`, `OneKey`, `RollbackComplete`,
  `DurableSuccess`, `Accounted` and `EditsSurvive`.
- `Refines` proves that the program implements `KeyIssue`. A lemma per abstract action
  says which steps map to it; the others stutter.

The last sections of `Route53Keys_proofs` are about `EnvProd`. A property of one
program alone says nothing once another writes the same file, so that these theorems
rest on invariants of their own.

- `Joint` follows the keys through all copies of `.env.prod`: the file, and what each
  program has read of it and may write back. A program that has replaced the file never
  issues again (`Committed`, `PCommitted`), so that its keys are a fixed point for the
  others; every copy has the DNS keys of one run that has replaced the file, or none
  (`CopiesOfOneRun`), even an old copy written back; who wrote last is whole in the file
  (`LastIsWhole`); and programs that never ran at the same time have read each other's
  record (`InSequence`). `BothRecorded` and `OneRunRecorded` follow.
- `InIam` adds what each program may rely on in IAM: nobody else touches its users
  (`FirstKnows`, `ProdKnows`), and a copy that names keys of the prod program names live
  ones unless its record is torn (`ProdNamed`). With it `OthersSafe` says that the two
  programs, each of which is safe alone, are safe beside each other, whichever writes an
  old copy back and whichever rolls back (`OthersKeysLive`). Between two runs of the same
  program this is false (`env_prod_rollback`): they have the same users.

`ProdKeys_proofs`: the same for the prod program, where `torn`, `astray` and `dropped`
mark what the missing signal blocks cost. `RecordSafe` says that nothing but a torn
record endangers a recorded key, `RollbackComplete` that nothing but a lost or dropped
answer leaves a key behind in silence.

`NonprodKeys_proofs`: `AllOrNothing`, `RecordSafe`, `DurableSuccess`, `TempsRemoved`,
`OneKey` and `LinesKept`. The invariant says which of the two worksheets holds which
keys at each statement (`Written`), what an unrecorded key can be found by
(`UnrecordedYet`), that the originals were blank (`BlankOriginals`), which temporary
files exist (`TempsKnown`) and what each ending leaves (`Ending`).

`SecretPublication_proofs`:

- `TypeCorrect`.
- `Settles`: while no administrator is at work, what a run has found matching, in
  conflict or made stays so, because runs only create (`OnlyCreates`).
  `LeftoversPass` follows.
- `OneWins` says that what is stored keeps the rules between environments, although a run
  only compares worksheets, never what is stored. It needs that Secrets Manager is never a
  mixture of two worksheets, and this rests on the order of the loops: every run makes
  the sources in the same order, so that of two runs with something to make the slower
  one stops at the first source they both want, before it has made anything behind it
  (`InOrder`, `Gapless`, `StaysGapless`). What agrees with one run's worksheets then
  keeps the rules that these have passed (`AgreeingRules`).
- `WritesSafe` and `PublishedIsTrue` follow from what a run may trust of its own
  findings about sources nobody else has touched (`Settled`, `Trusted`).

`PreviewDatabase_proofs`: `MarkerHonest`, `AppsRunOnWholes`, `QuotaBounds` and
`Refines`. The invariant says what a Pod at each statement may rely on (`Sound`,
`Knows`), and that a Pod that destroys anything is alone with a database without a
marker (`Alone`). `QuotaBounds` rests on it too: a database that exists has its
preview's Service, and the quota bounds the Services. `Refines` shows that each step maps
to one of `PreviewContract` (`Allowed`).

`PlayHandlers_proofs`: `StepsFind`, `GreenIsTrue` and `ScriptCures`. The invariant says
that a setting not in effect is notified, lost or still to be written (`Pending`), and
that each is notified in time for the flush before its use (`NotifiedInTime`).

`MergeGate_proofs`: `VersionsTell`, `GeneratorHeals` and `MainInStep`.

- The gate only looks at two neighbours on main. That two commits far apart do not
  share a version needs versions that do not go back in between (`Ordered`), and a check
  that is still about the tip (`PassedOnTip`). `Generated` says what a generation has
  done at each step.
- `MainInStep` is about outputs, which a merge takes file by file without asking where
  they come from. It needs what each branch is: its inputs are those of its base or its
  author's own (`BranchOf`), and its outputs differ from those of its base only where
  an input does, however many generations died on it (`OutputsFollow`). Commits with no
  change of an input between them have the same input (`MainInputs`). What CI has found
  stays true of the commit it was found on (`Passed`). The invariant `JInv` is all that,
  and that either everything is in step or a late head has crossed
  (`LateCrossing \/ AllInStep`).
- The first attempt at this proof failed at a late head which takes the allow list back
  to what it was, over two others that had changed it and changed it back. That is
  possible in the code, and the property had not named it: it is the pair allow/allow of
  `Paired`, and the third pull request of the run shows it.

`ValidateRun_proofs`: `GreenChecked`, `GreenSyncs`, `GreenDevStays`, `GreenShowsLoss`,
`GreenDnsFits` and `GreenQuotaExact`, for any trees.

- A run is a walk over the checks (`Walk`). What has been rendered so far is of this run
  (`Rendered`), and what a check has found still holds at the end (`Findings`). Both rest
  on the order: every file is written before it is read (`ReadsWritten`), and nothing is
  written after the renders are compared with the projects (`WritersFirst`).
- For the guards: of each negative render, the guards it runs into (`ViolatedBy`). A
  render that runs into one guard only keeps that guard (the lemmas `Keeps...`);
  `GuardIs` shows that these are all but the hidden ones.
- For the secrets: the uploads are the paths that are read, each from the worksheet of
  its path (`UploadsMatch`), so that crossed keys cannot change whose value a path holds.
  A namespace that only DevRole trusts reads what DevRole's only statement lists, and
  that is what is read under dev, and all of it (`DevReads`).
- For DNS: the render of another number differs from the sample's only in pieces that
  are the number (`RecordsAlike`), so that a pattern without the sample in it cannot
  tell the two apart (`LikeSample`). A pattern reaches a name that is not rendered only
  by a star, which stands before the preview domain (`LikeNarrow`), and what it reaches
  begins like the rendered name it was made from or with the number (`LikeBegins`).

- For the quota: what a Pod counts for is one of its phases and no phase asks for more
  (`PodTotalIs`), so that there is a moment that needs the whole quota and none that needs
  more (`ExpectedIsWorst`). That a list of amounts has a total and a finite set of them a
  greatest is an induction over data, for which the library's induction theorems cannot be
  used. It is done by hand: the least place at which it failed would have one before it at
  which it does not (`Least`, `SumsExist`, `SumsAre`, `MaxIs`). `PreviewBudget` writes its
  sums as the code does, one term per kind of Pod, and that of a list as a recursive
  function.

Model-checked only: liveness (`RunsEnd`, `ClosedIsDropped`), which the provers do not
reach. Every other property of a passing run is a theorem.

## 5. Not modelled

- Retries inside the AWS CLI: `create-access-key` is not idempotent, and a retry after
  a lost answer would mint a second key.
- IAM's eventual consistency: a listing right after a lost answer may miss the new key.
- The text of a worksheet: quoting, line ends and regular expressions. A slot is empty
  or not, and is filled; which values have a wrong form is a parameter (`Malformed`).
- Platforms without `pthread_sigmask`, where the blocks do nothing.
- `pg_dump` that dies in the middle of the pipe is `RestorePart`; what SQL it had sent
  is not looked into. The SQL of the clean-up is the state "clean".
- A dropdb hook beyond the quota of Pods is delayed; `HookFails` covers it.
- The accounts of `ssh_access`, the packages and users of `common`, and the firewall:
  idempotent tasks without handlers that others wait for.
- Backup and database role Jobs: one linear upload under `set -e` with nothing beside it.
- The `argocd` role: a sequence of applications of manifests that waits for Argo CD.
- Validators and contracts that compare files with literals (`validate_argocd.py`,
  `validate_observability.py`, `validate_edge_platform.py`, most of `contracts/`):
  without state or order, a model would repeat the literals. `ValidateRun` has them as
  checks that pass or fail.
- CloudFormation, manifests and charts beyond the guards: declarations that AWS and
  Kubernetes interpret.

## 6. What could follow

The backup upload with its `.complete` marker once more than one writer uses the bucket,
and the third bootstrap program beside the other two, should it come to share a worksheet
with them.
