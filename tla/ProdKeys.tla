------------------------------ MODULE ProdKeys ------------------------------
(***************************************************************************)
(* scripts/bootstrap_aws_access_keys.py: issue the prod app-storage,       *)
(* app-email and backup-s3 keys and record them in .env.prod.              *)
(*                                                                         *)
(* Three things set it apart from Route53Keys: no signal is ever blocked,  *)
(* so the statements between an effect and the variable that remembers it  *)
(* are steps of their own ("append", "commit"); the rollback deletes the   *)
(* keys main() remembers instead of asking AWS what the users have; and    *)
(* the worksheet is not read again before it is replaced.                  *)
(***************************************************************************)
EXTENDS KeyStore, Integers

CONSTANTS
    FirstUser, LastUser,    \* the users of this program are FirstUser..LastUser
    NoKey,                  \* main() has no key for the user
    MaxSignals,             \* bound: SIGINT/SIGTERM delivered in a behaviour
    MaxRuns                 \* bound: runs of the program, one after the other

Users == FirstUser..LastUser

ASSUME ProdAssumption ==
    /\ FirstUser \in Nat \ {0} /\ LastUser \in Nat /\ FirstUser <= LastUser
    /\ Users \subseteq Account
    /\ NoKey \notin Key
    /\ MaxSignals \in Nat /\ MaxRuns \in Nat

VARIABLES
    ledger,     \* .env.prod as every process sees it
    disk,       \* .env.prod as it is after a power loss (last directory fsync)
    pc, at,
    snapshot,   \* original_contents
    answer,     \* the key create_access_key has returned, before issued.append
    held,       \* issued: the key main() remembers for each user
    committed,
    incomplete, \* rollback_failed
    report,     \* how the run ended, as the person who started it sees it
    signals, runs,
    astray,     \* history: keys AWS minted whose answer never reached main()
    dropped,    \* history: keys whose answer reached main() and was dropped
    torn,       \* history: a signal fell between os.replace and committed = True
    escaped     \* history: an exception or a signal broke the except clause off

run == <<pc, at, snapshot, answer, held, committed, incomplete, report>>
bounds == <<signals, runs>>
history == <<astray, dropped, torn, escaped>>
vars == <<iam, minted, ledger, disk, run, bounds, history>>

InTry == {"create", "append", "validate", "replace", "commit", "fsync"}
PC == {"read", "preflight", "stat", "rollback", "exited"} \cup InTry

Report == {"none", "ok", "refused", "failed", "incomplete", "killed"}

NoKeys == [u \in Users |-> NoKey]

Begin ==
    /\ pc = "read" /\ at = FirstUser /\ answer = NoKey
    /\ held = NoKeys /\ committed = FALSE
    /\ incomplete = FALSE /\ report = "none"

Init ==
    /\ minted \in {{}} \cup {{k} : k \in Key}
    /\ iam \in [Account -> {{}, minted}]
    /\ \A u, v \in Account : iam[u] # {} /\ iam[v] # {} => u = v
    /\ ledger \in [Slot -> Text \cup {Empty}] /\ disk = ledger
    /\ snapshot = ledger
    /\ Begin
    /\ signals = 0 /\ runs = 1
    /\ astray = {} /\ dropped = {} /\ torn = FALSE /\ escaped = FALSE

Exit(why) == /\ pc' = "exited"
             /\ report' = why

-----------------------------------------------------------------------------
(***************************************************************************)
(* The decisions the program takes.  An operator marked as a fault is a    *)
(* mistake a change could make in the one below it; the properties must    *)
(* notice it.                                                              *)
(***************************************************************************)

\* What an fsync of the directory makes durable.
SyncedFileOnly == disk  \* fault: only the temporary file is synced

Synced == ledger

\* if not committed
MustRollBackAlways == TRUE  \* fault: the flag is not looked at

MustRollBack == ~committed

\* The last of `issued' when an exception leaves the try block.
LastIssuedShort == at - 1   \* fault: off by one, too short

LastIssued == IF pc \in {"create", "append"} THEN at - 1 ELSE at

\* reversed(issued)
PreviousUser == at - 1

-----------------------------------------------------------------------------
(***************************************************************************)
(* Before the try block.                                                   *)
(***************************************************************************)
ReadLedger ==
    /\ pc = "read"
    /\ \/ /\ Blank(ledger, Users)
          /\ snapshot' = ledger
          /\ pc' = "preflight" /\ at' = FirstUser
          /\ UNCHANGED report
       \/ Exit("refused") /\ UNCHANGED <<snapshot, at>>
    /\ UNCHANGED <<iam, minted, ledger, disk, answer, held, committed,
                   incomplete, bounds, history>>

\* validate_iam_user_has_no_keys, after the caller, stack, bucket and
\* identity checks, which the refusal also stands for.
Preflight ==
    /\ pc = "preflight"
    /\ \/ /\ HasNoKeys(at) /\ at < LastUser
          /\ at' = at + 1 /\ UNCHANGED <<pc, report>>
       \/ /\ HasNoKeys(at) /\ at = LastUser
          /\ pc' = "create" /\ at' = FirstUser /\ UNCHANGED report
       \/ Exit("refused") /\ UNCHANGED at
    /\ UNCHANGED <<iam, minted, ledger, disk, snapshot, answer, held,
                   committed, incomplete, bounds, history>>

-----------------------------------------------------------------------------
(***************************************************************************)
(* The try block.                                                          *)
(***************************************************************************)

\* An exception in the try block: reversed(issued) starts at the last user
\* whose key was appended.  Once committed, the exception goes through.
Raise ==
    /\ at' = LastIssued
    /\ IF MustRollBack THEN pc' = "rollback" /\ UNCHANGED report
                       ELSE Exit("failed")

CreateGranted ==
    /\ pc = "create"
    /\ \E k \in Key : CreateAccessKey(at, k) /\ answer' = k
    /\ pc' = "append"
    /\ UNCHANGED <<ledger, disk, at, snapshot, held, committed, incomplete,
                   report, bounds, history>>

\* AWS minted the key but the answer was lost or unusable.
CreateLost ==
    /\ pc = "create"
    /\ \E k \in Key : CreateAccessKey(at, k) /\ astray' = astray \cup {k}
    /\ Raise
    /\ UNCHANGED <<ledger, disk, snapshot, answer, held, committed,
                   incomplete, bounds, dropped, torn, escaped>>

CreateRefused ==
    /\ pc = "create"
    /\ Raise
    /\ UNCHANGED <<iam, minted, ledger, disk, snapshot, answer, held,
                   committed, incomplete, bounds, history>>

AppendIssued ==
    /\ pc = "append"
    /\ held' = [held EXCEPT ![at] = answer] /\ answer' = NoKey
    /\ pc' = "validate"
    /\ UNCHANGED <<iam, minted, ledger, disk, at, snapshot, committed,
                   incomplete, report, bounds, history>>

\* validate_issued_key, with its bounded retries.
Validate ==
    /\ pc = "validate"
    /\ \/ /\ held[at] \in iam[at] /\ at < LastUser
          /\ at' = at + 1 /\ pc' = "create" /\ UNCHANGED report
       \/ /\ held[at] \in iam[at] /\ at = LastUser
          /\ pc' = "replace" /\ UNCHANGED <<at, report>>
       \/ Raise
    /\ UNCHANGED <<iam, minted, ledger, disk, snapshot, answer, held,
                   committed, incomplete, bounds, history>>

\* replace_env_assignments on the text read at the start, then atomic_write
\* up to os.replace.
ReplaceLedger ==
    /\ pc = "replace"
    /\ \/ /\ ledger' = Filled(snapshot, Users, held)
          /\ pc' = "commit" /\ UNCHANGED <<at, report>>
       \/ Raise /\ UNCHANGED ledger
    /\ UNCHANGED <<iam, minted, disk, snapshot, answer, held, committed,
                   incomplete, bounds, history>>

\* atomic_write returns and main() sets committed.
Commit ==
    /\ pc = "commit"
    /\ committed' = TRUE /\ pc' = "fsync"
    /\ UNCHANGED <<iam, minted, ledger, disk, at, snapshot, answer, held,
                   incomplete, report, bounds, history>>

FsyncDirectory ==
    /\ pc = "fsync"
    /\ \/ disk' = Synced /\ pc' = "stat" /\ UNCHANGED <<at, report>>
       \/ Raise /\ UNCHANGED disk
    /\ UNCHANGED <<iam, minted, ledger, snapshot, answer, held, committed,
                   incomplete, bounds, history>>

FinalStat ==
    /\ pc = "stat"
    /\ Exit("ok") \/ Exit("failed")
    /\ UNCHANGED <<iam, minted, ledger, disk, at, snapshot, answer, held,
                   committed, incomplete, bounds, history>>

-----------------------------------------------------------------------------
(***************************************************************************)
(* The rollback, in reverse order of issue.  A delete that fails is noted  *)
(* and the loop goes on; the key may be gone all the same.                 *)
(***************************************************************************)
RollbackDelete ==
    /\ pc = "rollback" /\ at >= FirstUser
    /\ \/ DeleteAccessKey(at, held[at]) /\ UNCHANGED incomplete
       \/ DeleteAccessKey(at, held[at]) /\ incomplete' = TRUE
       \/ incomplete' = TRUE /\ UNCHANGED <<iam, minted>>
    /\ at' = PreviousUser
    /\ UNCHANGED <<ledger, disk, pc, snapshot, answer, held, committed,
                   report, bounds, history>>

\* An exception that is no BootstrapError, such as of a program that cannot be
\* started, leaves the loop and main().
RollbackEscapes ==
    /\ pc = "rollback" /\ at >= FirstUser
    /\ Exit("failed") /\ escaped' = TRUE
    /\ UNCHANGED <<iam, minted, ledger, disk, at, snapshot, answer, held,
                   committed, incomplete, bounds, astray, dropped, torn>>

ReportRollback ==
    /\ pc = "rollback" /\ at < FirstUser
    /\ Exit(IF incomplete THEN "incomplete" ELSE "failed")
    /\ UNCHANGED <<iam, minted, ledger, disk, at, snapshot, answer, held,
                   committed, incomplete, bounds, history>>

-----------------------------------------------------------------------------
(***************************************************************************)
(* What happens to the process and to the machine.                         *)
(***************************************************************************)

\* The installed handler raises InterruptedError where the program is: also
\* between an answer and issued.append, and between os.replace and
\* committed = True.  In the except clause, which catches BootstrapError
\* only, it ends the rollback.
Interrupt ==
    /\ signals < MaxSignals /\ signals' = signals + 1
    /\ \/ /\ pc \in {"read", "preflight"}
          /\ Exit("refused") /\ UNCHANGED <<at, escaped>>
       \/ /\ pc \in InTry
          /\ Raise /\ UNCHANGED escaped
       \/ /\ pc = "stat"
          /\ Exit("failed") /\ UNCHANGED <<at, escaped>>
       \/ /\ pc = "rollback"
          /\ Exit("failed") /\ escaped' = TRUE /\ UNCHANGED at
    /\ dropped' = IF pc = "append" THEN dropped \cup {answer} ELSE dropped
    /\ torn' = (torn \/ pc = "commit")
    /\ UNCHANGED <<iam, minted, ledger, disk, snapshot, answer, held,
                   committed, incomplete, runs, astray>>

Kill ==
    /\ pc # "exited"
    /\ Exit("killed")
    /\ UNCHANGED <<iam, minted, ledger, disk, at, snapshot, answer, held,
                   committed, incomplete, bounds, history>>

Rerun ==
    /\ pc = "exited" /\ runs < MaxRuns /\ runs' = runs + 1
    /\ pc' = "read" /\ at' = FirstUser /\ answer' = NoKey
    /\ held' = NoKeys /\ committed' = FALSE
    /\ incomplete' = FALSE /\ report' = "none"
    /\ escaped' = FALSE
    /\ UNCHANGED <<iam, minted, ledger, disk, snapshot, signals, astray,
                   dropped, torn>>

\* The file system commits a rename nobody asked it to commit.
Writeback ==
    /\ disk # ledger /\ disk' = ledger
    /\ UNCHANGED <<iam, minted, ledger, run, bounds, history>>

PowerLoss ==
    /\ disk # ledger /\ ledger' = disk
    /\ IF pc = "exited" THEN UNCHANGED <<pc, report>> ELSE Exit("killed")
    /\ UNCHANGED <<iam, minted, disk, at, snapshot, answer, held, committed,
                   incomplete, bounds, history>>

-----------------------------------------------------------------------------
Step ==
    \/ ReadLedger \/ Preflight
    \/ CreateGranted \/ CreateLost \/ CreateRefused \/ AppendIssued
    \/ Validate \/ ReplaceLedger \/ Commit \/ FsyncDirectory \/ FinalStat
    \/ RollbackDelete \/ RollbackEscapes \/ ReportRollback

Next == Step \/ Interrupt \/ Kill \/ Rerun \/ Writeback \/ PowerLoss

Spec == Init /\ [][Next]_vars

\* Every AWS CLI call returns or times out, so a run that is not killed goes
\* on; nobody promises a signal, a crash or another run.
FairSpec == Spec /\ WF_vars(Step)

-----------------------------------------------------------------------------
(***************************************************************************)
(* Properties.                                                             *)
(***************************************************************************)

TypeOK ==
    /\ KeyStoreTypeOK
    /\ ledger \in Worksheet /\ disk \in Worksheet /\ snapshot \in Worksheet
    /\ pc \in PC /\ at \in FirstUser - 1..LastUser
    /\ answer \in Key \cup {NoKey} /\ held \in [Users -> Key \cup {NoKey}]
    /\ committed \in BOOLEAN /\ incomplete \in BOOLEAN /\ report \in Report
    /\ signals \in 0..MaxSignals /\ runs \in Nat
    /\ astray \in SUBSET Key /\ dropped \in SUBSET Key
    /\ torn \in BOOLEAN /\ escaped \in BOOLEAN

\* .env.prod never names a dead key and is never half filled, unless a
\* signal fell between os.replace and committed = True.
RecordedKeysLive ==
    \/ torn
    \/ \A u \in Users : ledger[u] \notin Key
    \/ \A u \in Users : ledger[u] \in iam[u]

\* A dedicated user never gets a second key, not even from a run that
\* follows a crash or an incomplete rollback.
OneKeyPerUser == \A u \in Users : ~QuotaReached(u)

\* A run that failed after it began to create keys, and does not say that
\* keys are left, left only keys main() never had in `issued': one whose
\* answer was lost, or was dropped by a signal before issued.append.
NoSilentLeftover ==
    pc = "exited" /\ report = "failed" /\ ~escaped =>
        committed \/ \A u \in Users : iam[u] \subseteq astray \cup dropped

\* A run that reports success leaves each user's live key in the file, and a
\* power loss afterwards cannot take it back.
SuccessIsDurable ==
    pc = "exited" /\ report = "ok" =>
        \A u \in Users : held[u] \in iam[u] /\ disk[u] = held[u] /\ ledger[u] = held[u]

\* "Only if it failed before the ledger was written are the new keys taken
\* back": a key that .env.prod names is never deleted.
TakenBackOnlyUnrecorded ==
    [][\A u \in Users : ledger[u] \in iam[u] => ledger[u] \in iam'[u]]_vars

\* "... the new keys whose answer arrived in this run are taken back": a
\* failed run that does not say keys are left has none that AWS answered.
AnsweredKeysTakenBack ==
    pc = "exited" /\ report = "failed" /\ ~escaped =>
        committed \/ \A u \in Users : iam[u] \subseteq astray
=============================================================================
