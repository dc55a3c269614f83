----------------------------- MODULE NonprodKeys -----------------------------
(***************************************************************************)
(* scripts/bootstrap_nonprod_aws_access_keys.py: issue the dev and preview *)
(* storage keys and the e-mail key both environments share, and record     *)
(* them in .env.dev and .env.preview, in both files or in neither.         *)
(*                                                                         *)
(* Two renames cannot be one step, so the program stages both files, reads *)
(* both again, replaces one after the other, and on any failure before     *)
(* `committed' puts back the files it replaced before it takes the keys    *)
(* back.  Signals are blocked as in Route53Keys.                           *)
(***************************************************************************)
EXTENDS KeyStore, Integers

CONSTANTS
    FirstUser, LastUser,    \* the users of this program are FirstUser..LastUser
    LastFile,               \* the worksheets are 1..LastFile, in the order of ENV_FILES
    Uses,                   \* Uses[f]: the users whose keys go into worksheet f
    NoKey,                  \* main() has no key for the user yet
    MaxSignals,             \* bound: SIGINT/SIGTERM delivered in a behaviour
    MaxEdits,               \* bound: edits of the worksheets by people
    MaxRuns                 \* bound: runs of the program, one after the other

Users == FirstUser..LastUser
Files == 1..LastFile

ASSUME NonprodAssumption ==
    /\ FirstUser \in Nat \ {0} /\ LastUser \in Nat /\ FirstUser <= LastUser
    /\ Users \subseteq Account
    /\ LastFile \in Nat \ {0}
    /\ Uses \in [Files -> SUBSET Users]
    /\ NoKey \notin Key
    /\ MaxSignals \in Nat /\ MaxEdits \in Nat /\ MaxRuns \in Nat

VARIABLES
    ledger,     \* the worksheets as every process sees them
    disk,       \* the worksheets as they are after a power loss
    temps,      \* worksheets with a temporary file that holds their new text
    pc, at, nth,        \* nth: the worksheet the loops over env_paths have reached
    originals,
    held,       \* issued: the key main() remembers for each user
    staged,     \* staged_paths: temporary files main() remembers
    replaced,   \* replaced_paths
    committed,
    todo,       \* rollback: the listed keys of user `at' still to delete
    incomplete, \* files_restored or keys_rolled_back came back False
    report,     \* how the run ended, as the person who started it sees it
    signals, edits, runs,
    late,       \* history: worksheets edited after their second read
    unrestored, \* history: worksheets whose restoration failed
    mislaid,    \* history: temporary files a signal hid from staged_paths, or
                \* that could not be removed
    escaped     \* history: a signal hit the except or finally clause

local == <<pc, at, nth, originals, held, staged, replaced, committed, todo,
           incomplete, report>>
files == <<ledger, disk, temps>>
history == <<late, unrestored, mislaid, escaped>>
bounds == <<signals, edits, runs>>
vars == <<iam, minted, files, local, bounds, history>>

InTry == {"create", "validate", "stage", "keep", "recheck", "replace",
          "fsync", "stat"}
InHandler == {"caught", "restore", "list", "sweep", "report"}
PC == {"read", "preflight", "cleanup", "exited"} \cup InTry \cup InHandler

Report == {"none", "ok", "refused", "failed", "incomplete", "killed"}

NoKeys == [u \in Users |-> NoKey]

Begin ==
    /\ pc = "read" /\ at = FirstUser /\ nth = 1
    /\ held = NoKeys /\ staged = {} /\ replaced = {} /\ committed = FALSE
    /\ todo = {} /\ incomplete = FALSE /\ report = "none"

Init ==
    /\ minted \in {{}} \cup {{k} : k \in Key}
    /\ iam \in [Account -> {{}, minted}]
    /\ \A u, v \in Account : iam[u] # {} /\ iam[v] # {} => u = v
    /\ ledger \in [Files -> [Slot -> Text \cup {Empty}]]
    /\ disk = ledger /\ originals = ledger /\ temps = {}
    /\ Begin
    /\ signals = 0 /\ edits = 0 /\ runs = 1
    /\ late = {} /\ unrestored = {} /\ mislaid = {} /\ escaped = FALSE

Exit(why) == /\ pc' = "exited"
             /\ report' = why

\* Advance a loop over the worksheets: to the next one, or to the statement
\* after the loop with the counter rewound.
NextFile(after) ==
    IF nth < LastFile THEN nth' = nth + 1 /\ UNCHANGED pc
                      ELSE nth' = 1 /\ pc' = after

Updated(f) == Filled(originals[f], Uses[f], held)

-----------------------------------------------------------------------------
(***************************************************************************)
(* The decisions the program takes.  An operator marked as a fault is a    *)
(* mistake a change could make in the one below it; the properties must    *)
(* notice it.                                                              *)
(***************************************************************************)

\* read_env_file(...) != originals[path], read again before the writes.
UnmodifiedFields(f) == Blank(ledger[f], Uses[f])    \* fault: the text is not compared

Unmodified(f) == ledger[f] = originals[f]

\* staged_paths[path] = stage_env_file(...)
StagedLast(f) == {f}    \* fault: only the last temporary file is remembered

StagedWith(f) == staged \cup {f}

\* What an fsync of the directory makes durable.
SyncedFileOnly == disk  \* fault: only the temporary files are synced

Synced == ledger

\* The last of attempted_users when an exception leaves the try block.
LastAttempted == IF pc = "create" THEN at - 1 ELSE at

\* for path in reversed(paths)
ToRestoreNone(f) == FALSE   \* fault: replaced_paths is not kept

ToRestore(f) == f \in replaced

\* The keys the rollback goes after are those AWS lists, not those main()
\* remembers.
KeysToDeleteKnown == iam[at] \cap {held[at]}    \* fault: trusts `issued'

KeysToDelete == iam[at]

\* reversed(user_names)
PreviousUser == at - 1

-----------------------------------------------------------------------------
(***************************************************************************)
(* Before the try block.                                                   *)
(***************************************************************************)
ReadLedger ==
    /\ pc = "read"
    /\ \/ /\ Blank(ledger[nth], Uses[nth])
          /\ originals' = [originals EXCEPT ![nth] = ledger[nth]]
          /\ NextFile("preflight") /\ UNCHANGED report
       \/ Exit("refused") /\ UNCHANGED <<originals, nth>>
    /\ UNCHANGED <<iam, minted, files, at, held, staged, replaced, committed,
                   todo, incomplete, bounds, history>>

\* The refusal also stands for the caller, stack, bucket and identity checks.
Preflight ==
    /\ pc = "preflight"
    /\ \/ /\ HasNoKeys(at) /\ at < LastUser
          /\ at' = at + 1 /\ UNCHANGED <<pc, report>>
       \/ /\ HasNoKeys(at) /\ at = LastUser
          /\ pc' = "create" /\ at' = FirstUser /\ UNCHANGED report
       \/ Exit("refused") /\ UNCHANGED at
    /\ UNCHANGED <<iam, minted, files, nth, originals, held, staged, replaced,
                   committed, todo, incomplete, bounds, history>>

-----------------------------------------------------------------------------
(***************************************************************************)
(* The try block.  `at' is the last user in attempted_users, except at     *)
(* "create", where user `at' is the next one to attempt.                   *)
(***************************************************************************)
CreateGranted ==
    /\ pc = "create"
    /\ \E k \in Key : CreateAccessKey(at, k) /\ held' = [held EXCEPT ![at] = k]
    /\ pc' = "validate"
    /\ UNCHANGED <<files, at, nth, originals, staged, replaced, committed,
                   todo, incomplete, report, bounds, history>>

CreateLost ==
    /\ pc = "create"
    /\ \E k \in Key : CreateAccessKey(at, k)
    /\ pc' = "caught"
    /\ UNCHANGED <<files, at, nth, originals, held, staged, replaced,
                   committed, todo, incomplete, report, bounds, history>>

CreateRefused ==
    /\ pc = "create"
    /\ pc' = "caught"
    /\ UNCHANGED <<iam, minted, files, at, nth, originals, held, staged,
                   replaced, committed, todo, incomplete, report, bounds,
                   history>>

Validate ==
    /\ pc = "validate"
    /\ \/ /\ held[at] \in iam[at] /\ at < LastUser
          /\ at' = at + 1 /\ pc' = "create"
       \/ /\ held[at] \in iam[at] /\ at = LastUser
          /\ pc' = "stage" /\ UNCHANGED at
       \/ pc' = "caught" /\ UNCHANGED at
    /\ UNCHANGED <<iam, minted, files, nth, originals, held, staged, replaced,
                   committed, todo, incomplete, report, bounds, history>>

\* stage_env_file writes the new text of worksheet nth beside it; if that
\* fails it removes the temporary file itself.
Stage ==
    /\ pc = "stage"
    /\ \/ temps' = temps \cup {nth} /\ pc' = "keep"
       \/ pc' = "caught" /\ UNCHANGED temps
    /\ UNCHANGED <<iam, minted, ledger, disk, at, nth, originals, held, staged,
                   replaced, committed, todo, incomplete, report, bounds,
                   history>>

\* The assignment to staged_paths, which a signal can come before.  (So it can
\* before the assignment to temporary_path in stage_env_file; the file is
\* mislaid all the same.)
KeepStaged ==
    /\ pc = "keep"
    /\ staged' = StagedWith(nth)
    /\ IF nth < LastFile THEN nth' = nth + 1 /\ pc' = "stage"
                         ELSE nth' = 1 /\ pc' = "recheck"
    /\ UNCHANGED <<iam, minted, files, at, originals, held, replaced,
                   committed, todo, incomplete, report, bounds, history>>

Recheck ==
    /\ pc = "recheck"
    /\ \/ Unmodified(nth) /\ NextFile("replace")
       \/ pc' = "caught" /\ UNCHANGED nth
    /\ UNCHANGED <<iam, minted, files, at, originals, held, staged, replaced,
                   committed, todo, incomplete, report, bounds, history>>

\* One block: os.replace, replaced_paths.append, del staged_paths[path].
ReplaceLedger ==
    /\ pc = "replace"
    /\ \/ /\ ledger' = [ledger EXCEPT ![nth] = Updated(nth)]
          /\ temps' = temps \ {nth} /\ staged' = staged \ {nth}
          /\ replaced' = replaced \cup {nth}
          /\ NextFile("fsync")
       \/ pc' = "caught" /\ UNCHANGED <<ledger, temps, staged, replaced, nth>>
    /\ UNCHANGED <<iam, minted, disk, at, originals, held, committed, todo,
                   incomplete, report, bounds, history>>

FsyncDirectory ==
    /\ pc = "fsync"
    /\ \/ disk' = Synced /\ pc' = "stat"
       \/ pc' = "caught" /\ UNCHANGED disk
    /\ UNCHANGED <<iam, minted, ledger, temps, at, nth, originals, held,
                   staged, replaced, committed, todo, incomplete, report,
                   bounds, history>>

\* The modes of both files are checked inside the try block, then the run is
\* committed and goes on to the finally clause.
FinalStat ==
    /\ pc = "stat"
    /\ \/ committed' = TRUE /\ pc' = "cleanup" /\ report' = "ok"
       \/ pc' = "caught" /\ UNCHANGED <<committed, report>>
    /\ UNCHANGED <<iam, minted, files, at, nth, originals, held, staged,
                   replaced, todo, incomplete, bounds, history>>

-----------------------------------------------------------------------------
(***************************************************************************)
(* except BaseException, with signals blocked from "restore" to "report".  *)
(***************************************************************************)
Handle ==
    /\ pc = "caught"
    /\ pc' = "restore" /\ nth' = LastFile
    /\ UNCHANGED <<iam, minted, files, at, originals, held, staged, replaced,
                   committed, todo, incomplete, report, bounds, history>>

\* restore_env_files, last replaced worksheet first: the original text is
\* written back and the directory synced; a failure of either is noted and
\* the loop goes on.
Restore ==
    /\ pc = "restore" /\ ToRestore(nth)
    /\ \/ /\ ledger' = [ledger EXCEPT ![nth] = originals[nth]]
          /\ disk' = ledger' /\ UNCHANGED <<incomplete, unrestored>>
       \/ /\ ledger' \in {ledger, [ledger EXCEPT ![nth] = originals[nth]]}
          /\ incomplete' = TRUE /\ unrestored' = unrestored \cup {nth}
          /\ UNCHANGED disk
    /\ replaced' = replaced \ {nth}
    /\ UNCHANGED <<iam, minted, temps, pc, at, nth, originals, held, staged,
                   committed, todo, report, bounds, late, mislaid, escaped>>

RestoreNext ==
    /\ pc = "restore" /\ ~ToRestore(nth)
    /\ IF nth > 1 THEN nth' = nth - 1 /\ UNCHANGED pc
                  ELSE pc' = "list" /\ UNCHANGED nth
    /\ UNCHANGED <<iam, minted, files, at, originals, held, staged, replaced,
                   committed, todo, incomplete, report, bounds, history>>

\* rollback_attempted_users: see Route53Keys.
RollbackList ==
    /\ pc = "list" /\ at >= FirstUser
    /\ \/ todo' = KeysToDelete /\ UNCHANGED incomplete
       \/ todo' \in SUBSET KeysToDelete /\ incomplete' = TRUE
    /\ pc' = "sweep"
    /\ UNCHANGED <<iam, minted, files, at, nth, originals, held, staged,
                   replaced, committed, report, bounds, history>>

RollbackDelete ==
    /\ pc = "sweep"
    /\ \E k \in todo : DeleteAccessKey(at, k) /\ todo' = todo \ {k}
    /\ UNCHANGED <<files, pc, at, nth, originals, held, staged, replaced,
                   committed, incomplete, report, bounds, history>>

RollbackRaise ==
    /\ pc = "sweep"
    /\ \E k \in todo : DeleteAccessKey(at, k) \/ UNCHANGED <<iam, minted>>
    /\ todo' = {} /\ incomplete' = TRUE
    /\ UNCHANGED <<files, pc, at, nth, originals, held, staged, replaced,
                   committed, report, bounds, history>>

RollbackNext ==
    /\ \/ /\ pc = "sweep" /\ todo = {} /\ at > FirstUser
          /\ at' = PreviousUser /\ pc' = "list"
       \/ /\ pc = "sweep" /\ todo = {} /\ at = FirstUser
          /\ pc' = "report" /\ UNCHANGED at
       \/ /\ pc = "list" /\ at < FirstUser
          /\ pc' = "report" /\ UNCHANGED at
    /\ UNCHANGED <<iam, minted, files, nth, originals, held, staged, replaced,
                   committed, todo, incomplete, report, bounds, history>>

ReportRollback ==
    /\ pc = "report"
    /\ pc' = "cleanup"
    /\ report' = IF incomplete THEN "incomplete" ELSE "failed"
    /\ UNCHANGED <<iam, minted, files, at, nth, originals, held, staged,
                   replaced, committed, todo, incomplete, bounds, history>>

\* finally: the temporary files main() remembers are removed, one after the
\* other, until one cannot be.
Cleanup ==
    /\ pc = "cleanup"
    /\ \E first \in 1..LastFile + 1 :
          LET kept == {f \in staged : f >= first}
          IN  /\ temps' = temps \ (staged \ kept)
              /\ mislaid' = mislaid \cup kept
    /\ Exit(report)
    /\ UNCHANGED <<iam, minted, ledger, disk, at, nth, originals, held, staged,
                   replaced, committed, todo, incomplete, bounds, late,
                   unrestored, escaped>>

-----------------------------------------------------------------------------
(***************************************************************************)
(* What happens to the process, to the worksheets and to the machine.      *)
(***************************************************************************)

\* A signal in the except clause outside its block still runs the finally
\* clause; one in the finally clause leaves main() at once.
Interrupt ==
    /\ signals < MaxSignals /\ signals' = signals + 1
    /\ \/ /\ pc \in {"read", "preflight"}
          /\ Exit("refused") /\ UNCHANGED <<at, escaped>>
       \/ /\ pc \in InTry
          /\ pc' = "caught"
          /\ at' = LastAttempted
          /\ UNCHANGED <<report, escaped>>
       \/ /\ pc \in {"caught", "report"}
          /\ pc' = "cleanup" /\ report' = "failed"
          /\ escaped' = TRUE /\ UNCHANGED at
       \/ /\ pc = "cleanup"
          /\ Exit("failed") /\ escaped' = TRUE /\ UNCHANGED at
    /\ mislaid' = IF pc = "keep" THEN mislaid \cup {nth} ELSE mislaid
    /\ UNCHANGED <<iam, minted, files, nth, originals, held, staged, replaced,
                   committed, todo, incomplete, edits, runs, late, unrestored>>

Kill ==
    /\ pc # "exited"
    /\ Exit("killed")
    /\ UNCHANGED <<iam, minted, files, at, nth, originals, held, staged,
                   replaced, committed, todo, incomplete, bounds, history>>

Rerun ==
    /\ pc = "exited" /\ runs < MaxRuns /\ runs' = runs + 1
    /\ pc' = "read" /\ at' = FirstUser /\ nth' = 1
    /\ held' = NoKeys /\ staged' = {} /\ replaced' = {} /\ committed' = FALSE
    /\ todo' = {} /\ incomplete' = FALSE /\ report' = "none"
    /\ late' = {} /\ escaped' = FALSE /\ mislaid' = temps
    /\ UNCHANGED <<iam, minted, files, originals, signals, edits, unrestored>>

\* From its second read until the end of the run, worksheet f may be written
\* without another look at it.
Unwatched(f) ==
    \/ pc = "recheck" /\ f < nth
    \/ pc \in {"replace", "fsync", "stat", "caught", "restore"}

\* Somebody saves a worksheet in an editor.  Nobody types over a recorded key.
PersonEdits ==
    /\ edits < MaxEdits /\ edits' = edits + 1
    /\ \E f \in Files, s \in Slot, v \in Text \cup {Empty} :
          /\ ledger[f][s] \notin Key \cup {v}
          /\ ledger' = [ledger EXCEPT ![f][s] = v]
          /\ late' = IF Unwatched(f) THEN late \cup {f} ELSE late
    /\ UNCHANGED <<iam, minted, disk, temps, local, signals, runs, unrestored,
                   mislaid, escaped>>

\* The file system commits a rename nobody asked it to commit.
Writeback ==
    /\ \E f \in Files : /\ disk[f] # ledger[f]
                        /\ disk' = [disk EXCEPT ![f] = ledger[f]]
    /\ UNCHANGED <<iam, minted, ledger, temps, local, bounds, history>>

PowerLoss ==
    /\ disk # ledger /\ ledger' = disk
    /\ IF pc = "exited" THEN UNCHANGED <<pc, report>> ELSE Exit("killed")
    /\ UNCHANGED <<iam, minted, disk, temps, at, nth, originals, held, staged,
                   replaced, committed, todo, incomplete, bounds, history>>

-----------------------------------------------------------------------------
Step ==
    \/ ReadLedger \/ Preflight
    \/ CreateGranted \/ CreateLost \/ CreateRefused \/ Validate
    \/ Stage \/ KeepStaged \/ Recheck \/ ReplaceLedger \/ FsyncDirectory
    \/ FinalStat \/ Handle \/ Restore \/ RestoreNext
    \/ RollbackList \/ RollbackDelete \/ RollbackRaise \/ RollbackNext
    \/ ReportRollback \/ Cleanup

Next ==
    \/ Step
    \/ Interrupt \/ Kill \/ Rerun
    \/ PersonEdits \/ Writeback \/ PowerLoss

Spec == Init /\ [][Next]_vars

-----------------------------------------------------------------------------
(***************************************************************************)
(* Properties.                                                             *)
(***************************************************************************)

TypeOK ==
    /\ KeyStoreTypeOK
    /\ ledger \in [Files -> Worksheet] /\ disk \in [Files -> Worksheet]
    /\ originals \in [Files -> Worksheet]
    /\ temps \in SUBSET Files /\ staged \in SUBSET Files
    /\ replaced \in SUBSET Files
    /\ pc \in PC /\ at \in FirstUser - 1..LastUser /\ nth \in Files
    /\ held \in [Users -> Key \cup {NoKey}]
    /\ committed \in BOOLEAN /\ todo \in SUBSET Key
    /\ incomplete \in BOOLEAN /\ report \in Report
    /\ signals \in 0..MaxSignals /\ edits \in 0..MaxEdits /\ runs \in Nat
    /\ late \in SUBSET Files /\ unrestored \in SUBSET Files
    /\ mislaid \in SUBSET Files /\ escaped \in BOOLEAN

Holds(f) == \A u \in Uses[f] : ledger[f][u] \in iam[u]
HoldsNone(f) == \A u \in Uses[f] : ledger[f][u] \notin Key

\* A run that ends by itself, and does not say that its rollback was
\* incomplete, leaves the keys in both worksheets or in neither, and in the
\* second case no key is left in AWS either.
BothOrNeither ==
    pc = "exited" /\ report \in {"ok", "failed"} /\ ~escaped =>
        \/ \A f \in Files : Holds(f)
        \/ /\ \A f \in Files \ unrestored : HoldsNone(f)
           /\ \A u \in Users : iam[u] = {}

\* The files are put back before the keys are deleted: at no time, whatever
\* crashes, does a worksheet name a dead key, unless putting it back failed
\* (which the run reports).
RecordedKeysLive ==
    \A f \in Files \ unrestored : Holds(f) \/ HoldsNone(f)

\* A dedicated user never gets a second key, not even after a crash.
OneKeyPerUser == \A u \in Users : ~QuotaReached(u)

\* A run that reports success leaves each user's live key in the worksheets
\* that need it, and a power loss afterwards cannot take it back.
SuccessIsDurable ==
    pc = "exited" /\ report = "ok" =>
        \A f \in Files : \A u \in Uses[f] :
            held[u] \in iam[u] /\ disk[f][u] = held[u] /\ ledger[f][u] = held[u]

\* No temporary file, which holds a whole worksheet, outlives a run that
\* ends by itself (one that a signal hid from staged_paths does, and one the
\* system does not let it remove).
NoTempsLeft ==
    pc = "exited" /\ report # "killed" /\ ~escaped => temps \subseteq mislaid

OtherLinesKept(f) == \A s \in Slot \ Uses[f] : ledger'[f][s] = ledger[f][s]

\* Neither the replacement nor the restoration changes a line the program
\* does not own, except in a worksheet edited after its second read.
EditsKept ==
    [][Step => \A f \in Files \ late : OtherLinesKept(f)]_vars
=============================================================================
