----------------------------- MODULE Route53Keys -----------------------------
(***************************************************************************)
(* scripts/bootstrap_route53_access_keys.py: issue one access key for each *)
(* of the dedicated DNS users and record all of them in .env.prod.         *)
(*                                                                         *)
(* A run is one process.  Its program counter pc names the next statement  *)
(* of main(); `at' is the user its loops have reached.  Around it move AWS *)
(* calls that fail or lose their answer, SIGINT/SIGTERM, which the         *)
(* installed handler turns into an exception at the next bytecode, a kill  *)
(* or power loss, and people who edit .env.prod.                           *)
(*                                                                         *)
(* block_termination_signals() delays a signal to the end of its block:    *)
(* the steps inside a block cannot be interrupted, and a signal that       *)
(* arrives there is a signal that arrives right after it.                  *)
(***************************************************************************)
EXTENDS KeyStore, Integers

CONSTANTS
    FirstUser, LastUser,    \* the users of this program are FirstUser..LastUser
    NoKey,                  \* main() has no key for the user yet
    MaxSignals,             \* bound: SIGINT/SIGTERM delivered in a behaviour
    MaxEdits,               \* bound: edits of .env.prod by people
    MaxRuns                 \* bound: runs of the program, one after the other

Users == FirstUser..LastUser

ASSUME Route53Assumption ==
    /\ FirstUser \in Nat \ {0} /\ LastUser \in Nat /\ FirstUser <= LastUser
    /\ Users \subseteq Account
    /\ NoKey \notin Key
    /\ MaxSignals \in Nat /\ MaxEdits \in Nat /\ MaxRuns \in Nat

VARIABLES
    ledger,     \* .env.prod as every process sees it
    disk,       \* .env.prod as it is after a power loss (last directory fsync)
    pc, at,
    snapshot,   \* original_contents
    held,       \* issued: the key main() remembers for each user
    committed,  \* the flag that main() sets after atomic_write
    todo,       \* rollback: the listed keys of user `at' still to delete
    incomplete, \* rollback_attempted_users: failed
    report,     \* how the run ended, as the person who started it sees it
    signals, edits, runs,
    late,       \* history: an edit fell between the second read and the write
    escaped     \* history: a signal hit the except clause outside its block

run == <<pc, at, snapshot, held, committed, todo, incomplete, report>>
history == <<late, escaped>>
bounds == <<signals, edits, runs>>
vars == <<iam, minted, ledger, disk, run, bounds, history>>

\* Inside main()'s try block an exception is caught and may be rolled back.
InTry == {"create", "validate", "recheck", "replace", "fsync"}
InHandler == {"caught", "list", "sweep", "report"}
PC == {"read", "preflight", "stat", "exited"} \cup InTry \cup InHandler

\* refused: an error before the try block.  failed: any exception out of
\* main(), after what looks like a complete rollback or after the commit.
\* incomplete: the error that says a key could not be rolled back.
Report == {"none", "ok", "refused", "failed", "incomplete", "killed"}

NoKeys == [u \in Users |-> NoKey]

Begin ==
    /\ pc = "read" /\ at = FirstUser
    /\ held = NoKeys /\ committed = FALSE
    /\ todo = {} /\ incomplete = FALSE /\ report = "none"

Init ==
    /\ minted \in {{}} \cup {{k} : k \in Key}
    /\ iam \in [Account -> {{}, minted}]
    /\ \A u, v \in Account : iam[u] # {} /\ iam[v] # {} => u = v
    /\ ledger \in [Slot -> Text \cup {Empty}] /\ disk = ledger
    /\ snapshot = ledger
    /\ Begin
    /\ signals = 0 /\ edits = 0 /\ runs = 1
    /\ late = FALSE /\ escaped = FALSE

Exit(why) == /\ pc' = "exited"
             /\ report' = why

-----------------------------------------------------------------------------
(***************************************************************************)
(* The decisions the program takes.  An operator marked as a fault is a    *)
(* mistake a change could make in the one below it; the properties must    *)
(* notice it.                                                              *)
(***************************************************************************)

\* read_env_file(...) != original_contents, read again before the write.
UnmodifiedFields == Blank(ledger, Users)    \* fault: the text is not compared

Unmodified == ledger = snapshot

\* replace_env_assignments: the issued keys in the copy that was read.
Updated == Filled(snapshot, Users, held)

\* What an fsync of the directory makes durable.
SyncedFileOnly == disk  \* fault: only the temporary file is synced

Synced == ledger

\* The last of attempted_users when an exception leaves the try block.
LastAttempted == IF pc = "create" THEN at - 1 ELSE at

\* if not committed
MustRollBackAlways == TRUE  \* fault: the flag is not looked at

MustRollBack == ~committed

\* The keys the rollback goes after are those AWS lists, not those main()
\* remembers.
KeysToDeleteKnown == iam[at] \cap {held[at]}    \* fault: trusts `issued'

KeysToDelete == iam[at]

\* reversed(user_names)
PreviousUserStuck == at     \* fault: the loop does not advance

PreviousUser == at - 1

-----------------------------------------------------------------------------
(***************************************************************************)
(* Before the try block: nothing has been created, an error just ends the  *)
(* run.                                                                    *)
(***************************************************************************)

\* read_env_file.  The other disjunct also stands for a file that is not
\* the regular, private, untracked file it must be.
ReadLedger ==
    /\ pc = "read"
    /\ \/ /\ Blank(ledger, Users)
          /\ snapshot' = ledger
          /\ pc' = "preflight" /\ at' = FirstUser
          /\ UNCHANGED report
       \/ Exit("refused") /\ UNCHANGED <<snapshot, at>>
    /\ UNCHANGED <<iam, minted, ledger, disk, held, committed, todo,
                   incomplete, bounds, history>>

\* validate_iam_user_has_no_keys for user `at'.  The refusal also stands for
\* the caller, stack and output checks in front of the loop.
Preflight ==
    /\ pc = "preflight"
    /\ \/ /\ HasNoKeys(at) /\ at < LastUser
          /\ at' = at + 1 /\ UNCHANGED <<pc, report>>
       \/ /\ HasNoKeys(at) /\ at = LastUser
          /\ pc' = "create" /\ at' = FirstUser /\ UNCHANGED report
       \/ Exit("refused") /\ UNCHANGED at
    /\ UNCHANGED <<iam, minted, ledger, disk, snapshot, held, committed,
                   todo, incomplete, bounds, history>>

-----------------------------------------------------------------------------
(***************************************************************************)
(* The try block.  `at' is always the last user in attempted_users, except *)
(* at "create", where user `at' is the next one to attempt.                *)
(***************************************************************************)

\* The whole block around create_access_key: the attempt is recorded, and
\* the answer, if it comes, is remembered.
CreateGranted ==
    /\ pc = "create"
    /\ \E k \in Key : CreateAccessKey(at, k) /\ held' = [held EXCEPT ![at] = k]
    /\ pc' = "validate"
    /\ UNCHANGED <<ledger, disk, at, snapshot, committed, todo, incomplete,
                   report, bounds, history>>

\* AWS minted the key but the answer was lost or unusable.
CreateLost ==
    /\ pc = "create"
    /\ \E k \in Key : CreateAccessKey(at, k)
    /\ pc' = "caught"
    /\ UNCHANGED <<ledger, disk, at, snapshot, held, committed, todo,
                   incomplete, report, bounds, history>>

CreateRefused ==
    /\ pc = "create"
    /\ pc' = "caught"
    /\ UNCHANGED <<iam, minted, ledger, disk, at, snapshot, held, committed,
                   todo, incomplete, report, bounds, history>>

\* validate_issued_key: only a live key authenticates, and any key may still
\* fail to after the bounded retries (IAM propagation).
Validate ==
    /\ pc = "validate"
    /\ \/ /\ held[at] \in iam[at] /\ at < LastUser
          /\ at' = at + 1 /\ pc' = "create"
       \/ /\ held[at] \in iam[at] /\ at = LastUser
          /\ pc' = "recheck" /\ UNCHANGED at
       \/ pc' = "caught" /\ UNCHANGED at
    /\ UNCHANGED <<iam, minted, ledger, disk, snapshot, held, committed,
                   todo, incomplete, report, bounds, history>>

\* The second read_env_file: a worksheet that changed meanwhile is kept.
Recheck ==
    /\ pc = "recheck"
    /\ \/ Unmodified /\ pc' = "replace"
       \/ pc' = "caught"
    /\ UNCHANGED <<iam, minted, ledger, disk, at, snapshot, held, committed,
                   todo, incomplete, report, bounds, history>>

\* atomic_write (temporary file, fsync, os.replace) and committed = True.
ReplaceLedger ==
    /\ pc = "replace"
    /\ \/ /\ ledger' = Updated
          /\ committed' = TRUE
          /\ pc' = "fsync"
       \/ pc' = "caught" /\ UNCHANGED <<ledger, committed>>
    /\ UNCHANGED <<iam, minted, disk, at, snapshot, held, todo, incomplete,
                   report, bounds, history>>

FsyncDirectory ==
    /\ pc = "fsync"
    /\ \/ disk' = Synced /\ pc' = "stat"
       \/ pc' = "caught" /\ UNCHANGED disk
    /\ UNCHANGED <<iam, minted, ledger, at, snapshot, held, committed, todo,
                   incomplete, report, bounds, history>>

\* After the try block: the file's type and mode are checked once more.
FinalStat ==
    /\ pc = "stat"
    /\ Exit("ok") \/ Exit("failed")
    /\ UNCHANGED <<iam, minted, ledger, disk, at, snapshot, held, committed,
                   todo, incomplete, bounds, history>>

-----------------------------------------------------------------------------
(***************************************************************************)
(* except BaseException: keys are taken back only if nothing was recorded. *)
(***************************************************************************)
Handle ==
    /\ pc = "caught"
    /\ IF MustRollBack THEN pc' = "list" /\ UNCHANGED report
                       ELSE Exit("failed")
    /\ UNCHANGED <<iam, minted, ledger, disk, at, snapshot, held, committed,
                   todo, incomplete, bounds, history>>

\* list-access-keys for the last attempted user not rolled back yet.  A call
\* that fails and an entry that cannot be read both leave keys unlisted.
RollbackList ==
    /\ pc = "list" /\ at >= FirstUser
    /\ \/ todo' = KeysToDelete /\ UNCHANGED incomplete
       \/ todo' \in SUBSET KeysToDelete /\ incomplete' = TRUE
    /\ pc' = "sweep"
    /\ UNCHANGED <<iam, minted, ledger, disk, at, snapshot, held, committed,
                   report, bounds, history>>

RollbackDelete ==
    /\ pc = "sweep"
    /\ \E k \in todo : DeleteAccessKey(at, k) /\ todo' = todo \ {k}
    /\ UNCHANGED <<ledger, disk, pc, at, snapshot, held, committed, incomplete,
                   report, bounds, history>>

\* A delete that raises gives up on the other keys of the same user; the key
\* it was for is gone or not.
RollbackRaise ==
    /\ pc = "sweep"
    /\ \E k \in todo : DeleteAccessKey(at, k) \/ UNCHANGED <<iam, minted>>
    /\ todo' = {} /\ incomplete' = TRUE
    /\ UNCHANGED <<ledger, disk, pc, at, snapshot, held, committed, report,
                   bounds, history>>

RollbackNext ==
    /\ \/ /\ pc = "sweep" /\ todo = {} /\ at > FirstUser
          /\ at' = PreviousUser /\ pc' = "list"
       \/ /\ pc = "sweep" /\ todo = {} /\ at = FirstUser
          /\ pc' = "report" /\ UNCHANGED at
       \/ /\ pc = "list" /\ at < FirstUser
          /\ pc' = "report" /\ UNCHANGED at
    /\ UNCHANGED <<iam, minted, ledger, disk, snapshot, held, committed, todo,
                   incomplete, report, bounds, history>>

ReportRollback ==
    /\ pc = "report"
    /\ Exit(IF incomplete THEN "incomplete" ELSE "failed")
    /\ UNCHANGED <<iam, minted, ledger, disk, at, snapshot, held, committed,
                   todo, incomplete, bounds, history>>

-----------------------------------------------------------------------------
(***************************************************************************)
(* What happens to the process.                                            *)
(***************************************************************************)

\* SIGINT or SIGTERM: install_signal_handlers raises InterruptedError where
\* the program is.  At "caught" and "report" the except clause is running
\* but its block is not entered yet, or left again: the exception leaves
\* main() without the rollback, or without its result.
Interrupt ==
    /\ signals < MaxSignals /\ signals' = signals + 1
    /\ \/ /\ pc \in {"read", "preflight"}
          /\ Exit("refused") /\ UNCHANGED <<at, escaped>>
       \/ /\ pc \in InTry
          /\ pc' = "caught"
          /\ at' = LastAttempted
          /\ UNCHANGED <<report, escaped>>
       \/ /\ pc = "stat"
          /\ Exit("failed") /\ UNCHANGED <<at, escaped>>
       \/ /\ pc \in {"caught", "report"}
          /\ Exit("failed") /\ escaped' = TRUE /\ UNCHANGED at
    /\ UNCHANGED <<iam, minted, ledger, disk, snapshot, held, committed, todo,
                   incomplete, edits, runs, late>>

\* SIGKILL, or the terminal's host goes away.
Kill ==
    /\ pc # "exited"
    /\ Exit("killed")
    /\ UNCHANGED <<iam, minted, ledger, disk, at, snapshot, held, committed,
                   todo, incomplete, bounds, history>>

\* The same command is started again.
Rerun ==
    /\ pc = "exited" /\ runs < MaxRuns /\ runs' = runs + 1
    /\ pc' = "read" /\ at' = FirstUser
    /\ held' = NoKeys /\ committed' = FALSE
    /\ todo' = {} /\ incomplete' = FALSE /\ report' = "none"
    /\ late' = FALSE /\ escaped' = FALSE
    /\ UNCHANGED <<iam, minted, ledger, disk, snapshot, signals, edits>>

-----------------------------------------------------------------------------
(***************************************************************************)
(* What happens to the worksheet.                                          *)
(***************************************************************************)

\* Somebody saves .env.prod in an editor.  Nobody types over a recorded key.
PersonEdits ==
    /\ edits < MaxEdits /\ edits' = edits + 1
    /\ \E s \in Slot, v \in Text \cup {Empty} :
          /\ ledger[s] \notin Key \cup {v}
          /\ ledger' = [ledger EXCEPT ![s] = v]
    /\ late' = (late \/ pc = "replace")
    /\ UNCHANGED <<iam, minted, disk, run, signals, runs, escaped>>

\* The file system commits a rename nobody asked it to commit.
Writeback ==
    /\ disk # ledger /\ disk' = ledger
    /\ UNCHANGED <<iam, minted, ledger, run, bounds, history>>

PowerLoss ==
    /\ disk # ledger /\ ledger' = disk
    /\ IF pc = "exited" THEN UNCHANGED <<pc, report>> ELSE Exit("killed")
    /\ UNCHANGED <<iam, minted, disk, at, snapshot, held, committed, todo,
                   incomplete, bounds, history>>

-----------------------------------------------------------------------------
Step ==
    \/ ReadLedger \/ Preflight
    \/ CreateGranted \/ CreateLost \/ CreateRefused
    \/ Validate \/ Recheck \/ ReplaceLedger \/ FsyncDirectory \/ FinalStat
    \/ Handle \/ RollbackList \/ RollbackDelete \/ RollbackRaise
    \/ RollbackNext \/ ReportRollback

Next ==
    \/ Step
    \/ Interrupt \/ Kill \/ Rerun
    \/ PersonEdits \/ Writeback \/ PowerLoss

Spec == Init /\ [][Next]_vars

\* Every AWS CLI call returns or times out, so a run that is not killed goes
\* on; nobody promises a signal, a crash, an edit or another run.
FairSpec == Spec /\ WF_vars(Step)

-----------------------------------------------------------------------------
(***************************************************************************)
(* Properties.                                                             *)
(***************************************************************************)

TypeOK ==
    /\ KeyStoreTypeOK
    /\ ledger \in Worksheet /\ disk \in Worksheet /\ snapshot \in Worksheet
    /\ pc \in PC /\ at \in FirstUser - 1..LastUser
    /\ held \in [Users -> Key \cup {NoKey}]
    /\ committed \in BOOLEAN /\ todo \in SUBSET Key
    /\ incomplete \in BOOLEAN /\ report \in Report
    /\ signals \in 0..MaxSignals /\ edits \in 0..MaxEdits /\ runs \in Nat
    /\ late \in BOOLEAN /\ escaped \in BOOLEAN

\* .env.prod never names a dead key and is never half filled: either no user
\* has a key in it or every user has a live one, whatever failed, was
\* interrupted or crashed, and in every later run.
RecordedKeysLive ==
    \/ \A u \in Users : ledger[u] \notin Key
    \/ \A u \in Users : ledger[u] \in iam[u]

\* "An existing key stops the program": a dedicated user never gets a second
\* key, not even from a run that follows a crash or an incomplete rollback.
OneKeyPerUser == \A u \in Users : ~QuotaReached(u)

\* A run that failed after it began to create keys, and does not say that
\* keys are left, left none: a lost answer to create-access-key is swept too.
\* (Unless a signal got into the except clause around its block.)
NoSilentLeftover ==
    pc = "exited" /\ report = "failed" /\ ~escaped =>
        committed \/ \A u \in Users : iam[u] = {}

\* A run that reports success leaves each user's live key in the file, and a
\* power loss afterwards cannot take it back.
SuccessIsDurable ==
    pc = "exited" /\ report = "ok" =>
        \A u \in Users : held[u] \in iam[u] /\ disk[u] = held[u] /\ ledger[u] = held[u]

\* The program only writes the file when every line it does not own is as it
\* finds it: an edit saved while the keys were being issued is never
\* overwritten.  (One saved between the second read and os.replace is.)
EditsKept ==
    [][Step /\ ~late => \A s \in Slot \ Users : ledger'[s] = ledger[s]]_vars

\* A started run ends, whatever AWS answers: the rollback cannot go round.
RunsEnd == pc = "read" ~> pc = "exited"

-----------------------------------------------------------------------------
(***************************************************************************)
(* The inductive invariant: what each point of main() may rely on.         *)
(***************************************************************************)

\* Where the loops are.
Position ==
    /\ pc \in {"preflight", "create", "validate", "sweep"} => at \in Users
    /\ pc \in {"recheck", "replace"} => at = LastUser

\* A power loss can only bring back a file without keys, or the same keys.
DiskAgrees ==
    \/ \A u \in Users : disk[u] \notin Key
    \/ \A u \in Users : disk[u] \in iam[u] /\ disk[u] = ledger[u]

\* The flag says whether the file names the keys.
FlagAgrees ==
    /\ pc \in {"fsync", "stat"} => committed
    /\ pc \notin {"fsync", "stat", "caught", "exited"} => ~committed
    /\ pc \notin {"read", "exited"} /\ ~committed => \A u \in Users : ledger[u] \notin Key
    /\ pc # "exited" /\ committed =>
            \A u \in Users : held[u] \in iam[u] /\ ledger[u] = held[u]
    /\ pc = "stat" => \A u \in Users : disk[u] = held[u]

\* Until the run ends every key of a dedicated user is one that main()
\* remembers, the last one it asked for, or one the rollback has still to
\* take back, and once the rollback has passed a user with nothing to report,
\* none of that user's keys is left.
KeysAccountedFor ==
    /\ pc = "preflight" => \A u \in Users : u < at => iam[u] = {}
    /\ pc = "create" => \A u \in Users :
            IF u < at THEN held[u] \in iam[u] ELSE iam[u] = {}
    /\ pc = "validate" => \A u \in Users :
            IF u <= at THEN held[u] \in iam[u] ELSE iam[u] = {}
    /\ pc \in {"recheck", "replace"} => \A u \in Users : held[u] \in iam[u]
    /\ pc = "caught" /\ ~committed => \A u \in Users : u > at => iam[u] = {}
    /\ pc \in {"list", "sweep"} /\ ~incomplete =>
            \A u \in Users : u > at => iam[u] = {}
    /\ pc = "sweep" /\ ~incomplete => iam[at] \subseteq todo
    /\ pc = "report" /\ ~incomplete => \A u \in Users : iam[u] = {}

\* How a run ends.
EndAgrees ==
    /\ escaped => pc = "exited"
    /\ pc = "exited" => report # "none"

\* What main() is about to write is what it would find.
CopyAgrees == pc = "replace" /\ ~late => \A s \in Slot \ Users : ledger[s] = snapshot[s]

IInv ==
    /\ TypeOK /\ Position
    /\ OneKeyPerUser /\ RecordedKeysLive /\ NoSilentLeftover /\ SuccessIsDurable
    /\ DiskAgrees /\ FlagAgrees /\ KeysAccountedFor /\ EndAgrees /\ CopyAgrees

-----------------------------------------------------------------------------
(***************************************************************************)
(* The run implements KeyIssue.  A signal in the except clause is the one  *)
(* end of a run whose message promises nothing.                            *)
(***************************************************************************)
Recorded(file) == [u \in Users |-> IF file[u] \in Key THEN file[u] ELSE NoKey]

Verdict ==
    IF pc # "exited" THEN "open" ELSE IF escaped THEN "interrupted" ELSE report

Promise == INSTANCE KeyIssue WITH
    User <- Users, None <- NoKey,
    keys <- [u \in Users |-> iam[u]],
    recorded <- Recorded(ledger),
    confirmed <- \A u \in Users : disk[u] \in Key,
    verdict <- Verdict

\* Seen from outside, a run only ever records all keys at once, withdraws
\* keys that are not recorded, and ends with a verdict that is true.
KeepsPromise == Promise!Spec
=============================================================================
