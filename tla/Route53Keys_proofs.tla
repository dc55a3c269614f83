------------------------- MODULE Route53Keys_proofs -------------------------
(***************************************************************************)
(* Proofs about Route53Keys: for any number of dedicated users and keys,   *)
(* any number of signals, edits and runs.                                  *)
(*                                                                         *)
(* The theorems rest on IInv.  No property but the type of the variables   *)
(* is inductive alone: that a rollback cannot reach a recorded key needs   *)
(* the flag to agree with the file, which needs the file to stay without   *)
(* keys until they are written, which needs to know which keys each step   *)
(* of main() may rely on.                                                  *)
(*                                                                         *)
(* The last two sections are about EnvProd, the same run beside one of the *)
(* prod program or a second of its own kind.  They rest on Joint, which    *)
(* follows the keys through every copy of .env.prod, and on InIam.         *)
(***************************************************************************)
EXTENDS EnvProd, TLAPS

-----------------------------------------------------------------------------
(***************************************************************************)
(* Types.                                                                  *)
(***************************************************************************)

\* The users are numbered, at least one of them exists.
LEMMA UsersFacts ==
    /\ FirstUser \in Int /\ LastUser \in Int /\ FirstUser <= LastUser
    /\ Users \subseteq Account /\ Users \subseteq Slot
    /\ \A u \in Users : u \in Int /\ FirstUser <= u /\ u <= LastUser
    /\ NoKey \notin Key /\ Empty \notin Key /\ Key \cap Text = {}
BY Route53Assumption, KeyStoreAssumption DEF Users

LEMMA TypeInit == Init => TypeOK /\ Position
<1> SUFFICES ASSUME Init PROVE TypeOK /\ Position
    OBVIOUS
<1>1. KeyStoreTypeOK
    BY DEF Init, KeyStoreTypeOK
<1>2. ledger \in Worksheet /\ disk \in Worksheet /\ snapshot \in Worksheet
    BY DEF Init, Worksheet, Value
<1>3. held \in [Users -> Key \cup {NoKey}]
    BY DEF Init, Begin, NoKeys
<1>4. signals \in 0..MaxSignals /\ edits \in 0..MaxEdits /\ runs \in Nat
    BY Route53Assumption DEF Init
<1>5. pc \in PC /\ at \in FirstUser - 1..LastUser /\ Position
    BY UsersFacts DEF Init, Begin, PC, Position
<1> QED
    BY <1>1, <1>2, <1>3, <1>4, <1>5 DEF TypeOK, Init, Begin, Report

LEMMA CreateType ==
    ASSUME KeyStoreTypeOK, NEW u, NEW k, CreateAccessKey(u, k)
    PROVE  KeyStoreTypeOK'
BY DEF KeyStoreTypeOK, CreateAccessKey

LEMMA DeleteType ==
    ASSUME KeyStoreTypeOK, NEW u, NEW k, DeleteAccessKey(u, k)
    PROVE  KeyStoreTypeOK'
BY DEF KeyStoreTypeOK, DeleteAccessKey

LEMMA FilledType ==
    ASSUME NEW f \in Worksheet, NEW h \in [Users -> Key]
    PROVE  Filled(f, Users, h) \in Worksheet
BY DEF Filled, Worksheet, Value

LEMMA TypeStep ==
    ASSUME IInv, [Next]_vars
    PROVE  TypeOK' /\ Position'
<1> USE UsersFacts
<1>0. TypeOK /\ Position
    BY DEF IInv
<1>1. ASSUME ReadLedger \/ Preflight \/ Handle \/ Recheck \/ FinalStat
             \/ ReportRollback \/ Kill
      PROVE  TypeOK' /\ Position'
    BY <1>0, <1>1 DEF TypeOK, Position, KeyStoreTypeOK, PC, InTry, InHandler, Report, Exit,
        ReadLedger, Preflight, Handle, Recheck, FinalStat, ReportRollback, Kill,
        Users, history, bounds, run
<1>2. ASSUME CreateGranted \/ CreateLost \/ CreateRefused
      PROVE  TypeOK' /\ Position'
    <2>1. KeyStoreTypeOK'
        BY <1>0, <1>2, CreateType
        DEF CreateGranted, CreateLost, CreateRefused, TypeOK, KeyStoreTypeOK
    <2>2. held' \in [Users -> Key \cup {NoKey}]
        BY <1>0, <1>2 DEF CreateGranted, CreateLost, CreateRefused, TypeOK
    <2> QED
        BY <1>0, <1>2, <2>1, <2>2
        DEF CreateGranted, CreateLost, CreateRefused, TypeOK, Position, PC, InTry, InHandler,
            history, bounds
<1>3. CASE Validate
    BY <1>0, <1>3 DEF Validate, TypeOK, Position, KeyStoreTypeOK, PC, InTry, InHandler,
        Users, history, bounds
<1>4. CASE ReplaceLedger
    <2>1. CASE ledger' = Updated /\ committed' = TRUE /\ pc' = "fsync"
        <3>1. held \in [Users -> Key]
            BY <1>0, <1>4 DEF ReplaceLedger, IInv, KeysAccountedFor, TypeOK, KeyStoreTypeOK
        <3>2. ledger' \in Worksheet
            BY <1>0, <2>1, <3>1, FilledType DEF TypeOK, Updated
        <3> QED
            BY <1>0, <1>4, <2>1, <3>2 DEF ReplaceLedger, TypeOK, Position, KeyStoreTypeOK,
                PC, InTry, InHandler, history, bounds
    <2>2. CASE pc' = "caught" /\ UNCHANGED <<ledger, committed>>
        BY <1>0, <1>4, <2>2 DEF ReplaceLedger, TypeOK, Position, KeyStoreTypeOK,
            PC, InTry, InHandler, history, bounds
    <2> QED
        BY <1>4, <2>1, <2>2 DEF ReplaceLedger
<1>5. CASE FsyncDirectory
    BY <1>0, <1>5 DEF FsyncDirectory, Synced, TypeOK, Position, KeyStoreTypeOK, PC, InTry,
        InHandler, history, bounds
<1>6. CASE RollbackList
    <2>1. todo' \in SUBSET Key
        BY <1>0, <1>6 DEF RollbackList, KeysToDelete, TypeOK, KeyStoreTypeOK, Users
    <2>2. at \in Users
        BY <1>0, <1>6 DEF RollbackList, TypeOK, Users
    <2> QED
        BY <1>0, <1>6, <2>1, <2>2 DEF RollbackList, TypeOK, Position, KeyStoreTypeOK, PC,
            InTry, InHandler, history, bounds
<1>7. CASE RollbackDelete \/ RollbackRaise
    <2>1. KeyStoreTypeOK'
        BY <1>0, <1>7, DeleteType DEF RollbackDelete, RollbackRaise, TypeOK, KeyStoreTypeOK
    <2> QED
        BY <1>0, <1>7, <2>1 DEF RollbackDelete, RollbackRaise, TypeOK, Position, PC, InTry,
            InHandler, history, bounds
<1>8. CASE RollbackNext
    BY <1>0, <1>8 DEF RollbackNext, PreviousUser, TypeOK, Position, KeyStoreTypeOK, PC, InTry,
        InHandler, Users, history, bounds
<1>9. CASE Interrupt
    <2>1. KeyStoreTypeOK' /\ ledger' \in Worksheet /\ disk' \in Worksheet
          /\ snapshot' \in Worksheet /\ held' \in [Users -> Key \cup {NoKey}]
        BY <1>0, <1>9 DEF Interrupt, TypeOK, KeyStoreTypeOK
    <2>2. at' \in FirstUser - 1..LastUser
        BY <1>0, <1>9 DEF Interrupt, LastAttempted, TypeOK, Position, Users
    <2>3. pc' \in PC /\ report' \in Report /\ escaped' \in BOOLEAN
          /\ pc' \in {"caught", "exited"}
        BY <1>0, <1>9 DEF Interrupt, Exit, TypeOK, PC, InTry, InHandler, Report
    <2>4. signals' \in 0..MaxSignals
        BY <1>0, <1>9, Route53Assumption DEF Interrupt, TypeOK
    <2> QED
        BY <1>0, <1>9, <2>1, <2>2, <2>3, <2>4 DEF Interrupt, TypeOK, Position
<1>10. CASE Rerun
    <2>1. held' \in [Users -> Key \cup {NoKey}]
        BY <1>10 DEF Rerun, NoKeys
    <2>2. pc' \in PC /\ report' \in Report /\ at' \in FirstUser - 1..LastUser /\ runs' \in Nat
        BY <1>0, <1>10 DEF Rerun, PC, Report, TypeOK
    <2> QED
        BY <1>0, <1>10, <2>1, <2>2 DEF Rerun, TypeOK, Position, KeyStoreTypeOK
<1>11. CASE PersonEdits
    <2>1. ledger' \in Worksheet
        BY <1>0, <1>11 DEF PersonEdits, TypeOK, Worksheet, Value
    <2> QED
        BY <1>0, <1>11, <2>1, Route53Assumption DEF PersonEdits, TypeOK, Position,
            KeyStoreTypeOK, run
<1>12. CASE Writeback \/ PowerLoss
    BY <1>0, <1>12 DEF Writeback, PowerLoss, Exit, Report, PC, TypeOK, Position,
        KeyStoreTypeOK, run, history, bounds
<1>13. CASE UNCHANGED vars
    BY <1>0, <1>13 DEF vars, run, history, bounds, TypeOK, Position, KeyStoreTypeOK
<1> QED
    BY <1>1, <1>2, <1>3, <1>4, <1>5, <1>6, <1>7, <1>8, <1>9, <1>10, <1>11, <1>12, <1>13
    DEF Next, Step

-----------------------------------------------------------------------------
(***************************************************************************)
(* The rest of the invariant, one lemma for each part of main().           *)
(***************************************************************************)

\* IInv without the types.
Agree ==
    /\ OneKeyPerUser /\ RecordedKeysLive /\ NoSilentLeftover /\ SuccessIsDurable
    /\ DiskAgrees /\ FlagAgrees /\ KeysAccountedFor /\ EndAgrees /\ CopyAgrees

\* What creating and deleting a key does to the users of this program.
LEMMA CreateEffect ==
    ASSUME TypeOK, NEW u \in Users, NEW k, CreateAccessKey(u, k)
    PROVE  k \in Key /\ \A v \in Users : iam'[v] = IF v = u THEN iam[u] \cup {k} ELSE iam[v]
BY UsersFacts DEF TypeOK, KeyStoreTypeOK, CreateAccessKey

LEMMA DeleteEffect ==
    ASSUME TypeOK, NEW u \in Users, NEW k, DeleteAccessKey(u, k)
    PROVE  k \in iam[u] /\ \A v \in Users : iam'[v] = IF v = u THEN iam[u] \ {k} ELSE iam[v]
BY UsersFacts DEF TypeOK, KeyStoreTypeOK, DeleteAccessKey

LEMMA InitAgrees == Init => Agree
<1> SUFFICES ASSUME Init PROVE Agree
    OBVIOUS
<1>1. OneKeyPerUser
    <2>1. ASSUME NEW a \in minted, NEW b \in minted PROVE a = b
        BY <2>1 DEF Init
    <2>2. \A u \in Users : iam[u] \subseteq minted
        BY UsersFacts DEF Init
    <2> QED
        BY <2>1, <2>2 DEF OneKeyPerUser, QuotaReached
<1>2. \A u \in Users : ledger[u] \notin Key /\ disk[u] \notin Key
    BY UsersFacts DEF Init
<1> QED
    BY <1>1, <1>2, UsersFacts DEF Agree, Init, Begin, RecordedKeysLive, NoSilentLeftover,
        SuccessIsDurable, DiskAgrees, FlagAgrees, KeysAccountedFor, EndAgrees, CopyAgrees

\* Steps that leave AWS and both copies of the file alone.
LEMMA QuietStep ==
    ASSUME IInv, 
           ReadLedger \/ Preflight \/ CreateRefused \/ Validate \/ Recheck \/ FinalStat
             \/ Handle \/ RollbackNext \/ ReportRollback \/ Kill \/ Rerun
    PROVE  Agree'
<1> USE UsersFacts
<1>0. TypeOK /\ Position /\ Agree
    BY DEF IInv, Agree
<1>1. UNCHANGED <<iam, ledger, disk>>
    BY DEF ReadLedger, Preflight, CreateRefused, Validate, Recheck, FinalStat, Handle,
        RollbackNext, ReportRollback, Kill, Rerun
<1>2. OneKeyPerUser' /\ RecordedKeysLive' /\ DiskAgrees'
    BY <1>0, <1>1 DEF Agree, OneKeyPerUser, QuotaReached, RecordedKeysLive, DiskAgrees
<1>3. CASE ReadLedger
    BY <1>0, <1>1, <1>2, <1>3 DEF ReadLedger, Blank, Exit, Agree, NoSilentLeftover, Users,
        SuccessIsDurable, FlagAgrees, KeysAccountedFor, EndAgrees, CopyAgrees, history, bounds
<1>4. CASE Preflight
    BY <1>0, <1>1, <1>2, <1>4 DEF Preflight, HasNoKeys, Exit, Agree, Position, NoSilentLeftover,
        SuccessIsDurable, FlagAgrees, KeysAccountedFor, EndAgrees, CopyAgrees, history, bounds
<1>5. CASE CreateRefused
    BY <1>0, <1>1, <1>2, <1>5 DEF CreateRefused, Agree, Position, NoSilentLeftover,
        SuccessIsDurable, FlagAgrees, KeysAccountedFor, EndAgrees, CopyAgrees, history, bounds
<1>6. CASE Validate
    BY <1>0, <1>1, <1>2, <1>6 DEF Validate, Agree, Position, NoSilentLeftover,
        SuccessIsDurable, FlagAgrees, KeysAccountedFor, EndAgrees, CopyAgrees, history, bounds
<1>7. CASE Recheck
    BY <1>0, <1>1, <1>2, <1>7 DEF Recheck, Unmodified, Agree, Position, NoSilentLeftover,
        SuccessIsDurable, FlagAgrees, KeysAccountedFor, EndAgrees, CopyAgrees, history, bounds
<1>8. CASE FinalStat
    BY <1>0, <1>1, <1>2, <1>8 DEF FinalStat, Exit, Agree, Position, NoSilentLeftover,
        SuccessIsDurable, FlagAgrees, KeysAccountedFor, EndAgrees, CopyAgrees, history, bounds
<1>9. CASE Handle
    BY <1>0, <1>1, <1>2, <1>9 DEF Handle, MustRollBack, Exit, Agree, Position, NoSilentLeftover,
        SuccessIsDurable, FlagAgrees, KeysAccountedFor, EndAgrees, CopyAgrees, history, bounds
<1>10. CASE RollbackNext
    <2>1. ~incomplete /\ pc' = "list" => \A u \in Users : u > at' => iam[u] = {}
        BY <1>0, <1>10 DEF RollbackNext, PreviousUser, Agree, Position, KeysAccountedFor, TypeOK
    <2>2. ~incomplete /\ pc' = "report" => \A u \in Users : iam[u] = {}
        BY <1>0, <1>10 DEF RollbackNext, Agree, Position, KeysAccountedFor, TypeOK
    <2>3. KeysAccountedFor'
        BY <1>1, <1>10, <2>1, <2>2 DEF RollbackNext, KeysAccountedFor
    <2> QED
        BY <1>0, <1>1, <1>2, <1>10, <2>3 DEF RollbackNext, Agree, NoSilentLeftover,
            SuccessIsDurable, FlagAgrees, EndAgrees, CopyAgrees, history, bounds
<1>11. CASE ReportRollback
    BY <1>0, <1>1, <1>2, <1>11 DEF ReportRollback, Exit, Agree, Position, NoSilentLeftover,
        SuccessIsDurable, FlagAgrees, KeysAccountedFor, EndAgrees, CopyAgrees, history, bounds
<1>12. CASE Kill \/ Rerun
    BY <1>0, <1>1, <1>2, <1>12 DEF Kill, Rerun, Exit, Agree, Position, NoSilentLeftover,
        SuccessIsDurable, FlagAgrees, KeysAccountedFor, EndAgrees, CopyAgrees, history, bounds
<1> QED
    BY <1>3, <1>4, <1>5, <1>6, <1>7, <1>8, <1>9, <1>10, <1>11, <1>12

\* A key is created for a user that has none.
LEMMA CreateStep ==
    ASSUME IInv, CreateGranted \/ CreateLost
    PROVE  Agree'
<1> USE UsersFacts
<1>0. TypeOK /\ Position /\ Agree /\ at \in Users /\ pc = "create"
    BY DEF IInv, Agree, Position, CreateGranted, CreateLost
<1>1. PICK k \in Key : /\ CreateAccessKey(at, k)
                       /\ \/ pc' = "validate" /\ held' = [held EXCEPT ![at] = k]
                          \/ pc' = "caught" /\ held' = held
    BY DEF CreateGranted, CreateLost
<1>2. UNCHANGED <<ledger, disk, at, snapshot, committed, todo, incomplete, report, late, escaped>>
    BY DEF CreateGranted, CreateLost, bounds, history
<1>3. \A v \in Users : iam'[v] = IF v = at THEN iam[at] \cup {k} ELSE iam[v]
    BY <1>0, <1>1, CreateEffect
<1>4. ~committed /\ \A u \in Users : ledger[u] \notin Key /\ disk[u] \notin Key
    <2>1. \A u \in Users : ledger[u] \notin Key
        BY <1>0 DEF Agree, FlagAgrees
    <2>2. \A u \in Users : iam[u] \subseteq Key
        BY <1>0 DEF TypeOK, KeyStoreTypeOK
    <2> QED
        BY <1>0, <2>1, <2>2 DEF Agree, FlagAgrees, DiskAgrees
<1>5. iam[at] = {} /\ \A u \in Users : IF u < at THEN held[u] \in iam[u] ELSE iam[u] = {}
    BY <1>0 DEF Agree, KeysAccountedFor
<1>6. OneKeyPerUser'
    BY <1>0, <1>3, <1>5 DEF Agree, OneKeyPerUser, QuotaReached
<1>7. KeysAccountedFor'
    <2>1. CASE pc' = "validate" /\ held' = [held EXCEPT ![at] = k]
        <3>1. \A u \in Users : held'[u] = IF u = at THEN k ELSE held[u]
            BY <1>0, <2>1 DEF TypeOK
        <3> QED
            BY <1>0, <1>2, <1>3, <1>5, <2>1, <3>1 DEF KeysAccountedFor
    <2>2. CASE pc' = "caught"
        BY <1>0, <1>2, <1>3, <1>5, <2>2 DEF KeysAccountedFor
    <2> QED
        BY <1>1, <2>1, <2>2
<1> QED
    BY <1>0, <1>1, <1>2, <1>4, <1>6, <1>7 DEF Agree, RecordedKeysLive, NoSilentLeftover,
        SuccessIsDurable, DiskAgrees, FlagAgrees, EndAgrees, CopyAgrees

\* A key is deleted: no copy of the file names it, for the run that deletes
\* keys has not written any.
LEMMA DeleteStep ==
    ASSUME IInv, RollbackDelete \/ RollbackRaise
    PROVE  Agree'
<1> USE UsersFacts
<1>0. TypeOK /\ Position /\ Agree /\ at \in Users /\ pc = "sweep"
    BY DEF IInv, Agree, Position, RollbackDelete, RollbackRaise
<1>1. UNCHANGED <<ledger, disk, pc, at, snapshot, held, committed, report, late, escaped>>
    BY DEF RollbackDelete, RollbackRaise, bounds, history
<1>2. PICK gone : /\ \A v \in Users : iam'[v] = IF v = at THEN iam[at] \ gone ELSE iam[v]
                  /\ \/ todo' = todo \ gone /\ incomplete' = incomplete
                     \/ incomplete' = TRUE
    <2>1. CASE \E k \in todo :
                 /\ DeleteAccessKey(at, k)
                 /\ \/ todo' = todo \ {k} /\ incomplete' = incomplete
                    \/ incomplete' = TRUE
        BY <1>0, <2>1, DeleteEffect
    <2>2. CASE UNCHANGED <<iam, minted>> /\ incomplete' = TRUE
        BY <2>2
    <2> QED
        BY <2>1, <2>2 DEF RollbackDelete, RollbackRaise
<1>3. ~committed /\ \A u \in Users : ledger[u] \notin Key /\ disk[u] \notin Key
    <2>1. \A u \in Users : iam[u] \subseteq Key
        BY <1>0 DEF TypeOK, KeyStoreTypeOK
    <2> QED
        BY <1>0, <2>1 DEF Agree, FlagAgrees, DiskAgrees
<1>4. OneKeyPerUser'
    BY <1>0, <1>2 DEF Agree, OneKeyPerUser, QuotaReached
<1>5. KeysAccountedFor'
    BY <1>0, <1>1, <1>2 DEF Agree, KeysAccountedFor, TypeOK
<1> QED
    BY <1>0, <1>1, <1>3, <1>4, <1>5 DEF Agree, RecordedKeysLive, NoSilentLeftover,
        SuccessIsDurable, DiskAgrees, FlagAgrees, EndAgrees, CopyAgrees

\* The listing.
LEMMA ListStep ==
    ASSUME IInv, RollbackList
    PROVE  Agree'
<1>1. TypeOK /\ Agree /\ UNCHANGED <<iam, ledger, disk, at, committed>>
    BY DEF IInv, Agree, RollbackList
<1>2. KeysAccountedFor'
    BY <1>1 DEF RollbackList, KeysToDelete, Agree, KeysAccountedFor, TypeOK
<1> QED
    BY <1>1, <1>2 DEF RollbackList, Agree, OneKeyPerUser, QuotaReached, RecordedKeysLive,
        NoSilentLeftover, SuccessIsDurable, DiskAgrees, FlagAgrees, EndAgrees, CopyAgrees,
        history, bounds

\* The keys are written: all of them, over a file without any.
LEMMA ReplaceStep ==
    ASSUME IInv, ReplaceLedger
    PROVE  Agree'
<1> USE UsersFacts
<1>0. TypeOK /\ Position /\ Agree /\ pc = "replace" /\ ~committed
    BY DEF IInv, Agree, FlagAgrees, ReplaceLedger
<1>1. UNCHANGED <<iam, disk, at, snapshot, held, todo, incomplete, report, late, escaped>>
    BY DEF ReplaceLedger, bounds, history
<1>2. /\ \A u \in Users : held[u] \in iam[u] /\ iam[u] \subseteq Key
      /\ \A u \in Users : ledger[u] \notin Key
    BY <1>0 DEF Agree, FlagAgrees, KeysAccountedFor, TypeOK, KeyStoreTypeOK
<1>3. \A u \in Users : disk[u] \notin Key
    BY <1>0, <1>2 DEF Agree, DiskAgrees
<1>4. CASE pc' = "caught" /\ UNCHANGED <<ledger, committed>>
    BY <1>0, <1>1, <1>2, <1>3, <1>4 DEF Agree, Position, OneKeyPerUser, QuotaReached,
        RecordedKeysLive, NoSilentLeftover, SuccessIsDurable, DiskAgrees, FlagAgrees,
        KeysAccountedFor, EndAgrees, CopyAgrees
<1>5. CASE ledger' = Updated /\ committed' = TRUE /\ pc' = "fsync"
    <2>1. \A u \in Users : ledger'[u] = held[u]
        BY <1>5 DEF Updated, Filled
    <2> QED
        BY <1>0, <1>1, <1>2, <1>3, <1>5, <2>1 DEF Agree, OneKeyPerUser, QuotaReached,
            RecordedKeysLive, NoSilentLeftover, SuccessIsDurable, DiskAgrees, FlagAgrees,
            KeysAccountedFor, EndAgrees, CopyAgrees
<1> QED
    BY <1>4, <1>5 DEF ReplaceLedger

\* Once the directory is synced the disk holds what the file holds.
LEMMA SyncStep ==
    ASSUME IInv, FsyncDirectory \/ Writeback
    PROVE  Agree'
<1> USE UsersFacts
<1>0. TypeOK /\ Agree
    BY DEF IInv, Agree
<1>1. UNCHANGED <<iam, ledger, at, snapshot, held, committed, todo, incomplete, report, late,
                  escaped>>
    BY DEF FsyncDirectory, Writeback, bounds, history, run
<1>2. \/ pc = "fsync" /\ pc' = "stat" /\ disk' = ledger
      \/ pc = "fsync" /\ pc' = "caught" /\ disk' = disk
      \/ pc' = pc /\ disk' = ledger
    BY DEF FsyncDirectory, Synced, Writeback, run
<1>3. DiskAgrees'
    BY <1>0, <1>1, <1>2 DEF Agree, DiskAgrees, RecordedKeysLive
<1>4. pc # "exited" /\ committed => \A u \in Users : ledger[u] = held[u]
    BY <1>0 DEF Agree, FlagAgrees
<1>5. FlagAgrees'
    BY <1>0, <1>1, <1>2, <1>4 DEF Agree, FlagAgrees
<1>6. SuccessIsDurable'
    BY <1>0, <1>1, <1>2 DEF Agree, SuccessIsDurable
<1>7. KeysAccountedFor'
    BY <1>0, <1>1, <1>2 DEF Agree, FlagAgrees, KeysAccountedFor
<1>8. OneKeyPerUser' /\ RecordedKeysLive'
    BY <1>0, <1>1 DEF Agree, OneKeyPerUser, QuotaReached, RecordedKeysLive
<1>9. NoSilentLeftover' /\ EndAgrees' /\ CopyAgrees'
    BY <1>0, <1>1, <1>2 DEF Agree, NoSilentLeftover, EndAgrees, CopyAgrees
<1> QED
    BY <1>3, <1>5, <1>6, <1>7, <1>8, <1>9 DEF Agree

\* A signal only moves the run to where exceptions go.
LEMMA InterruptStep ==
    ASSUME IInv, Interrupt
    PROVE  Agree'
<1> USE UsersFacts
<1>0. TypeOK /\ Position /\ Agree
    BY DEF IInv, Agree
<1>1. UNCHANGED <<iam, ledger, disk, snapshot, held, committed, todo, incomplete, late>>
    BY DEF Interrupt
<1>2. CASE pc \in InTry /\ pc' = "caught" /\ at' = LastAttempted /\ UNCHANGED <<report, escaped>>
    <2>1. \A u \in Users : ~committed /\ u > at' => iam[u] = {}
        BY <1>0, <1>2 DEF InTry, LastAttempted, Agree, Position, KeysAccountedFor, FlagAgrees,
            TypeOK
    <2> QED
        BY <1>0, <1>1, <1>2, <2>1 DEF InTry, Agree, OneKeyPerUser, QuotaReached,
            RecordedKeysLive, NoSilentLeftover, SuccessIsDurable, DiskAgrees, FlagAgrees,
            KeysAccountedFor, EndAgrees, CopyAgrees
<1>3. CASE /\ pc' = "exited"
           /\ \/ report' = "refused" /\ UNCHANGED escaped
              \/ pc = "stat" /\ report' = "failed" /\ UNCHANGED escaped
              \/ report' = "failed" /\ escaped' = TRUE
    BY <1>0, <1>1, <1>3 DEF Agree, OneKeyPerUser, QuotaReached,
        RecordedKeysLive, NoSilentLeftover, SuccessIsDurable, DiskAgrees, FlagAgrees,
        KeysAccountedFor, EndAgrees, CopyAgrees
<1> QED
    BY <1>2, <1>3 DEF Interrupt, Exit

\* Nobody types over a key, so an edit touches nothing the invariant is about.
LEMMA EditStep ==
    ASSUME IInv, PersonEdits
    PROVE  Agree'
<1> USE UsersFacts
<1>0. TypeOK /\ Agree
    BY DEF IInv, Agree
<1>1. UNCHANGED <<iam, disk, pc, at, snapshot, held, committed, todo, incomplete, report, escaped>>
      /\ late' = (late \/ pc = "replace")
    BY DEF PersonEdits, run
<1>2. PICK s \in Slot, v \in Text \cup {Empty} :
        ledger[s] \notin Key /\ ledger' = [ledger EXCEPT ![s] = v]
    BY DEF PersonEdits
<1>3. v \notin Key /\ \A q \in Slot : ledger'[q] = IF q = s THEN v ELSE ledger[q]
    BY <1>0, <1>2 DEF TypeOK, Worksheet
<1>4. \A u \in Users : /\ ledger[u] \in Key => ledger'[u] = ledger[u]
                       /\ ledger'[u] \in Key => ledger'[u] = ledger[u]
    BY <1>2, <1>3
<1>5. \A u \in Users : iam[u] \subseteq Key
    BY <1>0 DEF TypeOK, KeyStoreTypeOK
<1>6. RecordedKeysLive' /\ DiskAgrees'
    BY <1>0, <1>1, <1>4, <1>5 DEF Agree, RecordedKeysLive, DiskAgrees
<1>7. SuccessIsDurable'
    BY <1>0, <1>1, <1>4, <1>5 DEF Agree, SuccessIsDurable
<1>8. FlagAgrees'
    BY <1>0, <1>1, <1>4, <1>5 DEF Agree, FlagAgrees
<1> QED
    BY <1>0, <1>1, <1>6, <1>7, <1>8 DEF Agree, OneKeyPerUser, QuotaReached, NoSilentLeftover,
        KeysAccountedFor, EndAgrees, CopyAgrees

\* A power loss brings back an older file, and ends the run.
LEMMA PowerStep ==
    ASSUME IInv, PowerLoss
    PROVE  Agree'
<1> USE UsersFacts
<1>0. TypeOK /\ Agree
    BY DEF IInv, Agree
<1>1. UNCHANGED <<iam, disk, at, snapshot, held, committed, todo, incomplete, late, escaped>>
      /\ ledger' = disk
    BY DEF PowerLoss, bounds, history
<1>2. /\ pc' = "exited"
      /\ \/ report' = "killed"
         \/ pc = "exited" /\ report' = report
    BY DEF PowerLoss, Exit
<1>3. OneKeyPerUser' /\ RecordedKeysLive' /\ DiskAgrees'
    <2>1. OneKeyPerUser'
        BY <1>0, <1>1 DEF Agree, OneKeyPerUser, QuotaReached
    <2>2. CASE \A u \in Users : disk[u] \notin Key
        BY <1>1, <2>1, <2>2 DEF RecordedKeysLive, DiskAgrees
    <2>3. CASE \A u \in Users : disk[u] \in iam[u] /\ disk[u] = ledger[u]
        BY <1>1, <2>1, <2>3 DEF RecordedKeysLive, DiskAgrees
    <2> QED
        BY <1>0, <2>2, <2>3 DEF Agree, DiskAgrees
<1>4. NoSilentLeftover' /\ EndAgrees'
    BY <1>0, <1>1, <1>2 DEF Agree, NoSilentLeftover, EndAgrees
<1>5. SuccessIsDurable'
    BY <1>0, <1>1, <1>2 DEF Agree, SuccessIsDurable
<1> QED
    BY <1>2, <1>3, <1>4, <1>5 DEF Agree, FlagAgrees, KeysAccountedFor, CopyAgrees

LEMMA StutterStep ==
    ASSUME IInv, UNCHANGED vars
    PROVE  Agree'
BY DEF IInv, vars, run, history, bounds, Agree, OneKeyPerUser, QuotaReached, RecordedKeysLive,
    NoSilentLeftover, SuccessIsDurable, DiskAgrees, FlagAgrees, KeysAccountedFor, EndAgrees,
    CopyAgrees

LEMMA InvStep == IInv /\ [Next]_vars => IInv'
<1> SUFFICES ASSUME IInv, [Next]_vars PROVE IInv'
    OBVIOUS
<1>1. TypeOK' /\ Position'
    BY TypeStep
<1>2. Agree'
    BY QuietStep, CreateStep, DeleteStep, ListStep, ReplaceStep, SyncStep, InterruptStep,
        EditStep, PowerStep, StutterStep
    DEF Next, Step
<1> QED
    BY <1>1, <1>2 DEF IInv, Agree

-----------------------------------------------------------------------------
(***************************************************************************)
(* Theorems.                                                               *)
(***************************************************************************)

\* Whatever fails, is interrupted or crashes, every point of main() may rely
\* on what IInv says of it.
THEOREM Invariance == Spec => []IInv
<1>1. Init => IInv
    BY TypeInit, InitAgrees DEF IInv, Agree
<1> QED
    BY <1>1, InvStep, PTL DEF Spec

\* The variables keep their types; a written file in particular holds keys
\* and never the NoKey of a user that main() has none for.
THEOREM TypeCorrect == Spec => []TypeOK
BY Invariance, PTL DEF IInv

\* .env.prod never names a dead key and is never half filled, in any number
\* of runs with any number of signals, crashes and edits.
THEOREM RecordSafe == Spec => []RecordedKeysLive
BY Invariance, PTL DEF IInv

\* A dedicated user never has two keys.
THEOREM OneKey == Spec => []OneKeyPerUser
BY Invariance, PTL DEF IInv

\* A run that fails without saying that keys are left has left none.
THEOREM RollbackComplete == Spec => []NoSilentLeftover
BY Invariance, PTL DEF IInv

\* A success is on the disk.
THEOREM DurableSuccess == Spec => []SuccessIsDurable
BY Invariance, PTL DEF IInv

\* Until the run ends main() accounts for every key.
THEOREM Accounted == Spec => []KeysAccountedFor
BY Invariance, PTL DEF IInv

\* The program's own steps never change a line it does not own, but for an
\* edit saved between the second read and os.replace.
THEOREM EditsSurvive == Spec => EditsKept
<1>1. IInv /\ [Next]_vars =>
        [Step /\ ~late => \A s \in Slot \ Users : ledger'[s] = ledger[s]]_vars
    <2> SUFFICES ASSUME IInv, Step, ~late
                 PROVE  \A s \in Slot \ Users : ledger'[s] = ledger[s]
        OBVIOUS
    <2>1. CASE ReplaceLedger
        BY <2>1, UsersFacts DEF ReplaceLedger, IInv, CopyAgrees, Updated, Filled
    <2>2. CASE ledger' = ledger
        BY <2>2
    <2> QED
        BY <2>1, <2>2 DEF Step, ReadLedger, Preflight, CreateGranted, CreateLost, CreateRefused,
            Validate, Recheck, FsyncDirectory, FinalStat, Handle, RollbackList, RollbackDelete,
            RollbackRaise, RollbackNext, ReportRollback
<1> QED
    BY <1>1, Invariance, PTL DEF Spec, EditsKept

-----------------------------------------------------------------------------
(***************************************************************************)
(* The run implements KeyIssue.  The four lemmas say what becomes of each  *)
(* of KeyIssue's variables.                                                *)
(***************************************************************************)
Keys == [u \in Users |-> iam[u]]
Confirmed == \A u \in Users : disk[u] \in Key

\* KeyIssue's view of a step that only moves the run along.
Unseen == UNCHANGED <<Keys, Recorded(ledger), Confirmed>>

LEMMA RefineInit == Init => Promise!Init
<1> SUFFICES ASSUME Init PROVE Promise!Init
    OBVIOUS
<1>1. \A u \in Users : ledger[u] \notin Key /\ disk[u] \notin Key
    BY UsersFacts DEF Init
<1>2. FirstUser \in Users
    BY UsersFacts DEF Users
<1>3. [u \in Users |-> iam[u]] \in [Users -> SUBSET Key]
    BY TypeInit, UsersFacts DEF TypeOK, KeyStoreTypeOK
<1> QED
    BY <1>1, <1>2, <1>3 DEF Promise!Init, Recorded, Verdict, Init, Begin

\* A run that ends leaves keys and file as they are, and its verdict is true.
LEMMA RefineClose ==
    ASSUME IInv, IInv', Unseen, pc # "exited", pc' = "exited",
           report' = "ok" => \A u \in Users : /\ ledger[u] \in iam[u] 
                                              /\ disk[u] \in iam[u],
           report' = "failed" /\ ~escaped' => \/ \A u \in Users : ledger[u] \in iam[u]
                                              \/ \A u \in Users : iam[u] = {}
    PROVE  Promise!Next
<1>1. Verdict = "open"
    BY DEF Verdict
<1>2. Verdict' \in Promise!Verdict /\ (~escaped' => Verdict' = report')
      /\ (escaped' => Verdict' = "interrupted")
    BY DEF Verdict, IInv, EndAgrees, TypeOK, Report, Promise!Verdict
<1>3. \A u \in Users : iam[u] \subseteq Key
    BY UsersFacts DEF IInv, TypeOK, KeyStoreTypeOK
<1>4. Promise!Close(Verdict')
    BY <1>1, <1>2, <1>3
    DEF Unseen, Keys, Confirmed, Recorded, Promise!Close, Promise!AllRecorded
<1> QED
    BY <1>2, <1>4 DEF Promise!Next

\* A step that leaves both stores alone is a stutter or the end of the run.
LEMMA RefineRun ==
    ASSUME IInv, IInv',
           ReadLedger \/ Preflight \/ CreateRefused \/ Validate \/ Recheck \/ FinalStat
             \/ Handle \/ RollbackList \/ RollbackNext \/ ReportRollback \/ Interrupt \/ Kill
    PROVE  [Promise!Next]_(Promise!vars)
<1>1. UNCHANGED <<iam, ledger, disk>> /\ pc # "exited"
    BY DEF ReadLedger, Preflight, CreateRefused, Validate, Recheck, FinalStat, Handle, InTry,
        RollbackList, RollbackNext, ReportRollback, Interrupt, Kill
<1>2. Unseen
    BY <1>1 DEF Unseen, Keys, Confirmed, Recorded
<1>3. CASE pc' # "exited"
    BY <1>1, <1>2, <1>3 DEF Unseen, Keys, Confirmed, Verdict, Promise!vars
<1>4. CASE pc' = "exited"
    <2>1. report' = "ok" => \A u \in Users : ledger[u] \in iam[u] /\ disk[u] \in iam[u]
        BY <1>1, <1>4 DEF IInv, SuccessIsDurable
    <2>2. CASE pc = "report"
        BY <1>1, <1>2, <1>4, <2>1, <2>2, RefineClose DEF IInv, NoSilentLeftover, FlagAgrees,
            ReadLedger, Preflight, CreateRefused, Validate, Recheck, FinalStat, Handle, InTry,
            RollbackList, RollbackNext, ReportRollback, Interrupt, Kill, Exit
    <2>3. CASE pc # "report"
        <3>1. report' = "failed" /\ ~escaped' => committed
            BY <1>4, <2>3 DEF ReadLedger, Preflight, CreateRefused, Validate, Recheck, FinalStat,
                Handle, MustRollBack, InTry, RollbackList, RollbackNext, ReportRollback,
                Interrupt, Kill, Exit, IInv, FlagAgrees
        <3>2. committed => \A u \in Users : ledger[u] \in iam[u]
            BY <1>1 DEF IInv, FlagAgrees
        <3> QED
            BY <1>1, <1>2, <1>4, <2>1, <3>1, <3>2, RefineClose
    <2> QED
        BY <2>2, <2>3
<1> QED
    BY <1>3, <1>4

\* A key that AWS creates is a grant, whether its answer arrives or not.
LEMMA RefineGrant ==
    ASSUME IInv, CreateGranted \/ CreateLost
    PROVE  Promise!Next
<1>1. TypeOK /\ at \in Users /\ pc = "create" /\ iam[at] = {}
    BY UsersFacts DEF IInv, Position, KeysAccountedFor, CreateGranted, CreateLost
<1>2. PICK k \in Key : CreateAccessKey(at, k)
    BY DEF CreateGranted, CreateLost
<1>3. \A v \in Users : iam'[v] = IF v = at THEN {k} ELSE iam[v]
    BY <1>1, <1>2, CreateEffect
<1>4. Keys' = [Keys EXCEPT ![at] = {k}]
    BY <1>1, <1>3 DEF Keys
<1>5. UNCHANGED <<ledger, disk>> /\ pc' # "exited"
    BY DEF CreateGranted, CreateLost
<1>6. \A u \in Users : Recorded(ledger)[u] = NoKey
    BY <1>1 DEF IInv, FlagAgrees, Recorded
<1>7. Promise!Grant(at)
    BY <1>1, <1>4, <1>5, <1>6
    DEF Promise!Grant, Promise!NoneRecorded, Verdict, Recorded, Keys
<1> QED
    BY <1>1, <1>7 DEF Promise!Next, Promise!Grant

\* A key that the rollback deletes is withdrawn: it was the user's only one.
LEMMA RefineWithdraw ==
    ASSUME IInv, RollbackDelete \/ RollbackRaise
    PROVE  [Promise!Next]_(Promise!vars)
<1>1. TypeOK /\ at \in Users /\ pc = "sweep" /\ OneKeyPerUser
    BY DEF IInv, Position, RollbackDelete, RollbackRaise
<1>2. UNCHANGED <<ledger, disk, pc>>
    BY DEF RollbackDelete, RollbackRaise
<1>3. ASSUME NEW k, DeleteAccessKey(at, k)
      PROVE  Promise!Next
    <2>1. \A v \in Users : iam'[v] = IF v = at THEN iam[at] \ {k} ELSE iam[v]
        BY <1>1, <1>3, DeleteEffect
    <2>2. k \in iam[at] /\ iam[at] \ {k} = {}
        <3>1. k \in iam[at]
            BY <1>1, <1>3, DeleteEffect
        <3>2. \A a \in iam[at] : a = k
            BY <1>1, <3>1 DEF OneKeyPerUser, QuotaReached
        <3> QED
            BY <3>1, <3>2
    <2>3. Keys' = [Keys EXCEPT ![at] = {}]
        BY <1>1, <2>1, <2>2 DEF Keys
    <2>4. \A u \in Users : Recorded(ledger)[u] = NoKey
        BY <1>1 DEF IInv, FlagAgrees, Recorded
    <2>5. Promise!Withdraw(at)
        BY <1>1, <1>2, <2>2, <2>3, <2>4
        DEF Promise!Withdraw, Promise!NoneRecorded, Verdict, Recorded, Keys
    <2> QED
        BY <1>1, <2>5 DEF Promise!Next, Promise!Withdraw
<1>4. CASE UNCHANGED <<iam, minted>>
    BY <1>1, <1>2, <1>4 DEF Promise!vars, Verdict, Recorded
<1> QED
    BY <1>3, <1>4 DEF RollbackDelete, RollbackRaise

\* Replacing the file records all keys.
LEMMA RefineRecord ==
    ASSUME IInv, IInv', ReplaceLedger
    PROVE  [Promise!Next]_(Promise!vars)
<1>1. UNCHANGED <<iam, disk, held>> /\ pc = "replace" /\ pc' # "exited"
    BY DEF ReplaceLedger
<1>2. \A u \in Users : ledger[u] \notin Key /\ held[u] \in iam[u] /\ iam[u] \subseteq Key
    BY <1>1, UsersFacts DEF IInv, FlagAgrees, KeysAccountedFor, TypeOK, KeyStoreTypeOK
<1>3. CASE UNCHANGED ledger
    BY <1>1, <1>3 DEF Promise!vars, Verdict, Recorded
<1>4. CASE ledger' = Updated
    <2>1. \A u \in Users : ledger'[u] = held[u]
        BY <1>4, UsersFacts DEF Updated, Filled
    <2>2. Recorded(ledger)' = [u \in Users |-> held[u]]
        BY <1>2, <2>1 DEF Recorded
    <2>3. Promise!Record
        BY <1>1, <1>2, <2>2
        DEF Promise!Record, Promise!NoneRecorded, Verdict, Recorded
    <2> QED
        BY <2>3 DEF Promise!Next
<1> QED
    BY <1>3, <1>4 DEF ReplaceLedger

\* A directory that reaches the disk confirms what is recorded.
LEMMA RefineConfirm ==
    ASSUME IInv, FsyncDirectory \/ Writeback
    PROVE  [Promise!Next]_(Promise!vars)
<1>1. UNCHANGED <<iam, ledger, escaped, report>> /\ (pc' = "exited" <=> pc = "exited")
    BY DEF FsyncDirectory, Writeback, run, history
<1>2. Verdict' = Verdict
    BY <1>1 DEF Verdict
<1>3. FirstUser \in Users
    BY UsersFacts DEF Users
<1>4. CASE disk' = disk
    BY <1>1, <1>2, <1>4 DEF Promise!vars, Recorded
<1>5. CASE disk' = ledger
    <2>1. CASE \A u \in Users : ledger[u] \notin Key
        <3>1. ~Confirmed /\ ~Confirmed'
            BY <1>3, <1>5, <2>1, UsersFacts DEF Confirmed, IInv, DiskAgrees, TypeOK,
                KeyStoreTypeOK
        <3> QED
            BY <1>1, <1>2, <3>1 DEF Promise!vars, Recorded, Confirmed
    <2>2. CASE \A u \in Users : ledger[u] \in iam[u]
        <3>1. \A u \in Users : ledger[u] \in Key
            BY <2>2, UsersFacts DEF IInv, TypeOK, KeyStoreTypeOK
        <3>2. Promise!Confirm
            BY <1>1, <1>2, <1>5, <2>2, <3>1 DEF Promise!Confirm, Promise!AllRecorded, Recorded
        <3> QED
            BY <3>2 DEF Promise!Next
    <2> QED
        BY <2>1, <2>2 DEF IInv, RecordedKeysLive
<1> QED
    BY <1>4, <1>5 DEF FsyncDirectory, Synced, Writeback

\* A power loss forgets a record that is not confirmed, and ends the run.
LEMMA RefineForget ==
    ASSUME IInv, IInv', PowerLoss
    PROVE  [Promise!Next]_(Promise!vars)
<1>1. /\ UNCHANGED <<iam, disk, escaped>> /\ ledger' = disk /\ pc' = "exited"
      /\ \/ pc = "exited" /\ report' = report
         \/ pc # "exited" /\ report' = "killed"
    BY DEF PowerLoss, Exit, history
<1>2. FirstUser \in Users /\ \A u \in Users : iam[u] \subseteq Key
    BY UsersFacts DEF Users, IInv, TypeOK, KeyStoreTypeOK
<1>3. CASE \A u \in Users : disk[u] \notin Key
    <2>1. ~Confirmed /\ Recorded(ledger)' = [u \in Users |-> NoKey]
        BY <1>1, <1>2, <1>3 DEF Confirmed, Recorded
    <2>2. Verdict' \in {Verdict, "killed"}
        BY <1>1 DEF Verdict, IInv, EndAgrees
    <2>3. Promise!Forget
        BY <1>1, <2>1, <2>2 DEF Promise!Forget, Confirmed
    <2> QED
        BY <2>3 DEF Promise!Next
<1>4. CASE \A u \in Users : disk[u] \in iam[u] /\ disk[u] = ledger[u]
    <2>1. Unseen
        BY <1>1, <1>4 DEF Unseen, Keys, Confirmed, Recorded
    <2>2. CASE pc = "exited"
        BY <1>1, <2>1, <2>2 DEF Unseen, Keys, Confirmed, Verdict, Promise!vars
    <2>3. CASE pc # "exited"
        BY <1>1, <2>1, <2>3, RefineClose
    <2> QED
        BY <2>2, <2>3
<1> QED
    BY <1>3, <1>4 DEF IInv, DiskAgrees

LEMMA RefineStep == IInv /\ IInv' /\ [Next]_vars => [Promise!Next]_(Promise!vars)
<1> SUFFICES ASSUME IInv, IInv', [Next]_vars
             PROVE  [Promise!Next]_(Promise!vars)
    OBVIOUS
<1>1. CASE Rerun
    <2>1. UNCHANGED <<iam, ledger, disk>> /\ pc = "exited" /\ pc' # "exited"
        BY <1>1 DEF Rerun
    <2>2. Verdict # "open" /\ Verdict' = "open"
        BY <2>1 DEF Verdict, IInv, EndAgrees, TypeOK, Report
    <2>3. Promise!Open
        BY <2>1, <2>2 DEF Promise!Open, Recorded
    <2> QED
        BY <2>3 DEF Promise!Next
<1>2. CASE PersonEdits
    <2>1. UNCHANGED <<iam, disk, pc, report, escaped>>
        BY <1>2 DEF PersonEdits, run
    <2>2. PICK s \in Slot, v \in Text \cup {Empty} :
            ledger[s] \notin Key /\ ledger' = [ledger EXCEPT ![s] = v]
        BY <1>2 DEF PersonEdits
    <2>3. \A u \in Users : /\ ledger[u] \in Key => ledger'[u] = ledger[u]
                           /\ ledger[u] \notin Key => ledger'[u] \notin Key
        BY <2>2, UsersFacts DEF IInv, TypeOK, Worksheet
    <2>4. Recorded(ledger)' = Recorded(ledger)
        BY <2>3 DEF Recorded
    <2> QED
        BY <2>1, <2>4 DEF Promise!vars, Verdict
<1>3. CASE UNCHANGED vars
    BY <1>3 DEF vars, run, history, Promise!vars, Verdict, Recorded
<1> QED
    BY <1>1, <1>2, <1>3, RefineRun, RefineGrant, RefineWithdraw, RefineRecord, RefineConfirm,
        RefineForget
    DEF Next, Step

\* A run implements KeyIssue: whatever happens around it, the keys of all users
\* are recorded at once or not at all, only unrecorded keys are taken back and
\* the verdict is true.
THEOREM Refines == Spec => KeepsPromise
BY RefineInit, RefineStep, Invariance, PTL DEF Spec, KeepsPromise, Promise!Spec

-----------------------------------------------------------------------------
(***************************************************************************)
(* Several programs, one worksheet.                                        *)
(***************************************************************************)

\* What a step of the first run does to the worksheet and to its copy of it:
\* only os.replace writes the file, and nothing is issued after it.
LEMMA FirstEffect ==
    ASSUME Committed, Step \/ Interrupt \/ Kill
    PROVE  /\ Committed'
           /\ pc # "exited"
           /\ committed => UNCHANGED <<held, committed>>
           /\ \/ UNCHANGED <<ledger, committed>>
              \/ pc = "replace" /\ ledger' = Updated /\ committed' /\ UNCHANGED held
           /\ \/ UNCHANGED snapshot /\ (Underway(pc') => Underway(pc))
              \/ pc = "read" /\ UNCHANGED ledger /\ snapshot' = ledger
<1> USE DEF Committed, Underway, Exit, history, bounds
<1>1. CASE ReadLedger
    BY <1>1 DEF ReadLedger
<1>2. CASE Preflight \/ CreateRefused \/ Validate \/ Recheck \/ FinalStat
    BY <1>2 DEF Preflight, CreateRefused, Validate, Recheck, FinalStat
<1>3. CASE CreateGranted \/ CreateLost
    BY <1>3 DEF CreateGranted, CreateLost
<1>4. CASE ReplaceLedger
    BY <1>4 DEF ReplaceLedger
<1>5. CASE FsyncDirectory
    BY <1>5 DEF FsyncDirectory
<1>6. CASE Handle \/ RollbackList \/ RollbackNext \/ ReportRollback \/ Kill
    BY <1>6 DEF Handle, MustRollBack, RollbackList, RollbackNext, ReportRollback, Kill
<1>7. CASE RollbackDelete \/ RollbackRaise
    BY <1>7 DEF RollbackDelete, RollbackRaise
<1>8. CASE Interrupt
    BY <1>8 DEF Interrupt, InTry
<1> QED
    BY <1>1, <1>2, <1>3, <1>4, <1>5, <1>6, <1>7, <1>8 DEF Step

\* The same of the second Route 53 run.
LEMMA SecondEffect ==
    ASSUME BCommitted, B!Step \/ B!Interrupt \/ B!Kill
    PROVE  /\ BCommitted'
           /\ bcommitted => UNCHANGED <<bheld, bcommitted>>
           /\ \/ UNCHANGED <<ledger, bcommitted>>
              \/ ledger' = B!Updated /\ bcommitted' /\ UNCHANGED bheld
<1> USE DEF BCommitted, B!Exit, B!history, B!bounds
<1>1. CASE B!ReadLedger
    BY <1>1 DEF B!ReadLedger
<1>2. CASE B!Preflight \/ B!CreateRefused \/ B!Validate \/ B!Recheck \/ B!FinalStat
    BY <1>2 DEF B!Preflight, B!CreateRefused, B!Validate, B!Recheck, B!FinalStat
<1>3. CASE B!CreateGranted \/ B!CreateLost
    BY <1>3 DEF B!CreateGranted, B!CreateLost
<1>4. CASE B!ReplaceLedger
    BY <1>4 DEF B!ReplaceLedger
<1>5. CASE B!FsyncDirectory
    BY <1>5 DEF B!FsyncDirectory
<1>6. CASE B!Handle \/ B!RollbackList \/ B!RollbackNext \/ B!ReportRollback \/ B!Kill
    BY <1>6 DEF B!Handle, B!MustRollBack, B!RollbackList, B!RollbackNext, B!ReportRollback, B!Kill
<1>7. CASE B!RollbackDelete \/ B!RollbackRaise
    BY <1>7 DEF B!RollbackDelete, B!RollbackRaise
<1>8. CASE B!Interrupt
    BY <1>8 DEF B!Interrupt, B!InTry
<1> QED
    BY <1>1, <1>2, <1>3, <1>4, <1>5, <1>6, <1>7, <1>8 DEF B!Step

\* The same of the prod program, which replaces the file before it sets its
\* flag.
LEMMA ProdEffect ==
    ASSUME PCommitted, second = "prod", UNCHANGED second, P!Step \/ P!Interrupt \/ P!Kill
    PROVE  /\ PCommitted'
           /\ ppc # "exited"
           /\ PReplaced' => UNCHANGED pheld
           /\ \/ UNCHANGED ledger /\ (PReplaced' => PReplaced)
              \/ /\ ppc = "replace" /\ UNCHANGED psnapshot
                 /\ ledger' = P!Filled(psnapshot, P!Users, pheld)
           /\ \/ UNCHANGED psnapshot /\ (Underway(ppc') => Underway(ppc))
              \/ ppc = "read" /\ UNCHANGED ledger /\ psnapshot' = ledger
<1> USE DEF PCommitted, PReplaced, Underway, P!Exit, P!Raise, P!MustRollBack, P!history, P!bounds
<1>1. CASE P!ReadLedger
    BY <1>1 DEF P!ReadLedger
<1>2. CASE P!Preflight \/ P!CreateRefused \/ P!Validate
    BY <1>2 DEF P!Preflight, P!CreateRefused, P!Validate
<1>3. CASE P!CreateGranted \/ P!CreateLost \/ P!AppendIssued
    BY <1>3 DEF P!CreateGranted, P!CreateLost, P!AppendIssued
<1>4. CASE P!ReplaceLedger
    BY <1>4 DEF P!ReplaceLedger
<1>5. CASE P!Commit \/ P!FsyncDirectory \/ P!FinalStat
    BY <1>5 DEF P!Commit, P!FsyncDirectory, P!FinalStat
<1>6. CASE P!RollbackDelete \/ P!RollbackEscapes \/ P!ReportRollback \/ P!Kill
    BY <1>6 DEF P!RollbackDelete, P!RollbackEscapes, P!ReportRollback, P!Kill
<1>7. CASE P!Interrupt
    BY <1>7 DEF P!Interrupt, P!InTry
<1> QED
    BY <1>1, <1>2, <1>3, <1>4, <1>5, <1>6, <1>7 DEF P!Step

\* The programs write rows of their own, each among the rows of the worksheet.
LEMMA UsersApart ==
    /\ Users \subseteq Slot /\ P!Users \subseteq Slot
    /\ \A u \in P!Users : u \notin Users
BY Route53Assumption, EnvProdAssumption, KeyStoreAssumption

\* What a program writes has its keys, and of the others what it has read.
LEMMA FirstWrites ==
    ASSUME ledger' = Updated
    PROVE  /\ \A u \in Users : ledger'[u] = held[u]
           /\ \A u \in P!Users : ledger'[u] = snapshot[u]
BY UsersApart DEF Updated, Filled

LEMMA SecondWrites ==
    ASSUME ledger' = B!Updated
    PROVE  \A u \in Users : ledger'[u] = bheld[u]
BY UsersApart DEF B!Updated, B!Filled, B!Users, Users

LEMMA ProdWrites ==
    ASSUME ledger' = P!Filled(psnapshot, P!Users, pheld)
    PROVE  /\ \A u \in P!Users : ledger'[u] = pheld[u]
           /\ \A u \in Users : ledger'[u] = psnapshot[u]
BY UsersApart DEF P!Filled

\* Before the first step no copy has a key.
LEMMA JointInit == EnvInit => Joint
<1> SUFFICES ASSUME EnvInit PROVE Joint
    OBVIOUS
<1>1. /\ pc = "read" /\ bpc = "read" /\ ppc = "read"
      /\ ~committed /\ ~bcommitted /\ ~pcommitted
      /\ report = "none" /\ preport = "none"
    BY DEF EnvInit, Init, Begin, B!Init, B!Begin, P!Init, P!Begin
<1>2. \A u \in Users : ledger[u] \notin Key /\ psnapshot[u] \notin Key
    BY UsersApart, KeyStoreAssumption DEF EnvInit, Init, P!Init
<1> QED
    BY <1>1, <1>2 DEF Joint, Committed, BCommitted, PCommitted, CopiesOfOneRun, OfOneRun,
        LastIsWhole, InSequence, PReplaced, Underway

\* A step of the first run preserves the joint invariant ...
LEMMA FirstJoint == Joint /\ FirstMoves => Joint'
<1> SUFFICES ASSUME Joint, FirstMoves PROVE Joint'
    OBVIOUS
<1>1. UNCHANGED <<pvars, bvars, second>> /\ (Step \/ Interrupt \/ Kill)
      /\ overlapped' = (overlapped \/ Underway(ppc) \/ Underway(bpc))
    BY DEF FirstMoves
<1>2. UNCHANGED <<ppc, psnapshot, pheld, pcommitted, preport, bpc, bheld, bcommitted, second>>
    BY <1>1 DEF pvars, bvars
<1>3. BCommitted' /\ PCommitted' /\ PReplaced' = PReplaced
    BY <1>2 DEF Joint, BCommitted, PCommitted, PReplaced
<1>4. /\ Committed'
      /\ pc # "exited"
      /\ committed => UNCHANGED <<held, committed>>
      /\ \/ UNCHANGED <<ledger, committed>>
         \/ pc = "replace" /\ ledger' = Updated /\ committed' /\ UNCHANGED held
      /\ \/ UNCHANGED snapshot /\ (Underway(pc') => Underway(pc))
         \/ pc = "read" /\ UNCHANGED ledger /\ snapshot' = ledger
    BY <1>1, FirstEffect DEF Joint
<1>5. CopiesOfOneRun'
    <2>1. OfOneRun(psnapshot)'
        BY <1>2, <1>4 DEF Joint, CopiesOfOneRun, OfOneRun, Holds
    <2>2. OfOneRun(ledger)'
        BY <1>2, <1>4, FirstWrites DEF Joint, CopiesOfOneRun, OfOneRun, Holds
    <2> QED
        BY <2>1, <2>2 DEF CopiesOfOneRun
<1>6. LastIsWhole'
    BY <1>2, <1>3, <1>4, FirstWrites DEF Joint, LastIsWhole, Holds
<1>7. InSequence'
    <2> SUFFICES ASSUME second = "prod", ~overlapped'
                 PROVE  InSequence'
        BY <1>2 DEF InSequence
    <2>1. ~overlapped /\ ~Underway(ppc) /\ ~Underway(ppc')
        BY <1>1, <1>2
    <2>2. committed' => Holds(ledger, Users, held)'
        BY <1>2, <1>4, <2>1, FirstWrites DEF Joint, InSequence, Holds
    <2>3. PReplaced => Holds(ledger, P!Users, pheld)'
        <3>1. Underway(pc) \/ pc = "read"
            BY <1>4 DEF Underway
        <3> QED
            BY <1>2, <1>4, <2>1, <3>1, FirstWrites DEF Joint, InSequence, Holds, Underway
    <2>4. PReplaced /\ Underway(pc') => Holds(snapshot, P!Users, pheld)'
        BY <1>2, <1>4, <2>1 DEF Joint, InSequence, Holds
    <2> QED
        BY <1>3, <2>1, <2>2, <2>3, <2>4 DEF InSequence
<1> QED
    BY <1>3, <1>4, <1>5, <1>6, <1>7 DEF Joint

\* ... and one of the prod program ...
LEMMA ProdJoint == Joint /\ ProdMoves => Joint'
<1> SUFFICES ASSUME Joint, ProdMoves PROVE Joint'
    OBVIOUS
<1>1. /\ second = "prod" /\ UNCHANGED <<rvars, bvars, second>>
      /\ P!Step \/ P!Interrupt \/ P!Kill
      /\ overlapped' = (overlapped \/ Underway(pc))
    BY DEF ProdMoves
<1>2. UNCHANGED <<pc, snapshot, held, committed, report, bpc, bheld, bcommitted, second>>
    BY <1>1 DEF rvars, run, bvars
<1>3. Committed' /\ BCommitted'
    BY <1>2 DEF Joint, Committed, BCommitted
<1>4. /\ PCommitted'
      /\ ppc # "exited"
      /\ PReplaced' => UNCHANGED pheld
      /\ \/ UNCHANGED ledger /\ (PReplaced' => PReplaced)
         \/ ppc = "replace" /\ ledger' = P!Filled(psnapshot, P!Users, pheld) /\ UNCHANGED psnapshot
      /\ \/ UNCHANGED psnapshot /\ (Underway(ppc') => Underway(ppc))
         \/ ppc = "read" /\ UNCHANGED ledger /\ psnapshot' = ledger
    BY <1>1, ProdEffect DEF Joint
<1>5. CopiesOfOneRun'
    <2>1. OfOneRun(ledger)'
        BY <1>2, <1>4, ProdWrites DEF Joint, CopiesOfOneRun, OfOneRun, Holds
    <2>2. OfOneRun(psnapshot)'
        BY <1>2, <1>4 DEF Joint, CopiesOfOneRun, OfOneRun, Holds
    <2> QED
        BY <2>1, <2>2 DEF CopiesOfOneRun
<1>6. LastIsWhole'
    BY <1>2, <1>4, ProdWrites DEF Joint, LastIsWhole, Holds
<1>7. InSequence'
    <2> SUFFICES ASSUME ~overlapped' PROVE InSequence'
        BY DEF InSequence
    <2>1. ~overlapped /\ ~Underway(pc) /\ ~Underway(pc')
        BY <1>1, <1>2
    <2>2. committed => Holds(ledger, Users, held)'
        <3>1. Underway(ppc) \/ ppc = "read"
            BY <1>4 DEF Underway
        <3> QED
            BY <1>1, <1>2, <1>4, <2>1, <3>1, ProdWrites DEF Joint, InSequence, Holds, Underway
    <2>3. committed /\ Underway(ppc') => Holds(psnapshot, Users, held)'
        BY <1>1, <1>2, <1>4, <2>1 DEF Joint, InSequence, Holds
    <2>4. PReplaced' => Holds(ledger, P!Users, pheld)'
        BY <1>1, <1>4, <2>1, ProdWrites DEF Joint, InSequence, Holds
    <2> QED
        BY <1>2, <2>1, <2>2, <2>3, <2>4 DEF InSequence
<1> QED
    BY <1>3, <1>4, <1>5, <1>6, <1>7 DEF Joint

\* ... and one of the second Route 53 run.
LEMMA SecondJoint == Joint /\ SecondMoves => Joint'
<1> SUFFICES ASSUME Joint, SecondMoves PROVE Joint'
    OBVIOUS
<1>1. /\ second = "route53" /\ UNCHANGED <<rvars, pvars, second>>
      /\ B!Step \/ B!Interrupt \/ B!Kill
    BY DEF SecondMoves
<1>2. UNCHANGED <<pc, held, committed, report, ppc, psnapshot, pheld, pcommitted, preport, second>>
    BY <1>1 DEF rvars, run, pvars
<1>3. Committed' /\ PCommitted'
    BY <1>2 DEF Joint, Committed, PCommitted, PReplaced
<1>4. /\ BCommitted'
      /\ bcommitted => UNCHANGED <<bheld, bcommitted>>
      /\ \/ UNCHANGED <<ledger, bcommitted>>
         \/ ledger' = B!Updated /\ bcommitted' /\ UNCHANGED bheld
    BY <1>1, SecondEffect DEF Joint
<1>5. CopiesOfOneRun'
    <2>1. OfOneRun(psnapshot)'
        BY <1>2, <1>4 DEF Joint, CopiesOfOneRun, OfOneRun, Holds
    <2>2. OfOneRun(ledger)'
        BY <1>2, <1>4, SecondWrites DEF Joint, CopiesOfOneRun, OfOneRun, Holds
    <2> QED
        BY <2>1, <2>2 DEF CopiesOfOneRun
<1>6. ~PReplaced'
    BY <1>1, <1>2 DEF Joint, PCommitted, PReplaced
<1> QED
    BY <1>1, <1>2, <1>3, <1>4, <1>5, <1>6 DEF Joint, LastIsWhole, InSequence

\* Whatever the programs do beside each other, each has in every copy of
\* .env.prod what the joint invariant says.
THEOREM JointInvariance == EnvSpec => []Joint
<1>1. Joint /\ [EnvNext]_envVars => Joint'
    <2> SUFFICES ASSUME Joint, UNCHANGED envVars PROVE Joint'
        BY FirstJoint, ProdJoint, SecondJoint DEF EnvNext
    <2> QED
        BY DEF envVars, vars, run, pvars, bvars, Joint, Committed, BCommitted, PCommitted,
            PReplaced, CopiesOfOneRun, OfOneRun, LastIsWhole, InSequence, Holds, Underway
<1> QED
    BY <1>1, JointInit, PTL DEF EnvSpec

\* Two programs in sequence leave all keys in .env.prod, and at the same time
\* at least those of one.
THEOREM BothRecorded == EnvSpec => []RecordsKept
<1>1. Joint => RecordsKept
    BY DEF Joint, RecordsKept, BothOk, Committed, PCommitted, PReplaced, LastIsWhole, InSequence
<1> QED
    BY <1>1, JointInvariance, PTL

\* .env.prod never has one DNS user's key from each of two runs.
THEOREM OneRunRecorded == EnvSpec => []LedgerOfOneRun
<1>1. Joint => LedgerOfOneRun
    BY DEF Joint, CopiesOfOneRun, OfOneRun, LedgerOfOneRun
<1> QED
    BY <1>1, JointInvariance, PTL

-----------------------------------------------------------------------------
(***************************************************************************)
(* Users of one program only: no program touches a key of the other.       *)
(***************************************************************************)
\* Which numbers are users of which program.
LEMMA UserBounds ==
    /\ FirstUser \in Int /\ LastUser \in Int /\ FirstUser <= LastUser
    /\ \A i \in Int : i \in Users <=> FirstUser <= i /\ i <= LastUser
    /\ Users \subseteq Account
    /\ PFirst \in Int /\ PLast \in Int /\ PFirst <= PLast
    /\ \A i \in Int : i \in P!Users <=> PFirst <= i /\ i <= PLast
    /\ P!Users \subseteq Account /\ Users \subseteq Int /\ P!Users \subseteq Int
BY Route53Assumption, EnvProdAssumption DEF Users, P!Users

\* The first run knows which keys are live, and touches those of its own
\* users only.
LEMMA FirstInIam ==
    ASSUME Committed, FirstKnows, iam \in [Account -> SUBSET Key], Step \/ Interrupt \/ Kill
    PROVE  /\ iam' \in [Account -> SUBSET Key] /\ FirstKnows'
           /\ \A u \in P!Users : iam'[u] = iam[u]
<1> USE UserBounds, UsersApart
<1>1. CASE \/ ReadLedger \/ Preflight \/ CreateRefused \/ Recheck \/ ReplaceLedger
           \/ FsyncDirectory \/ FinalStat \/ Handle \/ Kill \/ ReportRollback
    <2>1. UNCHANGED <<iam, held>>
        BY <1>1 DEF ReadLedger, Preflight, CreateRefused, Recheck, ReplaceLedger,
            FsyncDirectory, FinalStat, Handle, Kill, ReportRollback
    <2>2. /\ at' \in FirstUser - 1..LastUser
          /\ pc' \in {"create", "validate", "sweep"} => pc = "preflight" /\ at' = FirstUser
          /\ (pc' \in {"recheck", "replace"} \/ committed') =>
                 pc \in {"recheck", "replace"} \/ committed
        BY <1>1 DEF ReadLedger, Preflight, CreateRefused, Recheck, ReplaceLedger, Exit,
            FsyncDirectory, FinalStat, Handle, Kill, ReportRollback, FirstKnows
    <2> QED
        BY <2>1, <2>2 DEF FirstKnows
<1>2. CASE CreateGranted \/ CreateLost
    <2>1. PICK k \in Key : CreateAccessKey(at, k) /\ held' \in {held, [held EXCEPT ![at] = k]}
        BY <1>2 DEF CreateGranted, CreateLost
    <2>2. /\ pc = "create" /\ pc' \in {"validate", "caught"} /\ UNCHANGED <<at, committed>>
          /\ at \in Users /\ ~committed
        BY <1>2 DEF CreateGranted, CreateLost, FirstKnows, Committed
    <2>3. /\ iam' \in [Account -> SUBSET Key]
          /\ \A v \in Account : iam[v] \subseteq iam'[v] /\ (v # at => iam'[v] = iam[v])
        BY <2>1, <2>2 DEF CreateAccessKey
    <2>4. /\ held' \in [Users -> Key \cup {NoKey}]
          /\ \A u \in Users : u < at => held'[u] = held[u]
        BY <2>1, <2>2 DEF FirstKnows
    <2> QED
        BY <2>2, <2>3, <2>4 DEF FirstKnows
<1>3. CASE Validate
    BY <1>3 DEF Validate, FirstKnows
<1>4. CASE RollbackList \/ RollbackNext
    BY <1>4 DEF RollbackList, RollbackNext, PreviousUser, FirstKnows
<1>5. CASE RollbackDelete \/ RollbackRaise
    <2>1. UNCHANGED <<pc, at, held, committed>> /\ pc = "sweep" /\ at \in Users /\ ~committed
        BY <1>5 DEF RollbackDelete, RollbackRaise, FirstKnows, Committed
    <2>2. \/ UNCHANGED iam
          \/ \E k \in todo : DeleteAccessKey(at, k)
        BY <1>5 DEF RollbackDelete, RollbackRaise
    <2>3. /\ iam' \in [Account -> SUBSET Key]
          /\ \A v \in Account : v # at => iam'[v] = iam[v]
        BY <2>1, <2>2 DEF DeleteAccessKey
    <2> QED
        BY <2>1, <2>3 DEF FirstKnows
<1>6. CASE Interrupt
    <2>1. UNCHANGED <<iam, held, committed>> /\ pc' \in {"caught", "exited"}
          /\ at' \in {at, LastAttempted}
        BY <1>6 DEF Interrupt, Exit
    <2>2. at' \in FirstUser - 1..LastUser
        BY <2>1 DEF LastAttempted, FirstKnows
    <2> QED
        BY <2>1, <2>2 DEF FirstKnows
<1> QED
    BY <1>1, <1>2, <1>3, <1>4, <1>5, <1>6 DEF Step

\* The prod program knows the same of its own users; its rollback is the only
\* one of its steps to take a key away.
LEMMA ProdInIam ==
    ASSUME ProdKnows, iam \in [Account -> SUBSET Key], P!Step \/ P!Interrupt \/ P!Kill
    PROVE  /\ iam' \in [Account -> SUBSET Key] /\ ProdKnows'
           /\ \A u \in Users : iam'[u] = iam[u]
           /\ ppc # "rollback" => \A u \in P!Users : iam[u] \subseteq iam'[u]
<1> USE UserBounds, UsersApart
<1>1. CASE \/ P!ReadLedger \/ P!Preflight \/ P!CreateRefused \/ P!ReplaceLedger \/ P!Commit
           \/ P!FsyncDirectory \/ P!FinalStat \/ P!Kill \/ P!RollbackEscapes \/ P!ReportRollback
    <2>1. UNCHANGED <<iam, pheld, panswer>>
        BY <1>1 DEF P!ReadLedger, P!Preflight, P!CreateRefused, P!ReplaceLedger, P!Commit,
            P!FsyncDirectory, P!FinalStat, P!Kill, P!RollbackEscapes, P!ReportRollback
    <2>2. /\ pat' \in PFirst - 1..PLast
          /\ ppc' \in {"create", "append", "validate"} => ppc = "preflight" /\ pat' = PFirst
          /\ ppc' \in {"replace", "commit", "fsync", "stat"} =>
                 ppc \in {"replace", "commit", "fsync"}
        BY <1>1 DEF P!ReadLedger, P!Preflight, P!CreateRefused, P!ReplaceLedger, P!Commit,
            P!FsyncDirectory, P!FinalStat, P!Kill, P!RollbackEscapes, P!ReportRollback, P!Exit, P!Raise,
            P!MustRollBack, P!LastIssued, ProdKnows
    <2> QED
        BY <2>1, <2>2 DEF ProdKnows
<1>2. CASE P!CreateGranted \/ P!CreateLost
    <2>1. PICK k \in Key : P!CreateAccessKey(pat, k) /\ panswer' \in {k, panswer}
        BY <1>2 DEF P!CreateGranted, P!CreateLost
    <2>2. /\ ppc = "create" /\ pat \in P!Users /\ UNCHANGED pheld
          /\ \/ ppc' = "append" /\ pat' = pat
             \/ ppc' \in {"rollback", "exited"} /\ pat' = pat - 1
        BY <1>2 DEF P!CreateGranted, P!CreateLost, P!Raise, P!MustRollBack, P!LastIssued, P!Exit,
            ProdKnows
    <2>3. /\ iam' \in [Account -> SUBSET Key]
          /\ \A v \in Account : iam[v] \subseteq iam'[v] /\ (v # pat => iam'[v] = iam[v])
        BY <2>1, <2>2 DEF P!CreateAccessKey
    <2> QED
        BY <2>1, <2>2, <2>3 DEF ProdKnows
<1>3. CASE P!AppendIssued
    <2>1. /\ ppc = "append" /\ ppc' = "validate" /\ UNCHANGED <<iam, pat>> /\ pat \in P!Users
          /\ pheld' = [pheld EXCEPT ![pat] = panswer]
        BY <1>3 DEF P!AppendIssued, ProdKnows
    <2>2. /\ \A u \in P!Users : u < pat => pheld'[u] = pheld[u]
          /\ pheld' \in [P!Users -> Key \cup {NoKey}]
          /\ panswer' \in Key \cup {NoKey}
        BY <1>3, <2>1 DEF P!AppendIssued, ProdKnows
    <2> QED
        BY <2>1, <2>2 DEF ProdKnows
<1>4. CASE P!Validate
    BY <1>4 DEF P!Validate, P!Raise, P!MustRollBack, P!LastIssued, P!Exit, ProdKnows
<1>5. CASE P!RollbackDelete
    <2>1. UNCHANGED <<ppc, pheld, panswer>> /\ ppc = "rollback" /\ pat \in P!Users /\ pat' = pat - 1
        BY <1>5 DEF P!RollbackDelete, P!PreviousUser, ProdKnows
    <2>2. UNCHANGED iam \/ P!DeleteAccessKey(pat, pheld[pat])
        BY <1>5 DEF P!RollbackDelete
    <2>3. /\ iam' \in [Account -> SUBSET Key]
          /\ \A v \in Account : v # pat => iam'[v] = iam[v]
        BY <2>1, <2>2 DEF P!DeleteAccessKey
    <2> QED
        BY <2>1, <2>3 DEF ProdKnows
<1>6. CASE P!Interrupt
    <2>1. /\ UNCHANGED <<iam, pheld, panswer>> /\ ppc' \in {"rollback", "exited"}
          /\ pat' \in {pat, P!LastIssued}
        BY <1>6 DEF P!Interrupt, P!Exit, P!Raise, P!MustRollBack
    <2>2. pat' \in PFirst - 1..PLast
        BY <2>1 DEF P!LastIssued, ProdKnows
    <2> QED
        BY <2>1, <2>2 DEF ProdKnows
<1> QED
    BY <1>1, <1>2, <1>3, <1>4, <1>5, <1>6 DEF P!Step

\* From os.replace on the keys of the prod program stay as they are, unless a
\* signal tears the record.
LEMMA ProdEnds ==
    ASSUME PCommitted, P!Step \/ P!Interrupt \/ P!Kill
    PROVE  /\ ppc # "exited" /\ (ptorn => ptorn')
           /\ ppc = "replace" /\ ledger' # ledger => ppc' = "commit"
           /\ ppc \in {"commit", "fsync", "stat"} =>
                  /\ UNCHANGED <<pheld, iam>>
                  /\ ptorn' \/ ppc' \in {"commit", "fsync", "stat", "exited"}
<1> USE DEF PCommitted, P!Exit, P!Raise, P!MustRollBack, P!history, P!bounds
<1>1. CASE P!ReadLedger \/ P!Preflight \/ P!CreateRefused \/ P!Validate \/ P!AppendIssued
    BY <1>1 DEF P!ReadLedger, P!Preflight, P!CreateRefused, P!Validate, P!AppendIssued
<1>2. CASE P!CreateGranted \/ P!CreateLost
    BY <1>2 DEF P!CreateGranted, P!CreateLost
<1>3. CASE P!ReplaceLedger \/ P!Commit
    BY <1>3 DEF P!ReplaceLedger, P!Commit
<1>4. CASE P!FsyncDirectory \/ P!FinalStat
    BY <1>4 DEF P!FsyncDirectory, P!FinalStat
<1>5. CASE P!RollbackDelete \/ P!RollbackEscapes \/ P!ReportRollback \/ P!Kill
    BY <1>5 DEF P!RollbackDelete, P!RollbackEscapes, P!ReportRollback, P!Kill
<1>6. CASE P!Interrupt
    BY <1>6 DEF P!Interrupt, P!InTry
<1> QED
    BY <1>1, <1>2, <1>3, <1>4, <1>5, <1>6 DEF P!Step

\* Before the first step no key is named and nobody holds one.
LEMMA IamInit == EnvInit => InIam
<1> SUFFICES ASSUME EnvInit, second = "prod" PROVE InIam
    BY DEF InIam
<1>1. iam \in [Account -> SUBSET Key] /\ ~bcommitted
    BY DEF EnvInit, Init, B!Init, B!Begin
<1>2. FirstKnows
    BY UserBounds DEF EnvInit, Init, Begin, NoKeys, FirstKnows
<1>3. ProdKnows
    BY UserBounds DEF EnvInit, P!Init, P!Begin, P!NoKeys, ProdKnows
<1>4. ProdNamed(ledger) /\ ProdNamed(snapshot)
    BY UsersApart, KeyStoreAssumption DEF EnvInit, Init, ProdNamed
<1> QED
    BY <1>1, <1>2, <1>3, <1>4 DEF InIam

\* A step of the first run preserves what both rely on in IAM ...
LEMMA FirstIam == Joint /\ InIam /\ FirstMoves => InIam'
<1> SUFFICES ASSUME Joint, InIam, FirstMoves, second = "prod" PROVE InIam'
    BY DEF InIam, FirstMoves
<1>1. UNCHANGED <<pvars, bvars, second>> /\ (Step \/ Interrupt \/ Kill)
    BY DEF FirstMoves
<1>2. UNCHANGED <<ppc, pat, pheld, panswer, ptorn, bcommitted>>
    BY <1>1 DEF pvars, bvars
<1>3. /\ iam' \in [Account -> SUBSET Key] /\ FirstKnows'
      /\ \A u \in P!Users : iam'[u] = iam[u]
    BY <1>1, FirstInIam DEF Joint, InIam
<1>4. ProdKnows'
    BY <1>2, <1>3 DEF InIam, ProdKnows
<1>5. \/ UNCHANGED <<ledger, snapshot>>
      \/ ledger' = Updated /\ UNCHANGED snapshot
      \/ UNCHANGED ledger /\ snapshot' = ledger
    BY <1>1, FirstEffect DEF Joint
<1>6. ProdNamed(ledger)'
    BY <1>2, <1>3, <1>5, FirstWrites DEF InIam, ProdNamed
<1>7. ProdNamed(snapshot)'
    BY <1>2, <1>3, <1>5 DEF InIam, ProdNamed
<1> QED
    BY <1>2, <1>3, <1>4, <1>6, <1>7 DEF InIam

\* ... and one of the prod program.
LEMMA ProdIam == Joint /\ InIam /\ ProdMoves => InIam'
<1> SUFFICES ASSUME Joint, InIam, ProdMoves PROVE InIam'
    OBVIOUS
<1>1. /\ second = "prod" /\ UNCHANGED <<rvars, bvars, second>>
      /\ P!Step \/ P!Interrupt \/ P!Kill
    BY DEF ProdMoves
<1>2. UNCHANGED <<pc, at, snapshot, held, committed, bcommitted>>
    BY <1>1 DEF rvars, run, bvars
<1>3. /\ iam' \in [Account -> SUBSET Key] /\ ProdKnows'
      /\ \A u \in Users : iam'[u] = iam[u]
      /\ ppc # "rollback" => \A u \in P!Users : iam[u] \subseteq iam'[u]
    BY <1>1, ProdInIam DEF InIam
<1>4. FirstKnows'
    BY <1>1, <1>2, <1>3 DEF InIam, FirstKnows
<1>5. /\ PReplaced' => UNCHANGED pheld
      /\ \/ UNCHANGED ledger
         \/ ppc = "replace" /\ ledger' = P!Filled(psnapshot, P!Users, pheld)
    BY <1>1, ProdEffect DEF Joint
<1>6. /\ ppc # "exited" /\ (ptorn => ptorn')
      /\ ppc = "replace" /\ ledger' # ledger => ppc' = "commit"
      /\ ppc \in {"commit", "fsync", "stat"} =>
             /\ UNCHANGED <<pheld, iam>>
             /\ ptorn' \/ ppc' \in {"commit", "fsync", "stat", "exited"}
    BY <1>1, ProdEnds DEF Joint
<1>7. ProdNamed(snapshot)'
    BY <1>1, <1>2, <1>6 DEF InIam, ProdNamed
<1>8. ProdNamed(ledger)'
    <2>1. CASE UNCHANGED ledger
        BY <1>1, <1>6, <2>1 DEF InIam, ProdNamed
    <2>2. CASE ledger' # ledger
        <3>1. ppc' = "commit" /\ \A u \in P!Users : ledger'[u] = pheld[u]
            BY <1>5, <1>6, <2>2, ProdWrites
        <3> QED
            BY <1>3, <1>5, <3>1 DEF PReplaced, ProdKnows, ProdNamed
    <2> QED
        BY <2>1, <2>2
<1> QED
    BY <1>1, <1>2, <1>3, <1>4, <1>7, <1>8 DEF InIam

\* However the two programs interleave, neither takes back a key of the other
\* that .env.prod names, nor, unless its record is torn, one of its own.
THEOREM OthersSafe == EnvSpec => []OthersKeysLive
<1>1. Joint /\ InIam /\ [EnvNext]_envVars => InIam'
    <2>1. CASE SecondMoves
        BY <2>1 DEF SecondMoves, InIam
    <2>2. CASE UNCHANGED envVars
        BY <2>2 DEF envVars, vars, run, pvars, bvars, InIam, FirstKnows, ProdKnows, ProdNamed
    <2> QED
        BY <2>1, <2>2, FirstIam, ProdIam DEF EnvNext
<1>2. Joint /\ InIam => OthersKeysLive
    BY DEF Joint, CopiesOfOneRun, OfOneRun, Holds, InIam, FirstKnows, ProdNamed,
        OthersKeysLive, NamedKeysLive
<1> QED
    BY <1>1, <1>2, IamInit, JointInvariance, PTL DEF EnvSpec
=============================================================================
