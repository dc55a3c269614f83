--------------------------- MODULE ProdKeys_proofs ---------------------------
(***************************************************************************)
(* Proofs about ProdKeys: for any number of users, keys, signals and runs. *)
(*                                                                         *)
(* As in Route53Keys_proofs the properties need to know which keys each    *)
(* point of main() may rely on.  Here the rollback goes by what main()     *)
(* remembers, so it also has to be known that each user has exactly that   *)
(* key, or one that the history variables name.                            *)
(***************************************************************************)
EXTENDS ProdKeys, TLAPS

Known(u) == held[u] \in Key /\ iam[u] = {held[u]}

Unrecorded == \A u \in Users : ledger[u] \notin Key

Position ==
    /\ pc \in {"preflight", "create", "append", "validate"} => at \in Users
    /\ pc \in {"replace", "commit", "fsync"} => at = LastUser

\* What the users have in AWS at each point of main().
Accounted ==
    /\ pc = "preflight" => \A u \in Users : u < at => iam[u] = {}
    /\ pc = "create" => \A u \in Users : IF u < at THEN Known(u) ELSE iam[u] = {}
    /\ pc = "append" =>
          /\ answer \in Key /\ iam[at] = {answer}
          /\ \A u \in Users : (u < at => Known(u)) /\ (u > at => iam[u] = {})
    /\ pc = "validate" => \A u \in Users : IF u <= at THEN Known(u) ELSE iam[u] = {}
    /\ pc \in {"replace", "commit", "fsync", "stat"} => \A u \in Users : Known(u)
    /\ pc = "rollback" =>
          \A u \in Users : IF u <= at THEN Known(u)
                           ELSE incomplete \/ iam[u] \subseteq astray \cup dropped

\* `committed' and the worksheet.
FlagAgrees ==
    /\ pc # "exited" => (committed <=> pc \in {"fsync", "stat"})
    /\ pc \in {"preflight", "create", "append", "validate", "replace"} => Unrecorded
    /\ pc = "rollback" => torn \/ Unrecorded
    /\ pc \in {"commit", "fsync", "stat"} => \A u \in Users : ledger[u] = held[u]
    /\ pc = "stat" => \A u \in Users : disk[u] = held[u]

\* A power loss can only bring back a worksheet without keys.
DiskAgrees ==
    \/ \A u \in Users : disk[u] \notin Key
    \/ \A u \in Users : disk[u] = ledger[u]

IInv ==
    /\ TypeOK /\ Position /\ Accounted /\ FlagAgrees /\ DiskAgrees
    /\ RecordedKeysLive /\ OneKeyPerUser /\ NoSilentLeftover /\ SuccessIsDurable

-----------------------------------------------------------------------------
LEMMA UsersFacts ==
    /\ FirstUser \in Int /\ LastUser \in Int /\ FirstUser <= LastUser
    /\ Users \subseteq Account /\ Users \subseteq Slot
    /\ \A u \in Users : u \in Int /\ FirstUser <= u /\ u <= LastUser
    /\ \A i \in Int : i \in Users <=> FirstUser <= i /\ i <= LastUser
    /\ NoKey \notin Key /\ Empty \notin Key /\ Key \cap Text = {}
BY ProdAssumption, KeyStoreAssumption DEF Users

LEMMA TypeStep ==
    ASSUME IInv, [Next]_vars
    PROVE  TypeOK'
<1> USE UsersFacts
<1>0. TypeOK /\ Position
    BY DEF IInv
<1>1. CASE FinalStat \/ ReportRollback \/ Kill
    BY <1>0, <1>1
    DEF FinalStat, ReportRollback, Kill, Exit, TypeOK, KeyStoreTypeOK, PC, InTry, Report,
        history, bounds
<1>13. CASE Writeback
    BY <1>0, <1>13 DEF Writeback, TypeOK, KeyStoreTypeOK, run, history, bounds
<1>14. CASE Commit
    BY <1>0, <1>14 DEF Commit, TypeOK, KeyStoreTypeOK, PC, InTry, history, bounds
<1>15. CASE RollbackEscapes
    <2>1. escaped' \in BOOLEAN
        BY <1>15, Zenon DEF RollbackEscapes
    <2> QED
        BY <1>0, <1>15, <2>1 DEF RollbackEscapes, Exit, TypeOK, KeyStoreTypeOK, PC, Report, bounds
<1>10. CASE ReadLedger
    BY <1>0, <1>10 DEF ReadLedger, Exit, TypeOK, KeyStoreTypeOK, PC, InTry, Report, history,
        bounds
<1>11. CASE Preflight
    <2>1. at' \in FirstUser - 1..LastUser /\ pc' \in PC /\ report' \in Report
        BY <1>0, <1>11 DEF Preflight, Exit, TypeOK, Position, PC, InTry, Report
    <2> QED
        BY <1>0, <1>11, <2>1 DEF Preflight, TypeOK, KeyStoreTypeOK, history, bounds
<1>2. CASE Rerun
    <2>1. held' \in [Users -> Key \cup {NoKey}]
        BY <1>2 DEF Rerun, NoKeys
    <2>2. /\ pc' \in PC /\ report' \in Report /\ at' \in FirstUser - 1..LastUser
          /\ runs' \in Nat /\ answer' \in Key \cup {NoKey}
        BY <1>0, <1>2 DEF Rerun, PC, Report, TypeOK
    <2> QED
        BY <1>0, <1>2, <2>1, <2>2 DEF Rerun, TypeOK, KeyStoreTypeOK
<1>12. CASE PowerLoss
    BY <1>0, <1>12 DEF PowerLoss, Exit, TypeOK, KeyStoreTypeOK, PC, InTry, Report, bounds,
        history
<1>3. CASE CreateGranted \/ CreateLost
    <2>1. KeyStoreTypeOK'
        BY <1>0, <1>3 DEF CreateGranted, CreateLost, CreateAccessKey, TypeOK, KeyStoreTypeOK
    <2>2. /\ answer' \in Key \cup {NoKey} /\ astray' \in SUBSET Key
          /\ pc' \in PC /\ at' \in FirstUser - 1..LastUser /\ report' \in Report
        BY <1>0, <1>3 DEF CreateGranted, CreateLost, CreateAccessKey, Raise, MustRollBack,
            LastIssued, Exit, TypeOK, Position, PC, InTry, Report, history
    <2> QED
        BY <1>0, <1>3, <2>1, <2>2 DEF CreateGranted, CreateLost, TypeOK, bounds, history
<1>4. CASE CreateRefused \/ Validate \/ AppendIssued
    BY <1>0, <1>4 DEF CreateRefused, Validate, AppendIssued, Raise, MustRollBack, LastIssued,
        Exit, TypeOK, KeyStoreTypeOK, Position, PC, InTry, Report, Users, history, bounds
<1>5. CASE ReplaceLedger
    <2>1. pc = "replace" => held \in [Users -> Key]
        BY <1>0 DEF IInv, Accounted, Known, TypeOK
    <2>2. ledger' \in Worksheet
        BY <1>0, <1>5, <2>1 DEF ReplaceLedger, Filled, TypeOK, Worksheet, Value
    <2>3. pc' \in PC /\ at' \in FirstUser - 1..LastUser /\ report' \in Report
        BY <1>0, <1>5 DEF ReplaceLedger, Raise, MustRollBack, LastIssued, Exit, TypeOK, PC,
            InTry, Report
    <2> QED
        BY <1>0, <1>5, <2>2, <2>3 DEF ReplaceLedger, TypeOK, KeyStoreTypeOK, bounds, history
<1>6. CASE FsyncDirectory
    BY <1>0, <1>6 DEF FsyncDirectory, Synced, Raise, MustRollBack, LastIssued, Exit, TypeOK,
        KeyStoreTypeOK, PC, InTry, Report, history, bounds
<1>7. CASE RollbackDelete
    <2>1. KeyStoreTypeOK'
        BY <1>0, <1>7 DEF RollbackDelete, DeleteAccessKey, TypeOK, KeyStoreTypeOK
    <2>2. at' \in FirstUser - 1..LastUser
        BY <1>0, <1>7 DEF RollbackDelete, PreviousUser, TypeOK
    <2>3. incomplete' \in BOOLEAN
        BY <1>0, <1>7 DEF RollbackDelete, TypeOK
    <2> QED
        BY <1>0, <1>7, <2>1, <2>2, <2>3 DEF RollbackDelete, TypeOK, history, bounds
<1>8. CASE Interrupt
    <2>1. dropped' \in SUBSET Key
        <3>1. pc = "append" => answer \in Key
            BY DEF IInv, Accounted
        <3> QED
            BY <1>0, <1>8, <3>1 DEF Interrupt, TypeOK
    <2>2. torn' \in BOOLEAN /\ escaped' \in BOOLEAN
        BY <1>0, <1>8, Zenon DEF Interrupt, TypeOK
    <2>3. signals' \in 0..MaxSignals
        BY <1>0, <1>8, ProdAssumption DEF Interrupt, TypeOK
    <2>4. at' \in FirstUser - 1..LastUser
        BY <1>0, <1>8 DEF Interrupt, Raise, LastIssued, TypeOK, Position, InTry
    <2>5. pc' \in PC /\ report' \in Report
        BY <1>0, <1>8 DEF Interrupt, Raise, MustRollBack, Exit, TypeOK, PC, Report
    <2>6. /\ KeyStoreTypeOK' /\ ledger' \in Worksheet /\ disk' \in Worksheet
          /\ snapshot' \in Worksheet /\ answer' \in Key \cup {NoKey}
          /\ held' \in [Users -> Key \cup {NoKey}] /\ runs' \in Nat /\ astray' \in SUBSET Key
          /\ committed' \in BOOLEAN /\ incomplete' \in BOOLEAN
        BY <1>0, <1>8 DEF Interrupt, TypeOK, KeyStoreTypeOK
    <2> QED
        BY <2>1, <2>2, <2>3, <2>4, <2>5, <2>6 DEF TypeOK
<1>9. CASE UNCHANGED vars
    BY <1>0, <1>9 DEF vars, run, bounds, history, TypeOK, KeyStoreTypeOK
<1> QED
    BY <1>1, <1>2, <1>3, <1>4, <1>5, <1>6, <1>7, <1>8, <1>9, <1>10, <1>11, <1>12,
       <1>13, <1>14, <1>15
    DEF Next, Step

LEMMA PositionStep ==
    ASSUME IInv, [Next]_vars
    PROVE  Position'
BY UsersFacts
DEF IInv, TypeOK, Position, Next, Step, ReadLedger, Preflight, CreateGranted, CreateLost,
    CreateRefused, AppendIssued, Validate, ReplaceLedger, Commit, FsyncDirectory, FinalStat,
    RollbackDelete, RollbackEscapes, ReportRollback, Interrupt, Kill, Rerun, Writeback, PowerLoss, Raise, Exit,
    MustRollBack, vars, run

LEMMA OneKeyStep ==
    ASSUME IInv, [Next]_vars
    PROVE  OneKeyPerUser'
<1> USE UsersFacts
<1>1. CASE CreateGranted \/ CreateLost
    <2>1. at \in Users /\ iam[at] = {}
        BY <1>1 DEF IInv, Position, Accounted, CreateGranted, CreateLost
    <2>2. PICK k \in Key : iam' = [iam EXCEPT ![at] = @ \cup {k}]
        BY <1>1 DEF CreateGranted, CreateLost, CreateAccessKey
    <2> QED
        BY <2>1, <2>2 DEF IInv, TypeOK, KeyStoreTypeOK, OneKeyPerUser, QuotaReached
<1>2. CASE RollbackDelete
    BY <1>2 DEF RollbackDelete, DeleteAccessKey, IInv, TypeOK, KeyStoreTypeOK, OneKeyPerUser,
        QuotaReached
<1>3. CASE UNCHANGED iam
    BY <1>3 DEF IInv, OneKeyPerUser, QuotaReached
<1> QED
    BY <1>1, <1>2, <1>3 DEF Next, Step, ReadLedger, Preflight, CreateRefused, AppendIssued,
        Validate, ReplaceLedger, Commit, FsyncDirectory, FinalStat, RollbackEscapes, ReportRollback, Interrupt,
        Kill, Rerun, Writeback, PowerLoss, vars

\* The exception that leaves the try block starts the rollback at the last
\* key that was appended.
LEMMA RaiseAccounted ==
    ASSUME IInv, Raise, pc \in InTry, UNCHANGED held,
           \A u \in Users : u <= at' => iam'[u] = iam[u],
           \A u \in Users : u > at' => iam'[u] \subseteq astray' \cup dropped'
    PROVE  Accounted'
<1> USE UsersFacts
<1>1. pc' \in {"rollback", "exited"}
    BY DEF Raise, Exit
<1>2. at' = IF pc \in {"create", "append"} THEN at - 1 ELSE at
    BY DEF Raise, LastIssued
<1>3. at \in Int
    BY DEF IInv, TypeOK
<1>4. \A u \in Users : u <= at' => Known(u)
    BY <1>2, <1>3 DEF IInv, Position, Accounted, InTry
<1>5. at' \in Int /\ held' = held
    BY <1>2, <1>3
<1>6. ASSUME NEW u \in Users
      PROVE  IF u <= at' THEN Known(u)' ELSE iam'[u] \subseteq astray' \cup dropped'
    BY <1>4, <1>5 DEF Known
<1> QED
    BY <1>1, <1>6 DEF Accounted

LEMMA AccountedStep ==
    ASSUME IInv, [Next]_vars
    PROVE  Accounted'
<1> USE UsersFacts
<1>0. /\ at \in Int /\ iam \in [Account -> SUBSET Key] /\ DOMAIN held = Users
      /\ Accounted /\ Position
    BY DEF IInv, TypeOK, KeyStoreTypeOK
<1>1. CASE ReadLedger \/ Preflight
    BY <1>0, <1>1 DEF ReadLedger, Preflight, HasNoKeys, Exit, Accounted, Position
<1>2. CASE CreateGranted
    <2>1. PICK k \in Key : iam' = [iam EXCEPT ![at] = @ \cup {k}] /\ answer' = k
        BY <1>2 DEF CreateGranted, CreateAccessKey
    <2>2. at \in Users /\ iam[at] = {} /\ pc' = "append" /\ at' = at /\ held' = held
        BY <1>0, <1>2 DEF CreateGranted, Accounted, Position
    <2>3. iam'[at] = {k} /\ \A u \in Users : u # at => iam'[u] = iam[u]
        BY <1>0, <2>1, <2>2
    <2> QED
        BY <1>0, <1>2, <2>1, <2>2, <2>3 DEF CreateGranted, Accounted, Known
<1>3. CASE CreateLost
    <2>1. PICK k \in Key : iam' = [iam EXCEPT ![at] = @ \cup {k}] /\ astray' = astray \cup {k}
        BY <1>3 DEF CreateLost, CreateAccessKey
    <2>2. at \in Users /\ iam[at] = {} /\ at' = at - 1 /\ dropped' = dropped
        BY <1>0, <1>3 DEF CreateLost, Raise, LastIssued, Accounted, Position
    <2>3. \A u \in Users : iam'[u] = IF u = at THEN {k} ELSE iam[u]
        BY <1>0, <2>1, <2>2
    <2>4. \A u \in Users : u >= at => iam[u] = {}
        BY <1>0, <1>3 DEF CreateLost, Accounted
    <2> QED
        BY <1>0, <1>3, <2>1, <2>2, <2>3, <2>4, RaiseAccounted DEF CreateLost, InTry
<1>4. CASE CreateRefused
    <2>1. at' = at - 1 /\ at \in Users /\ \A u \in Users : u >= at => iam[u] = {}
        BY <1>0, <1>4 DEF CreateRefused, Raise, LastIssued, Accounted, Position
    <2> QED
        BY <1>0, <1>4, <2>1, RaiseAccounted DEF CreateRefused, InTry
<1>5. CASE AppendIssued
    BY <1>0, <1>5 DEF AppendIssued, Accounted, Position, Known
<1>6. CASE Validate
    <2>1. CASE Raise
        BY <1>0, <1>6, <2>1, RaiseAccounted DEF Validate, InTry, Raise, LastIssued, Accounted
    <2>2. CASE at < LastUser /\ at' = at + 1 /\ pc' = "create"
        BY <1>0, <1>6, <2>2 DEF Validate, Accounted, Known
    <2>3. CASE at = LastUser /\ pc' = "replace" /\ at' = at
        BY <1>0, <1>6, <2>3 DEF Validate, Accounted, Known
    <2> QED
        BY <1>6, <2>1, <2>2, <2>3 DEF Validate
<1>7. CASE ReplaceLedger \/ FsyncDirectory
    <2>1. CASE Raise
        BY <1>0, <1>7, <2>1, RaiseAccounted
        DEF ReplaceLedger, FsyncDirectory, InTry, Raise, LastIssued, Position
    <2>2. CASE pc' \in {"commit", "stat"}
        BY <1>0, <1>7, <2>2 DEF ReplaceLedger, FsyncDirectory, Accounted, Known
    <2> QED
        BY <1>7, <2>1, <2>2 DEF ReplaceLedger, FsyncDirectory
<1>8. CASE Commit
    BY <1>0, <1>8 DEF Commit, Accounted, Known
<1>9. CASE RollbackDelete
    <2>1. at \in Users /\ Known(at)
        BY <1>0, <1>9 DEF RollbackDelete, Accounted, IInv, TypeOK
    <2>2. /\ \A u \in Users : u # at => iam'[u] = iam[u]
          /\ incomplete' \/ iam'[at] = {}
          /\ incomplete => incomplete'
        BY <1>0, <1>9, <2>1 DEF RollbackDelete, DeleteAccessKey, Known
    <2> QED
        BY <1>0, <1>9, <2>1, <2>2 DEF RollbackDelete, PreviousUser, Accounted, Known, history
<1>10. CASE Interrupt
    <2>1. CASE pc' = "exited"
        BY <2>1 DEF Accounted
    <2>2. CASE pc \in InTry /\ Raise
        <3>1. CASE pc = "append"
            BY <1>0, <1>10, <2>2, <3>1, RaiseAccounted
            DEF Interrupt, Raise, LastIssued, Accounted, Position
        <3>2. CASE pc # "append"
            BY <1>0, <1>10, <2>2, <3>2, RaiseAccounted
            DEF Interrupt, Raise, LastIssued, Accounted, Position, InTry
        <3> QED
            BY <3>1, <3>2
    <2> QED
        BY <1>10, <2>1, <2>2 DEF Interrupt, Exit
<1>11. CASE FinalStat \/ RollbackEscapes \/ ReportRollback \/ Kill \/ Rerun
    BY <1>11 DEF FinalStat, RollbackEscapes, ReportRollback, Kill, Rerun, Exit, Accounted
<1>12. CASE PowerLoss
    BY <1>12 DEF PowerLoss, Exit, Accounted
<1>13. CASE Writeback \/ UNCHANGED vars
    BY <1>0, <1>13 DEF Writeback, vars, run, history, Accounted, Known
<1> QED
    BY <1>1, <1>2, <1>3, <1>4, <1>5, <1>6, <1>7, <1>8, <1>9, <1>10, <1>11, <1>12, <1>13
    DEF Next, Step

LEMMA FlagStep ==
    ASSUME IInv, [Next]_vars
    PROVE  FlagAgrees'
<1> USE UsersFacts
<1>0. FlagAgrees /\ ledger \in Worksheet /\ pc \in PC /\ DOMAIN snapshot = Slot
    BY DEF IInv, TypeOK, Worksheet
<1>1. CASE ReadLedger
    BY <1>0, <1>1 DEF ReadLedger, Blank, Exit, FlagAgrees, Unrecorded
<1>2. CASE Preflight \/ CreateGranted \/ AppendIssued
    BY <1>0, <1>2 DEF Preflight, CreateGranted, AppendIssued, Exit, FlagAgrees, Unrecorded
<1>3. CASE CreateLost \/ CreateRefused \/ Validate
    BY <1>0, <1>3 DEF CreateLost, CreateRefused, Validate, Raise, MustRollBack, Exit,
        FlagAgrees, Unrecorded, history
<1>4. CASE ReplaceLedger
    <2>1. CASE ledger' = Filled(snapshot, Users, held) /\ pc' = "commit"
        <3>1. \A u \in Users : ledger'[u] = held[u]
            BY <2>1 DEF Filled
        <3> QED
            BY <1>0, <1>4, <2>1, <3>1 DEF ReplaceLedger, FlagAgrees
    <2>2. CASE Raise /\ UNCHANGED ledger
        BY <1>0, <1>4, <2>2 DEF ReplaceLedger, Raise, MustRollBack, Exit, FlagAgrees,
            Unrecorded, history
    <2> QED
        BY <1>4, <2>1, <2>2 DEF ReplaceLedger
<1>5. CASE Commit
    BY <1>0, <1>5 DEF Commit, FlagAgrees
<1>6. CASE FsyncDirectory
    BY <1>0, <1>6 DEF FsyncDirectory, Synced, Raise, MustRollBack, Exit, FlagAgrees
<1>7. CASE RollbackDelete
    BY <1>0, <1>7 DEF RollbackDelete, FlagAgrees, Unrecorded, history
<1>8. CASE Interrupt
    <2>1. CASE pc' = "exited"
        BY <2>1 DEF FlagAgrees
    <2>2. CASE pc' = "rollback" /\ ~committed /\ pc \in InTry
        <3>1. torn' \/ Unrecorded
            BY <1>0, <1>8, <2>2 DEF Interrupt, FlagAgrees, InTry
        <3> QED
            BY <1>8, <2>2, <3>1 DEF Interrupt, FlagAgrees, Unrecorded
    <2> QED
        BY <1>8, <2>1, <2>2 DEF Interrupt, Raise, MustRollBack, Exit
<1>9. CASE FinalStat \/ RollbackEscapes \/ ReportRollback \/ Kill \/ PowerLoss
    BY <1>9 DEF FinalStat, RollbackEscapes, ReportRollback, Kill, PowerLoss, Exit, FlagAgrees
<1>10. CASE Rerun
    BY <1>10 DEF Rerun, FlagAgrees
<1>11. CASE Writeback
    BY <1>0, <1>11 DEF Writeback, FlagAgrees, Unrecorded, run, history
<1>12. CASE UNCHANGED vars
    BY <1>0, <1>12 DEF vars, run, history, FlagAgrees, Unrecorded
<1> QED
    BY <1>1, <1>2, <1>3, <1>4, <1>5, <1>6, <1>7, <1>8, <1>9, <1>10, <1>11, <1>12
    DEF Next, Step

LEMMA DiskStep ==
    ASSUME IInv, [Next]_vars
    PROVE  DiskAgrees'
<1>1. CASE ReplaceLedger
    <2>1. \A u \in Users : disk[u] \notin Key
        BY <1>1 DEF ReplaceLedger, IInv, FlagAgrees, DiskAgrees, Unrecorded
    <2> QED
        BY <1>1, <2>1 DEF ReplaceLedger, DiskAgrees
<1>2. CASE FsyncDirectory
    BY <1>2 DEF FsyncDirectory, Synced, IInv, DiskAgrees
<1>3. CASE Writeback \/ PowerLoss
    BY <1>3 DEF Writeback, PowerLoss, DiskAgrees
<1>4. CASE UNCHANGED <<ledger, disk>>
    BY <1>4 DEF IInv, DiskAgrees
<1> QED
    BY <1>1, <1>2, <1>3, <1>4 DEF Next, Step, ReadLedger, Preflight, CreateGranted, CreateLost,
        CreateRefused, AppendIssued, Validate, Commit, FinalStat, RollbackDelete,
        RollbackEscapes, ReportRollback, Interrupt, Kill, Rerun, vars

LEMMA RecordedStep ==
    ASSUME IInv, [Next]_vars
    PROVE  RecordedKeysLive'
<1> USE UsersFacts
<1>0. SUFFICES ASSUME ~torn
               PROVE  \/ \A u \in Users : ledger'[u] \notin Key
                      \/ \A u \in Users : ledger'[u] \in iam'[u]
    <2>1. torn => torn'
        <3>1. CASE Interrupt
            BY <3>1, Zenon DEF Interrupt
        <3>2. CASE UNCHANGED torn
            BY <3>2, Zenon
        <3> QED
            BY <3>1, <3>2 DEF Next, Step, ReadLedger, Preflight, CreateGranted, CreateLost,
                CreateRefused, AppendIssued, Validate, ReplaceLedger, Commit, FsyncDirectory,
                FinalStat, RollbackDelete, RollbackEscapes, ReportRollback, Kill, Rerun, Writeback, PowerLoss,
                vars, history
    <2> QED
        BY <2>1, Zenon DEF RecordedKeysLive
<1>1. Unrecorded \/ \A u \in Users : ledger[u] \in iam[u]
    BY <1>0 DEF IInv, RecordedKeysLive, Unrecorded
<1>2. iam \in [Account -> SUBSET Key]
    BY DEF IInv, TypeOK, KeyStoreTypeOK
<1>3. CASE CreateGranted \/ CreateLost
    <2>1. \A u \in Users : iam[u] \subseteq iam'[u]
        BY <1>2, <1>3 DEF CreateGranted, CreateLost, CreateAccessKey
    <2> QED
        BY <1>1, <1>3, <2>1 DEF CreateGranted, CreateLost, Unrecorded
<1>4. CASE ReplaceLedger
    <2>1. CASE ledger' = Filled(snapshot, Users, held)
        <3>1. \A u \in Users : ledger'[u] = held[u] /\ held[u] \in iam[u]
            BY <1>4, <2>1 DEF ReplaceLedger, Filled, IInv, Accounted, Known
        <3> QED
            BY <1>4, <3>1 DEF ReplaceLedger
    <2>2. CASE UNCHANGED ledger
        BY <1>1, <1>4, <2>2 DEF ReplaceLedger, Unrecorded
    <2> QED
        BY <1>4, <2>1, <2>2 DEF ReplaceLedger
<1>5. CASE RollbackDelete
    BY <1>0, <1>5 DEF RollbackDelete, IInv, FlagAgrees, Unrecorded
<1>6. CASE PowerLoss
    BY <1>1, <1>6 DEF PowerLoss, IInv, DiskAgrees, Unrecorded
<1>7. CASE UNCHANGED <<iam, ledger>>
    BY <1>1, <1>7 DEF Unrecorded
<1> QED
    BY <1>3, <1>4, <1>5, <1>6, <1>7 DEF Next, Step, ReadLedger, Preflight, CreateRefused,
        AppendIssued, Validate, Commit, FsyncDirectory, FinalStat, RollbackEscapes, ReportRollback, Interrupt,
        Kill, Rerun, Writeback, vars

LEMMA EndStep ==
    ASSUME IInv, [Next]_vars
    PROVE  NoSilentLeftover' /\ SuccessIsDurable'
<1> USE UsersFacts
<1>0. TypeOK /\ Accounted /\ FlagAgrees /\ NoSilentLeftover /\ SuccessIsDurable
    BY DEF IInv
<1>1. CASE pc # "exited" /\ pc' = "exited"
    <2>1. ASSUME report' = "failed", ~escaped', ~committed'
          PROVE  \A u \in Users : iam'[u] \subseteq astray' \cup dropped'
        <3>1. ReportRollback
            BY <1>0, <1>1, <2>1
            DEF Next, Step, ReadLedger, Preflight, CreateGranted, CreateLost, CreateRefused,
                AppendIssued, Validate, ReplaceLedger, Commit, FsyncDirectory, FinalStat,
                RollbackDelete, RollbackEscapes, Interrupt, Kill, Rerun, Writeback, PowerLoss,
                Raise, Exit, MustRollBack, FlagAgrees, vars, run
        <3>2. ~incomplete
            BY <2>1, <3>1 DEF RollbackEscapes, ReportRollback, Exit
        <3>3. \A u \in Users : ~(u <= at)
            BY <1>0, <3>1 DEF RollbackEscapes, ReportRollback, TypeOK
        <3> QED
            BY <1>0, <3>1, <3>2, <3>3 DEF RollbackEscapes, ReportRollback, Accounted, history
    <2>2. ASSUME report' = "ok"
          PROVE  FinalStat
        BY <1>0, <1>1, <2>2
        DEF Next, Step, ReadLedger, Preflight, CreateGranted, CreateLost, CreateRefused,
            AppendIssued, Validate, ReplaceLedger, Commit, FsyncDirectory, RollbackDelete,
            RollbackEscapes, ReportRollback, Interrupt, Kill, Rerun, Writeback, PowerLoss, Raise, Exit,
            MustRollBack, vars, run
    <2>3. FinalStat =>
            \A u \in Users : held'[u] \in iam'[u] /\ disk'[u] = held'[u] /\ ledger'[u] = held'[u]
        BY <1>0 DEF FinalStat, Accounted, Known, FlagAgrees
    <2> QED
        BY <2>1, <2>2, <2>3 DEF NoSilentLeftover, SuccessIsDurable
<1>2. CASE pc = "exited" /\ pc' = "exited"
    <2>1. \/ Writeback
          \/ PowerLoss
          \/ UNCHANGED vars
        BY <1>2 DEF Next, Step, ReadLedger, Preflight, CreateGranted, CreateLost, CreateRefused,
            AppendIssued, Validate, ReplaceLedger, Commit, FsyncDirectory, FinalStat,
            RollbackDelete, RollbackEscapes, ReportRollback, Interrupt, Kill, Rerun, InTry
    <2>2. UNCHANGED <<iam, held, committed, report, escaped, astray, dropped>>
        BY <1>2, <2>1 DEF Writeback, PowerLoss, vars, run, history
    <2>3. NoSilentLeftover'
        <3>1. /\ iam' = iam /\ (committed' <=> committed) /\ report' = report
              /\ (escaped' <=> escaped) /\ astray' = astray /\ dropped' = dropped
            BY <2>2
        <3> QED
            BY <1>0, <1>2, <3>1 DEF NoSilentLeftover
    <2>4. SuccessIsDurable'
        <3>1. CASE Writeback \/ UNCHANGED vars
            BY <1>0, <1>2, <2>2, <3>1 DEF Writeback, vars, SuccessIsDurable
        <3>2. CASE PowerLoss
            BY <1>0, <1>2, <2>2, <3>2 DEF PowerLoss, SuccessIsDurable
        <3> QED
            BY <2>1, <3>1, <3>2
    <2> QED
        BY <2>3, <2>4
<1>3. CASE pc' # "exited"
    BY <1>3 DEF NoSilentLeftover, SuccessIsDurable
<1> QED
    BY <1>1, <1>2, <1>3

\* Whatever fails, is interrupted or crashes, every point of main() may rely on
\* what IInv says of it.
THEOREM Invariance == Spec => []IInv
<1>1. ASSUME Init
      PROVE  IInv
    <2>1. KeyStoreTypeOK
        BY <1>1 DEF Init, KeyStoreTypeOK
    <2>2. ledger \in Worksheet /\ disk \in Worksheet /\ snapshot \in Worksheet
        BY <1>1 DEF Init, Worksheet, Value
    <2>3. held \in [Users -> Key \cup {NoKey}]
        BY <1>1 DEF Init, Begin, NoKeys
    <2>4. at \in FirstUser - 1..LastUser /\ signals \in 0..MaxSignals /\ runs \in Nat
        BY <1>1, UsersFacts, ProdAssumption DEF Init, Begin
    <2>5. TypeOK
        <3>1. /\ committed \in BOOLEAN /\ incomplete \in BOOLEAN
              /\ torn \in BOOLEAN /\ escaped \in BOOLEAN
            BY <1>1, Zenon DEF Init, Begin
        <3>2. pc \in PC /\ report \in Report /\ answer \in Key \cup {NoKey}
            BY <1>1 DEF Init, Begin, PC, Report
        <3>3. astray \in SUBSET Key /\ dropped \in SUBSET Key
            BY <1>1 DEF Init
        <3> QED
            BY <2>1, <2>2, <2>3, <2>4, <3>1, <3>2, <3>3 DEF TypeOK
    <2>6. OneKeyPerUser
        <3>1. ASSUME NEW a \in minted, NEW b \in minted
              PROVE  a = b
            BY <1>1, <3>1 DEF Init
        <3>2. \A u \in Users : iam[u] \subseteq minted
            BY <2>1, UsersFacts DEF KeyStoreTypeOK
        <3> QED
            BY <3>1, <3>2 DEF OneKeyPerUser, QuotaReached
    <2>7. \A u \in Users : ledger[u] \notin Key /\ disk[u] \notin Key
        BY <1>1, UsersFacts, KeyStoreAssumption DEF Init
    <2>8. Position /\ Accounted /\ FlagAgrees /\ DiskAgrees
        BY <1>1, <2>7 DEF Init, Begin, Position, Accounted, FlagAgrees, DiskAgrees
    <2>9. RecordedKeysLive /\ NoSilentLeftover /\ SuccessIsDurable
        BY <1>1, <2>7 DEF Init, Begin, RecordedKeysLive, NoSilentLeftover, SuccessIsDurable
    <2> QED
        BY <2>5, <2>6, <2>8, <2>9 DEF IInv
<1>2. ASSUME IInv, [Next]_vars
      PROVE  IInv'
    BY <1>2, TypeStep, PositionStep, OneKeyStep, AccountedStep, FlagStep, DiskStep,
       RecordedStep, EndStep DEF IInv
<1> QED
    BY <1>1, <1>2, PTL DEF Spec

-----------------------------------------------------------------------------
(***************************************************************************)
(* What it gives.                                                          *)
(***************************************************************************)
\* The variables keep their types; a written file holds keys and never NoKey.
THEOREM TypeCorrect == Spec => []TypeOK
BY Invariance, PTL DEF IInv

\* .env.prod never names a dead key and is never half filled, unless a signal
\* fell between os.replace and committed = True.
THEOREM RecordSafe == Spec => []RecordedKeysLive
BY Invariance, PTL DEF IInv

\* A dedicated user never gets a second key.
THEOREM OneKey == Spec => []OneKeyPerUser
BY Invariance, PTL DEF IInv

\* A failed run that does not report leftovers has left no key that main()
\* had in `issued'.
THEOREM RollbackComplete == Spec => []NoSilentLeftover
BY Invariance, PTL DEF IInv

\* After a reported success the live keys are in the file and on the disk.
THEOREM DurableSuccess == Spec => []SuccessIsDurable
BY Invariance, PTL DEF IInv
=============================================================================
