------------------------- MODULE NonprodKeys_proofs -------------------------
(***************************************************************************)
(* Proofs about NonprodKeys: for any number of users, keys and worksheets, *)
(* whichever worksheets share a user, and any number of signals, edits and *)
(* runs.                                                                   *)
(*                                                                         *)
(* That two renames look like one rests on what the rollback can rely on:  *)
(* a worksheet that is not in `replaced' names no key (UnrecordedYet), the *)
(* text it puts back names none either (BlankOriginals), and when the keys *)
(* are taken away no worksheet is left in `replaced' (Position).           *)
(***************************************************************************)
EXTENDS NonprodKeys, TLAPS

Known(u) == held[u] \in Key /\ iam[u] = {held[u]}

DiskNone(f) == \A u \in Uses[f] : disk[f][u] \notin Key

\* Where the loops over users and worksheets are.
Position ==
    /\ pc \in {"preflight", "create", "validate", "sweep"} => at \in Users
    /\ pc = "read" => at = FirstUser
    /\ pc \in {"stage", "keep", "recheck", "replace", "fsync", "stat"} => at = LastUser
    /\ pc \in {"read", "preflight"} => staged = {}
    /\ pc \in {"read", "preflight", "create", "validate", "stage", "keep", "recheck"} =>
          replaced = {}
    /\ pc = "replace" => \A f \in Files : f \in replaced <=> f < nth
    /\ pc \in {"fsync", "stat"} => replaced = Files
    /\ pc = "restore" => \A f \in replaced : f <= nth
    /\ pc \in {"list", "sweep", "report"} => replaced = {}

\* What the users have in AWS at each point of main().
Accounted ==
    /\ pc = "preflight" => \A u \in Users : u < at => iam[u] = {}
    /\ pc = "create" => \A u \in Users : IF u < at THEN Known(u) ELSE iam[u] = {}
    /\ pc = "validate" => \A u \in Users : IF u <= at THEN Known(u) ELSE iam[u] = {}
    /\ pc \in {"stage", "keep", "recheck", "replace", "fsync", "stat"} =>
          \A u \in Users : Known(u)
    /\ pc \in {"caught", "restore", "list", "sweep"} =>
          \A u \in Users : u > at => incomplete \/ iam[u] = {}
    /\ pc = "sweep" => incomplete \/ iam[at] \subseteq todo
    /\ pc = "report" => \A u \in Users : incomplete \/ iam[u] = {}

\* The worksheets as main() has read them have no keys.
BlankOriginals ==
    /\ pc = "read" => \A f \in Files : f < nth => Blank(originals[f], Uses[f])
    /\ pc \in {"preflight"} \cup InTry \cup InHandler =>
          \A f \in Files : Blank(originals[f], Uses[f])

\* Nor has a worksheet before it is replaced or after it was put back.
UnrecordedYet ==
    /\ pc = "read" => \A f \in Files : f < nth => HoldsNone(f)
    /\ pc \in {"preflight"} \cup InTry \cup InHandler =>
          \A f \in Files \ (replaced \cup unrestored) : HoldsNone(f)

\* A replaced worksheet has the keys main() remembers.
Written ==
    /\ pc \in {"replace", "fsync", "stat"} =>
          \A f \in replaced : \A u \in Uses[f] : ledger[f][u] = held[u]
    /\ pc = "stat" => \A f \in Files : \A u \in Uses[f] : disk[f][u] = held[u]

\* A power loss can only bring back a worksheet without keys.
DiskAgrees ==
    \A f \in Files \ unrestored :
        DiskNone(f) \/ \A u \in Uses[f] : disk[f][u] = ledger[f][u]

\* From the second read of a worksheet until it is put back, its other lines
\* are those main() has read, unless they are edited.
CopyAgrees ==
    \A f \in Files \ late :
        \/ pc = "recheck" /\ f < nth
        \/ pc \in {"replace", "fsync", "stat"}
        \/ pc \in {"caught", "restore"} /\ f \in replaced
        => \A s \in Slot \ Uses[f] : ledger[f][s] = originals[f][s]

TempsKnown ==
    pc # "exited" => temps \subseteq staged \cup mislaid \cup {f \in {nth} : pc = "keep"}

\* The last steps of a run: see BothOrNeither and SuccessIsDurable.
Ending ==
    pc \in {"cleanup", "exited"} =>
        /\ report = "ok" =>
              \A f \in Files : \A u \in Uses[f] :
                  held[u] \in iam[u] /\ disk[f][u] = held[u] /\ ledger[f][u] = held[u]
        /\ report = "failed" /\ ~escaped =>
              /\ \A f \in Files \ unrestored : HoldsNone(f)
              /\ \A u \in Users : iam[u] = {}

IInv ==
    /\ TypeOK /\ Position /\ Accounted /\ BlankOriginals /\ UnrecordedYet /\ Written
    /\ DiskAgrees /\ CopyAgrees /\ TempsKnown /\ Ending
    /\ RecordedKeysLive /\ OneKeyPerUser /\ NoTempsLeft

-----------------------------------------------------------------------------
LEMMA Facts ==
    /\ FirstUser \in Int /\ LastUser \in Int /\ FirstUser <= LastUser
    /\ Users \subseteq Account /\ Users \subseteq Slot
    /\ \A u \in Users : u \in Int /\ FirstUser <= u /\ u <= LastUser
    /\ \A i \in Int : i \in Users <=> FirstUser <= i /\ i <= LastUser
    /\ LastFile \in Int /\ 1 <= LastFile
    /\ \A f \in Files : f \in Int /\ 1 <= f /\ f <= LastFile
    /\ \A i \in Int : i \in Files <=> 1 <= i /\ i <= LastFile
    /\ \A f \in Files : Uses[f] \subseteq Users
    /\ NoKey \notin Key /\ Empty \notin Key /\ Key \cap Text = {}
BY NonprodAssumption, KeyStoreAssumption DEF Users, Files

LEMMA UpdatedType ==
    ASSUME TypeOK, NEW f \in Files, \A u \in Users : Known(u)
    PROVE  Updated(f) \in Worksheet
<1>1. \A u \in Uses[f] : held[u] \in Value
    BY Facts DEF Known, Value
<1>2. originals[f] \in Worksheet
    BY DEF TypeOK
<1> QED
    BY <1>1, <1>2 DEF Updated, Filled, Worksheet

LEMMA TypeStep ==
    ASSUME IInv, [Next]_vars
    PROVE  TypeOK'
<1> USE Facts
<1>0. TypeOK /\ Position
    BY DEF IInv
<1>1. CASE ReadLedger
    <2>1. originals' \in [Files -> Worksheet]
        BY <1>0, <1>1 DEF ReadLedger, TypeOK
    <2>2. pc' \in PC /\ nth' \in Files /\ report' \in Report
        BY <1>0, <1>1 DEF ReadLedger, NextFile, Exit, TypeOK, PC, InTry, InHandler, Report
    <2> QED
        BY <1>0, <1>1, <2>1, <2>2 DEF ReadLedger, TypeOK, KeyStoreTypeOK, files, bounds, history
<1>2. CASE Preflight
    <2>1. at' \in FirstUser - 1..LastUser /\ pc' \in PC /\ report' \in Report
        BY <1>0, <1>2 DEF Preflight, Exit, TypeOK, Position, PC, InTry, InHandler, Report
    <2> QED
        BY <1>0, <1>2, <2>1 DEF Preflight, TypeOK, KeyStoreTypeOK, files, bounds, history
<1>3. CASE CreateGranted \/ CreateLost
    <2>1. KeyStoreTypeOK'
        BY <1>0, <1>3 DEF CreateGranted, CreateLost, CreateAccessKey, TypeOK, KeyStoreTypeOK
    <2>2. held' \in [Users -> Key \cup {NoKey}] /\ pc' \in PC
        BY <1>0, <1>3 DEF CreateGranted, CreateLost, TypeOK, PC, InTry, InHandler
    <2> QED
        BY <1>0, <1>3, <2>1, <2>2 DEF CreateGranted, CreateLost, TypeOK, files, bounds, history
<1>4. CASE CreateRefused \/ Validate
    <2>1. at' \in FirstUser - 1..LastUser /\ pc' \in PC
        BY <1>0, <1>4 DEF CreateRefused, Validate, TypeOK, Position, PC, InTry, InHandler
    <2> QED
        BY <1>0, <1>4, <2>1
        DEF CreateRefused, Validate, TypeOK, KeyStoreTypeOK, files, bounds, history
<1>5. CASE Stage \/ KeepStaged \/ Recheck
    <2>1. pc' \in PC /\ nth' \in Files
        BY <1>0, <1>5 DEF Stage, KeepStaged, Recheck, NextFile, TypeOK, PC, InTry, InHandler
    <2>2. temps' \in SUBSET Files /\ staged' \in SUBSET Files
        BY <1>0, <1>5 DEF Stage, KeepStaged, StagedWith, Recheck, files, TypeOK
    <2>3. ledger' \in [Files -> Worksheet] /\ disk' \in [Files -> Worksheet]
        BY <1>0, <1>5 DEF Stage, KeepStaged, Recheck, files, TypeOK
    <2> QED
        BY <1>0, <1>5, <2>1, <2>2, <2>3
        DEF Stage, KeepStaged, Recheck, TypeOK, KeyStoreTypeOK, bounds, history
<1>6. CASE ReplaceLedger
    <2>1. ledger' \in [Files -> Worksheet]
        <3>1. Updated(nth) \in Worksheet
            BY <1>0, <1>6, UpdatedType DEF ReplaceLedger, IInv, Accounted, TypeOK
        <3> QED
            BY <1>0, <1>6, <3>1 DEF ReplaceLedger, TypeOK
    <2>2. pc' \in PC /\ nth' \in Files
        BY <1>0, <1>6 DEF ReplaceLedger, NextFile, TypeOK, PC, InTry, InHandler
    <2>3. temps' \in SUBSET Files /\ staged' \in SUBSET Files /\ replaced' \in SUBSET Files
        BY <1>0, <1>6 DEF ReplaceLedger, TypeOK
    <2> QED
        BY <1>0, <1>6, <2>1, <2>2, <2>3
        DEF ReplaceLedger, TypeOK, KeyStoreTypeOK, bounds, history
<1>7. CASE FsyncDirectory
    BY <1>0, <1>7 DEF FsyncDirectory, Synced, TypeOK, KeyStoreTypeOK, PC, InTry, InHandler,
        bounds, history
<1>8. CASE FinalStat
    BY <1>0, <1>8 DEF FinalStat, TypeOK, KeyStoreTypeOK, PC, InTry, InHandler, Report, files,
        bounds, history
<1>9. CASE Handle \/ RestoreNext
    <2>1. pc' \in PC /\ nth' \in Files
        BY <1>0, <1>9 DEF Handle, RestoreNext, TypeOK, PC, InTry, InHandler
    <2> QED
        BY <1>0, <1>9, <2>1 DEF Handle, RestoreNext, TypeOK, KeyStoreTypeOK, files, bounds, history
<1>10. CASE Restore
    <2>1. [ledger EXCEPT ![nth] = originals[nth]] \in [Files -> Worksheet]
        BY <1>0 DEF TypeOK
    <2>2. ledger' \in [Files -> Worksheet] /\ disk' \in [Files -> Worksheet]
        BY <1>0, <1>10, <2>1 DEF Restore, TypeOK
    <2>3. /\ incomplete' \in BOOLEAN /\ unrestored' \in SUBSET Files
          /\ replaced' \in SUBSET Files
        BY <1>0, <1>10 DEF Restore, TypeOK
    <2> QED
        BY <1>0, <1>10, <2>2, <2>3 DEF Restore, TypeOK, KeyStoreTypeOK, bounds
<1>11. CASE RollbackList
    <2>1. at \in Users
        BY <1>0, <1>11 DEF RollbackList, TypeOK
    <2>2. todo' \in SUBSET Key /\ incomplete' \in BOOLEAN /\ pc' \in PC
        BY <1>0, <1>11, <2>1
        DEF RollbackList, KeysToDelete, TypeOK, KeyStoreTypeOK, PC, InTry, InHandler
    <2> QED
        BY <1>0, <1>11, <2>2 DEF RollbackList, TypeOK, KeyStoreTypeOK, files, bounds, history
<1>12. CASE RollbackDelete \/ RollbackRaise
    <2>1. KeyStoreTypeOK'
        BY <1>0, <1>12
        DEF RollbackDelete, RollbackRaise, DeleteAccessKey, TypeOK, KeyStoreTypeOK
    <2>2. todo' \in SUBSET Key /\ incomplete' \in BOOLEAN
        BY <1>0, <1>12 DEF RollbackDelete, RollbackRaise, TypeOK
    <2> QED
        BY <1>0, <1>12, <2>1, <2>2
        DEF RollbackDelete, RollbackRaise, TypeOK, files, bounds, history
<1>13. CASE RollbackNext \/ ReportRollback
    <2>1. at' \in FirstUser - 1..LastUser /\ pc' \in PC /\ report' \in Report
        BY <1>0, <1>13 DEF RollbackNext, ReportRollback, PreviousUser, TypeOK, PC, InTry,
            InHandler, Report
    <2> QED
        BY <1>0, <1>13, <2>1
        DEF RollbackNext, ReportRollback, TypeOK, KeyStoreTypeOK, files, bounds, history
<1>14. CASE Cleanup
    <2>1. temps' \in SUBSET Files /\ mislaid' \in SUBSET Files
        BY <1>0, <1>14 DEF Cleanup, TypeOK
    <2> QED
        BY <1>0, <1>14, <2>1 DEF Cleanup, Exit, TypeOK, KeyStoreTypeOK, PC, InTry, InHandler,
            Report, bounds
<1>15. CASE Interrupt
    <2>1. signals' \in 0..MaxSignals
        BY <1>0, <1>15, NonprodAssumption DEF Interrupt, TypeOK
    <2>2. at' \in FirstUser - 1..LastUser
        BY <1>0, <1>15 DEF Interrupt, LastAttempted, TypeOK, Position
    <2>3. pc' \in PC /\ report' \in Report
        BY <1>0, <1>15 DEF Interrupt, Exit, TypeOK, PC, InTry, InHandler, Report
    <2>4. escaped' \in BOOLEAN
        BY <1>0, <1>15, Zenon DEF Interrupt, TypeOK
    <2>5. mislaid' \in SUBSET Files
        BY <1>0, <1>15 DEF Interrupt, TypeOK
    <2> QED
        BY <1>0, <1>15, <2>1, <2>2, <2>3, <2>4, <2>5
        DEF Interrupt, TypeOK, KeyStoreTypeOK, files
<1>16. CASE Kill
    BY <1>0, <1>16 DEF Kill, Exit, TypeOK, KeyStoreTypeOK, PC, InTry, InHandler, Report, files,
        bounds, history
<1>17. CASE Rerun
    <2>1. held' \in [Users -> Key \cup {NoKey}]
        BY <1>17 DEF Rerun, NoKeys
    <2>2. /\ pc' \in PC /\ report' \in Report /\ at' \in FirstUser - 1..LastUser
          /\ nth' \in Files /\ runs' \in Nat
        BY <1>0, <1>17 DEF Rerun, PC, Report, TypeOK
    <2>3. committed' \in BOOLEAN /\ incomplete' \in BOOLEAN /\ escaped' \in BOOLEAN
        BY <1>17 DEF Rerun
    <2>4. /\ staged' \in SUBSET Files /\ replaced' \in SUBSET Files /\ todo' \in SUBSET Key
          /\ late' \in SUBSET Files /\ mislaid' \in SUBSET Files
        BY <1>0, <1>17 DEF Rerun, TypeOK
    <2> QED
        BY <1>0, <1>17, <2>1, <2>2, <2>3, <2>4 DEF Rerun, TypeOK, KeyStoreTypeOK, files
<1>18. CASE PersonEdits
    <2>1. ledger' \in [Files -> Worksheet]
        <3>1. PICK f \in Files, s \in Slot, v \in Text \cup {Empty} :
                  ledger' = [ledger EXCEPT ![f][s] = v]
            BY <1>18 DEF PersonEdits
        <3>2. [ledger[f] EXCEPT ![s] = v] \in Worksheet
            BY <1>0 DEF TypeOK, Worksheet, Value
        <3> QED
            BY <1>0, <3>1, <3>2 DEF TypeOK
    <2>2. late' \in SUBSET Files
        BY <1>0, <1>18 DEF PersonEdits, TypeOK
    <2>3. edits' \in 0..MaxEdits
        BY <1>0, <1>18, NonprodAssumption DEF PersonEdits, TypeOK
    <2> QED
        BY <1>0, <1>18, <2>1, <2>2, <2>3 DEF PersonEdits, TypeOK, KeyStoreTypeOK, local
<1>19. CASE Writeback
    <2>1. disk' \in [Files -> Worksheet]
        BY <1>0, <1>19 DEF Writeback, TypeOK
    <2> QED
        BY <1>0, <1>19, <2>1 DEF Writeback, TypeOK, KeyStoreTypeOK, local, bounds, history
<1>20. CASE PowerLoss
    BY <1>0, <1>20 DEF PowerLoss, Exit, TypeOK, KeyStoreTypeOK, PC, InTry, InHandler, Report,
        bounds, history
<1>21. CASE UNCHANGED vars
    BY <1>0, <1>21 DEF vars, files, local, bounds, history, TypeOK, KeyStoreTypeOK
<1> QED
    BY <1>1, <1>2, <1>3, <1>4, <1>5, <1>6, <1>7, <1>8, <1>9, <1>10, <1>11, <1>12, <1>13, <1>14,
       <1>15, <1>16, <1>17, <1>18, <1>19, <1>20, <1>21 DEF Next, Step

\* The steps of main() that keep to the worksheets and the keys as they are.
Quiet ==
    \/ ReadLedger \/ Preflight \/ CreateRefused \/ Validate \/ Stage \/ KeepStaged
    \/ Recheck \/ FinalStat \/ Handle \/ RestoreNext \/ RollbackList \/ RollbackNext
    \/ ReportRollback \/ Cleanup \/ Interrupt \/ Kill \/ Rerun \/ UNCHANGED vars

LEMMA QuietStep == Quiet => UNCHANGED <<iam, minted, ledger, disk, unrestored>>
BY DEF Quiet, ReadLedger, Preflight, CreateRefused, Validate, Stage, KeepStaged, Recheck,
       FinalStat, Handle, RestoreNext, RollbackList, RollbackNext, ReportRollback, Cleanup,
       Interrupt, Kill, Rerun, vars, files, history

LEMMA Steps ==
    ASSUME [Next]_vars
    PROVE  \/ Quiet \/ CreateGranted \/ CreateLost \/ ReplaceLedger \/ FsyncDirectory \/ Restore
           \/ RollbackDelete \/ RollbackRaise \/ PersonEdits \/ Writeback \/ PowerLoss
BY DEF Quiet, Next, Step

LEMMA PositionStep ==
    ASSUME IInv, [Next]_vars
    PROVE  Position'
<1> USE Facts
<1>0. Position /\ at \in Int /\ nth \in Files /\ replaced \subseteq Files
    BY DEF IInv, TypeOK
<1>1. CASE ReadLedger
    <2>1. /\ pc' \in {"read", "preflight", "exited"} /\ at' = at /\ staged' = staged
          /\ replaced' = replaced /\ pc = "read" /\ (pc' = "preflight" => at = FirstUser)
        BY <1>0, <1>1 DEF ReadLedger, NextFile, Exit, Position
    <2> QED
        BY <1>0, <2>1 DEF Position
<1>10. CASE Preflight
    <2>1. /\ pc' \in {"preflight", "create", "exited"} /\ staged' = staged
          /\ replaced' = replaced /\ pc = "preflight"
          /\ (pc' \in {"preflight", "create"} => at' \in Users)
        BY <1>0, <1>10 DEF Preflight, Exit, Position
    <2> QED
        BY <1>0, <2>1 DEF Position
<1>11. CASE CreateGranted \/ CreateLost \/ CreateRefused \/ Validate
    <2>1. /\ pc' \in {"create", "validate", "stage", "caught"}
          /\ replaced' = replaced /\ pc \in {"create", "validate"}
          /\ (pc' \in {"create", "validate"} => at' \in Users)
          /\ (pc' = "stage" => at' = LastUser)
        BY <1>0, <1>11 DEF CreateGranted, CreateLost, CreateRefused, Validate, Position
    <2> QED
        BY <1>0, <2>1 DEF Position
<1>2. CASE Stage \/ KeepStaged \/ Recheck
    BY <1>0, <1>2 DEF Stage, KeepStaged, Recheck, NextFile, Position
<1>3. CASE ReplaceLedger
    <2>1. CASE replaced' = replaced \cup {nth} /\ nth < LastFile /\ nth' = nth + 1 /\ pc' = pc
        BY <1>0, <1>3, <2>1 DEF ReplaceLedger, Position
    <2>2. CASE replaced' = replaced \cup {nth} /\ ~(nth < LastFile) /\ pc' = "fsync"
        BY <1>0, <1>3, <2>2 DEF ReplaceLedger, Position
    <2>3. CASE pc' = "caught"
        BY <2>3 DEF Position
    <2> QED
        BY <1>3, <2>1, <2>2, <2>3 DEF ReplaceLedger, NextFile
<1>4. CASE FsyncDirectory \/ FinalStat \/ Handle
    BY <1>0, <1>4 DEF FsyncDirectory, FinalStat, Handle, Position
<1>5. CASE Restore \/ RestoreNext
    BY <1>0, <1>5 DEF Restore, RestoreNext, ToRestore, Position
<1>6. CASE RollbackList \/ RollbackDelete \/ RollbackRaise \/ RollbackNext \/ ReportRollback
    <2>1. /\ pc' \in {"list", "sweep", "report", "cleanup"} /\ replaced' = replaced
          /\ pc \in {"list", "sweep", "report"}
        BY <1>6 DEF RollbackList, RollbackDelete, RollbackRaise, RollbackNext, ReportRollback
    <2>2. pc' = "sweep" => at' \in Users
        <3>1. CASE RollbackList
            BY <3>1, <1>0 DEF RollbackList, IInv, TypeOK
        <3>2. CASE RollbackDelete \/ RollbackRaise
            BY <3>2, <1>0 DEF RollbackDelete, RollbackRaise, Position
        <3>3. CASE RollbackNext
            BY <3>3 DEF RollbackNext
        <3>4. CASE ReportRollback
            BY <3>4 DEF ReportRollback
        <3> QED
            BY <1>6, <3>1, <3>2, <3>3, <3>4
    <2> QED
        BY <1>0, <2>1, <2>2 DEF Position
<1>7. CASE Cleanup \/ Interrupt \/ Kill \/ PowerLoss
    BY <1>0, <1>7 DEF Cleanup, Interrupt, Kill, PowerLoss, Exit, Position
<1>8. CASE Rerun
    BY <1>8 DEF Rerun, Position
<1>9. CASE PersonEdits \/ Writeback \/ UNCHANGED vars
    BY <1>0, <1>9 DEF PersonEdits, Writeback, vars, local, Position
<1> QED
    BY <1>1, <1>2, <1>3, <1>4, <1>5, <1>6, <1>7, <1>8, <1>9, <1>10, <1>11 DEF Next, Step

LEMMA OneKeyStep ==
    ASSUME IInv, [Next]_vars
    PROVE  OneKeyPerUser'
<1> USE Facts
<1>1. CASE CreateGranted \/ CreateLost
    <2>1. at \in Users /\ iam[at] = {}
        BY <1>1 DEF IInv, Position, Accounted, CreateGranted, CreateLost
    <2>2. PICK k \in Key : iam' = [iam EXCEPT ![at] = @ \cup {k}]
        BY <1>1 DEF CreateGranted, CreateLost, CreateAccessKey
    <2> QED
        BY <2>1, <2>2 DEF IInv, TypeOK, KeyStoreTypeOK, OneKeyPerUser, QuotaReached
<1>2. CASE RollbackDelete \/ RollbackRaise
    BY <1>2 DEF RollbackDelete, RollbackRaise, DeleteAccessKey, IInv, TypeOK, KeyStoreTypeOK,
        OneKeyPerUser, QuotaReached
<1>3. CASE UNCHANGED iam
    BY <1>3 DEF IInv, OneKeyPerUser, QuotaReached
<1> QED
    BY <1>1, <1>2, <1>3, Steps, QuietStep
    DEF ReplaceLedger, FsyncDirectory, Restore, PersonEdits, Writeback, PowerLoss

LEMMA AccountedStep ==
    ASSUME IInv, [Next]_vars
    PROVE  Accounted'
<1> USE Facts
<1>0. /\ at \in Int /\ iam \in [Account -> SUBSET Key] /\ DOMAIN held = Users
      /\ Accounted /\ Position
    BY DEF IInv, TypeOK, KeyStoreTypeOK
<1>1. CASE ReadLedger \/ Preflight
    BY <1>0, <1>1 DEF ReadLedger, NextFile, Preflight, HasNoKeys, Exit, Accounted, Position
<1>2. CASE CreateGranted
    <2>1. PICK k \in Key : iam' = [iam EXCEPT ![at] = @ \cup {k}] /\ held' = [held EXCEPT ![at] = k]
        BY <1>2 DEF CreateGranted, CreateAccessKey
    <2>2. at \in Users /\ iam[at] = {} /\ pc' = "validate" /\ at' = at
        BY <1>0, <1>2 DEF CreateGranted, Accounted, Position
    <2>3. /\ iam'[at] = {k} /\ held'[at] = k
          /\ \A u \in Users : u # at => iam'[u] = iam[u] /\ held'[u] = held[u]
        BY <1>0, <2>1, <2>2
    <2>4. ASSUME NEW u \in Users
          PROVE  IF u <= at' THEN Known(u)' ELSE iam'[u] = {}
        <3>1. IF u < at THEN Known(u) ELSE iam[u] = {}
            BY <1>0, <1>2 DEF CreateGranted, Accounted
        <3>2. CASE u = at
            BY <2>2, <2>3, <3>2 DEF Known
        <3>3. CASE u # at
            <4>1. u <= at' <=> u < at
                BY <1>0, <2>2, <3>3
            <4> QED
                BY <2>3, <3>1, <3>3, <4>1 DEF Known
        <3> QED
            BY <3>2, <3>3
    <2> QED
        BY <2>2, <2>4 DEF Accounted
<1>3. CASE CreateLost
    <2>1. \A u \in Users : u # at => iam'[u] = iam[u]
        BY <1>0, <1>3 DEF CreateLost, CreateAccessKey
    <2> QED
        BY <1>0, <1>3, <2>1 DEF CreateLost, Accounted, Position
<1>4. CASE CreateRefused
    BY <1>0, <1>4 DEF CreateRefused, Accounted, Position
<1>5. CASE Validate
    BY <1>0, <1>5 DEF Validate, Accounted, Position, Known
<1>6. CASE Stage \/ KeepStaged \/ Recheck \/ ReplaceLedger \/ FsyncDirectory \/ FinalStat
    <2>1. /\ pc \in {"stage", "keep", "recheck", "replace", "fsync", "stat"}
          /\ UNCHANGED <<iam, held, at, incomplete>>
          /\ pc' \in {"stage", "keep", "recheck", "replace", "fsync", "stat", "caught", "cleanup"}
        BY <1>6 DEF Stage, KeepStaged, Recheck, ReplaceLedger, FsyncDirectory, FinalStat, NextFile
    <2>2. pc' = "caught" => at = LastUser
        BY <1>0, <2>1 DEF Position
    <2> QED
        BY <1>0, <2>1, <2>2 DEF Accounted, Known
<1>7. CASE Handle \/ Restore \/ RestoreNext
    BY <1>0, <1>7 DEF Handle, Restore, RestoreNext, Accounted
<1>8. CASE RollbackList
    BY <1>0, <1>8 DEF RollbackList, KeysToDelete, Accounted
<1>9. CASE RollbackDelete \/ RollbackRaise
    <2>1. \A u \in Users : u # at => iam'[u] = iam[u]
        BY <1>0, <1>9 DEF RollbackDelete, RollbackRaise, DeleteAccessKey
    <2>2. incomplete' \/ (~incomplete' /\ ~incomplete /\ iam'[at] \subseteq todo')
        BY <1>0, <1>9 DEF RollbackDelete, RollbackRaise, DeleteAccessKey, Accounted, Position,
            IInv, TypeOK
    <2>3. pc' = "sweep" /\ pc = "sweep" /\ at' = at
        BY <1>9 DEF RollbackDelete, RollbackRaise
    <2> QED
        BY <1>0, <2>1, <2>2, <2>3 DEF Accounted
<1>10. CASE RollbackNext
    BY <1>0, <1>10 DEF RollbackNext, PreviousUser, Accounted, Position
<1>11. CASE Interrupt
    <2>1. CASE pc \in InTry /\ pc' = "caught" /\ at' = LastAttempted
        BY <1>0, <1>11, <2>1 DEF Interrupt, LastAttempted, InTry, Accounted, Position, IInv
    <2>2. CASE pc' \in {"exited", "cleanup"}
        BY <2>2 DEF Accounted
    <2> QED
        BY <1>11, <2>1, <2>2 DEF Interrupt, Exit
<1>12. CASE ReportRollback \/ Cleanup \/ Kill \/ Rerun \/ PowerLoss
    BY <1>0, <1>12 DEF ReportRollback, Cleanup, Kill, Rerun, PowerLoss, Exit, Accounted
<1>13. CASE PersonEdits \/ Writeback \/ UNCHANGED vars
    BY <1>0, <1>13 DEF PersonEdits, Writeback, vars, local, Accounted, Known
<1> QED
    BY <1>1, <1>2, <1>3, <1>4, <1>5, <1>6, <1>7, <1>8, <1>9, <1>10, <1>11, <1>12, <1>13
    DEF Next, Step

\* Past the first reads no worksheet text is read again into `originals'.
Running == {"preflight"} \cup InTry \cup InHandler

LEMMA Phases ==
    ASSUME pc \in PC, [Next]_vars
    PROVE  \/ ReadLedger
           \/ Rerun
           \/ pc' = "exited"
           \/ pc' = "cleanup"
           \/ pc' = "read" /\ pc = "read" /\ UNCHANGED <<nth, originals>>
           \/ pc' \in Running /\ pc \in Running /\ UNCHANGED originals
<1> USE DEF Running, InTry, InHandler
<1>1. CASE Preflight \/ CreateGranted \/ CreateLost \/ CreateRefused \/ Validate
    BY <1>1 DEF Preflight, CreateGranted, CreateLost, CreateRefused, Validate, Exit
<1>2. CASE Stage \/ KeepStaged \/ Recheck \/ ReplaceLedger \/ FsyncDirectory \/ FinalStat
    BY <1>2 DEF Stage, KeepStaged, Recheck, ReplaceLedger, FsyncDirectory, FinalStat, NextFile
<1>3. CASE Handle \/ Restore \/ RestoreNext
    BY <1>3 DEF Handle, Restore, RestoreNext
<1>4. CASE RollbackList \/ RollbackDelete \/ RollbackRaise \/ RollbackNext \/ ReportRollback
    BY <1>4 DEF RollbackList, RollbackDelete, RollbackRaise, RollbackNext, ReportRollback
<1>5. CASE Cleanup \/ Kill \/ PowerLoss
    BY <1>5 DEF Cleanup, Kill, PowerLoss, Exit
<1>6. CASE Interrupt
    BY <1>6 DEF Interrupt, Exit
<1>7. CASE PersonEdits \/ Writeback \/ UNCHANGED vars
    <2>1. UNCHANGED <<pc, nth, originals>>
        BY <1>7 DEF PersonEdits, Writeback, vars, local
    <2> QED
        BY <2>1 DEF PC
<1> QED
    BY <1>1, <1>2, <1>3, <1>4, <1>5, <1>6, <1>7 DEF Next, Step

LEMMA BlankStep ==
    ASSUME IInv, [Next]_vars
    PROVE  BlankOriginals'
<1> USE Facts
<1>0. BlankOriginals /\ nth \in Files /\ pc \in PC /\ originals \in [Files -> Worksheet]
    BY DEF IInv, TypeOK
<1>1. CASE ReadLedger
    <2>1. CASE pc' = "exited"
        BY <2>1 DEF BlankOriginals, InTry, InHandler
    <2>2. CASE pc' # "exited"
        <3>1. /\ Blank(ledger[nth], Uses[nth]) /\ pc = "read"
              /\ originals' = [originals EXCEPT ![nth] = ledger[nth]]
              /\ \/ nth < LastFile /\ nth' = nth + 1 /\ pc' = "read"
                 \/ ~(nth < LastFile) /\ pc' = "preflight"
            BY <1>1, <2>2 DEF ReadLedger, NextFile, Exit
        <3>2. \A f \in Files : f < nth \/ f = nth => Blank(originals'[f], Uses[f])
            BY <1>0, <3>1 DEF BlankOriginals
        <3> QED
            BY <1>0, <3>1, <3>2 DEF BlankOriginals, InTry, InHandler
    <2> QED
        BY <2>1, <2>2
<1>2. CASE Rerun
    BY <1>2 DEF Rerun, BlankOriginals, InTry, InHandler
<1>3. CASE pc' \in {"exited", "cleanup"}
    BY <1>3 DEF BlankOriginals, InTry, InHandler
<1>4. CASE pc' = "read" /\ pc = "read" /\ UNCHANGED <<nth, originals>>
    BY <1>0, <1>4 DEF BlankOriginals, InTry, InHandler
<1>5. CASE pc' \in Running /\ pc \in Running /\ UNCHANGED originals
    BY <1>0, <1>5 DEF BlankOriginals, Running, InTry, InHandler
<1> QED
    BY <1>0, <1>1, <1>2, <1>3, <1>4, <1>5, Phases

\* Nobody types over a recorded key, or types one in.
LEMMA EditStep ==
    ASSUME TypeOK, PersonEdits, NEW f \in Files, NEW s \in Slot
    PROVE  \/ ledger'[f][s] = ledger[f][s]
           \/ ledger[f][s] \notin Key /\ ledger'[f][s] \notin Key
<1>1. PICK g \in Files, r \in Slot, v \in Text \cup {Empty} :
          ledger[g][r] \notin Key /\ ledger' = [ledger EXCEPT ![g][r] = v]
    BY DEF PersonEdits
<1>2. v \notin Key
    BY Facts
<1>3. ledger[f] \in [Slot -> Value] /\ DOMAIN ledger = Files
    BY DEF TypeOK, Worksheet
<1> QED
    BY <1>1, <1>2, <1>3

LEMMA EditNone ==
    ASSUME TypeOK, PersonEdits, NEW f \in Files, HoldsNone(f)
    PROVE  HoldsNone(f)'
BY EditStep, Facts DEF HoldsNone

LEMMA UnrecordedStep ==
    ASSUME IInv, [Next]_vars
    PROVE  UnrecordedYet'
<1> USE Facts
<1>0. /\ UnrecordedYet /\ BlankOriginals /\ TypeOK /\ nth \in Files /\ pc \in PC
      /\ ledger \in [Files -> Worksheet]
    BY DEF IInv, TypeOK
<1>1. CASE ReadLedger
    <2>0. UNCHANGED <<ledger, replaced, unrestored>>
        BY <1>1 DEF ReadLedger, files, history
    <2>1. CASE pc' = "exited"
        BY <2>1 DEF UnrecordedYet, InTry, InHandler
    <2>2. CASE pc' # "exited"
        <3>1. /\ Blank(ledger[nth], Uses[nth]) /\ pc = "read"
              /\ \/ nth < LastFile /\ nth' = nth + 1 /\ pc' = "read"
                 \/ ~(nth < LastFile) /\ pc' = "preflight"
            BY <1>1, <2>2 DEF ReadLedger, NextFile, Exit
        <3>2. \A f \in Files : f < nth \/ f = nth => HoldsNone(f)'
            BY <1>0, <2>0, <3>1 DEF UnrecordedYet, HoldsNone, Blank
        <3> QED
            BY <1>0, <3>1, <3>2 DEF UnrecordedYet, InTry, InHandler
    <2> QED
        BY <2>1, <2>2
<1>2. CASE Rerun
    BY <1>2 DEF Rerun, UnrecordedYet, InTry, InHandler
<1>3. CASE pc' \in {"exited", "cleanup"}
    BY <1>3 DEF UnrecordedYet, InTry, InHandler
<1>4. CASE pc' = "read" /\ pc = "read" /\ UNCHANGED <<nth, originals>>
    <2>1. ledger' = ledger \/ PersonEdits
        BY <1>4, Steps, QuietStep DEF CreateGranted, CreateLost, ReplaceLedger, FsyncDirectory,
            Restore, RollbackDelete, RollbackRaise, Writeback, PowerLoss, files, Exit
    <2>2. \A f \in Files : f < nth => HoldsNone(f)'
        BY <1>0, <1>4, <2>1, EditNone DEF UnrecordedYet, HoldsNone
    <2> QED
        BY <1>4, <2>2 DEF UnrecordedYet, InTry, InHandler
<1>5. CASE pc' \in Running /\ pc \in Running /\ UNCHANGED originals
    <2>0. /\ \A f \in Files \ (replaced \cup unrestored) : HoldsNone(f)
          /\ \A f \in Files : Blank(originals[f], Uses[f])
        BY <1>0, <1>5 DEF UnrecordedYet, BlankOriginals, Running
    <2>1. CASE ReplaceLedger
        <3>1. \/ UNCHANGED <<ledger, replaced>>
              \/ /\ ledger' = [ledger EXCEPT ![nth] = Updated(nth)]
                 /\ replaced' = replaced \cup {nth}
            BY <2>1 DEF ReplaceLedger
        <3>2. unrestored' = unrestored
            BY <2>1 DEF ReplaceLedger, history
        <3>3. \A f \in Files \ (replaced \cup unrestored)' : HoldsNone(f)'
            BY <1>0, <2>0, <3>1, <3>2 DEF HoldsNone
        <3> QED
            BY <1>5, <3>3 DEF UnrecordedYet, Running, InTry, InHandler
    <2>2. CASE Restore
        <3>1. replaced' = replaced \ {nth}
            BY <2>2 DEF Restore
        <3>2. \/ ledger' = [ledger EXCEPT ![nth] = originals[nth]] /\ unrestored' = unrestored
              \/ /\ ledger' \in {ledger, [ledger EXCEPT ![nth] = originals[nth]]}
                 /\ unrestored' = unrestored \cup {nth}
            BY <2>2 DEF Restore
        <3>3. \A f \in Files \ (replaced \cup unrestored)' : HoldsNone(f)'
            BY <1>0, <2>0, <3>1, <3>2 DEF HoldsNone, Blank
        <3> QED
            BY <1>5, <3>3 DEF UnrecordedYet, Running, InTry, InHandler
    <2>3. CASE PersonEdits
        <3>1. UNCHANGED <<replaced, unrestored>>
            BY <2>3 DEF PersonEdits, local
        <3>2. \A f \in Files \ (replaced \cup unrestored)' : HoldsNone(f)'
            BY <1>0, <2>0, <2>3, <3>1, EditNone
        <3> QED
            BY <1>5, <3>2 DEF UnrecordedYet, Running, InTry, InHandler
    <2>4. CASE UNCHANGED <<ledger, replaced, unrestored>>
        <3>1. \A f \in Files \ (replaced \cup unrestored)' : HoldsNone(f)'
            BY <2>0, <2>4 DEF HoldsNone
        <3> QED
            BY <1>5, <3>1 DEF UnrecordedYet, Running, InTry, InHandler
    <2>5. CASE Quiet
        <3>1. Rerun \/ replaced' = replaced
            BY <2>5 DEF Quiet, ReadLedger, Preflight, CreateRefused, Validate, Stage, KeepStaged,
                Recheck, FinalStat, Handle, RestoreNext, RollbackList, RollbackNext,
                ReportRollback, Cleanup, Interrupt, Kill, vars, local
        <3> QED
            BY <1>2, <2>4, <2>5, <3>1, QuietStep
    <2> QED
        BY <1>5, <2>1, <2>2, <2>3, <2>4, <2>5, Steps
        DEF CreateGranted, CreateLost, FsyncDirectory, RollbackDelete, RollbackRaise, Writeback,
            PowerLoss, Exit, Running, InTry, InHandler, files, local, history
<1> QED
    BY <1>0, <1>1, <1>2, <1>3, <1>4, <1>5, Phases

\* What a replacement writes, and that the user's keys are then known.
LEMMA ReplaceStep ==
    ASSUME IInv, ReplaceLedger, ledger' # ledger \/ replaced' # replaced
    PROVE  /\ ledger' = [ledger EXCEPT ![nth] = Updated(nth)]
           /\ replaced' = replaced \cup {nth}
           /\ nth \in Files /\ nth \notin replaced
           /\ \A u \in Uses[nth] : ledger'[nth][u] = held[u] /\ Known(u)
           /\ \A s \in Slot \ Uses[nth] : ledger'[nth][s] = originals[nth][s]
           /\ \A f \in Files : f # nth => ledger'[f] = ledger[f]
<1> USE Facts
<1>1. /\ ledger' = [ledger EXCEPT ![nth] = Updated(nth)]
      /\ replaced' = replaced \cup {nth} /\ pc = "replace"
    BY DEF ReplaceLedger
<1>2. nth \in Files /\ DOMAIN ledger = Files /\ Position /\ Accounted
    BY DEF IInv, TypeOK
<1>3. nth \notin replaced
    BY <1>1, <1>2 DEF Position
<1>4. \A u \in Users : Known(u)
    BY <1>1, <1>2 DEF Accounted
<1>5. \A u \in Uses[nth] : u \in Slot
    BY <1>2
<1>6. ledger'[nth] = Updated(nth) /\ \A f \in Files : f # nth => ledger'[f] = ledger[f]
    BY <1>1, <1>2
<1> QED
    BY <1>1, <1>2, <1>3, <1>4, <1>5, <1>6 DEF Updated, Filled

LEMMA WrittenStep ==
    ASSUME IInv, [Next]_vars
    PROVE  Written'
<1> USE Facts
<1>0. /\ Written /\ Position /\ Accounted /\ TypeOK /\ nth \in Files /\ pc \in PC
      /\ replaced \subseteq Files
    BY DEF IInv, TypeOK
<1>1. CASE ReplaceLedger
    <2>1. /\ pc = "replace" /\ pc' \in {"replace", "fsync", "caught"}
          /\ UNCHANGED <<held, disk>>
        BY <1>1 DEF ReplaceLedger, NextFile
    <2>2. \A f \in replaced' : \A u \in Uses[f] : ledger'[f][u] = held[u]
        <3>1. CASE ledger' = ledger /\ replaced' = replaced
            BY <1>0, <2>1, <3>1 DEF Written
        <3>2. CASE ledger' # ledger \/ replaced' # replaced
            BY <1>0, <1>1, <2>1, <3>2, ReplaceStep DEF Written
        <3> QED
            BY <3>1, <3>2
    <2> QED
        BY <2>1, <2>2 DEF Written
<1>2. CASE Recheck
    <2>1. pc = "recheck" /\ pc' \in {"recheck", "replace", "caught"} /\ replaced' = replaced
        BY <1>2 DEF Recheck, NextFile
    <2> QED
        BY <1>0, <2>1 DEF Written, Position
<1>3. CASE FsyncDirectory
    <2>1. /\ pc = "fsync" /\ UNCHANGED <<held, ledger, replaced>>
          /\ ((pc' = "stat" /\ disk' = ledger) \/ pc' = "caught")
        BY <1>3 DEF FsyncDirectory, Synced
    <2> QED
        BY <1>0, <2>1 DEF Written, Position
<1>4. CASE pc' \notin {"replace", "fsync", "stat"}
    BY <1>4 DEF Written
<1>5. CASE PersonEdits
    <2>1. UNCHANGED <<pc, held, disk, replaced>>
        BY <1>5 DEF PersonEdits, local
    <2>2. ASSUME pc \in {"replace", "fsync", "stat"}, NEW f \in replaced, NEW u \in Uses[f]
          PROVE  ledger'[f][u] = held[u]
        <3>1. ledger[f][u] = held[u] /\ held[u] \in Key /\ f \in Files /\ u \in Slot
            BY <1>0, <2>2 DEF Written, Accounted, Known
        <3> QED
            BY <1>0, <1>5, <3>1, EditStep
    <2> QED
        BY <1>0, <2>1, <2>2 DEF Written
<1>6. CASE Writeback
    <2>1. UNCHANGED <<pc, held, ledger, replaced>>
        BY <1>6 DEF Writeback, local
    <2>2. \A f \in Files : disk'[f] = disk[f] \/ disk'[f] = ledger[f]
        BY <1>0, <1>6 DEF Writeback, TypeOK
    <2> QED
        BY <1>0, <2>1, <2>2 DEF Written, Position
<1>7. CASE UNCHANGED <<pc, held, ledger, disk, replaced>>
    BY <1>0, <1>7 DEF Written
<1>8. CASE PowerLoss \/ Interrupt \/ Kill \/ Rerun \/ UNCHANGED vars
    <2>1. \/ pc' \notin {"replace", "fsync", "stat"}
          \/ UNCHANGED <<pc, held, ledger, disk, replaced>>
        BY <1>8 DEF PowerLoss, Interrupt, Kill, Rerun, Exit, vars, files, local
    <2> QED
        BY <2>1, <1>4, <1>7
<1>9. CASE Step /\ ~ReplaceLedger /\ ~Recheck /\ ~FsyncDirectory
    <2>1. pc' \notin {"replace", "fsync", "stat"}
        <3>1. CASE ReadLedger \/ Preflight \/ CreateGranted \/ CreateLost \/ CreateRefused \/ Validate
            BY <3>1 DEF ReadLedger, Preflight, CreateGranted, CreateLost, CreateRefused,
                Validate, NextFile, Exit
        <3>2. CASE Stage \/ KeepStaged \/ FinalStat \/ Handle \/ Restore \/ RestoreNext
            BY <3>2 DEF Stage, KeepStaged, FinalStat, Handle, Restore, RestoreNext
        <3>3. CASE \/ RollbackList \/ RollbackDelete \/ RollbackRaise \/ RollbackNext
                   \/ ReportRollback \/ Cleanup
            BY <3>3 DEF RollbackList, RollbackDelete, RollbackRaise, RollbackNext,
                ReportRollback, Cleanup, Exit
        <3> QED
            BY <1>9, <3>1, <3>2, <3>3 DEF Step
    <2> QED
        BY <2>1, <1>4
<1> QED
    BY <1>1, <1>2, <1>3, <1>5, <1>6, <1>8, <1>9 DEF Next

LEMMA DiskStep ==
    ASSUME IInv, [Next]_vars
    PROVE  DiskAgrees'
<1> USE Facts
<1>0. /\ DiskAgrees /\ Position /\ RecordedKeysLive /\ UnrecordedYet /\ TypeOK
      /\ nth \in Files /\ ledger \in [Files -> Worksheet] /\ disk \in [Files -> Worksheet]
      /\ iam \in [Account -> SUBSET Key]
    BY DEF IInv, TypeOK, KeyStoreTypeOK
<1>1. CASE UNCHANGED <<ledger, disk, unrestored>>
    BY <1>0, <1>1 DEF DiskAgrees, DiskNone
<1>2. CASE ReplaceLedger
    <2>1. pc = "replace" /\ UNCHANGED <<disk, unrestored>>
        BY <1>2 DEF ReplaceLedger, history
    <2>2. CASE ledger' # ledger
        <3>1. nth \notin replaced /\ \A f \in Files : f # nth => ledger'[f] = ledger[f]
            BY <1>2, <2>2, ReplaceStep
        <3>2. nth \notin unrestored => DiskNone(nth)
            BY <1>0, <2>1, <3>1 DEF UnrecordedYet, HoldsNone, DiskAgrees, DiskNone, InTry
        <3> QED
            BY <1>0, <2>1, <3>1, <3>2 DEF DiskAgrees, DiskNone
    <2> QED
        BY <1>1, <2>1, <2>2
<1>3. CASE FsyncDirectory
    <2>1. UNCHANGED <<ledger, unrestored>> /\ (disk' = disk \/ disk' = ledger)
        BY <1>3 DEF FsyncDirectory, Synced, history
    <2> QED
        BY <1>0, <2>1 DEF DiskAgrees, DiskNone
<1>4. CASE Restore
    <2>1. \/ disk' = ledger'
          \/ /\ ledger' \in {ledger, [ledger EXCEPT ![nth] = originals[nth]]}
             /\ unrestored' = unrestored \cup {nth} /\ disk' = disk
        BY <1>4 DEF Restore
    <2>2. CASE disk' = ledger'
        BY <2>2 DEF DiskAgrees
    <2>3. CASE /\ ledger' \in {ledger, [ledger EXCEPT ![nth] = originals[nth]]}
               /\ unrestored' = unrestored \cup {nth} /\ disk' = disk
        <3>1. \A f \in Files \ unrestored' : ledger'[f] = ledger[f]
            BY <1>0, <2>3
        <3> QED
            BY <1>0, <2>3, <3>1 DEF DiskAgrees, DiskNone
    <2> QED
        BY <2>1, <2>2, <2>3
<1>5. CASE PersonEdits
    <2>1. UNCHANGED <<disk, unrestored>>
        BY <1>5 DEF PersonEdits
    <2>2. ASSUME NEW f \in Files \ unrestored
          PROVE  DiskNone(f) \/ \A u \in Uses[f] : disk[f][u] = ledger'[f][u]
        <3>1. CASE DiskNone(f)
            BY <3>1
        <3>2. CASE ~DiskNone(f)
            <4>1. \A u \in Uses[f] : disk[f][u] = ledger[f][u]
                BY <1>0, <3>2 DEF DiskAgrees
            <4>2. \A u \in Uses[f] : ledger[f][u] \in Key
                <5>1. Holds(f)
                    BY <1>0, <3>2, <4>1 DEF RecordedKeysLive, HoldsNone, DiskNone
                <5> QED
                    BY <1>0, <5>1 DEF Holds
            <4> QED
                BY <1>0, <1>5, <4>1, <4>2, EditStep
        <3> QED
            BY <3>1, <3>2
    <2> QED
        BY <2>1, <2>2 DEF DiskAgrees, DiskNone
<1>6. CASE Writeback
    <2>1. UNCHANGED <<ledger, unrestored>>
        BY <1>6 DEF Writeback, history
    <2>2. \A f \in Files : disk'[f] = disk[f] \/ disk'[f] = ledger[f]
        BY <1>0, <1>6 DEF Writeback
    <2> QED
        BY <1>0, <2>1, <2>2 DEF DiskAgrees, DiskNone
<1>7. CASE PowerLoss
    BY <1>7 DEF PowerLoss, DiskAgrees
<1>8. CASE CreateGranted \/ CreateLost \/ RollbackDelete \/ RollbackRaise
    BY <1>1, <1>8 DEF CreateGranted, CreateLost, RollbackDelete, RollbackRaise, files, history
<1> QED
    BY <1>1, <1>2, <1>3, <1>4, <1>5, <1>6, <1>7, <1>8, Steps, QuietStep

LEMMA CopyStep ==
    ASSUME IInv, [Next]_vars
    PROVE  CopyAgrees'
<1> USE Facts
<1> DEFINE Kept(f) == \A s \in Slot \ Uses[f] : ledger[f][s] = originals[f][s]
<1>0. /\ CopyAgrees /\ Position /\ TypeOK /\ nth \in Files /\ replaced \subseteq Files
      /\ pc \in PC /\ ledger \in [Files -> Worksheet] /\ DOMAIN originals = Files
    BY DEF IInv, TypeOK
<1>1. CASE Recheck
    <2>1. /\ pc = "recheck" /\ UNCHANGED <<ledger, originals, replaced, late>>
          /\ \/ Unmodified(nth) /\ nth < LastFile /\ nth' = nth + 1 /\ pc' = "recheck"
             \/ Unmodified(nth) /\ ~(nth < LastFile) /\ pc' = "replace"
             \/ pc' = "caught"
        BY <1>1 DEF Recheck, NextFile, files, history
    <2>2. \A f \in Files \ late : f < nth => Kept(f)
        BY <1>0, <2>1 DEF CopyAgrees
    <2>3. Unmodified(nth) => Kept(nth)
        BY DEF Unmodified
    <2>4. CASE Unmodified(nth) /\ nth < LastFile /\ nth' = nth + 1 /\ pc' = "recheck"
        <3>1. \A f \in Files : f < nth' => f < nth \/ f = nth
            BY <1>0, <2>4
        <3> QED
            BY <2>1, <2>2, <2>3, <2>4, <3>1 DEF CopyAgrees
    <2>5. CASE Unmodified(nth) /\ ~(nth < LastFile) /\ pc' = "replace"
        <3>1. \A f \in Files : f < nth \/ f = nth
            BY <1>0, <2>5
        <3> QED
            BY <2>1, <2>2, <2>3, <2>5, <3>1 DEF CopyAgrees
    <2>6. CASE pc' = "caught"
        BY <1>0, <2>1, <2>6 DEF CopyAgrees, Position
    <2> QED
        BY <2>1, <2>4, <2>5, <2>6
<1>2. CASE ReplaceLedger
    <2>1. /\ pc = "replace" /\ pc' \in {"replace", "fsync", "caught"}
          /\ UNCHANGED <<originals, late>>
        BY <1>2 DEF ReplaceLedger, NextFile, history
    <2>2. \A f \in Files \ late : Kept(f)
        BY <1>0, <2>1 DEF CopyAgrees
    <2>3. \A f \in Files \ late : Kept(f)'
        <3>1. CASE ledger' = ledger
            BY <2>1, <2>2, <3>1
        <3>2. CASE ledger' # ledger
            BY <1>2, <2>1, <2>2, <3>2, ReplaceStep
        <3> QED
            BY <3>1, <3>2
    <2> QED
        BY <2>1, <2>3 DEF CopyAgrees
<1>3. CASE FsyncDirectory \/ FinalStat \/ Handle
    <2>1. /\ pc \in {"fsync", "stat", "caught"} /\ pc' \in {"stat", "cleanup", "caught", "restore"}
          /\ pc' = "stat" => pc = "fsync"
          /\ pc' = "restore" => pc = "caught"
          /\ UNCHANGED <<ledger, originals, replaced, late>>
        BY <1>3 DEF FsyncDirectory, FinalStat, Handle, files, history
    <2> QED
        BY <1>0, <2>1 DEF CopyAgrees
<1>4. CASE Restore
    <2>1. /\ pc = "restore" /\ pc' = "restore" /\ replaced' = replaced \ {nth}
          /\ UNCHANGED <<originals, late>>
          /\ ledger' \in {ledger, [ledger EXCEPT ![nth] = originals[nth]]}
        BY <1>4 DEF Restore
    <2>2. \A f \in Files \ late : f \in replaced => Kept(f)
        BY <1>0, <2>1 DEF CopyAgrees
    <2>3. \A f \in Files : f # nth => ledger'[f] = ledger[f]
        BY <1>0, <2>1
    <2> QED
        BY <2>1, <2>2, <2>3 DEF CopyAgrees
<1>5. CASE RestoreNext
    <2>1. pc = "restore" /\ pc' \in {"restore", "list"} /\ UNCHANGED <<ledger, originals, replaced, late>>
        BY <1>5 DEF RestoreNext, files, history
    <2> QED
        BY <1>0, <2>1 DEF CopyAgrees
<1>6. CASE PersonEdits
    <2>1. UNCHANGED <<pc, nth, originals, replaced>>
        BY <1>6 DEF PersonEdits, local
    <2>2. PICK g \in Files, r \in Slot, v \in Text \cup {Empty} :
              /\ ledger' = [ledger EXCEPT ![g][r] = v]
              /\ late' = IF Unwatched(g) THEN late \cup {g} ELSE late
        BY <1>6 DEF PersonEdits
    <2>3. \A f \in Files : f # g => ledger'[f] = ledger[f]
        BY <1>0, <2>2
    <2>4. CASE Unwatched(g)
        BY <1>0, <2>1, <2>2, <2>3, <2>4 DEF CopyAgrees
    <2>5. CASE ~Unwatched(g)
        BY <1>0, <2>1, <2>2, <2>3, <2>5 DEF CopyAgrees, Unwatched
    <2> QED
        BY <2>4, <2>5
<1>7. CASE Interrupt
    <2>1. /\ UNCHANGED <<ledger, originals, replaced, late>>
          /\ \/ pc' \in {"exited", "cleanup"}
             \/ pc \in InTry /\ pc' = "caught"
        BY <1>7 DEF Interrupt, Exit, files
    <2>2. CASE pc' \in {"exited", "cleanup"}
        BY <2>2 DEF CopyAgrees
    <2>3. CASE pc \in InTry /\ pc' = "caught"
        BY <1>0, <2>1, <2>3 DEF CopyAgrees, InTry, Position
    <2> QED
        BY <2>1, <2>2, <2>3
<1>8. CASE Writeback \/ UNCHANGED vars
    <2>1. UNCHANGED <<pc, nth, ledger, originals, replaced, late>>
        BY <1>8 DEF Writeback, local, history, vars, files
    <2> QED
        BY <1>0, <2>1 DEF CopyAgrees
<1>9. CASE KeepStaged
    <2>1. pc' = "stage" \/ (pc' = "recheck" /\ nth' = 1)
        BY <1>9 DEF KeepStaged
    <2>2. \A f \in Files : ~(f < 1)
        OBVIOUS
    <2> QED
        BY <2>1, <2>2 DEF CopyAgrees
<1>10. CASE CreateGranted \/ CreateLost \/ CreateRefused \/ Validate \/ Stage
    <2>1. /\ pc \in {"create", "validate", "stage"} /\ replaced' = replaced
          /\ pc' \in {"create", "validate", "stage", "keep", "caught"}
        BY <1>10 DEF CreateGranted, CreateLost, CreateRefused, Validate, Stage
    <2> QED
        BY <1>0, <2>1 DEF CopyAgrees, Position
<1>11. CASE ReadLedger \/ Preflight \/ Cleanup \/ Kill \/ Rerun \/ PowerLoss
    <2>1. pc' \in {"read", "preflight", "create", "exited"}
        BY <1>11 DEF ReadLedger, Preflight, Cleanup, Kill, Rerun, PowerLoss, NextFile, Exit
    <2> QED
        BY <2>1 DEF CopyAgrees
<1>12. CASE RollbackList \/ RollbackDelete \/ RollbackRaise \/ RollbackNext \/ ReportRollback
    <2>1. pc' \in {"list", "sweep", "report", "cleanup"}
        BY <1>12 DEF RollbackList, RollbackDelete, RollbackRaise, RollbackNext, ReportRollback
    <2> QED
        BY <2>1 DEF CopyAgrees
<1> QED
    BY <1>1, <1>2, <1>3, <1>4, <1>5, <1>6, <1>7, <1>8, <1>9, <1>10, <1>11, <1>12 DEF Next, Step

LEMMA TempsStep ==
    ASSUME IInv, [Next]_vars
    PROVE  TempsKnown' /\ NoTempsLeft'
<1> USE Facts
<1>0. TempsKnown /\ NoTempsLeft /\ Position /\ nth \in Files /\ pc \in PC
    BY DEF IInv, TypeOK
<1>1. CASE ReadLedger \/ Preflight
    <2>1. /\ pc \in {"read", "preflight"} /\ pc' \in {"read", "preflight", "create", "exited"}
          /\ UNCHANGED <<temps, staged, mislaid>>
        BY <1>1 DEF ReadLedger, Preflight, NextFile, Exit, files, history
    <2>2. temps \subseteq mislaid
        BY <1>0, <2>1 DEF TempsKnown, Position
    <2> QED
        BY <2>1, <2>2 DEF TempsKnown, NoTempsLeft
<1>2. CASE CreateGranted \/ CreateLost \/ CreateRefused \/ Validate
    <2>1. /\ pc \in {"create", "validate"} /\ pc' # "exited"
          /\ UNCHANGED <<temps, staged, mislaid>>
        BY <1>2 DEF CreateGranted, CreateLost, CreateRefused, Validate, files, history
    <2>2. temps \subseteq staged \cup mislaid
        BY <1>0, <2>1 DEF TempsKnown
    <2> QED
        BY <2>1, <2>2 DEF TempsKnown, NoTempsLeft
<1>3. CASE Stage
    BY <1>0, <1>3 DEF Stage, history, TempsKnown, NoTempsLeft
<1>4. CASE KeepStaged
    <2>1. /\ pc = "keep" /\ pc' \in {"stage", "recheck"} /\ staged' = staged \cup {nth}
          /\ UNCHANGED <<temps, mislaid>>
        BY <1>4 DEF KeepStaged, StagedWith, files, history
    <2>2. temps \subseteq staged' \cup mislaid
        BY <1>0, <2>1 DEF TempsKnown
    <2> QED
        BY <2>1, <2>2 DEF TempsKnown, NoTempsLeft
<1>5. CASE ReplaceLedger
    <2>1. /\ pc = "replace" /\ pc' \in {"replace", "fsync", "caught"} /\ mislaid' = mislaid
          /\ \/ temps' = temps \ {nth} /\ staged' = staged \ {nth}
             \/ temps' = temps /\ staged' = staged
        BY <1>5 DEF ReplaceLedger, NextFile, history
    <2>2. temps' \subseteq staged' \cup mislaid
        BY <1>0, <2>1 DEF TempsKnown
    <2> QED
        BY <2>1, <2>2 DEF TempsKnown, NoTempsLeft
<1>6. CASE Recheck \/ FsyncDirectory \/ FinalStat \/ Handle \/ Restore \/ RestoreNext
    <2>1. /\ pc \in {"recheck", "fsync", "stat", "caught", "restore"} /\ pc' # "exited"
          /\ UNCHANGED <<temps, staged, mislaid>>
        BY <1>6 DEF Recheck, FsyncDirectory, FinalStat, Handle, Restore, RestoreNext, NextFile,
            files, history
    <2>2. temps \subseteq staged \cup mislaid
        BY <1>0, <2>1 DEF TempsKnown
    <2> QED
        BY <2>1, <2>2 DEF TempsKnown, NoTempsLeft
<1>7. CASE RollbackList \/ RollbackDelete \/ RollbackRaise \/ RollbackNext \/ ReportRollback
    <2>1. /\ pc \in {"list", "sweep", "report"} /\ pc' # "exited"
          /\ UNCHANGED <<temps, staged, mislaid>>
        BY <1>7 DEF RollbackList, RollbackDelete, RollbackRaise, RollbackNext, ReportRollback,
            files, history
    <2>2. temps \subseteq staged \cup mislaid
        BY <1>0, <2>1 DEF TempsKnown
    <2> QED
        BY <2>1, <2>2 DEF TempsKnown, NoTempsLeft
<1>8. CASE Cleanup
    <2>1. PICK first : LET kept == {f \in staged : f >= first}
                       IN  temps' = temps \ (staged \ kept) /\ mislaid' = mislaid \cup kept
        BY <1>8 DEF Cleanup
    <2>2. pc = "cleanup" /\ pc' = "exited"
        BY <1>8 DEF Cleanup, Exit
    <2>3. temps \subseteq staged \cup mislaid
        BY <1>0, <2>2 DEF TempsKnown
    <2>4. temps' \subseteq mislaid'
        BY <2>1, <2>3
    <2> QED
        BY <2>2, <2>4 DEF TempsKnown, NoTempsLeft
<1>9. CASE Interrupt
    <2>1. /\ UNCHANGED <<temps, staged>>
          /\ mislaid' = IF pc = "keep" THEN mislaid \cup {nth} ELSE mislaid
        BY <1>9 DEF Interrupt, files
    <2>2. CASE pc \in {"read", "preflight"}
        BY <1>0, <2>1, <2>2, <1>9 DEF Interrupt, Exit, TempsKnown, NoTempsLeft, Position, InTry
    <2>3. CASE pc = "cleanup"
        <3>1. pc' = "exited" /\ escaped' = TRUE
            BY <1>9, <2>3 DEF Interrupt, Exit, InTry
        <3> QED
            BY <3>1 DEF TempsKnown, NoTempsLeft
    <2>4. CASE pc' \in {"caught", "cleanup"}
        <3>1. pc # "exited"
            BY <1>9 DEF Interrupt, InTry
        <3> QED
            BY <1>0, <2>1, <2>4, <3>1 DEF TempsKnown, NoTempsLeft
    <2> QED
        BY <1>9, <2>2, <2>3, <2>4 DEF Interrupt
<1>10. CASE Kill
    BY <1>10 DEF Kill, Exit, TempsKnown, NoTempsLeft
<1>11. CASE Rerun
    BY <1>11 DEF Rerun, files, TempsKnown, NoTempsLeft
<1>12. CASE PowerLoss
    BY <1>0, <1>12 DEF PowerLoss, Exit, history, TempsKnown, NoTempsLeft
<1>13. CASE PersonEdits \/ Writeback \/ UNCHANGED vars
    <2>1. UNCHANGED <<temps, staged, mislaid, pc, nth, report, escaped>>
        BY <1>13 DEF PersonEdits, Writeback, vars, files, local, history
    <2> QED
        BY <1>0, <2>1 DEF TempsKnown, NoTempsLeft
<1> QED
    BY <1>1, <1>2, <1>3, <1>4, <1>5, <1>6, <1>7, <1>8, <1>9, <1>10, <1>11, <1>12, <1>13
    DEF Next, Step

LEMMA LiveStep ==
    ASSUME IInv, [Next]_vars
    PROVE  RecordedKeysLive'
<1> USE Facts
<1>0. /\ RecordedKeysLive /\ UnrecordedYet /\ BlankOriginals /\ DiskAgrees /\ Position
      /\ TypeOK /\ nth \in Files /\ ledger \in [Files -> Worksheet]
      /\ iam \in [Account -> SUBSET Key]
    BY DEF IInv, TypeOK, KeyStoreTypeOK
<1>1. CASE UNCHANGED <<ledger, iam, unrestored>>
    BY <1>0, <1>1 DEF RecordedKeysLive, Holds, HoldsNone
<1>2. CASE CreateGranted \/ CreateLost
    <2>1. UNCHANGED <<ledger, unrestored>> /\ \A u \in Users : iam[u] \subseteq iam'[u]
        BY <1>0, <1>2 DEF CreateGranted, CreateLost, CreateAccessKey, files, history
    <2> QED
        BY <1>0, <2>1 DEF RecordedKeysLive, Holds, HoldsNone
<1>3. CASE ReplaceLedger
    <2>1. UNCHANGED <<iam, unrestored>>
        BY <1>3 DEF ReplaceLedger, history
    <2>2. CASE ledger' # ledger
        <3>1. /\ \A f \in Files : f = nth => Holds(f)'
              /\ \A f \in Files : f # nth => ledger'[f] = ledger[f]
            BY <1>3, <2>1, <2>2, ReplaceStep DEF Holds, Known
        <3> QED
            BY <1>0, <2>1, <3>1 DEF RecordedKeysLive, Holds, HoldsNone
    <2> QED
        BY <1>1, <2>1, <2>2
<1>4. CASE Restore
    <2>0. pc = "restore" /\ UNCHANGED iam
        BY <1>4 DEF Restore
    <2>1. \/ ledger' = [ledger EXCEPT ![nth] = originals[nth]] /\ unrestored' = unrestored
          \/ /\ ledger' \in {ledger, [ledger EXCEPT ![nth] = originals[nth]]}
             /\ unrestored' = unrestored \cup {nth}
        BY <1>4 DEF Restore
    <2>2. /\ \A f \in Files : f # nth => ledger'[f] = ledger[f]
          /\ unrestored' # unrestored \cup {nth} => ledger'[nth] = originals[nth]
          /\ unrestored \subseteq unrestored'
        BY <1>0, <2>1
    <2>3. Blank(originals[nth], Uses[nth])
        BY <1>0, <2>0 DEF BlankOriginals, InHandler
    <2>4. \A f \in Files : f = nth /\ f \notin unrestored' => HoldsNone(f)'
        BY <2>1, <2>2, <2>3 DEF HoldsNone, Blank
    <2> QED
        BY <1>0, <2>0, <2>2, <2>4 DEF RecordedKeysLive, Holds, HoldsNone
<1>5. CASE RollbackDelete \/ RollbackRaise
    <2>1. pc = "sweep" /\ UNCHANGED <<ledger, unrestored>>
        BY <1>5 DEF RollbackDelete, RollbackRaise, files, history
    <2>2. \A f \in Files \ unrestored : HoldsNone(f)
        BY <1>0, <2>1 DEF UnrecordedYet, Position, InHandler
    <2> QED
        BY <2>1, <2>2 DEF RecordedKeysLive, HoldsNone
<1>6. CASE PersonEdits
    <2>1. UNCHANGED <<iam, unrestored>>
        BY <1>6 DEF PersonEdits
    <2>2. ASSUME NEW f \in Files, Holds(f)
          PROVE  Holds(f)'
        <3>1. \A u \in Uses[f] : ledger[f][u] \in Key /\ u \in Slot
            BY <1>0, <2>2 DEF Holds
        <3> QED
            BY <1>0, <1>6, <2>1, <2>2, <3>1, EditStep DEF Holds
    <2> QED
        BY <1>0, <1>6, <2>1, <2>2, EditNone DEF RecordedKeysLive
<1>7. CASE PowerLoss
    <2>1. ledger' = disk /\ UNCHANGED <<iam, unrestored>>
        BY <1>7 DEF PowerLoss, history
    <2> QED
        BY <1>0, <2>1 DEF RecordedKeysLive, DiskAgrees, DiskNone, Holds, HoldsNone
<1> QED
    BY <1>1, <1>2, <1>3, <1>4, <1>5, <1>6, <1>7, Steps, QuietStep
    DEF FsyncDirectory, Writeback, history

\* How a run ends: everywhere, or nowhere.
Everywhere ==
    \A f \in Files : \A u \in Uses[f] :
        held[u] \in iam[u] /\ disk[f][u] = held[u] /\ ledger[f][u] = held[u]

Nowhere ==
    /\ \A f \in Files \ unrestored : HoldsNone(f)
    /\ \A u \in Users : iam[u] = {}

LEMMA EndingAs ==
    Ending <=> (pc \in {"cleanup", "exited"} =>
                    /\ report = "ok" => Everywhere
                    /\ report = "failed" /\ ~escaped => Nowhere)
BY DEF Ending, Everywhere, Nowhere

LEMMA EndingStep ==
    ASSUME IInv, [Next]_vars
    PROVE  Ending'
<1> USE Facts
<1>0. /\ Ending /\ Written /\ UnrecordedYet /\ DiskAgrees /\ Position /\ Accounted /\ TypeOK
      /\ pc \in PC /\ iam \in [Account -> SUBSET Key] /\ replaced \subseteq Files
      /\ ledger \in [Files -> Worksheet] /\ disk \in [Files -> Worksheet]
    BY DEF IInv, TypeOK, KeyStoreTypeOK
<1>1. ASSUME UNCHANGED <<pc, report, escaped, held, ledger, disk, iam, unrestored>>
      PROVE  Ending'
    BY <1>0, <1>1 DEF Ending, HoldsNone
<1>2. ASSUME pc' \notin {"cleanup", "exited"}
      PROVE  Ending'
    BY <1>2 DEF Ending
<1>3. ASSUME report' \notin {"ok", "failed"} \/ (report' = "failed" /\ escaped' = TRUE)
      PROVE  Ending'
    BY <1>3 DEF Ending
<1>4. CASE FinalStat
    <2>1. CASE pc' = "caught"
        BY <1>2, <2>1
    <2>2. CASE pc' # "caught"
        <3>1. /\ pc = "stat" /\ report' = "ok" /\ UNCHANGED <<held, ledger, disk, iam>>
            BY <1>4, <2>2 DEF FinalStat, files
        <3>2. /\ \A f \in Files : \A u \in Uses[f] : disk[f][u] = held[u] /\ ledger[f][u] = held[u]
              /\ \A u \in Users : held[u] \in iam[u]
            BY <1>0, <3>1 DEF Written, Position, Accounted, Known
        <3> QED
            BY <3>1, <3>2 DEF Ending
    <2> QED
        BY <2>1, <2>2
<1>5. CASE ReportRollback
    <2>1. /\ pc = "report" /\ UNCHANGED <<ledger, iam, unrestored, incomplete>>
          /\ report' = IF incomplete THEN "incomplete" ELSE "failed"
        BY <1>5 DEF ReportRollback, files, history
    <2>2. \A f \in Files \ unrestored : HoldsNone(f)
        BY <1>0, <2>1 DEF UnrecordedYet, Position, InHandler
    <2>3. ~incomplete => \A u \in Users : iam[u] = {}
        BY <1>0, <2>1 DEF Accounted
    <2> QED
        BY <2>1, <2>2, <2>3 DEF Ending, HoldsNone
<1>6. CASE ReadLedger \/ Preflight
    <2>1. pc' \notin {"cleanup", "exited"} \/ report' = "refused"
        BY <1>6 DEF ReadLedger, Preflight, NextFile, Exit
    <2> QED
        BY <1>2, <1>3, <2>1
<1>7. CASE Cleanup
    <2>1. /\ pc = "cleanup" /\ report' = report
          /\ UNCHANGED <<escaped, held, ledger, disk, iam, unrestored>>
        BY <1>7 DEF Cleanup, Exit, history
    <2> QED
        BY <1>0, <2>1 DEF Ending, HoldsNone
<1>8. CASE Interrupt
    <2>1. \/ pc' \notin {"cleanup", "exited"}
          \/ report' = "refused"
          \/ report' = "failed" /\ escaped' = TRUE
        BY <1>8 DEF Interrupt, Exit
    <2> QED
        BY <1>2, <1>3, <2>1
<1>9. CASE Kill
    BY <1>3, <1>9 DEF Kill, Exit
<1>10. CASE PersonEdits
    <2>1. UNCHANGED <<pc, report, escaped, held, disk, iam, unrestored>>
        BY <1>10 DEF PersonEdits, local
    <2>2. ASSUME Everywhere
          PROVE  Everywhere'
        <3>1. \A f \in Files : \A u \in Uses[f] : ledger[f][u] \in Key /\ u \in Slot
            BY <1>0, <2>2 DEF Everywhere
        <3> QED
            BY <1>0, <1>10, <2>1, <2>2, <3>1, EditStep DEF Everywhere
    <2>3. ASSUME Nowhere
          PROVE  Nowhere'
        BY <1>0, <1>10, <2>1, <2>3, EditNone DEF Nowhere
    <2> QED
        BY <1>0, <2>1, <2>2, <2>3, EndingAs DEF Ending, Everywhere, Nowhere
<1>11. CASE Writeback
    <2>1. UNCHANGED <<pc, report, escaped, held, ledger, iam, unrestored>>
        BY <1>11 DEF Writeback, local, history
    <2>2. \A f \in Files : disk'[f] = disk[f] \/ disk'[f] = ledger[f]
        BY <1>0, <1>11 DEF Writeback
    <2> QED
        BY <1>0, <2>1, <2>2 DEF Ending, HoldsNone
<1>12. CASE PowerLoss
    <2>1. ledger' = disk /\ UNCHANGED <<disk, iam, held, unrestored, escaped>>
        BY <1>12 DEF PowerLoss, history
    <2>2. CASE pc # "exited"
        BY <1>3, <1>12, <2>2 DEF PowerLoss, Exit
    <2>3. CASE pc = "exited"
        <3>1. UNCHANGED <<pc, report>>
            BY <1>12, <2>3 DEF PowerLoss
        <3> QED
            BY <1>0, <2>1, <2>3, <3>1 DEF Ending, DiskAgrees, DiskNone, HoldsNone
    <2> QED
        BY <2>2, <2>3
<1>13. CASE UNCHANGED vars
    BY <1>1, <1>13 DEF vars, files, local, history
<1>14. CASE CreateGranted \/ CreateLost \/ CreateRefused \/ Validate \/ Stage \/ KeepStaged
    BY <1>2, <1>14 DEF CreateGranted, CreateLost, CreateRefused, Validate, Stage, KeepStaged
<1>15. CASE Recheck \/ ReplaceLedger \/ FsyncDirectory \/ Handle \/ Restore \/ RestoreNext
    BY <1>2, <1>15
    DEF Recheck, ReplaceLedger, FsyncDirectory, Handle, Restore, RestoreNext, NextFile
<1>16. CASE RollbackList \/ RollbackDelete \/ RollbackRaise \/ RollbackNext \/ Rerun
    BY <1>2, <1>16 DEF RollbackList, RollbackDelete, RollbackRaise, RollbackNext, Rerun
<1> QED
    BY <1>4, <1>5, <1>6, <1>7, <1>8, <1>9, <1>10, <1>11, <1>12, <1>13, <1>14, <1>15, <1>16
    DEF Next, Step

-----------------------------------------------------------------------------
LEMMA InitInv == Init => IInv
<1> SUFFICES ASSUME Init PROVE IInv
    OBVIOUS
<1> USE Facts
<1>1. PICK m \in SUBSET Key :
          /\ minted = m /\ \A a, b \in m : a = b
          /\ iam \in [Account -> {{}, m}]
    BY DEF Init
<1>2. iam \in [Account -> SUBSET Key] /\ \A u \in Account : iam[u] \subseteq minted
    BY <1>1
<1>3. /\ ledger \in [Files -> Worksheet] /\ disk = ledger /\ originals = ledger /\ temps = {}
      /\ pc = "read" /\ at = FirstUser /\ nth = 1 /\ staged = {} /\ replaced = {}
      /\ \A f \in Files, s \in Slot : ledger[f][s] \notin Key
    BY DEF Init, Begin, Worksheet, Value
<1>4. held \in [Users -> Key \cup {NoKey}]
    BY DEF Init, Begin, NoKeys
<1>12. KeyStoreTypeOK
    BY <1>1, <1>2 DEF KeyStoreTypeOK
<1>13. /\ committed \in BOOLEAN /\ incomplete \in BOOLEAN /\ escaped \in BOOLEAN
      /\ report \in Report /\ todo \in SUBSET Key
      /\ late \in SUBSET Files /\ unrestored \in SUBSET Files /\ mislaid \in SUBSET Files
    BY DEF Init, Begin, Report
<1>14. signals \in 0..MaxSignals /\ edits \in 0..MaxEdits /\ runs \in Nat
    BY NonprodAssumption DEF Init
<1>5. TypeOK
    BY <1>3, <1>4, <1>12, <1>13, <1>14 DEF TypeOK, PC
<1>6. Position /\ Accounted /\ Written /\ CopyAgrees
    BY <1>3 DEF Position, Accounted, Written, CopyAgrees
<1>7. ~ \E f \in Files : f < nth
    BY <1>3
<1>8. BlankOriginals /\ UnrecordedYet
    BY <1>3, <1>7 DEF BlankOriginals, UnrecordedYet, InTry, InHandler
<1>9. DiskAgrees /\ RecordedKeysLive
    BY <1>3 DEF DiskAgrees, RecordedKeysLive, HoldsNone
<1>10. OneKeyPerUser
    BY <1>1 DEF OneKeyPerUser, QuotaReached
<1>11. TempsKnown /\ Ending /\ NoTempsLeft
    BY <1>3 DEF TempsKnown, Ending, NoTempsLeft
<1> QED
    BY <1>5, <1>6, <1>8, <1>9, <1>10, <1>11 DEF IInv

LEMMA StepKeeps ==
    Step => ReplaceLedger \/ Restore \/ UNCHANGED ledger
<1>1. Step => \/ Quiet \/ CreateGranted \/ CreateLost \/ ReplaceLedger \/ FsyncDirectory
              \/ Restore \/ RollbackDelete \/ RollbackRaise
    BY DEF Quiet, Step
<1> QED
    BY <1>1, QuietStep
    DEF CreateGranted, CreateLost, FsyncDirectory, RollbackDelete, RollbackRaise, files

(***************************************************************************)
(* The inductive invariant: in every reachable state what main() remembers *)
(* of the worksheets and the keys agrees with them, as the conjuncts say.  *)
(***************************************************************************)
THEOREM Invariance == Spec => []IInv
<1>1. IInv /\ [Next]_vars => IInv'
    <2> SUFFICES ASSUME IInv, [Next]_vars PROVE IInv'
        OBVIOUS
    <2>1. TypeOK' /\ Position' /\ Accounted' /\ BlankOriginals' /\ UnrecordedYet' /\ Written'
        BY TypeStep, PositionStep, AccountedStep, BlankStep, UnrecordedStep, WrittenStep
    <2>2. DiskAgrees' /\ CopyAgrees' /\ TempsKnown' /\ Ending'
        BY DiskStep, CopyStep, TempsStep, EndingStep
    <2>3. RecordedKeysLive' /\ OneKeyPerUser' /\ NoTempsLeft'
        BY LiveStep, OneKeyStep, TempsStep
    <2> QED
        BY <2>1, <2>2, <2>3 DEF IInv
<1> QED
    BY InitInv, <1>1, PTL DEF Spec

(***************************************************************************)
(* Every variable keeps to its type, main()'s loop counters included.      *)
(***************************************************************************)
THEOREM TypeCorrect == Spec => []TypeOK
<1>1. IInv => TypeOK
    BY DEF IInv
<1> QED
    BY Invariance, <1>1, PTL

(***************************************************************************)
(* A run that ends by itself and does not report an incomplete rollback    *)
(* leaves the keys in every worksheet that needs them, or in none and none *)
(* in AWS (the except clause of main).                                     *)
(***************************************************************************)
THEOREM AllOrNothing == Spec => []BothOrNeither
<1>1. IInv => BothOrNeither
    BY DEF IInv, Ending, BothOrNeither, Holds
<1> QED
    BY Invariance, <1>1, PTL

(***************************************************************************)
(* No worksheet ever names a dead key, unless putting it back failed: the  *)
(* files are restored before the keys are deleted.                         *)
(***************************************************************************)
THEOREM RecordSafe == Spec => []RecordedKeysLive
<1>1. IInv => RecordedKeysLive
    BY DEF IInv
<1> QED
    BY Invariance, <1>1, PTL

(***************************************************************************)
(* Success means live keys in every worksheet, and a power loss cannot     *)
(* take them back: the directory was synced before `committed'.            *)
(***************************************************************************)
THEOREM DurableSuccess == Spec => []SuccessIsDurable
<1>1. IInv => SuccessIsDurable
    BY DEF IInv, Ending, SuccessIsDurable
<1> QED
    BY Invariance, <1>1, PTL

(***************************************************************************)
(* The finally clause leaves no temporary worksheet behind, but for one a  *)
(* signal hid from staged_paths.                                           *)
(***************************************************************************)
THEOREM TempsRemoved == Spec => []NoTempsLeft
<1>1. IInv => NoTempsLeft
    BY DEF IInv
<1> QED
    BY Invariance, <1>1, PTL

(***************************************************************************)
(* The preflight keeps every user at one key, across crashes and reruns.   *)
(***************************************************************************)
THEOREM OneKey == Spec => []OneKeyPerUser
<1>1. IInv => OneKeyPerUser
    BY DEF IInv
<1> QED
    BY Invariance, <1>1, PTL

(***************************************************************************)
(* Neither os.replace nor the restoration changes a line the program does  *)
(* not own, except in a worksheet edited after its second read.            *)
(***************************************************************************)
THEOREM LinesKept == Spec => EditsKept
<1>1. ASSUME IInv, Step, NEW f \in Files \ late
      PROVE  OtherLinesKept(f)
    <2>0. CopyAgrees /\ nth \in Files /\ ledger \in [Files -> Worksheet]
        BY <1>1 DEF IInv, TypeOK
    <2>1. CASE ledger' = ledger
        BY <2>1 DEF OtherLinesKept
    <2>2. CASE ReplaceLedger /\ ledger' # ledger
        <3>1. pc = "replace"
            BY <2>2 DEF ReplaceLedger
        <3>2. \A s \in Slot \ Uses[f] : ledger[f][s] = originals[f][s]
            BY <2>0, <3>1 DEF CopyAgrees
        <3>3. /\ \A s \in Slot \ Uses[nth] : ledger'[nth][s] = originals[nth][s]
              /\ \A g \in Files : g # nth => ledger'[g] = ledger[g]
            BY <1>1, <2>2, ReplaceStep
        <3>4. CASE f = nth
            BY <3>2, <3>3, <3>4 DEF OtherLinesKept
        <3>5. CASE f # nth
            BY <3>3, <3>5 DEF OtherLinesKept
        <3> QED
            BY <3>4, <3>5
    <2>3. CASE Restore
        <3>1. /\ pc = "restore" /\ nth \in replaced
              /\ ledger' \in {ledger, [ledger EXCEPT ![nth] = originals[nth]]}
            BY <2>3 DEF Restore, ToRestore
        <3>2. f = nth => \A s \in Slot \ Uses[f] : ledger[f][s] = originals[f][s]
            BY <2>0, <3>1 DEF CopyAgrees
        <3> QED
            BY <2>0, <3>1, <3>2 DEF OtherLinesKept
    <2> QED
        BY <1>1, <2>1, <2>2, <2>3, StepKeeps
<1>2. IInv /\ [Next]_vars => [Step => \A f \in Files \ late : OtherLinesKept(f)]_vars
    BY <1>1
<1> QED
    BY Invariance, <1>2, PTL DEF Spec, EditsKept
=============================================================================
