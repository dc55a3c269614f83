---------------------- MODULE SecretPublication_proofs ----------------------
(***************************************************************************)
(* Proofs about SecretPublication: for any number of sources, runs and     *)
(* worksheets.                                                             *)
(***************************************************************************)
EXTENDS SecretPublication, TLAPS

USE DEF CallFails

LEMMA Positions == 1 \in Source /\ LastSource \in Source /\ Source \subseteq Int
BY PublicationAssumption DEF Source

LEMMA TypeInit == Init => TypeOK
BY Positions, PublicationAssumption DEF Init, TypeOK, PC, Status, Report

\* The effects of the statements that only move a run along.
LEMMA ExitType ==
    ASSUME TypeOK, NEW r \in Run, NEW why \in Report, Exit(r, why)
    PROVE  pc' \in [Run -> PC] /\ report' \in [Run -> Report]
BY DEF TypeOK, Exit, PC

LEMMA GotoType ==
    ASSUME TypeOK, NEW r \in Run, NEW label \in PC, NEW s \in Source, Goto(r, label, s)
    PROVE  pc' \in [Run -> PC] /\ at' \in [Run -> Source] /\ report' \in [Run -> Report]
BY DEF TypeOK, Goto

LEMMA ClassifyType ==
    ASSUME TypeOK, NEW r \in Run, NEW status \in Status, Classify(r, status)
    PROVE  /\ statuses' \in [Run -> [Source -> Status]]
           /\ pc' \in [Run -> PC] /\ at' \in [Run -> Source] /\ report' \in [Run -> Report]
<1>1. statuses' \in [Run -> [Source -> Status]]
    BY DEF Classify, TypeOK
<1>2. CASE at[r] < LastSource
    <2>1. at[r] + 1 \in Source
        BY <1>2, PublicationAssumption DEF TypeOK, Source
    <2>2. Goto(r, "describe", at[r] + 1)
        BY <1>2 DEF Classify
    <2>3. "describe" \in PC
        BY DEF PC
    <2> QED
        BY <1>1, <2>1, <2>2, <2>3, GotoType
<1>3. CASE ~(at[r] < LastSource)
    <2>1. CASE Goto(r, "create", 1)
        <3>1. "create" \in PC
            BY DEF PC
        <3> QED
            BY <1>1, <2>1, <3>1, GotoType, Positions
    <2>2. CASE (Exit(r, "conflict") \/ Exit(r, "compared")) /\ at' = at
        <3>1. "conflict" \in Report /\ "compared" \in Report
            BY DEF Report
        <3>2. at' \in [Run -> Source]
            BY <2>2 DEF TypeOK
        <3> QED
            BY <1>1, <2>2, <3>1, <3>2, ExitType
    <2> QED
        BY <1>3, <2>1, <2>2 DEF Classify
<1> QED
    BY <1>2, <1>3

LEMMA NextSourceType ==
    ASSUME TypeOK, NEW r \in Run, NextSource(r)
    PROVE  pc' \in [Run -> PC] /\ at' \in [Run -> Source] /\ report' \in [Run -> Report]
<1>1. CASE at[r] < LastSource
    <2>1. at[r] + 1 \in Source
        BY <1>1, PublicationAssumption DEF TypeOK, Source
    <2>2. "create" \in PC
        BY DEF PC
    <2> QED
        BY <1>1, <2>1, <2>2, GotoType DEF NextSource
<1>2. CASE ~(at[r] < LastSource)
    <2>1. "published" \in Report
        BY DEF Report
    <2> QED
        BY <1>2, <2>1, ExitType DEF NextSource, TypeOK
<1> QED
    BY <1>1, <1>2

LEMMA TypeStep ==
    ASSUME TypeOK, [Next]_vars
    PROVE  TypeOK'
<1> USE DEF remote, local
<1>1. ASSUME NEW r \in Run, ReadWorksheets(r) \/ Kill(r)
      PROVE  TypeOK'
    <2>1. "describe" \in PC /\ "failed" \in Report
        BY DEF PC, Report
    <2>2. pc' \in [Run -> PC] /\ at' \in [Run -> Source] /\ report' \in [Run -> Report]
        BY <1>1, <2>1, GotoType, ExitType, Positions DEF ReadWorksheets, Kill, TypeOK
    <2> QED
        BY <1>1, <2>2 DEF ReadWorksheets, Kill, TypeOK, Exists
<1>2. ASSUME NEW r \in Run, DescribeSecret(r)
      PROVE  TypeOK'
    <2>1. /\ "fetch" \in PC /\ "failed" \in Report /\ at[r] \in Source
          /\ "CREATE" \in Status /\ "CONFLICT" \in Status
        BY DEF PC, Report, Status, TypeOK
    <2>2. /\ statuses' \in [Run -> [Source -> Status]]
          /\ pc' \in [Run -> PC] /\ at' \in [Run -> Source] /\ report' \in [Run -> Report]
        <3>1. CASE Classify(r, "CREATE") \/ Classify(r, "CONFLICT")
            BY <2>1, <3>1, ClassifyType
        <3>2. CASE Goto(r, "fetch", at[r]) /\ UNCHANGED statuses
            BY <2>1, <3>2, GotoType DEF TypeOK
        <3>3. CASE CallFails(r) /\ UNCHANGED statuses
            BY <2>1, <3>3, ExitType DEF TypeOK
        <3> QED
            BY <1>2, <3>1, <3>2, <3>3 DEF DescribeSecret
    <2> QED
        BY <1>2, <2>2 DEF DescribeSecret, TypeOK, Exists
<1>3. ASSUME NEW r \in Run, GetSecretObject(r)
      PROVE  TypeOK'
    <2>1. PICK status \in {"SKIP_MATCHED", "CONFLICT"} :
            \/ Classify(r, status)
            \/ CallFails(r) /\ UNCHANGED statuses
        BY <1>3 DEF GetSecretObject
    <2>2. status \in Status /\ "failed" \in Report
        BY DEF Status, Report
    <2>3. /\ statuses' \in [Run -> [Source -> Status]]
          /\ pc' \in [Run -> PC] /\ at' \in [Run -> Source] /\ report' \in [Run -> Report]
        BY <2>1, <2>2, ClassifyType, ExitType DEF TypeOK
    <2> QED
        BY <1>3, <2>3 DEF GetSecretObject, TypeOK, Exists
<1>4. ASSUME NEW r \in Run, SkipMatched(r) \/ VerifyCreated(r)
      PROVE  TypeOK'
    <2>1. "failed" \in Report
        BY DEF Report
    <2>2. pc' \in [Run -> PC] /\ at' \in [Run -> Source] /\ report' \in [Run -> Report]
        BY <1>4, <2>1, NextSourceType, ExitType DEF SkipMatched, VerifyCreated, TypeOK
    <2> QED
        BY <1>4, <2>2 DEF SkipMatched, VerifyCreated, TypeOK, Exists
<1>5. ASSUME NEW r \in Run, CreateSecret(r)
      PROVE  TypeOK'
    <2>1. "verify" \in PC /\ "failed" \in Report /\ at[r] \in Source
        BY DEF PC, Report, TypeOK
    <2>2. pc' \in [Run -> PC] /\ at' \in [Run -> Source] /\ report' \in [Run -> Report]
        <3>1. Goto(r, "verify", at[r]) \/ (Exit(r, "failed") /\ at' = at)
            BY <1>5 DEF CreateSecret
        <3> QED
            BY <2>1, <3>1, GotoType, ExitType DEF TypeOK
    <2>3. payloads[r][at[r]] \in Payload
        BY <2>1, PublicationAssumption DEF TypeOK
    <2>4. store' \in [Source -> Payload \cup {Missing}]
        BY <1>5, <2>3 DEF CreateSecret, TypeOK
    <2>5. written' \in [Run -> SUBSET Source] /\ touched' \in [Run -> SUBSET Source]
        <3>1. \A q \in Run : touched[q] \in SUBSET Source
                           /\ touched[q] \cup {at[r]} \in SUBSET Source
            BY <2>1 DEF TypeOK
        <3>2. CASE Notice(r, at[r]) /\ written' = [written EXCEPT ![r] = @ \cup {at[r]}]
            <4>1. touched' \in [Run -> SUBSET Source]
                BY <3>1, <3>2 DEF Notice
            <4> QED
                BY <2>1, <3>2, <4>1 DEF TypeOK
        <3>3. CASE UNCHANGED <<written, touched>>
            BY <3>3 DEF TypeOK
        <3> QED
            BY <1>5, <3>2, <3>3 DEF CreateSecret
    <2>6. doomed' \in SUBSET {s \in Source : store'[s] # Missing}
        BY <1>5, <2>1, <2>3, PublicationAssumption DEF CreateSecret, TypeOK, Exists
    <2> QED
        BY <1>5, <2>2, <2>4, <2>5, <2>6 DEF CreateSecret, TypeOK, Exists
<1>6. CASE AdminStep
    <2>1. store' \in [Source -> Payload \cup {Missing}]
        BY <1>6 DEF AdminStep, TypeOK
    <2>2. doomed' \in SUBSET {s \in Source : store'[s] # Missing}
        BY <1>6, PublicationAssumption DEF AdminStep, TypeOK, Readable, Exists
    <2>3. touched' \in [Run -> SUBSET Source]
        <3>1. PICK s \in Source : touched' = [r \in Run |->
                    IF Running(r) THEN touched[r] \cup {s} ELSE touched[r]]
            BY <1>6 DEF AdminStep
        <3>2. \A r \in Run : touched[r] \in SUBSET Source /\ touched[r] \cup {s} \in SUBSET Source
            BY DEF TypeOK
        <3> QED
            BY <3>1, <3>2
    <2>4. changes' \in 0..MaxChanges
        BY <1>6, PublicationAssumption DEF AdminStep, TypeOK
    <2> QED
        BY <1>6, <2>1, <2>2, <2>3, <2>4 DEF AdminStep, TypeOK, Exists
<1>7. CASE UNCHANGED vars
    BY <1>7 DEF vars, TypeOK, Exists
<1> QED
    BY <1>1, <1>2, <1>3, <1>4, <1>5, <1>6, <1>7 DEF Next, Step

\* The variables keep their types: no loop leaves SECRET_SPECS, and only a
\* secret that exists is ever scheduled for deletion.
THEOREM TypeCorrect == Spec => []TypeOK
BY TypeInit, TypeStep, PTL DEF Spec

-----------------------------------------------------------------------------
(***************************************************************************)
(* The program can only create.                                            *)
(***************************************************************************)

LEMMA OnlyCreates ==
    ASSUME TypeOK, [Next]_vars, changes' = changes
    PROVE  doomed' = doomed /\ \A s \in Source : Exists(s) => store'[s] = store[s]
<1>1. ~AdminStep
    BY DEF AdminStep, TypeOK
<1>2. CASE UNCHANGED <<store, doomed>>
    BY <1>2
<1>3. ASSUME NEW r \in Run, CreateSecret(r)
      PROVE  doomed' = doomed /\ \A s \in Source : Exists(s) => store'[s] = store[s]
    BY <1>3 DEF CreateSecret, Creatable, TypeOK
<1> QED
    BY <1>1, <1>2, <1>3 DEF Next, Step, ReadWorksheets, DescribeSecret, GetSecretObject,
        SkipMatched, VerifyCreated, Kill, vars, remote

-----------------------------------------------------------------------------
(***************************************************************************)
(* Settled is inductive.                                                   *)
(***************************************************************************)
Same(r) ==
    /\ statuses'[r] = statuses[r] /\ written'[r] = written[r]
    /\ pc'[r] = pc[r] /\ at'[r] = at[r] /\ report'[r] = report[r]

\* What holds of a run goes on to hold while others create.
LEMMA BystanderStep ==
    ASSUME TypeOK, NEW r \in Run, NEW s \in Source, Found(r, s), Made(r, s), Same(r),
           payloads' = payloads, doomed' = doomed, Exists(s) => store'[s] = store[s]
    PROVE  Found(r, s)' /\ Made(r, s)'
<1>1. payloads[r][s] # Missing
    BY PublicationAssumption DEF TypeOK
<1>2. store[s] = payloads[r][s] => store'[s] = payloads[r][s]
    BY <1>1 DEF Exists
<1>3. Found(r, s)'
    BY <1>2 DEF Found, Same, Exists
<1>4. Made(r, s)'
    BY <1>2 DEF Made, Same
<1> QED
    BY <1>3, <1>4

\* The first loop gives a source a status that is true of it.
LEMMA ClassifyStep ==
    ASSUME TypeOK, NEW r \in Run, NEW status \in Status, Classify(r, status),
           pc[r] \in {"describe", "fetch"}, UNCHANGED <<remote, payloads, written>>,
           \A s \in Source : Found(r, s) /\ Made(r, s),
           status = "SKIP_MATCHED" => Matches(r, at[r]),
           status = "CONFLICT" => Exists(at[r]) /\ (at[r] \in doomed \/ ~Matches(r, at[r]))
    PROVE  \A s \in Source : Found(r, s)' /\ Made(r, s)'
<1> SUFFICES ASSUME NEW s \in Source PROVE Found(r, s)' /\ Made(r, s)'
    OBVIOUS
<1>1. statuses'[r][s] = IF s = at[r] THEN status ELSE statuses[r][s]
    BY DEF Classify, TypeOK
<1>2. Found(r, s)'
    BY <1>1 DEF Found, Exists, Matches, remote
<1>3. /\ \/ pc'[r] \in {"describe", "exited"}
         \/ pc'[r] = "create" /\ at'[r] = 1
      /\ report'[r] \in {report[r], "conflict", "compared"}
    BY DEF Classify, Goto, Exit, TypeOK
<1>4. ~(s < 1)
    BY PublicationAssumption DEF Source
<1>5. Made(r, s)'
    BY <1>3, <1>4 DEF Made, remote
<1> QED
    BY <1>2, <1>5

\* The second loop leaves a source behind that holds the run's payload.
LEMMA NextSourceStep ==
    ASSUME TypeOK, NEW r \in Run, NextSource(r), pc[r] \in {"create", "verify"},
           UNCHANGED <<remote, payloads, statuses, written>>,
           \A s \in Source : Found(r, s) /\ Made(r, s),
           Matches(r, at[r])
    PROVE  \A s \in Source : Found(r, s)' /\ Made(r, s)'
<1> SUFFICES ASSUME NEW s \in Source PROVE Found(r, s)' /\ Made(r, s)'
    OBVIOUS
<1>1. Found(r, s)'
    BY DEF Found, Exists, remote
<1>2. s \in Int /\ LastSource \in Int /\ s <= LastSource /\ at[r] \in Int
    BY PublicationAssumption DEF TypeOK, Source
<1>3. CASE at[r] < LastSource
    <2>1. pc'[r] = "create" /\ at'[r] = at[r] + 1 /\ report'[r] = report[r]
        BY <1>3 DEF NextSource, Goto, TypeOK
    <2>2. s < at'[r] => store[s] = payloads[r][s]
        BY <1>2, <2>1 DEF Made, Matches
    <2> QED
        BY <1>1, <2>1, <2>2 DEF Made, remote
<1>4. CASE ~(at[r] < LastSource)
    <2>1. pc'[r] = "exited" /\ report'[r] = "published"
        BY <1>4 DEF NextSource, Exit, TypeOK
    <2>2. store[s] = payloads[r][s]
        BY <1>2, <1>4 DEF Made, Matches
    <2> QED
        BY <1>1, <2>1, <2>2 DEF Made, remote
<1> QED
    BY <1>3, <1>4

LEMMA SettledInit == Init => Settled
BY DEF Init, Settled, Found, Made

LEMMA SettledStep ==
    ASSUME TypeOK, Settled, [Next]_vars
    PROVE  Settled'
<1> SUFFICES ASSUME changes' = 0
             PROVE  \A r \in Run : \A s \in Source : Found(r, s)' /\ Made(r, s)'
    BY DEF Settled
<1>1. changes = 0 /\ changes' = changes /\ ~AdminStep /\ UNCHANGED payloads
    BY DEF Next, Step, ReadWorksheets, DescribeSecret, GetSecretObject, SkipMatched,
        CreateSecret, VerifyCreated, Kill, AdminStep, vars, local, TypeOK
<1>2. doomed' = doomed /\ \A s \in Source : Exists(s) => store'[s] = store[s]
    BY <1>1, OnlyCreates
<1>3. \A r \in Run : \A s \in Source : Found(r, s) /\ Made(r, s)
    BY <1>1 DEF Settled
<1>4. CASE UNCHANGED vars
    BY <1>1, <1>2, <1>3, <1>4, BystanderStep DEF Same, vars, local
<1>5. ASSUME NEW r \in Run, Step(r) \/ Kill(r)
      PROVE  \A q \in Run : \A s \in Source : Found(q, s)' /\ Made(q, s)'
    <2>1. \A q \in Run \ {r} : Same(q)
        BY <1>5 DEF Same, Step, ReadWorksheets, DescribeSecret, GetSecretObject, SkipMatched,
            CreateSecret, VerifyCreated, Kill, Classify, NextSource, Goto, Exit, TypeOK
    <2>2. \A q \in Run \ {r} : \A s \in Source : Found(q, s)' /\ Made(q, s)'
        BY <1>1, <1>2, <1>3, <2>1, BystanderStep
    <2>3. \A s \in Source : Found(r, s)' /\ Made(r, s)'
        <3>1. CASE ReadWorksheets(r) \/ Kill(r)
            <4>1. /\ \/ pc'[r] = "describe" /\ report'[r] = report[r]
                     \/ pc'[r] = "exited" /\ report'[r] = "failed"
                  /\ UNCHANGED <<store, doomed, statuses, written>>
                BY <3>1 DEF ReadWorksheets, Kill, Goto, Exit, TypeOK, remote
            <4> QED
                BY <1>1, <1>3, <4>1 DEF Found, Made, Exists
        <3>2. CASE DescribeSecret(r)
            <4>1. CASE ~Exists(at[r]) /\ Classify(r, "CREATE")
                <5>1. /\ "CREATE" \in Status /\ "CREATE" # "SKIP_MATCHED"
                      /\ "CREATE" # "CONFLICT"
                      /\ pc[r] \in {"describe", "fetch"}
                      /\ UNCHANGED <<remote, payloads, written>>
                    BY <3>2 DEF Status, DescribeSecret
                <5> QED
                    BY <1>3, <4>1, <5>1, ClassifyStep
            <4>2. CASE at[r] \in doomed /\ Classify(r, "CONFLICT")
                <5>1. Exists(at[r])
                    BY <4>2 DEF TypeOK
                <5>2. /\ "CONFLICT" \in Status /\ "CONFLICT" # "SKIP_MATCHED"
                      /\ pc[r] \in {"describe", "fetch"}
                      /\ UNCHANGED <<remote, payloads, written>>
                    BY <3>2 DEF Status, DescribeSecret
                <5> QED
                    BY <1>3, <4>2, <5>1, <5>2, ClassifyStep
            <4>3. CASE \/ Goto(r, "fetch", at[r]) /\ UNCHANGED statuses
                       \/ CallFails(r) /\ UNCHANGED statuses
                <5>1. /\ \/ pc'[r] = "fetch" /\ report'[r] = report[r]
                         \/ pc'[r] = "exited" /\ report'[r] = "failed"
                      /\ UNCHANGED <<store, doomed, statuses, written>>
                    BY <3>2, <4>3 DEF DescribeSecret, Goto, Exit, TypeOK, remote
                <5> QED
                    BY <1>1, <1>3, <5>1 DEF Found, Made, Exists
            <4> QED
                BY <3>2, <4>1, <4>2, <4>3 DEF DescribeSecret
        <3>3. CASE GetSecretObject(r)
            <4>1. CASE CallFails(r) /\ UNCHANGED statuses
                <5>1. /\ pc'[r] = "exited" /\ report'[r] = "failed"
                      /\ UNCHANGED <<store, doomed, statuses, written>>
                    BY <3>3, <4>1 DEF GetSecretObject, Exit, TypeOK, remote
                <5> QED
                    BY <1>1, <1>3, <5>1 DEF Found, Made, Exists
            <4>2. CASE /\ Readable(at[r])
                       /\ Classify(r, IF Matches(r, at[r]) THEN "SKIP_MATCHED" ELSE "CONFLICT")
                <5>1. /\ "SKIP_MATCHED" \in Status /\ "CONFLICT" \in Status
                      /\ "SKIP_MATCHED" # "CONFLICT"
                      /\ pc[r] \in {"describe", "fetch"}
                      /\ UNCHANGED <<remote, payloads, written>>
                    BY <3>3 DEF Status, GetSecretObject
                <5>2. CASE Matches(r, at[r]) /\ Classify(r, "SKIP_MATCHED")
                    BY <1>3, <5>1, <5>2, ClassifyStep
                <5>3. CASE ~Matches(r, at[r]) /\ Exists(at[r]) /\ Classify(r, "CONFLICT")
                    BY <1>3, <5>1, <5>3, ClassifyStep
                <5> QED
                    BY <4>2, <5>2, <5>3 DEF Readable
            <4> QED
                BY <3>3, <4>1, <4>2 DEF GetSecretObject
        <3>4. CASE SkipMatched(r)
            <4>1. Matches(r, at[r])
                BY <1>3, <3>4 DEF SkipMatched, Skipped, Found, Matches, TypeOK
            <4> QED
                BY <1>3, <3>4, <4>1, NextSourceStep DEF SkipMatched
        <3>5. CASE VerifyCreated(r)
            <4>1. CASE Matches(r, at[r]) /\ NextSource(r)
                BY <1>3, <3>5, <4>1, NextSourceStep DEF VerifyCreated
            <4>2. CASE Exit(r, "failed") /\ UNCHANGED at
                <5>1. /\ pc'[r] = "exited" /\ report'[r] = "failed"
                      /\ UNCHANGED <<store, doomed, statuses, written>>
                    BY <3>5, <4>2 DEF VerifyCreated, Exit, TypeOK, remote
                <5> QED
                    BY <1>1, <1>3, <5>1 DEF Found, Made, Exists
            <4> QED
                BY <3>5, <4>1, <4>2 DEF VerifyCreated
        <3>6. CASE CreateSecret(r)
            <4>1. CASE /\ Exit(r, "failed")
                       /\ UNCHANGED <<store, at, written, touched>>
                <5>1. /\ pc'[r] = "exited" /\ report'[r] = "failed"
                      /\ UNCHANGED <<store, doomed, statuses, written>>
                    BY <3>6, <4>1 DEF CreateSecret, Exit, TypeOK
                <5> QED
                    BY <1>1, <1>3, <5>1 DEF Found, Made, Exists
            <4>2. CASE /\ Creatable(at[r])
                       /\ store' = [store EXCEPT ![at[r]] = payloads[r][at[r]]]
                       /\ written' = [written EXCEPT ![r] = @ \cup {at[r]}]
                       /\ \/ Goto(r, "verify", at[r])
                          \/ Exit(r, "failed") /\ UNCHANGED at
                <5>1. /\ at'[r] = at[r] /\ UNCHANGED <<doomed, statuses, payloads>>
                      /\ pc[r] = "create"
                      /\ \/ pc'[r] = "verify" /\ report'[r] = report[r]
                         \/ pc'[r] = "exited" /\ report'[r] = "failed"
                    BY <3>6, <4>2 DEF CreateSecret, Goto, Exit, TypeOK
                <5>2. /\ ~Exists(at[r]) /\ at[r] \notin doomed
                      /\ store'[at[r]] = payloads[r][at[r]]
                      /\ written'[r] = written[r] \cup {at[r]}
                    BY <4>2 DEF Creatable, TypeOK
                <5>3. \A s \in Source : payloads[r][s] # Missing
                    BY PublicationAssumption DEF TypeOK
                <5>4. \A s \in Source \ {at[r]} : store'[s] = store[s]
                    BY <4>2 DEF TypeOK
                <5>5. Found(r, at[r])' /\ Made(r, at[r])'
                    BY <1>3, <5>1, <5>2, <5>3 DEF Found, Made, Exists, TypeOK
                <5>6. \A s \in Source \ {at[r]} : Found(r, s)' /\ Made(r, s)'
                    BY <1>3, <5>1, <5>2, <5>4 DEF Found, Made, Exists
                <5> QED
                    BY <5>5, <5>6, <5>1
            <4> QED
                BY <3>6, <4>1, <4>2 DEF CreateSecret
        <3> QED
            BY <1>5, <3>1, <3>2, <3>3, <3>4, <3>5, <3>6 DEF Step
    <2> QED
        BY <2>2, <2>3
<1> QED
    BY <1>1, <1>4, <1>5 DEF Next

-----------------------------------------------------------------------------
(***************************************************************************)
(* What follows from it.                                                   *)
(***************************************************************************)
\* Without administrators, what a run has found or made stays as it is.
THEOREM Settles == Spec => [](TypeOK /\ Settled)
<1>1. Init => TypeOK /\ Settled
    BY TypeInit, SettledInit
<1>2. (TypeOK /\ Settled) /\ [Next]_vars => (TypeOK /\ Settled)'
    BY TypeStep, SettledStep
<1> QED
    BY <1>1, <1>2, PTL DEF Spec

\* What a failed run has left never stops the next one from the same
\* worksheets.
THEOREM LeftoversPass == Spec => []LeftoversNeverBlock
<1>1. TypeOK /\ Settled => LeftoversNeverBlock
    BY DEF Settled, Found, Made, LeftoversNeverBlock
<1> QED
    BY <1>1, Settles, PTL

-----------------------------------------------------------------------------
(***************************************************************************)
(* With administrators at work.  What a run has found or made stays as it  *)
(* is in the sources that nobody has touched since the run began.          *)
(***************************************************************************)

\* The sources the second loop of r has dealt with.
Passed(r, s) ==
    \/ pc[r] \in {"create", "verify"} /\ s < at[r]
    \/ pc[r] = "verify" /\ s = at[r]

\* Where the loops are: the first gives each source its status and writes
\* nothing; the second begins when there is no conflict.
Loops(r) ==
    /\ pc[r] = "read" => written[r] = {} /\ \A s \in Source : statuses[r][s] = "UNKNOWN"
    /\ pc[r] \in {"describe", "fetch"} =>
          written[r] = {} /\ \A s \in Source : statuses[r][s] = "UNKNOWN" <=> s >= at[r]
    /\ pc[r] \in {"create", "verify"} =>
          \A s \in Source : statuses[r][s] \in {"SKIP_MATCHED", "CREATE"}

Holds(r, s) == store[s] = payloads[r][s] /\ s \notin doomed

Untouched(r, s) ==
    /\ statuses[r][s] = "SKIP_MATCHED" => Holds(r, s)
    /\ statuses[r][s] = "CREATE" => ~Exists(s) \/ Passed(r, s)
    /\ Passed(r, s) => Holds(r, s)

Trusted(r) ==
    /\ Loops(r)
    /\ Running(r) => \A s \in Source \ touched[r] : Untouched(r, s)

\* The steps of a run that goes on.
Begins(r) ==
    /\ pc[r] = "read" /\ pc'[r] = "describe" /\ at'[r] = 1
    /\ statuses'[r] = statuses[r] /\ written'[r] = written[r] /\ UNCHANGED store

Fetches(r) ==
    /\ pc[r] = "describe" /\ pc'[r] = "fetch" /\ at'[r] = at[r]
    /\ statuses'[r] = statuses[r] /\ written'[r] = written[r] /\ UNCHANGED store

Classifies(r) ==
    /\ pc[r] \in {"describe", "fetch"} /\ written'[r] = written[r] /\ UNCHANGED store
    /\ \E status \in {"CREATE", "CONFLICT", "SKIP_MATCHED"} :
          /\ statuses'[r] = [statuses[r] EXCEPT ![at[r]] = status]
          /\ status = "CREATE" => ~Exists(at[r])
          /\ status = "SKIP_MATCHED" => Holds(r, at[r])
    /\ \/ at[r] < LastSource /\ pc'[r] = "describe" /\ at'[r] = at[r] + 1
       \/ /\ ~(at[r] < LastSource) /\ pc'[r] = "create" /\ at'[r] = 1
          /\ \A s \in Source : statuses'[r][s] # "CONFLICT"

Advances(r) ==
    /\ pc[r] \in {"create", "verify"} /\ pc'[r] = "create" /\ at'[r] = at[r] + 1
    /\ statuses'[r] = statuses[r] /\ written'[r] = written[r] /\ UNCHANGED store
    /\ \/ statuses[r][at[r]] = "SKIP_MATCHED"
       \/ Holds(r, at[r])

Creates(r) ==
    /\ pc[r] = "create" /\ pc'[r] = "verify" /\ at'[r] = at[r]
    /\ statuses'[r] = statuses[r]
    /\ ~Exists(at[r]) /\ store' = [store EXCEPT ![at[r]] = payloads[r][at[r]]]

LEMMA ClassifyShape ==
    ASSUME TypeOK, NEW r \in Run, NEW status \in {"CREATE", "CONFLICT", "SKIP_MATCHED"},
           Classify(r, status), pc[r] \in {"describe", "fetch"},
           UNCHANGED <<store, written>>,
           status = "CREATE" => ~Exists(at[r]),
           status = "SKIP_MATCHED" => Holds(r, at[r])
    PROVE  pc'[r] = "exited" \/ Classifies(r)
<1>1. statuses'[r] = [statuses[r] EXCEPT ![at[r]] = status]
    BY DEF Classify, TypeOK
<1>2. CASE at[r] < LastSource
    BY <1>1, <1>2 DEF Classify, Goto, Classifies, TypeOK
<1>3. CASE ~(at[r] < LastSource) /\ (Exit(r, "conflict") \/ Exit(r, "compared"))
    BY <1>3 DEF Exit, TypeOK
<1>4. CASE /\ ~(at[r] < LastSource) /\ Goto(r, "create", 1)
           /\ ~Blocks(r, [statuses[r] EXCEPT ![at[r]] = status])
    <2>1. \A s \in Source : statuses'[r][s] # "CONFLICT"
        BY <1>1, <1>4 DEF Blocks
    <2> QED
        BY <1>1, <1>4, <2>1 DEF Goto, Classifies, TypeOK
<1> QED
    BY <1>2, <1>3, <1>4 DEF Classify

LEMMA Shapes ==
    ASSUME TypeOK, NEW r \in Run, Step(r) \/ Kill(r)
    PROVE  /\ payloads' = payloads /\ doomed' = doomed /\ touched'[r] = touched[r]
           /\ \/ pc'[r] = "exited"
              \/ Begins(r) \/ Fetches(r) \/ Classifies(r) \/ Advances(r) \/ Creates(r)
<1>1. payloads' = payloads /\ doomed' = doomed /\ touched'[r] = touched[r]
    BY DEF Step, ReadWorksheets, DescribeSecret, GetSecretObject, SkipMatched, CreateSecret,
       VerifyCreated, Kill, remote, Notice, TypeOK
<1>2. CASE Kill(r) \/ ReadWorksheets(r)
    BY <1>1, <1>2 DEF Kill, ReadWorksheets, Exit, Goto, Begins, TypeOK, remote
<1>3. CASE DescribeSecret(r)
    <2>1. CASE ~Exists(at[r]) /\ Classify(r, "CREATE")
        BY <1>1, <1>3, <2>1, ClassifyShape DEF DescribeSecret, remote
    <2>2. CASE Classify(r, "CONFLICT")
        BY <1>1, <1>3, <2>2, ClassifyShape DEF DescribeSecret, remote
    <2>3. CASE Goto(r, "fetch", at[r]) /\ UNCHANGED statuses
        BY <1>1, <1>3, <2>3 DEF DescribeSecret, Goto, Fetches, TypeOK, remote
    <2>4. CASE Exit(r, "failed")
        BY <1>1, <2>4 DEF Exit, TypeOK
    <2> QED
        BY <1>3, <2>1, <2>2, <2>3, <2>4 DEF DescribeSecret
<1>4. CASE GetSecretObject(r)
    <2>1. CASE Readable(at[r]) /\ Matches(r, at[r]) /\ Classify(r, "SKIP_MATCHED")
        <3>1. Holds(r, at[r])
            BY <2>1 DEF Readable, Matches, Holds
        <3> QED
            BY <1>1, <1>4, <2>1, <3>1, ClassifyShape DEF GetSecretObject, remote
    <2>2. CASE Classify(r, "CONFLICT")
        BY <1>1, <1>4, <2>2, ClassifyShape DEF GetSecretObject, remote
    <2>3. CASE Exit(r, "failed")
        BY <1>1, <2>3 DEF Exit, TypeOK
    <2> QED
        BY <1>4, <2>1, <2>2, <2>3 DEF GetSecretObject
<1>5. CASE SkipMatched(r)
    BY <1>1, <1>5 DEF SkipMatched, Skipped, NextSource, Goto, Exit, Advances, TypeOK, remote
<1>6. CASE VerifyCreated(r)
    BY <1>1, <1>6 DEF VerifyCreated, Readable, Matches, NextSource, Goto, Exit, Advances,
                      Holds, TypeOK, remote
<1>7. CASE CreateSecret(r)
    BY <1>1, <1>7 DEF CreateSecret, Creatable, Goto, Exit, Creates, TypeOK
<1> QED
    BY <1>2, <1>3, <1>4, <1>5, <1>6, <1>7 DEF Step

LEMMA OwnStep ==
    ASSUME TypeOK, NEW r \in Run, Step(r) \/ Kill(r), Trusted(r)
    PROVE  Trusted(r)'
<1>1. /\ payloads' = payloads /\ doomed' = doomed /\ touched'[r] = touched[r]
      /\ \/ pc'[r] = "exited"
         \/ Begins(r) \/ Fetches(r) \/ Classifies(r) \/ Advances(r) \/ Creates(r)
    BY Shapes
<1>2. /\ LastSource \in Nat \ {0} /\ at[r] \in Source
      /\ statuses[r] \in [Source -> Status]
      /\ \A s \in Source : s \in Int /\ 1 <= s /\ s <= LastSource
      /\ \A s \in Source : s \in doomed => Exists(s)
      /\ store \in [Source -> Payload \cup {Missing}]
    BY PublicationAssumption DEF TypeOK, Source
<1>3. CASE pc'[r] = "exited"
    BY <1>3 DEF Trusted, Loops, Running
<1>4. CASE Begins(r)
    BY <1>1, <1>2, <1>4 DEF Begins, Trusted, Loops, Running, Untouched, Passed
<1>5. CASE Fetches(r)
    BY <1>1, <1>2, <1>5 DEF Fetches, Trusted, Loops, Running, Untouched, Passed, Holds, Exists
<1>6. CASE Classifies(r)
    <2>1. Running(r)
        BY <1>6 DEF Classifies, Running
    <2>2. PICK status \in {"CREATE", "CONFLICT", "SKIP_MATCHED"} :
              /\ statuses'[r] = [statuses[r] EXCEPT ![at[r]] = status]
              /\ status = "CREATE" => ~Exists(at[r])
              /\ status = "SKIP_MATCHED" => Holds(r, at[r])
        BY <1>6 DEF Classifies
    <2>3. \A s \in Source : statuses'[r][s] = IF s = at[r] THEN status ELSE statuses[r][s]
        BY <1>2, <2>2
    <2>4. Loops(r)'
        <3>1. CASE at[r] < LastSource
            BY <1>2, <1>6, <2>3, <3>1 DEF Classifies, Trusted, Loops
        <3>2. CASE ~(at[r] < LastSource)
            <4>1. \A s \in Source : statuses[r][s] = "UNKNOWN" <=> s >= at[r]
                BY <1>6 DEF Classifies, Trusted, Loops
            <4>2. \A s \in Source : statuses'[r][s] # "UNKNOWN" /\ statuses'[r][s] \in Status
                BY <1>2, <2>3, <3>2, <4>1 DEF Status
            <4>3. pc'[r] = "create" /\ \A s \in Source : statuses'[r][s] # "CONFLICT"
                BY <1>6, <3>2 DEF Classifies
            <4> QED
                BY <4>2, <4>3 DEF Loops, Status
        <3> QED
            BY <3>1, <3>2
    <2>5. \A s \in Source : ~Passed(r, s)'
        BY <1>2, <1>6 DEF Classifies, Passed
    <2>6. ASSUME NEW s \in Source \ touched[r]
          PROVE  Untouched(r, s)'
        BY <1>1, <1>6, <2>1, <2>2, <2>3, <2>5
        DEF Classifies, Trusted, Untouched, Passed, Holds, Exists
    <2> QED
        BY <1>1, <2>4, <2>6 DEF Trusted
<1>7. CASE Advances(r)
    <2>1. Loops(r)'
        BY <1>7 DEF Advances, Trusted, Loops
    <2>2. ASSUME NEW s \in Source \ touched[r]
          PROVE  Untouched(r, s)'
        <3>1. Untouched(r, s)
            BY <1>7 DEF Advances, Trusted, Running
        <3>2. Passed(r, s)' => Passed(r, s) \/ s = at[r]
            BY <1>2, <1>7 DEF Advances, Passed
        <3>3. Passed(r, s) => Passed(r, s)'
            BY <1>2, <1>7 DEF Advances, Passed
        <3>4. s = at[r] => Holds(r, s)
            BY <1>7, <3>1 DEF Advances, Untouched
        <3> QED
            BY <1>1, <1>7, <3>1, <3>2, <3>3, <3>4 DEF Advances, Untouched, Holds, Exists
    <2> QED
        BY <1>1, <2>1, <2>2 DEF Trusted
<1>8. CASE Creates(r)
    <2>1. Loops(r)'
        BY <1>8 DEF Creates, Trusted, Loops
    <2>2. ASSUME NEW s \in Source \ touched[r]
          PROVE  Untouched(r, s)'
        <3>1. Untouched(r, s)
            BY <1>8 DEF Creates, Trusted, Running
        <3>2. Passed(r, s)' <=> (Passed(r, s) \/ s = at[r])
            BY <1>2, <1>8 DEF Creates, Passed
        <3>3. CASE s = at[r]
            <4>1. Holds(r, s)'
                BY <1>1, <1>2, <1>8, <3>3 DEF Creates, Holds
            <4> QED
                BY <3>2, <3>3, <4>1 DEF Untouched
        <3>4. CASE s # at[r]
            <4>1. store'[s] = store[s]
                BY <1>2, <1>8, <3>4 DEF Creates
            <4> QED
                BY <1>1, <1>8, <3>1, <3>2, <3>4, <4>1 DEF Creates, Untouched, Holds, Exists
        <3> QED
            BY <3>3, <3>4
    <2> QED
        BY <1>1, <2>1, <2>2 DEF Trusted
<1> QED
    BY <1>1, <1>3, <1>4, <1>5, <1>6, <1>7, <1>8

\* A step of somebody else, which marks what it changes.
LEMMA ForeignStep ==
    ASSUME TypeOK, NEW q \in Run, Trusted(q), Same(q), payloads' = payloads,
           Running(q) => \A s \in Source \ touched'[q] :
               s \notin touched[q] /\ store'[s] = store[s] /\ (s \in doomed' <=> s \in doomed)
    PROVE  Trusted(q)'
<1>1. Loops(q)'
    BY DEF Trusted, Loops, Same
<1>2. ASSUME Running(q), NEW s \in Source \ touched'[q]
      PROVE  Untouched(q, s)'
    BY <1>2 DEF Trusted, Untouched, Passed, Holds, Exists, Same
<1> QED
    BY <1>1, <1>2 DEF Trusted, Running, Same

\* What a run has seen matching, missing or made is still so, unless an
\* administrator has touched the source since.
THEOREM Trust == Spec => [](TypeOK /\ \A r \in Run : Trusted(r))
<1>1. Init => \A r \in Run : Trusted(r)
    BY DEF Init, Trusted, Loops, Running
<1>2. ASSUME TypeOK, \A r \in Run : Trusted(r), [Next]_vars
      PROVE  \A r \in Run : Trusted(r)'
    <2>1. CASE UNCHANGED vars
        BY <1>2, <2>1, ForeignStep DEF vars, local, remote, Same
    <2>2. CASE AdminStep
        <3>1. PICK s \in Source :
                  /\ touched' = [r \in Run |->
                         IF Running(r) THEN touched[r] \cup {s} ELSE touched[r]]
                  /\ \A t \in Source \ {s} :
                         store'[t] = store[t] /\ (t \in doomed' <=> t \in doomed)
            BY <1>2, <2>2 DEF AdminStep, TypeOK
        <3>2. ASSUME NEW q \in Run
              PROVE  Trusted(q)'
            <4>1. Running(q) => touched'[q] = touched[q] \cup {s}
                BY <3>1
            <4>2. Same(q) /\ payloads' = payloads
                BY <2>2 DEF AdminStep, local, Same
            <4> QED
                BY <1>2, <3>1, <4>1, <4>2, ForeignStep
        <3> QED
            BY <3>2
    <2>3. ASSUME NEW r \in Run, Step(r) \/ Kill(r)
          PROVE  \A q \in Run : Trusted(q)'
        <3>1. \A q \in Run \ {r} : Same(q)
            BY <1>2, <2>3
            DEF Same, Step, ReadWorksheets, DescribeSecret, GetSecretObject, SkipMatched,
                CreateSecret, VerifyCreated, Kill, Classify, NextSource, Goto, Exit, TypeOK
        <3>2. payloads' = payloads /\ doomed' = doomed
            BY <1>2, <2>3, Shapes
        <3>3. ASSUME NEW q \in Run \ {r}, Running(q), NEW s \in Source \ touched'[q]
              PROVE  s \notin touched[q] /\ store'[s] = store[s]
            <4>1. CASE store' = store /\ touched' = touched
                BY <3>3, <4>1
            <4>2. CASE store' = [store EXCEPT ![at[r]] = payloads[r][at[r]]] /\ Notice(r, at[r])
                <5>1. touched'[q] = touched[q] \cup {at[r]}
                    BY <3>3, <4>2 DEF Notice
                <5> QED
                    BY <1>2, <3>3, <4>2, <5>1 DEF TypeOK
            <4> QED
                BY <2>3, <4>1, <4>2
                DEF Step, ReadWorksheets, DescribeSecret, GetSecretObject, SkipMatched,
                    CreateSecret, VerifyCreated, Kill, remote
        <3>4. ASSUME NEW q \in Run \ {r}
              PROVE  Trusted(q)'
            BY <1>2, <3>1, <3>2, <3>3, <3>4, ForeignStep
        <3> QED
            BY <1>2, <2>3, <3>4, OwnStep
    <2> QED
        BY <1>2, <2>1, <2>2, <2>3 DEF Next
<1>3. TypeOK /\ (\A r \in Run : Trusted(r)) /\ [Next]_vars
          => (TypeOK /\ \A r \in Run : Trusted(r))'
    BY <1>2, TypeStep
<1> QED
    BY <1>1, <1>3, TypeInit, PTL DEF Spec

\* "If any source is pending deletion or differs, no write is started."
THEOREM WritesSafe == Spec => []WritesAgree
<1>1. ASSUME TypeOK, \A r \in Run : Trusted(r)
      PROVE  WritesAgree
    <2> SUFFICES ASSUME NEW r \in Run, Running(r), written[r] # {},
                        NEW s \in Source \ touched[r]
                 PROVE  store[s] \in {payloads[r][s], Missing} /\ s \notin doomed
        BY DEF WritesAgree
    <2>1. pc[r] \in {"create", "verify"}
        BY <1>1 DEF Trusted, Loops, Running, TypeOK, PC
    <2>2. statuses[r][s] \in {"SKIP_MATCHED", "CREATE"} /\ Untouched(r, s)
        BY <1>1, <2>1 DEF Trusted, Loops
    <2> QED
        BY <1>1, <2>2 DEF Untouched, Holds, Exists, TypeOK
<1> QED
    BY <1>1, Trust, PTL

\* A run that says it has published has seen every source holding its worksheets.
THEOREM PublishedIsTrue == Spec => PublishedMeansAll
<1>1. ASSUME TypeOK, \A r \in Run : Trusted(r), [Next]_vars, NEW r \in Run,
             report'[r] = "published", report[r] = "none", NEW s \in Source \ touched[r]
      PROVE  store[s] = payloads[r][s] /\ s \notin doomed
    <2>1. (SkipMatched(r) \/ VerifyCreated(r)) /\ ~(at[r] < LastSource)
        <3>1. report'[r] # report[r]
            BY <1>1
        <3>2. ASSUME NEW q \in Run, Step(q) \/ Kill(q)
              PROVE  q = r
            BY <1>1, <3>1, <3>2
            DEF Step, ReadWorksheets, DescribeSecret, GetSecretObject, SkipMatched,
                CreateSecret, VerifyCreated, Kill, Classify, NextSource, Goto, Exit, TypeOK
        <3>3. ~AdminStep /\ ~(UNCHANGED vars)
            BY <3>1 DEF AdminStep, vars, local
        <3>4. Step(r) \/ Kill(r)
            BY <1>1, <3>2, <3>3 DEF Next
        <3> QED
            BY <1>1, <3>4
            DEF Step, ReadWorksheets, DescribeSecret, GetSecretObject, SkipMatched,
                CreateSecret, VerifyCreated, Kill, Classify, NextSource, Goto, Exit, TypeOK
    <2>2. pc[r] \in {"create", "verify"} /\ Untouched(r, s)
        BY <1>1, <2>1 DEF SkipMatched, VerifyCreated, Trusted, Running
    <2>3. s <= LastSource /\ s \in Int /\ LastSource \in Int /\ at[r] \in Int /\ at[r] <= LastSource
        BY <1>1, PublicationAssumption DEF TypeOK, Source
    <2>4. CASE s < at[r]
        BY <2>2, <2>4 DEF Untouched, Passed, Holds
    <2>5. CASE s = at[r] /\ VerifyCreated(r)
        BY <2>2, <2>5 DEF VerifyCreated, Untouched, Passed, Holds
    <2>6. CASE s = at[r] /\ SkipMatched(r)
        BY <2>2, <2>6 DEF SkipMatched, Skipped, Untouched, Holds
    <2> QED
        BY <2>1, <2>3, <2>4, <2>5, <2>6
<1>2. TypeOK /\ (\A r \in Run : Trusted(r)) /\ [Next]_vars =>
        [\A r \in Run : report'[r] = "published" /\ report[r] = "none" =>
            \A s \in Source \ touched[r] :
                store[s] = payloads[r][s] /\ s \notin doomed]_vars
    BY <1>1
<1> QED
    BY <1>2, Trust, PTL DEF Spec, PublishedMeansAll

-----------------------------------------------------------------------------
(***************************************************************************)
(* Gapless is inductive: Secrets Manager is never a mixture.               *)
(***************************************************************************)

LEMMA InOrderInit == Init => InOrder
BY DEF Init, InOrder, Running

\* The run has not created anything; others are as before.
LEMMA QuietInOrder ==
    ASSUME TypeOK, InOrder, UNCHANGED <<store, written, payloads>>,
           \A r \in Run : Running(r)' => Running(r) \/ Consistent(payloads[r]),
           \A r \in Run : \A s \in Source :
               statuses'[r][s] = "CREATE" => statuses[r][s] = "CREATE" \/ ~Exists(s)
    PROVE  InOrder'
<1>1. \A s : Exists(s)' <=> Exists(s)
    BY DEF Exists
<1> QED
    BY <1>1 DEF InOrder

LEMMA CreateInOrder ==
    ASSUME TypeOK, InOrder, Settled, \A q \in Run : Trusted(q), changes = 0,
           NEW r \in Run, pc[r] = "create", ~Skipped(r), Creatable(at[r]),
           store' = [store EXCEPT ![at[r]] = payloads[r][at[r]]],
           written' = [written EXCEPT ![r] = @ \cup {at[r]}],
           UNCHANGED <<payloads, statuses>>,
           \A q \in Run \ {r} : pc'[q] = pc[q]
    PROVE  InOrder'
<1> DEFINE t == at[r]
<1>1. t \in Source /\ ~Exists(t) /\ payloads[r] \in [Source -> Payload] /\ Consistent(payloads[r])
    BY PublicationAssumption DEF TypeOK, Creatable, InOrder, Running
<1>2. \A s \in Source : store'[s] = IF s = t THEN payloads[r][t] ELSE store[s]
    BY <1>1 DEF TypeOK
<1>3. \A s \in Source : Exists(s)' <=> Exists(s) \/ s = t
    BY <1>1, <1>2, PublicationAssumption DEF Exists
<1>4. \A q \in Run : written'[q] = IF q = r THEN written[r] \cup {t} ELSE written[q]
    BY DEF TypeOK
<1>5. \A s \in Source : s < t => store[s] = payloads[r][s] /\ Exists(s)
    BY <1>1, PublicationAssumption DEF Settled, Made, Exists
<1>6. \A q \in Run : Running(q)' \/ written'[q] # {} => Consistent(payloads'[q])
    BY <1>1, <1>4 DEF InOrder, Running
<1>7. \A q \in Run : \A s \in written'[q] : \A u \in Source : u < s => Exists(u)'
    BY <1>3, <1>4, <1>5 DEF InOrder
<1>8. ASSUME NEW q \in Run, NEW s \in Source, statuses'[q][s] = "CREATE", Exists(s)'
      PROVE  \E p \in Run : s \in written'[p]
    BY <1>3, <1>4, <1>8 DEF InOrder
<1>9. ASSUME NEW s \in Source
      PROVE  store'[s] \in {Missing, payloads[r][s]}
    <2>1. CASE s <= t
        BY <1>1, <1>2, <1>5, <2>1, PublicationAssumption DEF Source
    <2>2. CASE s > t /\ statuses[r][s] = "SKIP_MATCHED"
        BY <1>1, <1>2, <2>2, PublicationAssumption DEF Settled, Found, Source
    <2>3. CASE s > t /\ statuses[r][s] = "CREATE"
        <3>1. SUFFICES ASSUME Exists(s) PROVE FALSE
            BY <1>1, <1>2, <2>3, PublicationAssumption DEF Exists, Source
        <3>2. PICK q \in Run : s \in written[q]
            BY <2>3, <3>1 DEF InOrder
        <3>3. Exists(t)
            BY <1>1, <2>3, <3>2, PublicationAssumption DEF InOrder, Source
        <3> QED
            BY <1>1, <3>3
    <2>4. statuses[r][s] \in {"SKIP_MATCHED", "CREATE"}
        BY DEF Trusted, Loops
    <2> QED
        BY <1>1, <2>1, <2>2, <2>3, <2>4, PublicationAssumption DEF Source
<1> QED
    BY <1>1, <1>6, <1>7, <1>8, <1>9 DEF InOrder

LEMMA GaplessStep ==
    ASSUME TypeOK, Gapless, Settled, \A r \in Run : Trusted(r), [Next]_vars
    PROVE  Gapless'
<1> SUFFICES ASSUME changes' = 0 PROVE InOrder'
    BY DEF Gapless
<1>1. changes = 0 /\ ~AdminStep /\ UNCHANGED payloads
    BY DEF Next, Step, ReadWorksheets, DescribeSecret, GetSecretObject, SkipMatched,
        CreateSecret, VerifyCreated, Kill, AdminStep, vars, local, TypeOK
<1>2. InOrder
    BY <1>1 DEF Gapless
<1>3. CASE UNCHANGED vars
    BY <1>2, <1>3, QuietInOrder DEF vars, local, remote, Running
<1>4. ASSUME NEW r \in Run, Step(r) \/ Kill(r)
      PROVE  InOrder'
    <2>1. \A q \in Run \ {r} : Same(q)
        BY <1>4 DEF Same, Step, ReadWorksheets, DescribeSecret, GetSecretObject, SkipMatched,
            CreateSecret, VerifyCreated, Kill, Classify, NextSource, Goto, Exit, TypeOK
    <2>2. CASE ReadWorksheets(r) /\ pc[r] = "read"
        <3>1. Running(r)' => Consistent(payloads[r])
            BY <2>2 DEF ReadWorksheets, Exit, Running, TypeOK
        <3>2. UNCHANGED <<store, written, statuses>>
            BY <2>2 DEF ReadWorksheets, remote
        <3> QED
            BY <1>1, <1>2, <2>1, <3>1, <3>2, QuietInOrder DEF Same, Running
    <2>3. CASE DescribeSecret(r) \/ GetSecretObject(r)
        <3>1. Running(r) /\ UNCHANGED <<store, written>>
            BY <2>3 DEF DescribeSecret, GetSecretObject, Running, remote
        <3>2. ASSUME NEW s \in Source, statuses'[r][s] = "CREATE"
              PROVE  statuses[r][s] = "CREATE" \/ ~Exists(s)
            BY <2>3, <3>2 DEF DescribeSecret, GetSecretObject, Classify, TypeOK
        <3> QED
            BY <1>1, <1>2, <2>1, <3>1, <3>2, QuietInOrder DEF Same, Running
    <2>4. CASE \/ SkipMatched(r) \/ VerifyCreated(r) \/ Kill(r)
               \/ CreateSecret(r) /\ UNCHANGED <<store, written>>
        <3>1. Running(r) /\ UNCHANGED <<store, written, statuses>>
            BY <2>4 DEF SkipMatched, VerifyCreated, Kill, CreateSecret, Running, remote
        <3> QED
            BY <1>1, <1>2, <2>1, <3>1, QuietInOrder DEF Same, Running
    <2>5. CASE CreateSecret(r) /\ Creatable(at[r])
               /\ store' = [store EXCEPT ![at[r]] = payloads[r][at[r]]]
               /\ written' = [written EXCEPT ![r] = @ \cup {at[r]}]
        BY <1>1, <1>2, <2>1, <2>5, CreateInOrder DEF CreateSecret, Same
    <2> QED
        BY <1>4, <2>2, <2>3, <2>4, <2>5 DEF Step, ReadWorksheets, CreateSecret
<1> QED
    BY <1>1, <1>3, <1>4 DEF Next

THEOREM StaysGapless == Spec => []Gapless
<1>1. Init => Gapless
    BY InOrderInit DEF Gapless
<1>2. ASSUME TypeOK, Settled, \A r \in Run : Trusted(r), Gapless, [Next]_vars
      PROVE  Gapless'
    BY <1>2, GaplessStep
<1> QED
    BY <1>1, <1>2, Settles, Trust, PTL DEF Spec

\* What is in Secrets Manager agrees with one run's worksheets, and so keeps
\* the rules that the worksheets keep.
LEMMA AgreeingValues ==
    ASSUME NEW r \in Run, \A s \in Source : store[s] \in {Missing, payloads[r][s]},
           NEW group \in Apart \cup Alike, NEW place \in group, Held(place)
    PROVE  ValuesAt(store, place) = ValuesAt(payloads[r], place)
<1>1. \A i \in DOMAIN place : store[place[i][1]] = payloads[r][place[i][1]]
    BY PublicationAssumption DEF Held, Exists
<1> QED
    BY <1>1 DEF ValuesAt

LEMMA AgreeingRules ==
    ASSUME NEW r \in Run, Consistent(payloads[r]),
           \A s \in Source : store[s] \in {Missing, payloads[r][s]}
    PROVE  Unmixed /\ RulesHold
<1>1. Unmixed
    BY DEF Unmixed
<1>2. ASSUME NEW group \in Apart, NEW a \in group, NEW b \in group, a # b, Held(a), Held(b)
      PROVE  ValuesAt(store, a) # ValuesAt(store, b)
    BY <1>2, AgreeingValues DEF Consistent, Distinct
<1>3. ASSUME NEW group \in Alike, NEW a \in group, NEW b \in group, Held(a), Held(b)
      PROVE  ValuesAt(store, a) = ValuesAt(store, b)
    BY <1>3, AgreeingValues DEF Consistent
<1> QED
    BY <1>1, <1>2, <1>3 DEF RulesHold

\* Two runs that both say "published" had the same worksheets, and what has
\* been created is never a mixture of two worksheets.
THEOREM OneWins == Spec => []OneWorksheetWins
<1>1. TypeOK /\ Settled /\ Gapless => OneWorksheetWins
    <2> SUFFICES ASSUME TypeOK, Settled, Gapless, changes = 0
                 PROVE  /\ \A r, q \in Run :
                               report[r] = "published" /\ report[q] = "published" =>
                                   payloads[r] = payloads[q]
                        /\ (\E r \in Run : written[r] # {}) => Unmixed /\ RulesHold
        BY DEF OneWorksheetWins
    <2>1. ASSUME NEW r \in Run, NEW q \in Run,
                 report[r] = "published", report[q] = "published"
          PROVE  payloads[r] = payloads[q]
        <3>1. \A s \in Source : payloads[r][s] = payloads[q][s]
            BY <2>1 DEF Settled, Made
        <3>2. payloads[r] \in [Source -> Payload] /\ payloads[q] \in [Source -> Payload]
            BY PublicationAssumption DEF TypeOK
        <3> QED
            BY <3>1, <3>2
    <2>2. ASSUME \E r \in Run : written[r] # {}
          PROVE  Unmixed /\ RulesHold
        BY <2>2, AgreeingRules DEF Gapless, InOrder
    <2> QED
        BY <2>1, <2>2
<1> QED
    BY <1>1, Settles, StaysGapless, PTL
=============================================================================
