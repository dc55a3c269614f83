------------------------ MODULE PlayHandlers_proofs ------------------------
(***************************************************************************)
(* Proofs about PlayHandlers: for any number of changes of the settings,   *)
(* plays, runs of the script and reboots.                                  *)
(*                                                                         *)
(* A setting that is on the server and not in effect is always waiting for *)
(* its handler, or its handler has been forgotten, or its service is not   *)
(* there yet (Pending).  The rest says how far the play is.                *)
(***************************************************************************)
EXTENDS PlayHandlers, TLAPS

\* Where the play writes a setting, and where its handler has to run.
WrittenAt == [sshd |-> 1, journald |-> 5, kernel |-> 7, k3s |-> 9, secret |-> 14]
FlushedAt == [sshd |-> 3, journald |-> 8, kernel |-> 8, k3s |-> 12, secret |-> 15]

TypeOK ==
    /\ wanted \in [Setting -> Nat \ {0}] /\ file \in [Setting -> Nat]
    /\ running \in [Setting -> Nat]
    /\ at \in 0..16 /\ notified \in SUBSET Setting /\ lost \in SUBSET Setting
    /\ script \in {"idle", "apply", "restart", "done"}

\* What the play has written stays as it is wanted.
FilesWritten ==
    \A s \in Setting : WrittenAt[s] < at \/ outcome = "green" => file[s] = wanted[s]

\* A notification does not outlive the flush that follows it.
NotifiedInTime ==
    \A s \in notified : WrittenAt[s] < at /\ at <= FlushedAt[s]

NotThere(s) ==
    \/ s = "secret" /\ (~deployed \/ script = "restart")
    \/ s = "k3s" /\ running[s] = 0

Pending ==
    \A s \in Setting : running[s] = file[s] \/ s \in notified \cup lost \/ NotThere(s)

ServicesUp ==
    /\ at > 10 \/ outcome = "green" => running["k3s"] # 0
    /\ deployed => running["secret"] # 0 /\ file["secret"] # 0

GreenAtEnd == outcome = "green" => at = 0

ScriptWrote ==
    /\ script \in {"restart", "done"} => file["secret"] = wanted["secret"]
    /\ script = "done" /\ deployed => running["secret"] = wanted["secret"]

IInv ==
    /\ TypeOK /\ FilesWritten /\ NotifiedInTime /\ Pending /\ ServicesUp /\ GreenAtEnd
    /\ ScriptWrote

-----------------------------------------------------------------------------
LEMMA Places ==
    /\ Len(Play) = 16
    /\ Play[1] = "sshd" /\ Play[2] = "verify" /\ Play[3] = "flush" /\ Play[4] = "revoke"
    /\ Play[5] = "journald" /\ Play[6] = "verify" /\ Play[7] = "kernel" /\ Play[8] = "flush"
    /\ Play[9] = "k3s" /\ Play[10] = "install" /\ Play[11] = "start" /\ Play[12] = "flush"
    /\ Play[13] = "verify" /\ Play[14] = "secret" /\ Play[15] = "flush" /\ Play[16] = "gitops"
BY DEF Play

\* Each step has its places in the play.
LEMMA ComesAt ==
    ASSUME at \in 0..16
    PROVE  /\ \A s \in Setting : Coming(s) => at = WrittenAt[s]
           /\ Coming("flush") => at \in {3, 8, 12, 15}
           /\ Coming("install") => at = 10
           /\ Coming("start") => at = 11
           /\ Coming("revoke") => at = 4
           /\ Coming("gitops") => at = 16
           /\ Coming("verify") => at \in {2, 6, 13}
<1>1. \/ at = 0 \/ at = 1 \/ at = 2 \/ at = 3 \/ at = 4 \/ at = 5 \/ at = 6 \/ at = 7 \/ at = 8
      \/ at = 9 \/ at = 10 \/ at = 11 \/ at = 12 \/ at = 13 \/ at = 14 \/ at = 15 \/ at = 16
    OBVIOUS
<1> QED
    BY <1>1, Places DEF Coming, Setting, WrittenAt

LEMMA AheadStep ==
    ASSUME at \in 0..16, at > 0, Ahead
    PROVE  /\ at < 16 => at' = at + 1 /\ outcome' = outcome
           /\ at = 16 => at' = 0 /\ outcome' = "green"
           /\ at' \in 0..16 /\ script' = script
BY Places DEF Ahead

LEMMA InitInv == Init => IInv
<1> SUFFICES ASSUME Init PROVE IInv
    OBVIOUS
<1>1. TypeOK
    BY DEF Init, TypeOK
<1>2. FilesWritten /\ NotifiedInTime
    BY DEF Init, FilesWritten, NotifiedInTime, Setting, WrittenAt
<1>3. Pending /\ GreenAtEnd
    BY DEF Init, Pending, GreenAtEnd
<1>4. ServicesUp /\ ScriptWrote
    BY DEF Init, ServicesUp, ScriptWrote
<1> QED
    BY <1>1, <1>2, <1>3, <1>4 DEF IInv

LEMMA WriteStep ==
    ASSUME IInv, NEW s \in Setting, WriteSetting(s)
    PROVE  IInv'
<1> USE DEF Setting
<1>1. /\ TypeOK /\ FilesWritten /\ NotifiedInTime /\ Pending /\ ServicesUp /\ GreenAtEnd
      /\ ScriptWrote
    BY DEF IInv
<1>2. at = WrittenAt[s] /\ at > 0 /\ at < 16
    BY <1>1, ComesAt DEF TypeOK, WriteSetting, Coming, WrittenAt
<1>3. at' = at + 1 /\ outcome' = outcome /\ script' = script /\ outcome # "green"
    BY <1>1, <1>2, AheadStep DEF TypeOK, WriteSetting, GreenAtEnd
<1>4. /\ file' = [file EXCEPT ![s] = wanted[s]] /\ UNCHANGED <<wanted, running, deployed, lost>>
      /\ notified' = IF file[s] # wanted[s] THEN notified \cup {s} ELSE notified
    BY DEF WriteSetting, Notified
<1>5. /\ file'[s] = wanted[s] /\ \A r \in Setting : r # s => file'[r] = file[r]
      /\ file[s] = wanted[s] => file' = file
    BY <1>1, <1>4 DEF TypeOK
<1>6. TypeOK'
    BY <1>1, <1>2, <1>3, <1>4 DEF TypeOK
<1>7. FilesWritten'
    BY <1>1, <1>2, <1>3, <1>4, <1>5 DEF FilesWritten, WrittenAt, TypeOK
<1>8. NotifiedInTime'
    BY <1>1, <1>2, <1>3, <1>4 DEF NotifiedInTime, WrittenAt, FlushedAt, TypeOK
<1>9. Pending'
    BY <1>1, <1>3, <1>4, <1>5 DEF Pending, NotThere
<1>10. ServicesUp' /\ GreenAtEnd' /\ ScriptWrote'
    BY <1>1, <1>2, <1>3, <1>4, <1>5 DEF ServicesUp, GreenAtEnd, ScriptWrote, TypeOK, WrittenAt
<1> QED
    BY <1>6, <1>7, <1>8, <1>9, <1>10 DEF IInv

\* A service that reads its setting runs with it.
LEMMA Reads ==
    ASSUME NEW services, ReadBy(services), running \in [Setting -> Nat], file \in [Setting -> Nat]
    PROVE  /\ running' \in [Setting -> Nat]
           /\ \A s \in Setting : running'[s] = IF s \in services THEN file[s] ELSE running[s]
           /\ lost' = lost \ services
BY DEF ReadBy

LEMMA FlushStep ==
    ASSUME IInv, Flush
    PROVE  IInv'
<1> USE DEF Setting
<1>1. /\ TypeOK /\ FilesWritten /\ NotifiedInTime /\ Pending /\ ServicesUp /\ GreenAtEnd
      /\ ScriptWrote
    BY DEF IInv
<1>2. at \in {3, 8, 12, 15}
    BY <1>1, ComesAt DEF TypeOK, Flush
<1>3. at' = at + 1 /\ outcome' = outcome /\ script' = script /\ outcome # "green"
    BY <1>1, <1>2, AheadStep DEF TypeOK, Flush, GreenAtEnd
<1>4. notified' = {} /\ UNCHANGED <<wanted, file, deployed>>
    BY DEF Flush
<1>5. /\ running' \in [Setting -> Nat]
      /\ \A s \in Setting :
             running'[s] = IF s \in Restarted(notified) THEN file[s] ELSE running[s]
      /\ lost' = lost \ Restarted(notified)
    BY <1>1, Reads DEF Flush, TypeOK
<1>6. \A s \in notified : s \in Restarted(notified) \/ (s = "secret" /\ ~deployed)
    BY DEF Restarted
<1>7. Restarted(notified) \subseteq notified
    BY DEF Restarted
<1>8. TypeOK'
    <2>1. lost' \subseteq lost
        BY <1>5
    <2>2. lost' \in SUBSET Setting
        BY <1>1, <2>1 DEF TypeOK
    <2>3. at' \in 0..16 /\ notified' \in SUBSET Setting /\ script' \in {"idle", "apply", "restart", "done"}
        BY <1>1, <1>2, <1>3, <1>4 DEF TypeOK
    <2>4. wanted' \in [Setting -> Nat \ {0}] /\ file' \in [Setting -> Nat]
        BY <1>1, <1>4 DEF TypeOK
    <2> QED
        BY <1>5, <2>2, <2>3, <2>4 DEF TypeOK
<1>9. FilesWritten' /\ NotifiedInTime'
    BY <1>1, <1>2, <1>3, <1>4 DEF FilesWritten, NotifiedInTime, WrittenAt
<1>10. Pending'
    BY <1>1, <1>3, <1>4, <1>5, <1>6 DEF Pending, NotThere
<1>11. \A s \in notified : file[s] = wanted[s] /\ file[s] # 0
    BY <1>1 DEF NotifiedInTime, FilesWritten, TypeOK
<1>12. ServicesUp' /\ GreenAtEnd' /\ ScriptWrote'
    BY <1>1, <1>2, <1>3, <1>4, <1>5, <1>7, <1>11 DEF ServicesUp, GreenAtEnd, ScriptWrote
<1> QED
    BY <1>8, <1>9, <1>10, <1>12 DEF IInv

LEMMA K3sStep ==
    ASSUME IInv, InstallK3s \/ StartK3s
    PROVE  IInv'
<1> USE DEF Setting
<1>1. /\ TypeOK /\ FilesWritten /\ NotifiedInTime /\ Pending /\ ServicesUp /\ GreenAtEnd
      /\ ScriptWrote
    BY DEF IInv
<1>2. at \in {10, 11}
    BY <1>1, ComesAt DEF TypeOK, InstallK3s, StartK3s
<1>3. at' = at + 1 /\ outcome' = outcome /\ script' = script /\ outcome # "green"
    BY <1>1, <1>2, AheadStep DEF TypeOK, InstallK3s, StartK3s, GreenAtEnd
<1>4. UNCHANGED <<wanted, file, deployed, notified>>
    BY DEF InstallK3s, StartK3s
<1>5. \E services \in SUBSET {"k3s"} :
          /\ running' \in [Setting -> Nat]
          /\ \A s \in Setting : running'[s] = IF s \in services THEN file[s] ELSE running[s]
          /\ lost' = lost \ services
          /\ "k3s" \in services \/ running["k3s"] # 0
    <2>1. CASE InstallK3s /\ UNCHANGED <<running, lost>> /\ running["k3s"] # 0
        <3> WITNESS {} \in SUBSET {"k3s"}
        <3> QED
            BY <1>1, <2>1 DEF TypeOK
    <2>2. CASE ReadBy({"k3s"})
        <3> WITNESS {"k3s"} \in SUBSET {"k3s"}
        <3> QED
            BY <1>1, <2>2, Reads DEF TypeOK
    <2>3. CASE StartK3s /\ running["k3s"] # 0
        <3> WITNESS {} \in SUBSET {"k3s"}
        <3>1. ReadBy({})
            BY <2>3 DEF StartK3s
        <3> QED
            BY <1>1, <2>3, <3>1, Reads DEF TypeOK
    <2> QED
        BY <2>1, <2>2, <2>3 DEF InstallK3s, StartK3s
<1>6. file["k3s"] # 0
    BY <1>1, <1>2 DEF FilesWritten, WrittenAt, TypeOK
<1>7. running'["k3s"] # 0 /\ running'["secret"] = running["secret"]
    BY <1>5, <1>6
<1>8. TypeOK'
    BY <1>1, <1>2, <1>3, <1>4, <1>5 DEF TypeOK
<1>9. FilesWritten' /\ NotifiedInTime'
    BY <1>1, <1>2, <1>3, <1>4 DEF FilesWritten, NotifiedInTime, WrittenAt, FlushedAt, TypeOK
<1>10. Pending'
    BY <1>1, <1>3, <1>4, <1>5 DEF Pending, NotThere
<1>11. ServicesUp' /\ GreenAtEnd' /\ ScriptWrote'
    BY <1>1, <1>3, <1>4, <1>7 DEF ServicesUp, GreenAtEnd, ScriptWrote
<1> QED
    BY <1>8, <1>9, <1>10, <1>11 DEF IInv

LEMMA OtherStepStep ==
    ASSUME IInv, OtherStep
    PROVE  IInv'
<1> USE DEF Setting
<1>1. /\ TypeOK /\ FilesWritten /\ NotifiedInTime /\ Pending /\ ServicesUp /\ GreenAtEnd
      /\ ScriptWrote
    BY DEF IInv
<1>2. at \in {2, 4, 6, 13, 16}
    BY <1>1, ComesAt DEF TypeOK, OtherStep
<1>3. /\ at < 16 => at' = at + 1 /\ outcome' = outcome
      /\ at = 16 => at' = 0 /\ outcome' = "green"
      /\ at' \in 0..16 /\ script' = script /\ outcome # "green"
    BY <1>1, <1>2, AheadStep DEF TypeOK, OtherStep, GreenAtEnd
<1>4. UNCHANGED <<wanted, file, running, deployed, notified, lost>>
    BY DEF OtherStep, host
<1>5. TypeOK' /\ Pending'
    BY <1>1, <1>3, <1>4 DEF TypeOK, Pending, NotThere
<1>6. FilesWritten' /\ NotifiedInTime'
    BY <1>1, <1>2, <1>3, <1>4 DEF FilesWritten, NotifiedInTime, WrittenAt, FlushedAt, TypeOK
<1>7. ServicesUp' /\ GreenAtEnd' /\ ScriptWrote'
    BY <1>1, <1>2, <1>3, <1>4 DEF ServicesUp, GreenAtEnd, ScriptWrote
<1> QED
    BY <1>5, <1>6, <1>7 DEF IInv

LEMMA FailPlayStep ==
    ASSUME IInv, FailPlay
    PROVE  IInv'
<1> USE DEF Setting
<1>1. /\ TypeOK /\ FilesWritten /\ NotifiedInTime /\ Pending /\ ServicesUp /\ GreenAtEnd
      /\ ScriptWrote
    BY DEF IInv
<1>2. /\ at' = 0 /\ notified' = {} /\ outcome' = "failed" /\ UNCHANGED <<wanted, deployed, script>>
      /\ lost' = {s \in lost \cup notified \cup {Play[at]} :
                     s \in Setting /\ running'[s] # file'[s]}
    BY DEF FailPlay
<1>3. PICK wrote \in SUBSET ({Play[at]} \cap Setting),
           done \in SUBSET RestartedBy(Play[at]) :
           /\ file' = [s \in Setting |-> IF s \in wrote THEN wanted[s] ELSE file[s]]
           /\ running' = [s \in Setting |-> IF s \in done THEN file[s] ELSE running[s]]
    BY DEF FailPlay
<1>4. done \subseteq Setting /\ \A s \in done : s \in notified \/ (s = "k3s" /\ at \in {10, 11})
    <2>1. Play[at] = "install" => at = 10
        BY <1>1, ComesAt DEF TypeOK, FailPlay, Coming
    <2>2. Play[at] = "start" => at = 11
        BY <1>1, ComesAt DEF TypeOK, FailPlay, Coming
    <2> QED
        BY <2>1, <2>2 DEF Restarted, RestartedBy
<1>5. \A s \in done : file[s] = wanted[s] /\ file[s] # 0
    BY <1>1, <1>4 DEF NotifiedInTime, FilesWritten, TypeOK, WrittenAt
<1>6. file' \in [Setting -> Nat] /\ running' \in [Setting -> Nat]
    BY <1>1, <1>3 DEF TypeOK
<1>7. /\ \A s \in Setting : file'[s] = file[s] \/ (s = Play[at] /\ file'[s] = wanted[s])
      /\ \A s \in Setting : running'[s] = IF s \in done THEN file[s] ELSE running[s]
    BY <1>3
<1>8. TypeOK'
    BY <1>1, <1>2, <1>6 DEF TypeOK
<1>9. FilesWritten' /\ NotifiedInTime' /\ GreenAtEnd'
    BY <1>2 DEF FilesWritten, NotifiedInTime, GreenAtEnd, WrittenAt
<1>10. Pending'
    <2> SUFFICES ASSUME NEW s \in Setting, running'[s] # file'[s], s \notin lost'
                 PROVE  NotThere(s)'
        BY DEF Pending
    <2>1. s \notin lost \cup notified /\ s # Play[at]
        BY <1>2
    <2>2. running'[s] = running[s] /\ file'[s] = file[s]
        BY <1>7, <2>1
    <2> QED
        BY <1>1, <1>2, <2>1, <2>2 DEF Pending, NotThere
<1>11. ServicesUp' /\ ScriptWrote'
    BY <1>1, <1>2, <1>5, <1>7 DEF ServicesUp, ScriptWrote, TypeOK
<1> QED
    BY <1>8, <1>9, <1>10, <1>11 DEF IInv

LEMMA RebootStep ==
    ASSUME IInv, Reboot
    PROVE  IInv'
<1> USE DEF Setting
<1>1. /\ TypeOK /\ FilesWritten /\ NotifiedInTime /\ Pending /\ ServicesUp /\ GreenAtEnd
      /\ ScriptWrote
    BY DEF IInv
<1>2. /\ at' = 0 /\ notified' = {} /\ outcome' = IF at > 0 THEN "failed" ELSE outcome
      /\ UNCHANGED <<wanted, file, deployed, script>>
    BY DEF Reboot
<1> DEFINE up == {s \in Setting : s \in {"k3s", "secret"} => running[s] # 0}
<1>3. /\ running' \in [Setting -> Nat]
      /\ \A s \in Setting : running'[s] = IF s \in up THEN file[s] ELSE running[s]
      /\ lost' = lost \ up
    <2>1. ReadBy(up)
        BY DEF Reboot
    <2> QED
        BY <1>1, <2>1, Reads DEF TypeOK
<1>4. TypeOK'
    <2>1. lost' \subseteq lost
        BY <1>3
    <2> HIDE DEF up
    <2>2. lost' \in SUBSET Setting
        BY <1>1, <2>1 DEF TypeOK
    <2>3. at' \in 0..16 /\ notified' \in SUBSET Setting /\ script' \in {"idle", "apply", "restart", "done"}
        BY <1>1, <1>2 DEF TypeOK
    <2>4. wanted' \in [Setting -> Nat \ {0}] /\ file' \in [Setting -> Nat]
        BY <1>1, <1>2 DEF TypeOK
    <2> QED
        BY <1>3, <2>2, <2>3, <2>4 DEF TypeOK
<1>5. FilesWritten' /\ NotifiedInTime' /\ GreenAtEnd'
    BY <1>1, <1>2 DEF FilesWritten, NotifiedInTime, GreenAtEnd, WrittenAt
<1>6. Pending'
    BY <1>1, <1>2, <1>3 DEF Pending, NotThere, ServicesUp
<1>7. ServicesUp' /\ ScriptWrote'
    <2>1. outcome' = "green" => file["k3s"] # 0
        BY <1>1, <1>2 DEF FilesWritten, TypeOK
    <2> QED
        BY <1>1, <1>2, <1>3, <2>1 DEF ServicesUp, ScriptWrote
<1> QED
    BY <1>4, <1>5, <1>6, <1>7 DEF IInv

LEMMA DeployStep ==
    ASSUME IInv, Deploy
    PROVE  IInv'
<1> USE DEF Setting
<1>1. /\ TypeOK /\ FilesWritten /\ NotifiedInTime /\ Pending /\ ServicesUp /\ GreenAtEnd
      /\ ScriptWrote
    BY DEF IInv
<1>2. /\ deployed' = TRUE /\ outcome = "green"
      /\ UNCHANGED <<wanted, file, at, notified, outcome, script>>
    BY DEF Deploy
<1>3. /\ running' \in [Setting -> Nat]
      /\ \A s \in Setting : running'[s] = IF s = "secret" THEN file[s] ELSE running[s]
      /\ lost' = lost \ {"secret"}
    <2>1. ReadBy({"secret"})
        BY DEF Deploy
    <2> QED
        BY <1>1, <2>1, Reads DEF TypeOK
<1>4. file["secret"] # 0
    BY <1>1, <1>2 DEF FilesWritten, TypeOK
<1>5. TypeOK' /\ FilesWritten' /\ NotifiedInTime' /\ GreenAtEnd'
    BY <1>1, <1>2, <1>3 DEF TypeOK, FilesWritten, NotifiedInTime, GreenAtEnd
<1>6. Pending' /\ ServicesUp' /\ ScriptWrote'
    BY <1>1, <1>2, <1>3, <1>4 DEF Pending, NotThere, ServicesUp, ScriptWrote
<1> QED
    BY <1>5, <1>6 DEF IInv

\* The script, and what people change.
LEMMA ScriptStep ==
    ASSUME IInv, StartScript \/ Apply \/ RestartByScript \/ FailScript
    PROVE  IInv'
<1> USE DEF Setting
<1>1. /\ TypeOK /\ FilesWritten /\ NotifiedInTime /\ Pending /\ ServicesUp /\ GreenAtEnd
      /\ ScriptWrote
    BY DEF IInv
<1>2. UNCHANGED <<wanted, deployed, at, notified, outcome>>
    BY DEF StartScript, Apply, RestartByScript, FailScript, host
<1>3. CASE StartScript
    BY <1>1, <1>2, <1>3 DEF StartScript, host, IInv, TypeOK, FilesWritten, NotifiedInTime, Pending,
        NotThere, ServicesUp, GreenAtEnd, ScriptWrote
<1>4. CASE Apply
    <2>1. /\ script' = "restart" /\ UNCHANGED <<running, lost>>
          /\ file' = [file EXCEPT !["secret"] = wanted["secret"]]
        BY <1>4 DEF Apply, Then
    <2>2. /\ file'["secret"] = wanted["secret"]
          /\ \A s \in Setting : s # "secret" => file'[s] = file[s]
        BY <1>1, <2>1 DEF TypeOK
    <2>3. TypeOK'
        BY <1>1, <1>2, <2>1 DEF TypeOK
    <2>4. FilesWritten' /\ NotifiedInTime' /\ GreenAtEnd'
        BY <1>1, <1>2, <2>2 DEF FilesWritten, NotifiedInTime, GreenAtEnd
    <2>5. Pending' /\ ServicesUp' /\ ScriptWrote'
        BY <1>1, <1>2, <2>1, <2>2 DEF Pending, NotThere, ServicesUp, ScriptWrote, TypeOK
    <2> QED
        BY <2>3, <2>4, <2>5 DEF IInv
<1>5. CASE RestartByScript
    <2>1. script = "restart" /\ script' = "done" /\ file' = file
        BY <1>5 DEF RestartByScript
    <2>2. /\ running' \in [Setting -> Nat]
          /\ \A s \in Setting :
                 running'[s] = IF s \in Restarted({"secret"}) THEN file[s] ELSE running[s]
          /\ lost' = lost \ Restarted({"secret"})
        BY <1>1, <1>5, Reads DEF RestartByScript, TypeOK
    <2>3. Restarted({"secret"}) = IF deployed THEN {"secret"} ELSE {}
        BY DEF Restarted
    <2>4. TypeOK' /\ FilesWritten' /\ NotifiedInTime' /\ GreenAtEnd'
        BY <1>1, <1>2, <2>1, <2>2 DEF TypeOK, FilesWritten, NotifiedInTime, GreenAtEnd
    <2>5. Pending' /\ ServicesUp' /\ ScriptWrote'
        BY <1>1, <1>2, <2>1, <2>2, <2>3 DEF Pending, NotThere, ServicesUp, ScriptWrote
    <2> QED
        BY <2>4, <2>5 DEF IInv
<1>6. CASE FailScript
    <2>1. /\ script' = "idle" /\ UNCHANGED <<file, running>>
          /\ lost' = lost \cup {s \in {"secret"} : running[s] # file[s]}
        BY <1>6 DEF FailScript, host
    <2> QED
        BY <1>1, <1>2, <2>1 DEF IInv, TypeOK, FilesWritten, NotifiedInTime, Pending, NotThere,
            ServicesUp, GreenAtEnd, ScriptWrote
<1> QED
    BY <1>3, <1>4, <1>5, <1>6

LEMMA ChangeStep ==
    ASSUME IInv, NEW s \in Setting, Change(s)
    PROVE  IInv'
<1>1. /\ at = 0 /\ outcome' = "none" /\ script' = "idle"
      /\ script \in {"idle", "done"} /\ wanted' = [wanted EXCEPT ![s] = @ + 1]
      /\ UNCHANGED <<file, running, deployed, at, notified, lost>>
    BY DEF Change
<1>2. wanted' \in [Setting -> Nat \ {0}]
    BY <1>1 DEF IInv, TypeOK
<1>3. \A r \in Setting : WrittenAt[r] > 0
    BY DEF Setting, WrittenAt
<1>4. FilesWritten'
    BY <1>1, <1>3 DEF FilesWritten, Setting, WrittenAt
<1> QED
    BY <1>1, <1>2, <1>4 DEF IInv, TypeOK, NotifiedInTime, Pending, NotThere,
        ServicesUp, GreenAtEnd, ScriptWrote

LEMMA StartPlayStep ==
    ASSUME IInv, StartPlay
    PROVE  IInv'
<1>1. /\ at = 0 /\ at' = 1 /\ outcome' = "none"
      /\ UNCHANGED <<wanted, file, running, deployed, notified, script, lost>>
    BY DEF StartPlay, host
<1>2. notified = {}
    BY <1>1 DEF IInv, TypeOK, NotifiedInTime, Setting, WrittenAt
<1>3. FilesWritten'
    BY <1>1 DEF FilesWritten, Setting, WrittenAt
<1> QED
    BY <1>1, <1>2, <1>3 DEF IInv, TypeOK, NotifiedInTime, Pending, NotThere,
        ServicesUp, GreenAtEnd, ScriptWrote

-----------------------------------------------------------------------------
\* Whatever fails and whenever the server reboots, a setting that is not in
\* effect is accounted for as IInv says.
THEOREM Invariance == Spec => []IInv
<1>1. IInv /\ [Next]_vars => IInv'
    <2> SUFFICES ASSUME IInv, [Next]_vars PROVE IInv'
        OBVIOUS
    <2>1. CASE UNCHANGED vars
        BY <2>1 DEF vars, host, IInv, TypeOK, FilesWritten, NotifiedInTime, Pending, NotThere,
            ServicesUp, GreenAtEnd, ScriptWrote
    <2> QED
        BY <2>1, WriteStep, FlushStep, K3sStep, OtherStepStep, FailPlayStep, RebootStep, DeployStep,
           ScriptStep, ChangeStep, StartPlayStep DEF Next
<1> QED
    BY InitInv, <1>1, PTL DEF Spec

\* Revocation, K3s and GitOps come after the settings they build on are in
\* effect (the flush_handlers tasks of the roles), unless a failure before has
\* forgotten a handler.
THEOREM StepsFind == Spec => []StepsFindSettings
<1>1. IInv => StepsFindSettings
    <2> SUFFICES ASSUME IInv, NEW step \in DOMAIN BuildsOn, Coming(step), NEW s \in BuildsOn[step]
                 PROVE  InEffect(s) \/ Excused(s)
        BY DEF StepsFindSettings
    <2>1. at \in 0..16
        BY DEF IInv, TypeOK
    <2>2. /\ s \in Setting /\ WrittenAt[s] < at /\ FlushedAt[s] < at
          /\ s = "k3s" => at > 10
        BY <2>1, ComesAt DEF BuildsOn, Setting, WrittenAt, FlushedAt
    <2>3. file[s] = wanted[s] /\ s \notin notified
        BY <2>1, <2>2 DEF IInv, FilesWritten, NotifiedInTime, Setting, FlushedAt
    <2>4. s = "k3s" => running[s] # 0
        BY <2>2 DEF IInv, ServicesUp
    <2> QED
        BY <2>2, <2>3, <2>4 DEF IInv, Pending, NotThere, InEffect, Excused
<1> QED
    BY Invariance, <1>1, PTL

\* After a green play every service runs with what the repository wants, unless
\* an earlier failure has forgotten its handler.
THEOREM GreenIsTrue == Spec => []GreenMeansInEffect
<1>1. IInv => GreenMeansInEffect
    <2> SUFFICES ASSUME IInv, outcome = "green", NEW s \in Setting
                 PROVE  file[s] = wanted[s] /\ (InEffect(s) \/ Excused(s))
        BY DEF GreenMeansInEffect
    <2>1. file[s] = wanted[s] /\ at = 0 /\ running["k3s"] # 0
        BY DEF IInv, FilesWritten, GreenAtEnd, ServicesUp
    <2>2. s \notin notified
        BY <2>1 DEF IInv, NotifiedInTime, Setting, WrittenAt
    <2> QED
        BY <2>1, <2>2 DEF IInv, Pending, NotThere, InEffect, Excused
<1> QED
    BY Invariance, <1>1, PTL

\* Once the script has ended well, External Secrets runs with the credential.
THEOREM ScriptCures == Spec => []ScriptHeals
<1>1. IInv => ScriptHeals
    BY DEF IInv, ScriptWrote, ScriptHeals, InEffect
<1> QED
    BY Invariance, <1>1, PTL
=============================================================================
