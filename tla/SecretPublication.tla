------------------------- MODULE SecretPublication -------------------------
(***************************************************************************)
(* scripts/bootstrap_aws_secrets.py: publish the three worksheets as AWS   *)
(* Secrets Manager sources, for External Secrets to read.                  *)
(*                                                                         *)
(* Runs are processes: a second operator may publish another checkout's    *)
(* worksheets at the same time, and a failed run is followed by another.   *)
(* They meet in Secrets Manager only, where administrators also rotate,    *)
(* delete and restore secrets.  Secrets Manager is outside the repository  *)
(* and is modelled from the calls the script makes.                        *)
(***************************************************************************)
EXTENDS Integers

CONSTANTS
    LastSource,     \* SECRET_SPECS are 1..LastSource, in the order of the loops
    Run,            \* the runs of the program, at any time, by anyone
    Payload,        \* JSON objects a source can hold
    Missing,        \* no such secret
    Sheet,          \* what the worksheets can hold: a payload for each source
    Malformed,      \* <<source, payload>> that are refused: an empty value, a
                    \* wrong format, a bot that is set up by half, too long
    Apart, Alike,   \* groups of places whose values must differ, or agree
    MaxChanges      \* bound: what administrators do in a behaviour

Source == 1..LastSource

ASSUME PublicationAssumption ==
    /\ LastSource \in Nat \ {0}
    /\ Missing \notin Payload
    /\ Sheet \subseteq [Source -> Payload]
    /\ \A group \in Apart \cup Alike : \A place \in group :
           \A i \in DOMAIN place : place[i][1] \in Source
    /\ MaxChanges \in Nat

VARIABLES
    store,      \* the value of each source in Secrets Manager
    doomed,     \* the sources with a DeletedDate: scheduled for deletion
    pc, at,
    payloads,   \* payloads: what the run read in the worksheets
    apply,      \* --apply was given
    statuses,
    report,     \* how the run ended
    written,    \* history: the sources this run has created
    touched,    \* history: the sources somebody else changed during the run
    changes

remote == <<store, doomed>>
local == <<pc, at, payloads, apply, statuses, report>>
vars == <<remote, local, written, touched, changes>>

PC == {"read", "describe", "fetch", "create", "verify", "exited"}
Status == {"UNKNOWN", "CREATE", "SKIP_MATCHED", "CONFLICT"}
Report == {"none", "published", "compared", "conflict", "failed"}

Exists(s) == store[s] # Missing
Readable(s) == Exists(s) /\ s \notin doomed

Init ==
    /\ store \in [Source -> Payload \cup {Missing}]
    /\ doomed \in SUBSET {s \in Source : Exists(s)}
    /\ pc = [r \in Run |-> "read"] /\ at = [r \in Run |-> 1]
    /\ payloads \in [Run -> Sheet]
    /\ apply \in [Run -> BOOLEAN]
    /\ statuses = [r \in Run |-> [s \in Source |-> "UNKNOWN"]]
    /\ report = [r \in Run |-> "none"]
    /\ written = [r \in Run |-> {}] /\ touched = [r \in Run |-> {}]
    /\ changes = 0

Running(r) == pc[r] \notin {"read", "exited"}

Exit(r, why) == /\ pc' = [pc EXCEPT ![r] = "exited"]
                /\ report' = [report EXCEPT ![r] = why]

\* A call of the AWS CLI that fails, or answers with something unexpected.
CallFails(r) == Exit(r, "failed") /\ UNCHANGED at

Goto(r, label, s) == /\ pc' = [pc EXCEPT ![r] = label]
                     /\ at' = [at EXCEPT ![r] = s]
                     /\ UNCHANGED report

-----------------------------------------------------------------------------
(***************************************************************************)
(* The decisions the program takes.  An operator marked as a fault is a    *)
(* mistake a change could make in the one below it; the properties must    *)
(* notice it.                                                              *)
(***************************************************************************)

\* A place is a sequence of <<source, property>>: one value or, for an access
\* key and its secret, two.  What one assignment gives to two sources is alike.
ValuesAt(values, place) == [i \in DOMAIN place |-> values[place[i][1]][place[i][2]]]

\* validate_worksheet_values
Distinct(values) ==     \* for Consistent a fault: shared values are not compared
    \A group \in Apart : \A a, b \in group :
        a # b => ValuesAt(values, a) # ValuesAt(values, b)

Consistent(values) ==
    /\ Distinct(values)
    /\ \A group \in Alike : \A a, b \in group : ValuesAt(values, a) = ValuesAt(values, b)

\* The other rules, and those of parse_env_text and build_payloads, look at
\* each source by itself.
Wellformed(values) == \A s \in Source : <<s, values[s]>> \notin Malformed

\* get_secret_object(spec.path) == payloads[spec.path]
MatchesAnything(r, s) == TRUE   \* fault: presence is enough

MatchesText(r, s) == FALSE  \* fault: JSON text is compared with an object

Matches(r, s) == store[s] = payloads[r][s]

\* The statuses that keep the writes from starting.
BlocksFirst(r, st) == st[1] = "CONFLICT"    \* fault: only the first one counts

Blocks(r, st) == \E s \in Source : st[s] = "CONFLICT"

\* create-secret refuses a name that is in use; put-secret-value would not.
Creatable(s) == ~Exists(s)

\* The end of the second loop's body.
NextSource(r) ==
    IF at[r] < LastSource THEN Goto(r, "create", at[r] + 1)
                          ELSE Exit(r, "published") /\ UNCHANGED at

-----------------------------------------------------------------------------
(***************************************************************************)
(* The first loop: look at every source, write nothing.                    *)
(***************************************************************************)

\* From here on the run works on what it has read.  It also fails if it is
\* not the right account, or a worksheet not a private, untracked file.
ReadWorksheets(r) ==
    /\ pc[r] = "read"
    /\ \/ Consistent(payloads[r]) /\ Wellformed(payloads[r]) /\ Goto(r, "describe", 1)
       \/ CallFails(r)
    /\ UNCHANGED <<remote, payloads, apply, statuses, written, touched, changes>>

\* The source has its status: on to the next one or, after the last, to the
\* end of a run that found a conflict or was asked only to compare, or to
\* the second loop.
Classify(r, status) ==
    LET st == [statuses[r] EXCEPT ![at[r]] = status]
    IN  /\ statuses' = [statuses EXCEPT ![r] = st]
        /\ IF at[r] < LastSource THEN Goto(r, "describe", at[r] + 1)
           ELSE IF Blocks(r, st) THEN Exit(r, "conflict") /\ UNCHANGED at
           ELSE IF ~apply[r] THEN Exit(r, "compared") /\ UNCHANGED at
           ELSE Goto(r, "create", 1)

DescribeSecret(r) ==
    /\ pc[r] = "describe"
    /\ \/ ~Exists(at[r]) /\ Classify(r, "CREATE")
       \/ at[r] \in doomed /\ Classify(r, "CONFLICT")
       \/ Readable(at[r]) /\ Goto(r, "fetch", at[r]) /\ UNCHANGED statuses
       \/ CallFails(r) /\ UNCHANGED statuses
    /\ UNCHANGED <<remote, payloads, apply, written, touched, changes>>

\* A second call, between which and describe-secret the source may change.
GetSecretObject(r) ==
    /\ pc[r] = "fetch"
    /\ \/ /\ Readable(at[r])
          /\ Classify(r, IF Matches(r, at[r]) THEN "SKIP_MATCHED" ELSE "CONFLICT")
       \/ CallFails(r) /\ UNCHANGED statuses
    /\ UNCHANGED <<remote, payloads, apply, written, touched, changes>>

-----------------------------------------------------------------------------
(***************************************************************************)
(* The second loop: create what was missing, and read it back.             *)
(***************************************************************************)
Skipped(r) == statuses[r][at[r]] = "SKIP_MATCHED"

SkipMatched(r) ==
    /\ pc[r] = "create" /\ Skipped(r)
    /\ NextSource(r)
    /\ UNCHANGED <<remote, payloads, apply, statuses, written, touched, changes>>

\* History: source s has changed under the runs that are going on.
Notice(by, s) ==
    touched' = [r \in Run |->
        IF r # by /\ Running(r) THEN touched[r] \cup {s} ELSE touched[r]]

\* create-secret.  Its answer may be lost after the secret was made, and
\* nothing already made is taken back.
CreateSecret(r) ==
    /\ pc[r] = "create" /\ ~Skipped(r)
    /\ \/ /\ Creatable(at[r])
          /\ store' = [store EXCEPT ![at[r]] = payloads[r][at[r]]]
          /\ written' = [written EXCEPT ![r] = @ \cup {at[r]}]
          /\ Notice(r, at[r])
          /\ Goto(r, "verify", at[r]) \/ CallFails(r)
       \/ CallFails(r) /\ UNCHANGED <<store, written, touched>>
    /\ UNCHANGED <<doomed, payloads, apply, statuses, changes>>

VerifyCreated(r) ==
    /\ pc[r] = "verify"
    /\ \/ Readable(at[r]) /\ Matches(r, at[r]) /\ NextSource(r)
       \/ CallFails(r)
    /\ UNCHANGED <<remote, payloads, apply, statuses, written, touched, changes>>

\* Ctrl-C, or a kill: the program has no handler and cleans nothing up.
Kill(r) ==
    /\ Running(r)
    /\ Exit(r, "failed")
    /\ UNCHANGED <<remote, at, payloads, apply, statuses, written, touched, changes>>

-----------------------------------------------------------------------------
(***************************************************************************)
(* Administrators and Secrets Manager.                                     *)
(***************************************************************************)
AdminStep ==
    /\ changes < MaxChanges /\ changes' = changes + 1
    /\ \E s \in Source :
          /\ \/ \* put-secret-value, the documented way to rotate
                /\ Readable(s) /\ UNCHANGED doomed
                /\ \E p \in Payload \ {store[s]} : store' = [store EXCEPT ![s] = p]
             \/ \* delete-secret
                /\ Readable(s) /\ doomed' = doomed \cup {s} /\ UNCHANGED store
             \/ \* restore-secret
                /\ s \in doomed /\ doomed' = doomed \ {s} /\ UNCHANGED store
             \/ \* the recovery window ends
                /\ s \in doomed /\ doomed' = doomed \ {s}
                /\ store' = [store EXCEPT ![s] = Missing]
          /\ touched' = [r \in Run |->
                IF Running(r) THEN touched[r] \cup {s} ELSE touched[r]]
    /\ UNCHANGED <<local, written>>

Step(r) ==
    \/ ReadWorksheets(r) \/ DescribeSecret(r) \/ GetSecretObject(r)
    \/ SkipMatched(r) \/ CreateSecret(r) \/ VerifyCreated(r)

Next == (\E r \in Run : Step(r) \/ Kill(r)) \/ AdminStep

Spec == Init /\ [][Next]_vars

-----------------------------------------------------------------------------
(***************************************************************************)
(* Properties.                                                             *)
(***************************************************************************)

TypeOK ==
    /\ store \in [Source -> Payload \cup {Missing}]
    /\ doomed \in SUBSET {s \in Source : Exists(s)}
    /\ pc \in [Run -> PC] /\ at \in [Run -> Source]
    /\ payloads \in [Run -> Sheet] /\ apply \in [Run -> BOOLEAN]
    /\ statuses \in [Run -> [Source -> Status]]
    /\ report \in [Run -> Report]
    /\ written \in [Run -> SUBSET Source] /\ touched \in [Run -> SUBSET Source]
    /\ changes \in 0..MaxChanges

\* "If any source is pending deletion or differs, no write is started": a run
\* that has written anything found every other source missing or equal to
\* its worksheets, so that all of Secrets Manager agrees with it but for what
\* others changed while it ran.
WritesAgree ==
    \A r \in Run : Running(r) /\ written[r] # {} =>
        \A s \in Source \ touched[r] :
            /\ store[s] \in {payloads[r][s], Missing}
            /\ s \notin doomed

\* A run only says that it has published its worksheets if every source has
\* been seen holding them, whatever the other runs did.
PublishedMeansAll ==
    [][\A r \in Run : report'[r] = "published" /\ report[r] = "none" =>
        \A s \in Source \ touched[r] : store[s] = payloads[r][s] /\ s \notin doomed]_vars

\* Without administrators at work, two runs that both say "published" had the
\* same worksheets, however they interleaved.  And Secrets Manager is never a
\* mixture: once anything was created, all that is there agrees with one run's
\* worksheets, so that what must differ between environments differs there and
\* what they must share they do, although no run ever compares two sources.
Held(place) == \A i \in DOMAIN place : Exists(place[i][1])

Unmixed == \E r \in Run : \A s \in Source : store[s] \in {Missing, payloads[r][s]}

RulesHold ==
    /\ \A group \in Apart : \A a, b \in group :
           a # b /\ Held(a) /\ Held(b) => ValuesAt(store, a) # ValuesAt(store, b)
    /\ \A group \in Alike : \A a, b \in group :
           Held(a) /\ Held(b) => ValuesAt(store, a) = ValuesAt(store, b)

OneWorksheetWins ==
    changes = 0 =>
        /\ \A r, q \in Run : report[r] = "published" /\ report[q] = "published" =>
               payloads[r] = payloads[q]
        /\ (\E r \in Run : written[r] # {}) => Unmixed /\ RulesHold

\* "Run again, matching values are skipped": what a failed or killed run has
\* left never stops the next one from the same worksheets.  A run can only
\* end in conflict with a source that held something else before, or that a
\* run of other worksheets or an administrator set.
LeftoversNeverBlock ==
    \A r \in Run : \A s \in Source : statuses[r][s] = "CONFLICT" /\ changes = 0 =>
        \A q \in Run : s \in written[q] => payloads[q][s] # payloads[r][s]

-----------------------------------------------------------------------------
(***************************************************************************)
(* The inductive invariant behind OneWorksheetWins and LeftoversNeverBlock *)
(* while no administrator is at work: what a run has found or made stays   *)
(* as it is, for the program can only create.                              *)
(***************************************************************************)
Found(r, s) ==
    /\ statuses[r][s] = "SKIP_MATCHED" => store[s] = payloads[r][s]
    /\ statuses[r][s] = "CONFLICT" =>
            Exists(s) /\ (s \in doomed \/ store[s] # payloads[r][s])

Made(r, s) ==
    /\ s \in written[r] => store[s] = payloads[r][s] /\ s \notin doomed
    /\ \/ pc[r] \in {"create", "verify"} /\ s < at[r]
       \/ pc[r] = "verify" /\ s = at[r]
       \/ report[r] = "published"
       => store[s] = payloads[r][s]

Settled == changes = 0 => \A r \in Run : \A s \in Source : Found(r, s) /\ Made(r, s)

\* The rest of what is behind OneWorksheetWins: sources are made in their
\* order, so that of two runs which want to make the same one the second
\* stops before it has made any after it.
InOrder ==
    /\ \A r \in Run : Running(r) \/ written[r] # {} => Consistent(payloads[r])
    /\ \A r \in Run : \A s \in written[r] : \A u \in Source : u < s => Exists(u)
    /\ \A r \in Run : \A s \in Source :
           statuses[r][s] = "CREATE" /\ Exists(s) => \E q \in Run : s \in written[q]
    /\ (\E r \in Run : written[r] # {}) =>
           \E r \in Run : /\ Consistent(payloads[r])
                          /\ \A s \in Source : store[s] \in {Missing, payloads[r][s]}

Gapless == changes = 0 => InOrder
=============================================================================
