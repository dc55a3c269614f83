------------------------------ MODULE KeyIssue ------------------------------
(***************************************************************************)
(* What an access-key bootstrap run promises, whatever steps it takes: the *)
(* keys of a group of IAM users are recorded all at once or not at all, a  *)
(* recorded key is never taken back, and the verdict the run ends with     *)
(* says which of the two happened.                                         *)
(***************************************************************************)
CONSTANTS
    User,       \* the users that get a key
    Key,
    None        \* nothing recorded for a user

VARIABLES
    keys,       \* keys[u]: the keys of user u that exist in AWS
    recorded,   \* recorded[u]: the key the worksheet names for u
    confirmed,  \* the record has reached the disk
    verdict     \* "open" while a run is going on

vars == <<keys, recorded, confirmed, verdict>>

Verdict == {"ok", "refused", "failed", "incomplete", "interrupted", "killed"}

AllRecorded == \A u \in User : recorded[u] \in keys[u]
NoneRecorded == \A u \in User : recorded[u] = None

Init ==
    /\ keys \in [User -> SUBSET Key]
    /\ recorded = [u \in User |-> None]
    /\ confirmed = FALSE /\ verdict = "open"

\* A user that has no key gets one.
Grant(u) ==
    /\ verdict = "open" /\ keys[u] = {} /\ NoneRecorded
    /\ \E k \in Key : keys' = [keys EXCEPT ![u] = {k}]
    /\ UNCHANGED <<recorded, confirmed, verdict>>

\* Taking a key back is for keys that are not recorded.
Withdraw(u) ==
    /\ verdict = "open" /\ keys[u] # {} /\ NoneRecorded
    /\ keys' = [keys EXCEPT ![u] = {}]
    /\ UNCHANGED <<recorded, confirmed, verdict>>

\* All the users' keys are recorded in one step.
Record ==
    /\ verdict = "open" /\ NoneRecorded
    /\ recorded' \in [User -> Key]
    /\ \A u \in User : recorded'[u] \in keys[u]
    /\ UNCHANGED <<keys, confirmed, verdict>>

\* The record becomes proof against a power loss.
Confirm ==
    /\ AllRecorded /\ confirmed' = TRUE
    /\ UNCHANGED <<keys, recorded, verdict>>

\* A power loss undoes a record that is not confirmed.
Forget ==
    /\ ~confirmed
    /\ recorded' = [u \in User |-> None]
    /\ verdict' \in {verdict, "killed"}
    /\ UNCHANGED <<keys, confirmed>>

\* The run ends.  "ok" is only said when everything is recorded and "failed"
\* never hides a key that is not; the other verdicts promise nothing.
Close(v) ==
    /\ verdict = "open" /\ verdict' = v
    /\ v = "ok" => AllRecorded /\ confirmed
    /\ v = "failed" => AllRecorded \/ \A u \in User : keys[u] = {}
    /\ UNCHANGED <<keys, recorded, confirmed>>

\* The next run starts.
Open ==
    /\ verdict # "open" /\ verdict' = "open"
    /\ UNCHANGED <<keys, recorded, confirmed>>

Next ==
    \/ \E u \in User : Grant(u) \/ Withdraw(u)
    \/ Record \/ Confirm \/ Forget \/ Open
    \/ \E v \in Verdict : Close(v)

Spec == Init /\ [][Next]_vars
=============================================================================
