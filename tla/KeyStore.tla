------------------------------ MODULE KeyStore ------------------------------
(***************************************************************************)
(* What the three access-key bootstrap programs share: AWS IAM, which is   *)
(* outside the repository and is modelled from the calls the scripts make  *)
(* (iam create-access-key, list-access-keys, delete-access-key), and the   *)
(* worksheet files .env.* they read and rewrite.                           *)
(*                                                                         *)
(* A worksheet is a function from slots to values.  The slot of an IAM     *)
(* user stands for all the assignments the program fills for that user     *)
(* (key id, secret and, for the backup writer, the three bucket fields):   *)
(* they are always checked and written together.  The other slots stand    *)
(* for the rest of the file, which a person may edit at any time.          *)
(***************************************************************************)
EXTENDS Naturals

CONSTANTS
    Account,    \* the dedicated IAM users, numbered in the order main() lists them
    Slot,       \* the parts of a worksheet; the slot of an IAM user is its number
    Key,        \* access keys AWS can mint; a key is never minted twice
    Text,       \* what a person can type into a worksheet (never a minted key)
    Empty       \* "NAME=" with nothing after it

ASSUME KeyStoreAssumption ==
    /\ Account \subseteq Nat
    /\ Account \subseteq Slot
    /\ Key \cap Text = {}
    /\ Empty \notin Key \cup Text

VARIABLES
    iam,        \* iam[u]: the access keys of user u that exist in AWS
    minted      \* every key AWS has ever handed out

Value == Key \cup Text \cup {Empty}

Worksheet == [Slot -> Value]

(***************************************************************************)
(* AWS IAM.  A user holds at most two keys, whoever asks for the third     *)
(* gets LimitExceeded.                                                     *)
(***************************************************************************)
QuotaReached(u) == \E a, b \in iam[u] : a # b

\* validate_iam_user_has_no_keys: any key at all stops the program.
HasNoKeysUnchecked(u) == TRUE   \* fault: the list is not looked at

HasNoKeys(u) == iam[u] = {}

CreateAccessKey(u, k) ==
    /\ k \in Key \ minted
    /\ ~QuotaReached(u)
    /\ minted' = minted \cup {k}
    /\ iam' = [iam EXCEPT ![u] = @ \cup {k}]

DeleteAccessKey(u, k) ==
    /\ k \in iam[u]
    /\ iam' = [iam EXCEPT ![u] = @ \ {k}]
    /\ UNCHANGED minted

(***************************************************************************)
(* Worksheets.                                                             *)
(***************************************************************************)

\* read_env_file accepts a file only if every assignment the program will
\* fill is present exactly once and empty.
Blank(file, users) == \A u \in users : file[u] = Empty

\* replace_env_assignments: the users' empty assignments get their keys and
\* every other line of the text it is given stays as it was.
FilledFirst(file, users, keys) ==   \* fault: the loop ends after one user
    [s \in Slot |-> IF s \in users /\ \A u \in users : s <= u
                    THEN keys[s] ELSE file[s]]

FilledAlone(file, users, keys) ==   \* fault: only the program's lines are written
    [s \in Slot |-> IF s \in users THEN keys[s] ELSE Empty]

Filled(file, users, keys) ==
    [s \in Slot |-> IF s \in users THEN keys[s] ELSE file[s]]

KeyStoreTypeOK ==
    /\ iam \in [Account -> SUBSET Key]
    /\ minted \in SUBSET Key
    /\ \A u \in Account : iam[u] \subseteq minted
=============================================================================
