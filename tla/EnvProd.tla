------------------------------- MODULE EnvProd -------------------------------
(***************************************************************************)
(* bootstrap_route53_access_keys.py and bootstrap_aws_access_keys.py share *)
(* one worksheet, .env.prod, and take no lock: nothing keeps people from   *)
(* running both, or the first one twice, at the same time.                 *)
(*                                                                         *)
(* The first run is that of Route53Keys, under the names of that module.   *)
(* Beside it moves a run of the prod program, or a second Route 53 run,    *)
(* each the machine of its own module.  The variables of KeyStore, ledger  *)
(* and disk are common to all.                                             *)
(***************************************************************************)
EXTENDS Route53Keys

CONSTANTS PFirst, PLast     \* the users of the prod program

VARIABLES
    ppc, pat, psnapshot, panswer, pheld, pcommitted, pincomplete, preport,
    psignals, pruns, pastray, pdropped, ptorn, pescaped,
    bpc, bat, bsnapshot, bheld, bcommitted, btodo, bincomplete, breport,
    bsignals, bedits, bruns, blate, bescaped,
    second,     \* what is run beside the first Route 53 run: "prod", "route53"
    overlapped  \* history: a run was started while the other one went on

rvars == <<run, bounds, history>>
pvars ==
    <<ppc, pat, psnapshot, panswer, pheld, pcommitted, pincomplete, preport,
      psignals, pruns, pastray, pdropped, ptorn, pescaped>>
bvars ==
    <<bpc, bat, bsnapshot, bheld, bcommitted, btodo, bincomplete, breport,
      bsignals, bedits, bruns, blate, bescaped>>
envVars == <<vars, pvars, bvars, second, overlapped>>

P == INSTANCE ProdKeys WITH
    FirstUser <- PFirst, LastUser <- PLast, pc <- ppc,
    at <- pat, snapshot <- psnapshot, answer <- panswer, held <- pheld,
    committed <- pcommitted, incomplete <- pincomplete, report <- preport,
    signals <- psignals, runs <- pruns, astray <- pastray,
    dropped <- pdropped, torn <- ptorn, escaped <- pescaped

B == INSTANCE Route53Keys WITH
    pc <- bpc, at <- bat, snapshot <- bsnapshot, held <- bheld,
    committed <- bcommitted, todo <- btodo, incomplete <- bincomplete,
    report <- breport, signals <- bsignals, edits <- bedits, runs <- bruns,
    late <- blate, escaped <- bescaped

ASSUME EnvProdAssumption ==
    /\ PFirst \in Nat \ {0} /\ PLast \in Nat /\ PFirst <= PLast
    /\ P!Users \subseteq Account \ Users    \* the programs have users of their own

EnvInit ==
    /\ Init /\ P!Init /\ B!Init
    /\ second \in {"prod", "route53"} /\ overlapped = FALSE

\* A program that has not read the worksheet yet has not been started.
Underway(label) == label \notin {"read", "exited"}

FirstMoves ==
    /\ Step \/ Interrupt \/ Kill
    /\ overlapped' = (overlapped \/ Underway(ppc) \/ Underway(bpc))
    /\ UNCHANGED <<pvars, bvars, second>>

ProdMoves ==
    /\ second = "prod" /\ (P!Step \/ P!Interrupt \/ P!Kill)
    /\ overlapped' = (overlapped \/ Underway(pc))
    /\ UNCHANGED <<rvars, bvars, second>>

SecondMoves ==
    /\ second = "route53" /\ (B!Step \/ B!Interrupt \/ B!Kill)
    /\ overlapped' = (overlapped \/ Underway(pc))
    /\ UNCHANGED <<rvars, pvars, second>>

EnvNext == FirstMoves \/ ProdMoves \/ SecondMoves

EnvSpec == EnvInit /\ [][EnvNext]_envVars

-----------------------------------------------------------------------------
(***************************************************************************)
(* Properties.                                                             *)
(***************************************************************************)
Holds(file, users, keys) == \A u \in users : file[u] = keys[u]

BothOk == report = "ok" /\ preport = "ok"

\* Run one after the other, in either order, the two programs leave all
\* their keys in .env.prod: neither undoes what the other recorded.  Run at
\* the same time, one may lose its record, but then the other's is whole.
RecordsKept ==
    BothOk =>
        \/ Holds(ledger, Users, held) /\ Holds(ledger, P!Users, pheld)
        \/ overlapped /\ (Holds(ledger, Users, held) \/ Holds(ledger, P!Users, pheld))

\* However two runs interleave, .env.prod holds the Route 53 keys of one run
\* for all users or no such key at all, never one user's key from each.
LedgerOfOneRun ==
    \/ \A u \in Users : ledger[u] \notin Key
    \/ Holds(ledger, Users, held)
    \/ Holds(ledger, Users, bheld)

\* Rollback only touches "dedicated users checked beforehand to have no
\* key": it never deletes a key that .env.prod names.
NamedKeysLive ==
    \A u \in Users : ledger[u] \in Key => ledger[u] \in iam[u]

\* It does not beside the prod program, which has users of its own, however
\* the two interleave and whichever of them writes an old copy back; nor does
\* that program's rollback, unless its own record is torn (see ProdKeys).
OthersKeysLive ==
    second = "prod" =>
        /\ NamedKeysLive
        /\ ptorn \/ \A u \in P!Users : ledger[u] \in Key => ledger[u] \in iam[u]

-----------------------------------------------------------------------------
(***************************************************************************)
(* The joint invariant of the programs: which keys are in which copy of    *)
(* the worksheet.                                                          *)
(***************************************************************************)

\* `committed' and the point main() has reached.  A program that has replaced
\* the worksheet never issues a key again, so that the keys it holds and the
\* keys it has written are the same from then on.
Committed ==
    /\ committed => pc \in {"fsync", "stat", "caught", "exited"}
    /\ pc \in {"fsync", "stat"} => committed
    /\ report = "ok" => committed

BCommitted == bcommitted => bpc \in {"fsync", "stat", "caught", "exited"}

PReplaced == pcommitted \/ ppc = "commit"

PCommitted ==
    /\ pcommitted => ppc \in {"fsync", "stat", "exited"}
    /\ ppc \in {"fsync", "stat"} => pcommitted
    /\ preport = "ok" => pcommitted
    /\ PReplaced => second = "prod"

\* Every copy of the worksheet has the Route 53 keys of one run that has
\* replaced it, or none.  The prod program's copy may be old.
OfOneRun(file) ==
    \/ \A u \in Users : file[u] \notin Key
    \/ committed /\ Holds(file, Users, held)
    \/ bcommitted /\ Holds(file, Users, bheld)

CopiesOfOneRun == OfOneRun(ledger) /\ OfOneRun(psnapshot)

\* The last of two programs that replaced the worksheet is in it, and the
\* first one too if the second has read what the first has written.
LastIsWhole ==
    committed /\ PReplaced =>
        Holds(ledger, Users, held) \/ Holds(ledger, P!Users, pheld)

InSequence ==
    second = "prod" /\ ~overlapped =>
        /\ ~(Underway(pc) /\ Underway(ppc))
        /\ committed => /\ Holds(ledger, Users, held)
                        /\ Underway(ppc) => Holds(psnapshot, Users, held)
        /\ PReplaced => /\ Holds(ledger, P!Users, pheld)
                        /\ Underway(pc) => Holds(snapshot, P!Users, pheld)

Joint ==
    /\ Committed /\ BCommitted /\ PCommitted
    /\ CopiesOfOneRun /\ LastIsWhole /\ InSequence

-----------------------------------------------------------------------------
(***************************************************************************)
(* What the two programs may rely on in IAM, each for its own users.       *)
(***************************************************************************)
FirstKnows ==
    /\ at \in FirstUser - 1..LastUser /\ held \in [Users -> Key \cup {NoKey}]
    /\ pc \in {"create", "validate", "sweep"} => at \in Users
    /\ pc \in {"create", "validate"} => \A u \in Users : u < at => held[u] \in iam[u]
    /\ pc \in {"recheck", "replace"} \/ committed => \A u \in Users : held[u] \in iam[u]

ProdKnows ==
    /\ pat \in PFirst - 1..PLast
    /\ pheld \in [P!Users -> Key \cup {NoKey}] /\ panswer \in Key \cup {NoKey}
    /\ ppc \in {"create", "append", "validate"} =>
          /\ pat \in P!Users
          /\ \A u \in P!Users : u < pat => pheld[u] \in iam[u]
    /\ ppc \in {"replace", "commit", "fsync", "stat"} =>
          \A u \in P!Users : pheld[u] \in iam[u]

\* A copy of the worksheet names keys of the prod program only once it has
\* written them, and they are live.
ProdNamed(file) ==
    \/ ptorn
    \/ \A u \in P!Users : file[u] \notin Key
    \/ /\ ppc \in {"commit", "fsync", "stat", "exited"}
       /\ \A u \in P!Users : file[u] = pheld[u] /\ pheld[u] \in iam[u]

InIam ==
    second = "prod" =>
        /\ iam \in [Account -> SUBSET Key] /\ ~bcommitted
        /\ FirstKnows /\ ProdKnows
        /\ ProdNamed(ledger) /\ ProdNamed(snapshot)
=============================================================================
