-------------------------- MODULE PreviewContract --------------------------
(***************************************************************************)
(* What a team is promised about the database of its preview: it is there, *)
(* whole, before the app starts on it; a finished copy is kept, whatever   *)
(* is deployed or retried, until the preview is closed; a closed preview   *)
(* leaves no database.  The promise is void for a preview of which a Pod   *)
(* has outlived its Job.                                                   *)
(***************************************************************************)
CONSTANT Pr     \* pull requests

VARIABLES
    life,   \* of the Application: it exists, or is being deleted
    stage   \* of the database

vars == <<life, stage>>

Life == {"none", "live", "closing"}
Stage == {"absent", "preparing", "ready", "void"}

TypeOK == life \in [Pr -> Life] /\ stage \in [Pr -> Stage]

Init == life = [p \in Pr |-> "none"] /\ stage = [p \in Pr |-> "absent"]

Lives(p, from, to) == life[p] = from /\ life' = [life EXCEPT ![p] = to]
Goes(p, from, to) == stage[p] = from /\ stage' = [stage EXCEPT ![p] = to]

Open(p) == Lives(p, "none", "live") /\ UNCHANGED stage
Close(p) == Lives(p, "live", "closing") /\ UNCHANGED stage

\* The copy may be begun and thrown away any number of times.
Prepare(p) == /\ life[p] = "live" /\ UNCHANGED life
              /\ \/ Goes(p, "absent", "preparing")
                 \/ Goes(p, "preparing", "absent")

Finish(p) == /\ life[p] = "live" /\ UNCHANGED life
             /\ Goes(p, "preparing", "ready")

\* The only way out of "ready"; the Application may stay a little longer.
Drop(p) == /\ \E l \in {"closing", "none"} : Lives(p, "closing", l)
           /\ stage[p] # "void" /\ stage' = [stage EXCEPT ![p] = "absent"]

Void(p) == /\ \E l \in Life : life' = [life EXCEPT ![p] = l]
           /\ stage' = [stage EXCEPT ![p] = "void"]

Next == \E p \in Pr :
            Open(p) \/ Close(p) \/ Prepare(p) \/ Finish(p) \/ Drop(p) \/ Void(p)

Spec == Init /\ [][Next]_vars
=============================================================================
