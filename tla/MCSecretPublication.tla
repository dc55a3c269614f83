------------------------ MODULE MCSecretPublication ------------------------
(***************************************************************************)
(* SecretPublication for TLC: two runs from two worksheets, two sources.   *)
(***************************************************************************)
EXTENDS SecretPublication, TLC

CONSTANTS r1, r2

MCRun == {r1, r2}

\* Source 1 is one of dev, source 2 of preview: the passwords of their
\* databases differ, the one for the dump of dev is shared.
P(db, dump) == [db |-> db, dump |-> dump]

MCPayload == {P("x", "u"), P("y", "u"), P("z", "u"), P("x", "v")}

MCApart == {{<< <<1, "db">> >>, << <<2, "db">> >>, << <<1, "dump">> >>}}
MCAlike == {{<< <<1, "dump">> >>, << <<2, "dump">> >>}}
MCMalformed == {<<2, P("z", "u")>>}

\* Checkouts that differ in the first source or in both, and worksheets with a
\* password used twice, dump passwords that disagree, a value of wrong form.
MCSheet ==
    {<<P("x", "u"), P("y", "u")>>, <<P("z", "u"), P("y", "u")>>, <<P("y", "u"), P("x", "u")>>,
     <<P("x", "u"), P("x", "u")>>, <<P("y", "u"), P("x", "v")>>, <<P("x", "u"), P("z", "u")>>}

\* Runs are interchangeable: they differ only in what they have read.
RunSymmetry == Permutations(MCRun)
=============================================================================
