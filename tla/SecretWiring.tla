---------------------------- MODULE SecretWiring ----------------------------
(***************************************************************************)
(* contracts/external_secrets.py: what the ExternalSecrets read through    *)
(* their namespaces' stores, against the External Secrets IAM roles and    *)
(* the uploads of bootstrap_aws_secrets.py.                                *)
(*                                                                         *)
(* The wiring under review is a record [data, stores, roles, uploads]:     *)
(*   data      what the ExternalSecrets read: [namespace, name, key]       *)
(*   stores    of each namespace, the prefix and the role of its store     *)
(*   roles     whom an IAM role trusts (namespaces), and the resources of  *)
(*             each statement of its policy; DevRole is "dev"              *)
(*   uploads   the worksheet of each path that is uploaded                 *)
(* A path is the sequence of its pieces after /umc-product/; prefixes and  *)
(* keys are such pieces too.  A resource is a path or a wildcard.          *)
(* Properties of a source are left out.                                    *)
(***************************************************************************)
EXTENDS Naturals, Sequences, FiniteSets

CONSTANTS
    ExpectedSecrets,    \* expected_names: pairs of a namespace and a name
    SourceCount         \* 37

Wild == <<"*">>         \* a resource that the pattern of iam_sources misses

Namespaces == {secret[1] : secret \in ExpectedSecrets}

Under(path, top) == Len(path) > 1 /\ path[1] = top      \* startswith

\* Whose worksheet a path is filled from.
Worksheet(path) == IF Under(path, "platform") THEN "prod" ELSE path[1]

Path(wiring, datum) == wiring.stores[datum.namespace].prefix \o datum.key

Sources(wiring) == {Path(wiring, datum) : datum \in wiring.data}

Readable(role) == UNION {role.statements[i] : i \in DOMAIN role.statements}

\* iam_sources: the paths in the text of the stack, whoever may read them.
Listed(wiring) == UNION {Readable(wiring.roles[r]) : r \in DOMAIN wiring.roles} \ {Wild}

DevSources(wiring) == {path \in Sources(wiring) : Under(path, "dev")}

HasDevRole(wiring) ==
    "dev" \in DOMAIN wiring.roles /\ 1 \in DOMAIN wiring.roles["dev"].statements

DevReadsEnough(wiring) ==   \* fault: the permission may be wider than needed
    /\ HasDevRole(wiring)
    /\ DevSources(wiring) \subseteq wiring.roles["dev"].statements[1]

\* Of the one role and of its first statement only.
DevReads(wiring) ==
    HasDevRole(wiring) /\ wiring.roles["dev"].statements[1] = DevSources(wiring)

UploadsMatch(wiring) ==
    /\ DOMAIN wiring.uploads = Sources(wiring)
    /\ \A path \in DOMAIN wiring.uploads : wiring.uploads[path] = Worksheet(path)

WiringHolds(wiring) ==
    /\ {<<datum.namespace, datum.name>> : datum \in wiring.data} = ExpectedSecrets
    /\ DOMAIN wiring.stores = Namespaces
    /\ Sources(wiring) = Listed(wiring) /\ Cardinality(Sources(wiring)) = SourceCount
    /\ DevReads(wiring) /\ UploadsMatch(wiring)

-----------------------------------------------------------------------------
(***************************************************************************)
(* For reference: what AWS makes of it.                                    *)
(***************************************************************************)
MayRead(wiring, namespace, path) ==
    LET role == wiring.stores[namespace].role
    IN  /\ role \in DOMAIN wiring.roles /\ namespace \in wiring.roles[role].trusts
        /\ Readable(wiring.roles[role]) \cap {path, Wild} # {}

\* The worksheet whose value a datum brings into its namespace, if any.
Delivered(wiring, datum) ==
    LET path == Path(wiring, datum)
    IN  IF path \in DOMAIN wiring.uploads /\ MayRead(wiring, datum.namespace, path)
        THEN {wiring.uploads[path]} ELSE {}

\* AWS trusts a namespace with no role but DevRole, as far as the check reads it.
OnlyDev(wiring, namespace) ==
    /\ \A r \in DOMAIN wiring.roles : namespace \in wiring.roles[r].trusts => r = "dev"
    /\ DOMAIN wiring.roles["dev"].statements = {1}
=============================================================================
