------------------------ MODULE MCPolicyInvalidation ------------------------
(* Constants for model checking PolicyInvalidation.                        *)
EXTENDS PolicyInvalidation

CONSTANTS p1, v1, v2, d1, d2, a, c1, alice, nobody, card

AllAllowed ==
    [k \in [agent: Agents, resource: Resources, version: Versions] |-> "allow"]

(* BuildOptions.PolicyVersion is set to the watcher's hash.                *)
WatchersHash == [v \in {NoVersion, v1, v2} |-> v]

(* The option is not set: the documents of v1 and v2 have hashes d1, d2.   *)
DocumentsHash ==
    [v \in {NoVersion, v1, v2} |->
        CASE v = v1 -> d1 [] v = v2 -> d2 [] OTHER -> NoVersion]
=============================================================================
