--------------------------- MODULE MCPolicyLoading ----------------------------
EXTENDS PolicyLoading

CONSTANTS r1, r2

(* A container, the document its Link header names and the derived one.       *)
MCDocuments == {"link", "derived"}
MCAbout == [d \in MCDocuments |-> IF d = "derived" THEN "container" ELSE "other"]
MCOrder == <<"link", "derived">>
MCAsks == {[resource |-> "container", agent |-> a, modes |-> {"read"}] :
              a \in {"owner", "someone"}}

Symmetry == Permutations({r1, r2})
===============================================================================
