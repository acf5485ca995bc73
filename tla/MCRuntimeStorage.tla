--------------------------- MODULE MCRuntimeStorage ---------------------------
(* Constants for model checking RuntimeStorage: one caller of the          *)
(* container service only, one that uses the layer directly as well.       *)
EXTENDS RuntimeStorage, TLC

CONSTANTS c1, c2, mem, css, x, y

Create == [via |-> "service", body |-> x, if |-> IsEmpty]
Delete == [via |-> "service", body |-> Absent, if |-> IsEmpty]
Update ==
    [via |-> "conditional", body |-> y, if |-> [match |-> {x}, none |-> {}]]
Add ==
    [via |-> "conditional", body |-> x, if |-> [match |-> {}, none |-> {Star}]]

Writes == (c1 :> {Create}) @@ (c2 :> {Create, Delete, Update, Add})
=============================================================================
