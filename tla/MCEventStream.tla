---------------------------- MODULE MCEventStream ----------------------------
EXTENDS EventStream

(* The first subscriber's WebID is not the agent of the second event, and the *)
(* second subscriber filters for the first event.                             *)
Filters == [s \in Subscribers |-> IF s = "s1" THEN Events ELSE {"e1"}]
Visible == [s \in Subscribers |-> {"e1"}]
===============================================================================
