-------------------------- MODULE MCDurableEventLog --------------------------
EXTENDS DurableEventLog

(* The number the log of the instance starts with.                            *)
ResumePoints == {3}
===============================================================================
