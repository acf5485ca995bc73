--------------------------- MODULE PolicyVersions ---------------------------
(***************************************************************************)
(* What the policy change notifier and the decision cache both speak of.   *)
(***************************************************************************)
CONSTANTS
    Versions,   \* of policy documents: hashes of their content
    None        \* no path, no request, no answer
=============================================================================
