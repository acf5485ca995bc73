---------------------------- MODULE MCRequestPath ----------------------------
(* The preflight and the shadow evaluation, which share no state: a         *)
(* behaviour of both is one of each, interleaved, and no property speaks of *)
(* both. So the run takes up one of them at a time.                         *)
EXTENDS DPoPReplay, ShadowEvaluation, TLC

CONSTANTS g1, g2, k1, k2, k3, h1, h2

VARIABLE part   \* the one that moves

RunInit ==
    /\ part \in {"preflight", "shadow"}
    /\ Init /\ ShadowInit
    /\ part = "preflight" => healthy

RunNext ==
    \/ part = "preflight" /\ Next /\ UNCHANGED <<part, shadowVars>>
    \/ part = "shadow" /\ ShadowNext /\ UNCHANGED <<part, vars>>

RunSpec ==
    RunInit /\ [][RunNext]_<<part, vars, shadowVars>> /\ ShadowFairness

(* Names of the preflight only: the shadow evaluation, whose liveness is    *)
(* checked, has none of them.                                               *)
Symmetry == Permutations(Handlers) \union Permutations(Keys)
==============================================================================
