-------------------------- MODULE MCCacheAndNotifier --------------------------
(* The decision cache and the policy change notifier, each by itself: all   *)
(* that either can do, without the listener that joins them in              *)
(* PolicyInvalidation. They share no state, so the run takes up one of them *)
(* at a time.                                                               *)
EXTENDS PolicyChangeNotifier, DecisionCache, TLC

CONSTANTS p1, v1, a, b, c1, c2, alice, nobody, notes

VARIABLE part   \* the one that moves

OneTrigger ==
    {[path |-> p1, old |-> NoVersion, new |-> v1, type |-> "create"]}

(* Alice may read under the policy v1; without a policy nothing is said.    *)
AliceOutcome ==
    [k \in Keys |-> IF k.agent = nobody THEN "deny"
                    ELSE IF k.version = v1 THEN "allow" ELSE "abstain"]

RunInit ==
    /\ part \in {"cache", "notifier"}
    /\ CacheInit /\ NotifierInit
    /\ part = "cache" => paths = {} /\ content = policyVersions

RunNext ==
    \/ part = "cache" /\ CacheNext /\ UNCHANGED <<part, notifierVars>>
    \/ part = "notifier" /\ NotifierNext /\ UNCHANGED <<part, cacheVars>>

RunSpec ==
    RunInit /\ [][RunNext]_<<part, cacheVars, notifierVars>> /\ NotifierFairness

(* Names of the cache only: the notifier, whose liveness is checked, has    *)
(* none of them.                                                            *)
Symmetry == Permutations(Callers)
===============================================================================
