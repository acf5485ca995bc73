------------------------------ MODULE Authorizer ------------------------------
(***************************************************************************)
(* What the callers of an authz.Evaluator (internal/authz/evaluator.go)    *)
(* may rely on: each Evaluate call answers once, with an error or with a   *)
(* decision that allows exactly the requests the policy allows.  A         *)
(* decision that does not allow may read "deny" or "abstain".              *)
(***************************************************************************)
CONSTANTS
    Callers,   \* goroutines that call Evaluate
    Keys,      \* the requests, as far as a decision depends on them
    Outcome,   \* what the policy says of each: allow, deny or abstain
    None       \* no request, no answer

VARIABLES
    asking,    \* the request each caller has in progress
    answer     \* what its last call returned

DecisionValues == {"allow", "deny", "abstain"}

Init ==
    /\ asking = [c \in Callers |-> None]
    /\ answer = [c \in Callers |-> None]

Ask(c, k) ==
    /\ asking[c] = None
    /\ asking' = [asking EXCEPT ![c] = k]
    /\ answer' = [answer EXCEPT ![c] = None]

(* The answers a request may get.                                          *)
Permitted(k) ==
    {"error"} \union (IF Outcome[k] = "allow" THEN {"allow"}
                      ELSE {"deny", "abstain"})

Reply(c) ==
    /\ asking[c] # None
    /\ \E a \in Permitted(asking[c]) : answer' = [answer EXCEPT ![c] = a]
    /\ asking' = [asking EXCEPT ![c] = None]

Next == \E c \in Callers : Reply(c) \/ \E k \in Keys : Ask(c, k)

Spec == Init /\ [][Next]_<<asking, answer>>
=============================================================================
