--------------------------- MODULE ShadowEvaluation ---------------------------
(***************************************************************************)
(* The shadow authorization middleware (internal/authz/middleware.go) with *)
(* the evaluator the gateway gives it for an external command              *)
(* (internal/gateway/server.go, newAuthzEvaluator): the command wrapped in *)
(* a BackoffEvaluator (internal/authz/backoff_evaluator.go), the local     *)
(* evaluator as its fallback.                                              *)
(*                                                                         *)
(* Every request is one handler goroutine; they share the failure counter  *)
(* and the time before which no attempt is made.  Only allowAttempt,       *)
(* recordFailure and recordSuccess hold the mutex, so any number of        *)
(* handlers may be inside the command when its outcome is recorded.        *)
(*                                                                         *)
(* Time is the time left until nextAllowed: `wait' is 0 when nextAllowed   *)
(* is the zero time or is not in the future.                               *)
(***************************************************************************)
EXTENDS Naturals, FiniteSetsExt

CONSTANTS
    Requests,            \* requests in progress, one handler goroutine each
    BaseDelay, MaxDelay  \* of the backoff

(* NewBackoffEvaluator: the delays must be positive and ordered. *)
ASSUME DelaysOrdered ==
    /\ BaseDelay \in Nat \ {0}
    /\ MaxDelay \in Nat \ {0}
    /\ BaseDelay <= MaxDelay

VARIABLES
    failures,   \* failures in a row, counted up to Saturated
    wait,       \* time left until nextAllowed
    healthy,    \* whether the external command works
    cancelled,  \* the handlers whose client has gone away
    at,         \* where each handler is
    served      \* whether next.ServeHTTP ran for the handler's last request

shadowVars == <<failures, wait, healthy, cancelled, at, served>>

-----------------------------------------------------------------------------
(* How long the evaluator stays away from its command.                     *)

(***************************************************************************)
(* From 32 failures on the shift is above 30 and the delay no longer       *)
(* depends on the counter, so counting further tells no state apart.       *)
(***************************************************************************)
Saturated == 32

(* `delay' after the loop has doubled it n times. *)
Doubled[n \in Nat] == IF n = 0 THEN BaseDelay ELSE 2 * Doubled[n - 1]

(* Mutant: after too many failures the delay starts again from the base. *)
Delay_WrapsToBase(f) ==
    IF f > 31 \/ \E i \in 0 .. f - 2 : Doubled[i] >= MaxDelay \div 2
    THEN BaseDelay ELSE Doubled[f - 1]

(***************************************************************************)
(* delayForFailuresLocked for f >= 1 failures.  The loop has doubled the   *)
(* delay i times when it looks at it for the i-th time, and returns the    *)
(* maximum as soon as doubling once more would reach it (or, for an odd    *)
(* maximum, fall one short of it).                                         *)
(***************************************************************************)
Delay(f) ==
    LET shift == f - 1
    IN  IF \/ shift > 30
           \/ \E i \in 0 .. shift - 1 : Doubled[i] >= MaxDelay \div 2
           \/ Doubled[shift] > MaxDelay
        THEN MaxDelay
        ELSE Doubled[shift]

-----------------------------------------------------------------------------
ShadowInit ==
    /\ failures = 0
    /\ wait = 0
    /\ healthy \in BOOLEAN
    /\ cancelled = {}
    /\ at = [h \in Requests |-> "idle"]
    /\ served = [h \in Requests |-> TRUE]

Goto(h, place) == at' = [at EXCEPT ![h] = place]

(* BuildRequest succeeds, and the evaluator is asked, or the request goes  *)
(* on without an evaluation.                                               *)
Arrive(h) ==
    /\ at[h] = "idle"
    /\ served' = [served EXCEPT ![h] = FALSE]
    /\ \E place \in {"attempt", "next"} : Goto(h, place)
    /\ UNCHANGED <<failures, wait, healthy, cancelled>>

(* BackoffEvaluator.Evaluate up to the wrapped evaluator: a cancelled      *)
(* context and an active backoff are errors that are not recorded.         *)
AllowAttempt(h) ==
    /\ at[h] = "attempt"
    /\ IF h \in cancelled \/ wait > 0
       THEN Goto(h, "fallback")
       ELSE Goto(h, "evaluating")
    /\ UNCHANGED <<failures, wait, healthy, cancelled, served>>

(* The command fails when it does not work and also when the client's      *)
(* cancelled context kills it.                                             *)
Evaluated(h) ==
    /\ at[h] = "evaluating"
    /\ IF healthy /\ h \notin cancelled
       THEN Goto(h, "succeeded")
       ELSE Goto(h, "failed")
    /\ UNCHANGED <<failures, wait, healthy, cancelled, served>>

RecordFailure(h) ==
    /\ at[h] = "failed"
    /\ failures' = Min({failures + 1, Saturated})
    /\ wait' = Delay(failures')
    /\ Goto(h, "fallback")
    /\ UNCHANGED <<healthy, cancelled, served>>

RecordSuccess_KeepsWait(h) ==
    /\ at[h] = "succeeded"
    /\ failures' = 0
    /\ \E place \in {"next", "fallback"} : Goto(h, place)
    /\ UNCHANGED <<wait, healthy, cancelled, served>>

RecordSuccess_KeepsFailures(h) ==
    /\ at[h] = "succeeded"
    /\ wait' = 0
    /\ \E place \in {"next", "fallback"} : Goto(h, place)
    /\ UNCHANGED <<failures, healthy, cancelled, served>>

(* The outcome is a success for the backoff whatever the decision says;    *)
(* ValidateDecision comes after it, and an invalid one goes to the         *)
(* fallback.                                                               *)
RecordSuccess(h) ==
    /\ at[h] = "succeeded"
    /\ failures' = 0
    /\ wait' = 0
    /\ \E place \in {"next", "fallback"} : Goto(h, place)
    /\ UNCHANGED <<healthy, cancelled, served>>

Fallback_Drops(h) ==
    /\ at[h] = "fallback"
    /\ \E place \in {"idle", "next"} : Goto(h, place)
    /\ UNCHANGED <<failures, wait, healthy, cancelled, served>>

(* evaluateFallback only logs and counts: its result, good or bad, leads   *)
(* to next.                                                                *)
Fallback(h) ==
    /\ at[h] = "fallback"
    /\ Goto(h, "next")
    /\ UNCHANGED <<failures, wait, healthy, cancelled, served>>

(* next.ServeHTTP, the last thing every path of the middleware does; the   *)
(* request and its context end with it.                                    *)
Serve(h) ==
    /\ at[h] = "next"
    /\ served' = [served EXCEPT ![h] = TRUE]
    /\ cancelled' = cancelled \ {h}
    /\ Goto(h, "idle")
    /\ UNCHANGED <<failures, wait, healthy>>

Step(h) ==
    \/ AllowAttempt(h)
    \/ Evaluated(h)
    \/ RecordFailure(h)
    \/ RecordSuccess(h)
    \/ Fallback(h)
    \/ Serve(h)

(* The client goes away while its request is being handled. *)
Cancel(h) ==
    /\ at[h] # "idle"
    /\ h \notin cancelled
    /\ cancelled' = cancelled \cup {h}
    /\ UNCHANGED <<failures, wait, healthy, at, served>>

(* The external command breaks, or is repaired. *)
Health ==
    /\ healthy' = ~healthy
    /\ UNCHANGED <<failures, wait, cancelled, at, served>>

TimePasses ==
    /\ wait > 0
    /\ wait' = wait - 1
    /\ UNCHANGED <<failures, healthy, cancelled, at, served>>

ShadowNext ==
    \/ \E h \in Requests : Arrive(h) \/ Step(h) \/ Cancel(h)
    \/ Health
    \/ TimePasses

ShadowSpec == ShadowInit /\ [][ShadowNext]_shadowVars

(***************************************************************************)
(* Handler goroutines are scheduled, the command has a timeout (so         *)
(* Evaluated is bound to come) and time passes.  Nothing is assumed of     *)
(* clients or of the command's health.                                     *)
(***************************************************************************)
ShadowFairness ==
    /\ \A h \in Requests : WF_shadowVars(Step(h))
    /\ WF_shadowVars(TimePasses)

-----------------------------------------------------------------------------
(***************************************************************************)
(* The counter and the time, written by handlers whose attempts overlap,   *)
(* stay a pair: nobody waits without a failure in a row to wait for, and   *)
(* nobody waits longer than BaseDelay doubled once per further failure     *)
(* (plus one unit, which rounding MaxDelay/2 can add; past 31 failures     *)
(* MaxDelay is the bound).  A success that comes late clears both.         *)
(***************************************************************************)
BackoffFollowsFailures ==
    /\ wait > 0 => failures > 0
    /\ failures \in 1 .. Saturated - 1 => wait <= Doubled[failures - 1] + 1

(***************************************************************************)
(* A failure recorded while a backoff is under way, by a handler that had  *)
(* started its attempt before, never shortens the backoff, and always      *)
(* leaves at least BaseDelay.                                              *)
(***************************************************************************)
FailureNeverShortensBackoff ==
    [][ \A h \in Requests :
            (at[h] = "failed" /\ at'[h] = "fallback") =>
                /\ wait' >= wait
                /\ wait' >= BaseDelay ]_shadowVars

(***************************************************************************)
(* Shadow evaluation never holds a request back: with a broken command, an *)
(* active backoff, an invalid decision or a failing fallback the request   *)
(* still reaches the next handler.                                         *)
(***************************************************************************)
RequestsAreServed == \A h \in Requests : ~served[h] ~> served[h]

(***************************************************************************)
(* Once the command works for good, clients stay and requests keep coming, *)
(* the backoff ends for good: neither the wait nor failures still on their *)
(* way to being recorded keep the evaluator out for ever.                  *)
(***************************************************************************)
EvaluatorRecovers ==
    (/\ <>[](healthy /\ cancelled = {})
     /\ []<>(\E h \in Requests : at[h] = "attempt"))
        => <>[](failures = 0 /\ wait = 0)
=============================================================================
