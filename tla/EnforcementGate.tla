--------------------------- MODULE EnforcementGate ---------------------------
(***************************************************************************)
(* internal/authz/enforcement_gate.go: the gate that decides whether the   *)
(* sidecar may enforce its own authorization decisions or only shadow      *)
(* those of the Community Solid Server (CSS).                              *)
(*                                                                         *)
(* Every exported method of the gate holds g.mu for its whole body and is  *)
(* one action.  Two call sequences release the lock between their parts    *)
(* and are several actions of a caller (an HTTP handler goroutine):        *)
(* EnforcementGateMiddleware, and ShouldEnforceForRequest, whose first     *)
(* half (ShouldEnforce) and second half take the lock separately.          *)
(***************************************************************************)
EXTENDS Integers

CONSTANTS
    Callers,              \* request goroutines
    Requests,             \* the requests they serve
    MethodAllowlisted,    \* requests that isMethodAllowlisted accepts
    ResourceAllowlisted,  \* ... isResourceAllowlisted accepts
    StorageAllowlisted,   \* ... isStorageAllowlisted accepts
    CanaryMatched,        \* ... whose header or path selects the canary
    Tokens,               \* tokens offered to EmergencyBypass
    EmergencyBypassToken, \* the configured one
    Configs,              \* option records offered to NewEnforcementGate
    NoRequest,            \* a caller serving nothing
    CountBound,           \* bound on the comparison and mismatch counters,
    CanaryBound           \* and on the canary's, for each configuration

Enforcing == {"enforce", "dry-run", "enforce_canary"}
Modes == {"shadow"} \union Enforcing
CanaryModes == {"percentage", "header", "path"}

(* EnforcementGateOptions, without loggers and allowlists.                 *)
Options ==
    [InitialMode: Modes, AllowEnforcement: BOOLEAN,
     EmergencyBypassEnabled: BOOLEAN, MaxEnforcementDuration: Nat,
     AutoDisableOnMismatchThreshold: Int,
     RequireComparisonThreshold: BOOLEAN,
     ComparisonThresholdPercentage: Int, ComparisonThresholdCount: Int,
     CanaryEnabled: BOOLEAN, CanaryMode: CanaryModes, CanaryPercentage: Int]

ASSUME GateAssumption ==
    /\ Configs \subseteq Options
    /\ MethodAllowlisted \subseteq Requests
    /\ ResourceAllowlisted \subseteq Requests
    /\ StorageAllowlisted \subseteq Requests
    /\ CanaryMatched \subseteq Requests
    /\ EmergencyBypassToken \in Tokens
    /\ NoRequest \notin Requests
    /\ CountBound \in [Configs -> Nat]
    /\ CanaryBound \in [Configs -> Nat]

VARIABLES
    options,               \* the accepted configuration, never changed
    mode,
    age,                   \* time.Since(enabledAt), saturated one past the limit
    bypassSet,
    closed,
    mismatchCount,
    autoDisabled,
    canaryRequestCount,    \* requests a percentage canary has counted
    canaryEnforced,        \* metrics.CanaryRequestsEnforced
    comparisonTotalCount,
    comparisonMatchCount,
    consecutiveMatchCount,
    thresholdMet,
    decisions,             \* metrics.DecisionsEnforced + DecisionsShadowed
    pc,                    \* where each caller stands
    req,                   \* the request each caller serves
    verdict                \* what ShouldEnforceForRequest last returned to it

modeVars == <<mode, age>>
mismatchVars == <<mismatchCount, autoDisabled>>
comparisonVars == <<comparisonTotalCount, comparisonMatchCount,
                    consecutiveMatchCount, thresholdMet>>
canaryVars == <<canaryRequestCount, canaryEnforced>>
callerVars == <<pc, req, verdict>>
switchVars == <<bypassSet, closed>>
vars == <<options, modeVars, switchVars, mismatchVars, canaryVars,
          comparisonVars, decisions, callerVars>>

-----------------------------------------------------------------------------
(* NewEnforcementGate: which configurations are accepted.                  *)
ValidOptions(o) ==
    /\ o.CanaryEnabled => o.CanaryPercentage \in 0..100
    /\ o.AutoDisableOnMismatchThreshold \in 0..100
    /\ o.ComparisonThresholdPercentage \in 0..100
    /\ o.ComparisonThresholdCount >= 0

(* The limit after which enforcement expires; age stops one past it.       *)
AgeCap == options.MaxEnforcementDuration + 1
Expired ==
    /\ options.MaxEnforcementDuration # 0
    /\ mode \in Enforcing
    /\ age > options.MaxEnforcementDuration

(* enabledAt is the zero time at construction, so the age starts saturated. *)
Init ==
    /\ options \in {o \in Configs : ValidOptions(o)}
    /\ mode = options.InitialMode
    /\ age = AgeCap
    /\ bypassSet = {}
    /\ closed = FALSE
    /\ mismatchCount = 0
    /\ autoDisabled = FALSE
    /\ canaryRequestCount = 0
    /\ canaryEnforced = 0
    /\ comparisonTotalCount = 0
    /\ comparisonMatchCount = 0
    /\ consecutiveMatchCount = 0
    /\ thresholdMet = FALSE
    /\ decisions = 0
    /\ pc = [c \in Callers |-> "idle"]
    /\ req = [c \in Callers |-> NoRequest]
    /\ verdict = [c \in Callers |-> FALSE]

-----------------------------------------------------------------------------
(* Operator calls.                                                         *)

(* Mutant: SetMode forgets both checks on enforcing modes.                 *)
SetMode_Unguarded(m) ==
    /\ ~closed
    /\ mode' = m
    /\ age' = IF m \in Enforcing THEN 0 ELSE age
    /\ autoDisabled' = FALSE
    /\ UNCHANGED <<options, switchVars, mismatchCount, canaryVars,
                   comparisonVars, decisions, callerVars>>

(* Mutant: a closed gate changes mode.                                     *)
SetMode_Closed(m) ==
    /\ m \in Enforcing =>
           /\ options.AllowEnforcement
           /\ options.RequireComparisonThreshold => thresholdMet
    /\ mode' = m
    /\ age' = IF m \in Enforcing THEN 0 ELSE age
    /\ autoDisabled' = FALSE
    /\ UNCHANGED <<options, switchVars, mismatchCount, canaryVars,
                   comparisonVars, decisions, callerVars>>

(* SetMode; EnableEnforcement, EnableDryRun and EnableCanary call it.  A    *)
(* refused call changes nothing.                                           *)
SetMode(m) ==
    /\ ~closed
    /\ m \in Enforcing =>
           /\ options.AllowEnforcement
           /\ options.RequireComparisonThreshold => thresholdMet
    /\ mode' = m
    /\ age' = IF m \in Enforcing THEN 0 ELSE age
    /\ autoDisabled' = FALSE
    /\ UNCHANGED <<options, switchVars, mismatchCount, canaryVars,
                   comparisonVars, decisions, callerVars>>

(* DisableEnforcement looks at neither closed nor the options.             *)
DisableEnforcement ==
    /\ mode' = "shadow"
    /\ autoDisabled' = FALSE
    /\ UNCHANGED <<options, age, switchVars, mismatchCount,
                   canaryVars, comparisonVars, decisions, callerVars>>

(* Mutant: any token is accepted.                                          *)
EmergencyBypass_AnyToken(t) ==
    /\ options.EmergencyBypassEnabled
    /\ bypassSet' = bypassSet \union {t}
    /\ UNCHANGED <<options, modeVars, closed, mismatchVars, canaryVars,
                   comparisonVars, decisions, callerVars>>

EmergencyBypass(t) ==
    /\ options.EmergencyBypassEnabled
    /\ t = EmergencyBypassToken
    /\ bypassSet' = bypassSet \union {t}
    /\ UNCHANGED <<options, modeVars, closed, mismatchVars,
                   canaryVars, comparisonVars, decisions, callerVars>>

ClearEmergencyBypass(t) ==
    /\ bypassSet' = bypassSet \ {t}
    /\ UNCHANGED <<options, modeVars, closed, mismatchVars,
                   canaryVars, comparisonVars, decisions, callerVars>>

Close ==
    /\ closed' = TRUE
    /\ UNCHANGED <<options, modeVars, bypassSet, mismatchVars,
                   canaryVars, comparisonVars, decisions, callerVars>>

Reopen ==
    /\ closed' = FALSE
    /\ UNCHANGED <<options, modeVars, bypassSet, mismatchVars,
                   canaryVars, comparisonVars, decisions, callerVars>>

(* Mutant: the counter is cleared and the gate stays disabled.             *)
ClearMismatches_StaysDisabled ==
    /\ mismatchCount' = 0
    /\ UNCHANGED <<options, modeVars, switchVars, autoDisabled, canaryVars,
                   comparisonVars, decisions, callerVars>>

ClearMismatches ==
    /\ mismatchCount' = 0
    /\ autoDisabled' = FALSE
    /\ UNCHANGED <<options, modeVars, switchVars, canaryVars,
                   comparisonVars, decisions, callerVars>>

(* Mutant: the counters are reset and the flag survives.                   *)
ResetComparisonResults_KeepsFlag ==
    /\ comparisonTotalCount' = 0
    /\ comparisonMatchCount' = 0
    /\ consecutiveMatchCount' = 0
    /\ UNCHANGED <<options, modeVars, switchVars, mismatchVars, canaryVars,
                   thresholdMet, decisions, callerVars>>

ResetComparisonResults ==
    /\ comparisonTotalCount' = 0
    /\ comparisonMatchCount' = 0
    /\ consecutiveMatchCount' = 0
    /\ thresholdMet' = FALSE
    /\ UNCHANGED <<options, modeVars, switchVars, mismatchVars,
                   canaryVars, decisions, callerVars>>

-----------------------------------------------------------------------------
(* Comparison with CSS.                                                    *)

(* count out of total is at least / more than percent per cent: the code's *)
(* float64 quotient, as an exact ratio.                                    *)
AtLeastPercent(count, total, percent) == count * 100 >= percent * total
MorePercent(count, total, percent) == count * 100 > percent * total

(* Evidence that the configured thresholds ask for.                        *)
ConsecutiveMet(consecutive) ==
    options.ComparisonThresholdCount > 0 =>
        consecutive >= options.ComparisonThresholdCount
PercentageMet(matches, total) ==
    (options.ComparisonThresholdPercentage > 0 /\ total > 0) =>
        AtLeastPercent(matches, total, options.ComparisonThresholdPercentage)

(* RecordComparisonResult(true)                                            *)
RecordComparisonMatch ==
    /\ comparisonTotalCount < CountBound[options]
    /\ comparisonTotalCount' = comparisonTotalCount + 1
    /\ comparisonMatchCount' = comparisonMatchCount + 1
    /\ consecutiveMatchCount' = consecutiveMatchCount + 1
    /\ thresholdMet' =
         (thresholdMet \/ /\ ConsecutiveMet(consecutiveMatchCount + 1)
                          /\ PercentageMet(comparisonMatchCount + 1,
                                           comparisonTotalCount + 1))
    /\ UNCHANGED <<options, modeVars, switchVars, mismatchVars, canaryVars,
                   decisions, callerVars>>

(* Mutant: the flag survives a mismatch.                                   *)
RecordComparisonMismatch_KeepsFlag ==
    /\ comparisonTotalCount < CountBound[options]
    /\ comparisonTotalCount' = comparisonTotalCount + 1
    /\ consecutiveMatchCount' = 0
    /\ UNCHANGED <<options, modeVars, switchVars, mismatchVars, canaryVars,
                   comparisonMatchCount, thresholdMet, decisions, callerVars>>

(* RecordComparisonResult(false)                                           *)
RecordComparisonMismatch ==
    /\ comparisonTotalCount < CountBound[options]
    /\ comparisonTotalCount' = comparisonTotalCount + 1
    /\ consecutiveMatchCount' = 0
    /\ thresholdMet' = FALSE
    /\ UNCHANGED comparisonMatchCount
    /\ UNCHANGED <<options, modeVars, switchVars, mismatchVars, canaryVars,
                   decisions, callerVars>>

(* metrics.RecordDecisionEnforced and RecordDecisionShadowed.              *)
RecordDecision ==
    /\ decisions < CountBound[options]
    /\ decisions' = decisions + 1
    /\ UNCHANGED <<options, modeVars, switchVars, mismatchVars,
                   canaryVars, comparisonVars, callerVars>>

RecordMismatch ==
    /\ mismatchCount < CountBound[options]
    /\ mismatchCount' = mismatchCount + 1
    /\ autoDisabled' =
         (autoDisabled \/
            /\ options.AutoDisableOnMismatchThreshold > 0
            /\ decisions > 0
            /\ MorePercent(mismatchCount', decisions,
                           options.AutoDisableOnMismatchThreshold))
    /\ UNCHANGED <<options, modeVars, switchVars, canaryVars,
                   comparisonVars, decisions, callerVars>>

-----------------------------------------------------------------------------
(* EnforcementGateMiddleware: four calls, each under its own lock; only    *)
(* the last one changes the gate.                                          *)

(* Mode, ShouldAddDryRunHeader and ShouldAddCanaryHeader only read the gate *)
(* to set response headers.                                                *)
MiddlewareHeaders(c) ==
    /\ pc[c] = "idle"
    /\ pc' = [pc EXCEPT ![c] = "revert"]
    /\ UNCHANGED <<options, modeVars, switchVars, mismatchVars,
                   canaryVars, comparisonVars, decisions, req, verdict>>

(* Mutant: dry-run and canary modes are forgotten.                         *)
AutoRevertIfNeeded_EnforceOnly(c) ==
    /\ pc[c] = "revert"
    /\ mode' = IF Expired /\ mode = "enforce" THEN "shadow" ELSE mode
    /\ pc' = [pc EXCEPT ![c] = "idle"]
    /\ UNCHANGED <<options, age, switchVars, mismatchVars, canaryVars,
                   comparisonVars, decisions, req, verdict>>

(* AutoRevertIfNeeded, then the next handler.                              *)
AutoRevertIfNeeded(c) ==
    /\ pc[c] = "revert"
    /\ mode' = IF Expired THEN "shadow" ELSE mode
    /\ pc' = [pc EXCEPT ![c] = "idle"]
    /\ UNCHANGED <<options, age, switchVars, mismatchVars, canaryVars,
                   comparisonVars, decisions, req, verdict>>

-----------------------------------------------------------------------------
(* ShouldEnforceForRequest.                                                *)

ShouldEnforce ==
    /\ ~closed
    /\ ~autoDisabled
    /\ bypassSet = {}
    /\ mode \in Enforcing

(* The first half: ShouldEnforce under the lock, then the lock is released. *)
CheckGate(c, r) ==
    /\ pc[c] = "idle"
    /\ req' = [req EXCEPT ![c] = r]
    /\ pc' = [pc EXCEPT ![c] = IF ShouldEnforce THEN "checked" ELSE "idle"]
    /\ verdict' = [verdict EXCEPT ![c] = FALSE]
    /\ UNCHANGED <<options, modeVars, switchVars, mismatchVars,
                   canaryVars, comparisonVars, decisions>>

IsAllowlisted(r) ==
    /\ r \in MethodAllowlisted
    /\ r \in ResourceAllowlisted
    /\ r \in StorageAllowlisted

(* isCanaryRequest: a percentage canary counts the requests it sees.       *)
CountsCanary ==
    /\ mode = "enforce_canary"
    /\ options.CanaryEnabled
    /\ options.CanaryMode = "percentage"
(* Mutant: off by one.                                                     *)
InCanaryShare_OffByOne(count) == count % 100 <= options.CanaryPercentage

InCanaryShare(count) == count % 100 < options.CanaryPercentage
IsCanaryRequest(r) ==
    /\ options.CanaryEnabled
    /\ IF options.CanaryMode = "percentage"
       THEN InCanaryShare(canaryRequestCount + 1)
       ELSE r \in CanaryMatched

(* The second half, under the lock taken again; a canary request returns   *)
(* before the allowlists are looked at.                                    *)
CheckRequest(c) ==
    /\ pc[c] = "checked"
    /\ verdict' = [verdict EXCEPT
                     ![c] = IF mode = "enforce_canary"
                            THEN IsCanaryRequest(req[c])
                            ELSE IsAllowlisted(req[c])]
    /\ IF CountsCanary
       THEN /\ canaryRequestCount < CanaryBound[options]
            /\ canaryRequestCount' = canaryRequestCount + 1
            /\ canaryEnforced' =
                 canaryEnforced + (IF verdict'[c] THEN 1 ELSE 0)
       ELSE UNCHANGED canaryVars
    /\ pc' = [pc EXCEPT ![c] = "idle"]
    /\ UNCHANGED <<options, modeVars, switchVars, mismatchVars,
                   comparisonVars, decisions, req>>

-----------------------------------------------------------------------------
Tick ==
    /\ age < AgeCap
    /\ age' = age + 1
    /\ UNCHANGED <<options, mode, switchVars, mismatchVars,
                   canaryVars, comparisonVars, decisions, callerVars>>

CallerStep(c) ==
    \/ AutoRevertIfNeeded(c)
    \/ CheckRequest(c)

Next ==
    \/ \E m \in Modes : SetMode(m)
    \/ DisableEnforcement
    \/ \E t \in Tokens : EmergencyBypass(t) \/ ClearEmergencyBypass(t)
    \/ Close \/ Reopen
    \/ ClearMismatches \/ ResetComparisonResults
    \/ RecordComparisonMatch \/ RecordComparisonMismatch
    \/ RecordDecision \/ RecordMismatch
    \/ \E c \in Callers :
          \/ MiddlewareHeaders(c)
          \/ \E r \in Requests : CheckGate(c, r)
          \/ CallerStep(c)
    \/ Tick

Spec == Init /\ [][Next]_vars

(* A request goroutine that has started runs on to its end.                *)
FairSpec == Spec /\ \A c \in Callers : WF_vars(CallerStep(c))

-----------------------------------------------------------------------------
(* Properties.                                                             *)

(* The gate's fields; the consecutive matches never exceed the matches,    *)
(* these never the comparisons, nor the canary's yeses its requests.       *)
TypeOK ==
    /\ options \in {o \in Configs : ValidOptions(o)}
    /\ mode \in Modes
    /\ age \in 0..AgeCap
    /\ bypassSet \subseteq {EmergencyBypassToken}
    /\ closed \in BOOLEAN
    /\ mismatchCount \in 0..CountBound[options]
    /\ autoDisabled \in BOOLEAN
    /\ canaryRequestCount \in 0..CanaryBound[options]
    /\ canaryEnforced \in 0..canaryRequestCount
    /\ comparisonTotalCount \in 0..CountBound[options]
    /\ comparisonMatchCount \in 0..comparisonTotalCount
    /\ consecutiveMatchCount \in 0..comparisonMatchCount
    /\ thresholdMet \in BOOLEAN
    /\ decisions \in 0..CountBound[options]
    /\ pc \in [Callers -> {"idle", "revert", "checked"}]
    /\ req \in [Callers -> Requests \union {NoRequest}]
    /\ \A c \in Callers : pc[c] = "checked" => req[c] \in Requests
    /\ verdict \in [Callers -> BOOLEAN]

(* As long as thresholdMet is set, the recorded comparisons really carry   *)
(* the evidence the options ask for: RecordComparisonResult keeps the flag *)
(* through later matches without looking again, and drops it on a mismatch. *)
ThresholdEvidence ==
    thresholdMet => /\ ConsecutiveMet(consecutiveMatchCount)
                    /\ PercentageMet(comparisonMatchCount,
                                     comparisonTotalCount)

(* A gate built the way gateway.New builds it (shadow, enforcement not     *)
(* allowed) never tells any request to enforce, whatever the operators,    *)
(* the comparisons and the other requests do.                              *)
StartupGuardrail ==
    (options.InitialMode = "shadow" /\ ~options.AllowEnforcement) =>
        /\ mode = "shadow"
        /\ \A c \in Callers : pc[c] # "checked" /\ ~verdict[c]

(* Enforcement is only ever switched on, by any step at all, on an open    *)
(* gate that allows it and, if the options say so, on comparison evidence  *)
(* present in the counters at that moment.                                 *)
EnabledOnEvidence ==
    [][(mode' # mode /\ mode' \in Enforcing) =>
          /\ options.AllowEnforcement
          /\ ~closed
          /\ options.RequireComparisonThreshold =>
                /\ ConsecutiveMet(consecutiveMatchCount)
                /\ PercentageMet(comparisonMatchCount, comparisonTotalCount)]_vars

(* Closing the gate stops every way into enforcement, not every mode       *)
(* change: DisableEnforcement and AutoRevertIfNeeded still bring a closed  *)
(* gate back to shadow, and nothing takes it anywhere else.                *)
ClosedGateOnlyRelaxes == [][closed => mode' \in {mode, "shadow"}]_vars

(* An auto-disabled gate still remembers mismatches: ClearMismatches is    *)
(* the only operation that forgets them, and it re-enables the gate too.   *)
AutoDisableHasCause ==
    autoDisabled => /\ mismatchCount > 0
                    /\ options.AutoDisableOnMismatchThreshold > 0

(* A request inside the middleware when enforcement has expired does not   *)
(* leave it expired: AutoRevertIfNeeded runs before the next handler.      *)
ExpiryReverts ==
    \A c \in Callers : (pc[c] = "revert" /\ Expired) ~> ~Expired

(* Whenever the percentage canary has seen a whole number of hundreds of   *)
(* requests, exactly CanaryPercentage of each hundred were enforced,       *)
(* however the requests, the mode changes and the bypasses interleaved.    *)
CanaryShare ==
    (canaryRequestCount % 100 = 0) =>
        canaryEnforced * 100 = options.CanaryPercentage * canaryRequestCount

(* The inductive form of CanaryShare: of the requests n = 100 q + k counted *)
(* so far, P in each full hundred and min(k, P - 1) of the rest.           *)
CanaryExact ==
    LET P == options.CanaryPercentage
        q == canaryRequestCount \div 100
        k == canaryRequestCount % 100
    IN  /\ ~options.CanaryEnabled => canaryRequestCount = 0
        /\ canaryRequestCount = 0 => canaryEnforced = 0
        /\ (canaryRequestCount > 0 /\ P = 0) => canaryEnforced = 0
        /\ (canaryRequestCount > 0 /\ P > 0) =>
               canaryEnforced = P * q + (IF k < P THEN k ELSE P - 1)

=============================================================================
