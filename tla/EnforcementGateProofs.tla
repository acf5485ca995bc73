------------------------ MODULE EnforcementGateProofs ------------------------
(* Proofs about EnforcementGate, for every set of callers, requests and    *)
(* configurations and every bound.                                         *)
EXTENDS EnforcementGate, TLAPS

(* One definition per group of actions, so that a proof step can expand    *)
(* the actions it is about.                                                *)
USE DEF modeVars, mismatchVars, comparisonVars, canaryVars, callerVars,
        switchVars

(* The initial state of the gate NewEnforcementGate builds is well typed.  *)
LEMMA InitType == Init => TypeOK
<1> SUFFICES ASSUME Init PROVE TypeOK
  OBVIOUS
<1>1. /\ options \in Configs
      /\ options \in Options
      /\ ValidOptions(options)
  BY GateAssumption DEF Init
<1>2. options.MaxEnforcementDuration \in Nat /\ options.InitialMode \in Modes
  BY <1>1 DEF Options
<1>3. closed \in BOOLEAN /\ autoDisabled \in BOOLEAN /\ thresholdMet \in BOOLEAN
  BY Zenon DEF Init
<1>4. /\ age \in 0..AgeCap
      /\ mismatchCount \in 0..CountBound[options]
      /\ canaryRequestCount \in 0..CanaryBound[options]
      /\ canaryEnforced \in 0..canaryRequestCount
      /\ comparisonTotalCount \in 0..CountBound[options]
      /\ comparisonMatchCount \in 0..comparisonTotalCount
      /\ consecutiveMatchCount \in 0..comparisonMatchCount
      /\ decisions \in 0..CountBound[options]
  BY <1>2, GateAssumption DEF Init, AgeCap
<1> QED
  BY <1>1, <1>2, <1>3, <1>4 DEF Init, TypeOK

(* Every step of an operator, a comparison or a request keeps the gate's   *)
(* state well typed: in particular the comparison counters stay ordered    *)
(* (consecutive <= matches <= total) and no token but the configured one   *)
(* is ever active.                                                         *)
LEMMA NextType == TypeOK /\ [Next]_vars => TypeOK'
<1> SUFFICES ASSUME TypeOK, [Next]_vars PROVE TypeOK'
  OBVIOUS
<1> USE DEF TypeOK, AgeCap
<1>0. options.MaxEnforcementDuration \in Nat
  BY GateAssumption DEF Options
<1>a. CountBound[options] \in Nat /\ CanaryBound[options] \in Nat
  BY GateAssumption
<1>1. ASSUME NEW m \in Modes, SetMode(m) PROVE TypeOK'
  <2>1. autoDisabled' \in BOOLEAN
    BY <1>1, Zenon DEF SetMode
  <2>2. age' \in 0..AgeCap'
    BY <1>0, <1>1 DEF SetMode
  <2> QED
    BY <1>1, <2>1, <2>2 DEF SetMode
<1>2. CASE DisableEnforcement
  BY <1>0, <1>2 DEF DisableEnforcement, Modes
<1>3. ASSUME NEW t \in Tokens, EmergencyBypass(t) \/ ClearEmergencyBypass(t)
      PROVE TypeOK'
  BY <1>0, <1>3 DEF EmergencyBypass, ClearEmergencyBypass
<1>4. CASE Close \/ Reopen
  BY <1>0, <1>4 DEF Close, Reopen
<1>5. CASE ClearMismatches
  <2>1. autoDisabled' \in BOOLEAN
    BY <1>5, Zenon DEF ClearMismatches
  <2>2. mismatchCount' \in 0..CountBound[options]
    BY <1>a, <1>5 DEF ClearMismatches
  <2> QED
    BY <1>5, <2>1, <2>2 DEF ClearMismatches
<1>6. CASE ResetComparisonResults
  <2>1. thresholdMet' \in BOOLEAN
    BY <1>6, Zenon DEF ResetComparisonResults
  <2>2. /\ comparisonTotalCount' \in 0..CountBound[options]
        /\ comparisonMatchCount' \in 0..comparisonTotalCount'
        /\ consecutiveMatchCount' \in 0..comparisonMatchCount'
    BY <1>a, <1>6 DEF ResetComparisonResults
  <2> QED
    BY <1>6, <2>1, <2>2 DEF ResetComparisonResults
<1>7. CASE RecordComparisonMatch
  BY <1>0, <1>a, <1>7 DEF RecordComparisonMatch
<1>8. CASE RecordComparisonMismatch
  <2>1. thresholdMet' \in BOOLEAN
    BY <1>8, Zenon DEF RecordComparisonMismatch
  <2>2. /\ comparisonTotalCount' \in 0..CountBound[options]
        /\ comparisonMatchCount' \in 0..comparisonTotalCount'
        /\ consecutiveMatchCount' \in 0..comparisonMatchCount'
    BY <1>a, <1>8 DEF RecordComparisonMismatch
  <2> QED
    BY <1>8, <2>1, <2>2 DEF RecordComparisonMismatch
<1>9. CASE RecordDecision
  BY <1>0, <1>a, <1>9 DEF RecordDecision
<1>10. CASE RecordMismatch
  BY <1>0, <1>a, <1>10 DEF RecordMismatch
<1>11. ASSUME NEW c \in Callers, MiddlewareHeaders(c) PROVE TypeOK'
  BY <1>0, <1>11 DEF MiddlewareHeaders
<1>12. ASSUME NEW c \in Callers, AutoRevertIfNeeded(c) PROVE TypeOK'
  BY <1>0, <1>12 DEF AutoRevertIfNeeded, Modes
<1>13. ASSUME NEW c \in Callers, NEW r \in Requests, CheckGate(c, r)
       PROVE TypeOK'
  BY <1>0, <1>13 DEF CheckGate
<1>14. ASSUME NEW c \in Callers, CheckRequest(c) PROVE TypeOK'
  <2>1. verdict' \in [Callers -> BOOLEAN]
    BY <1>14 DEF CheckRequest, IsCanaryRequest, IsAllowlisted, InCanaryShare
  <2>2. /\ canaryRequestCount' \in 0..CanaryBound[options]
        /\ canaryEnforced' \in 0..canaryRequestCount'
    BY <1>a, <1>14, <2>1 DEF CheckRequest
  <2> QED
    BY <1>0, <1>14, <2>1, <2>2 DEF CheckRequest
<1>15. CASE Tick
  BY <1>0, <1>15 DEF Tick
<1>16. CASE UNCHANGED vars
  BY <1>0, <1>16 DEF vars
<1> QED
  BY <1>1, <1>2, <1>3, <1>4, <1>5, <1>6, <1>7, <1>8, <1>9, <1>10, <1>11,
     <1>12, <1>13, <1>14, <1>15, <1>16 DEF Next, CallerStep

(* Type correctness of the gate.                                           *)
THEOREM GateTypeCorrect == Spec => []TypeOK
BY InitType, NextType, PTL DEF Spec

-----------------------------------------------------------------------------
(* A further match never brings the match rate below a percentage it had   *)
(* reached.                                                                *)
LEMMA PercentGrows ==
    ASSUME NEW p \in 0..100, NEW m \in Nat, NEW t \in Nat,
           AtLeastPercent(m, t, p)
    PROVE  AtLeastPercent(m + 1, t + 1, p)
<1>1. p * (t + 1) = p * t + p /\ p * t \in Nat
  OBVIOUS
<1> QED
  BY <1>1 DEF AtLeastPercent

(* The evidence behind the flag survives every step.                       *)
LEMMA NextEvidence ==
    TypeOK /\ ThresholdEvidence /\ [Next]_vars => ThresholdEvidence'
<1> SUFFICES ASSUME TypeOK, ThresholdEvidence, [Next]_vars,
                    thresholdMet'
             PROVE  /\ ConsecutiveMet(consecutiveMatchCount)'
                    /\ PercentageMet(comparisonMatchCount, comparisonTotalCount)'
  BY DEF ThresholdEvidence
<1>0. /\ options.ComparisonThresholdCount \in Nat
      /\ options.ComparisonThresholdPercentage \in 0..100
      /\ comparisonTotalCount \in Nat
      /\ comparisonMatchCount \in 0..comparisonTotalCount
      /\ consecutiveMatchCount \in Nat
      /\ options' = options
  <2>1. options' = options
    BY DEF Next, vars, SetMode, DisableEnforcement, EmergencyBypass,
           ClearEmergencyBypass, Close, Reopen, ClearMismatches,
           ResetComparisonResults, RecordComparisonMatch,
           RecordComparisonMismatch, RecordDecision, RecordMismatch,
           MiddlewareHeaders, CheckGate, CallerStep, AutoRevertIfNeeded,
           CheckRequest, Tick
  <2> QED
    BY <2>1, GateAssumption DEF TypeOK, ValidOptions, Options
<1>1. CASE RecordComparisonMatch
  <2>1. ASSUME thresholdMet
        PROVE  /\ ConsecutiveMet(consecutiveMatchCount + 1)
               /\ PercentageMet(comparisonMatchCount + 1,
                                comparisonTotalCount + 1)
    <3>1. ConsecutiveMet(consecutiveMatchCount + 1)
      BY <1>0, <2>1 DEF ThresholdEvidence, ConsecutiveMet
    <3>2. CASE comparisonTotalCount = 0
      BY <1>0, <3>1, <3>2 DEF PercentageMet, AtLeastPercent
    <3>3. CASE comparisonTotalCount > 0
      <4>1. CASE options.ComparisonThresholdPercentage > 0
        <5>1. AtLeastPercent(comparisonMatchCount, comparisonTotalCount,
                             options.ComparisonThresholdPercentage)
          BY <2>1, <3>3, <4>1 DEF ThresholdEvidence, PercentageMet
        <5>2. comparisonMatchCount \in Nat
          BY <1>0
        <5>3. AtLeastPercent(comparisonMatchCount + 1,
                             comparisonTotalCount + 1,
                             options.ComparisonThresholdPercentage)
          BY <1>0, <5>1, <5>2, PercentGrows
        <5> QED
          BY <3>1, <5>3 DEF PercentageMet
      <4>2. CASE ~(options.ComparisonThresholdPercentage > 0)
        BY <3>1, <4>2 DEF PercentageMet
      <4> QED
        BY <4>1, <4>2
    <3> QED
      BY <1>0, <3>2, <3>3
  <2>2. /\ ConsecutiveMet(consecutiveMatchCount + 1)
        /\ PercentageMet(comparisonMatchCount + 1, comparisonTotalCount + 1)
    BY <1>1, <2>1 DEF RecordComparisonMatch
  <2> QED
    BY <1>0, <1>1, <2>2
    DEF RecordComparisonMatch, ConsecutiveMet, PercentageMet
<1>2. CASE RecordComparisonMismatch \/ ResetComparisonResults
  BY <1>2 DEF RecordComparisonMismatch, ResetComparisonResults
<1>3. CASE UNCHANGED comparisonVars
  BY <1>0, <1>3 DEF ThresholdEvidence, ConsecutiveMet, PercentageMet
<1> QED
  BY <1>1, <1>2, <1>3
  DEF Next, vars, SetMode, DisableEnforcement, EmergencyBypass,
      ClearEmergencyBypass, Close, Reopen, ClearMismatches, RecordDecision,
      RecordMismatch, MiddlewareHeaders, CheckGate, CallerStep,
      AutoRevertIfNeeded, CheckRequest, Tick

(* Whenever thresholdMet is set, the comparison counters carry the evidence *)
(* the configuration asks for.                                             *)
THEOREM EvidenceBehindFlag == Spec => []ThresholdEvidence
<1>1. Init => ThresholdEvidence
  BY DEF Init, ThresholdEvidence
<1> QED
  BY <1>1, GateTypeCorrect, NextEvidence, PTL DEF Spec

(* Enforcement is only switched on where it is allowed, on an open gate    *)
(* and, if the options ask for it, on comparison evidence.                 *)
THEOREM EnforcementNeedsEvidence == Spec => EnabledOnEvidence
<1>1. ASSUME TypeOK, ThresholdEvidence, Next,
             mode' # mode, mode' \in Enforcing
      PROVE  /\ options.AllowEnforcement
             /\ ~closed
             /\ options.RequireComparisonThreshold =>
                  /\ ConsecutiveMet(consecutiveMatchCount)
                  /\ PercentageMet(comparisonMatchCount, comparisonTotalCount)
  <2>1. \E m \in Modes : SetMode(m) /\ mode' = m
    BY <1>1
    DEF Next, SetMode, DisableEnforcement, EmergencyBypass,
        ClearEmergencyBypass, Close, Reopen, ClearMismatches,
        ResetComparisonResults, RecordComparisonMatch,
        RecordComparisonMismatch, RecordDecision, RecordMismatch,
        MiddlewareHeaders, CheckGate, CallerStep, AutoRevertIfNeeded,
        CheckRequest, Tick, Enforcing
  <2> QED
    BY <1>1, <2>1 DEF SetMode, ThresholdEvidence
<1> QED
  BY <1>1, GateTypeCorrect, EvidenceBehindFlag, PTL
  DEF Spec, EnabledOnEvidence

-----------------------------------------------------------------------------
(* A gate as gateway.New builds it stays in shadow mode and never tells a  *)
(* request to enforce.                                                     *)
THEOREM ShadowGateNeverEnforces == Spec => []StartupGuardrail
<1>1. Init => StartupGuardrail
  BY DEF Init, StartupGuardrail
<1>2. TypeOK /\ StartupGuardrail /\ [Next]_vars => StartupGuardrail'
  <2> SUFFICES ASSUME TypeOK, StartupGuardrail, [Next]_vars,
                      options'.InitialMode = "shadow",
                      ~options'.AllowEnforcement
               PROVE  /\ mode' = "shadow"
                      /\ \A c \in Callers : pc'[c] # "checked" /\ ~verdict'[c]
    BY DEF StartupGuardrail
  <2> USE DEF TypeOK
  <2>0. /\ options' = options
        /\ mode = "shadow"
        /\ \A c \in Callers : pc[c] # "checked" /\ ~verdict[c]
    <3>1. options' = options
      BY DEF Next, vars, SetMode, DisableEnforcement, EmergencyBypass,
             ClearEmergencyBypass, Close, Reopen, ClearMismatches,
             ResetComparisonResults, RecordComparisonMatch,
             RecordComparisonMismatch, RecordDecision, RecordMismatch,
             MiddlewareHeaders, CheckGate, CallerStep, AutoRevertIfNeeded,
             CheckRequest, Tick
    <3> QED
      BY <3>1 DEF StartupGuardrail
  <2>1. ASSUME NEW m \in Modes, SetMode(m)
        PROVE mode' = "shadow" /\ UNCHANGED callerVars
    BY <2>0, <2>1 DEF SetMode, Modes
  <2>2. ASSUME NEW c \in Callers, CallerStep(c) \/ MiddlewareHeaders(c)
        PROVE /\ mode' = "shadow"
              /\ verdict' = verdict
              /\ \A d \in Callers : pc'[d] # "checked"
    BY <2>0, <2>2
    DEF CallerStep, AutoRevertIfNeeded, CheckRequest, MiddlewareHeaders
  <2>3. ASSUME NEW c \in Callers, NEW r \in Requests, CheckGate(c, r)
        PROVE /\ mode' = "shadow"
              /\ \A d \in Callers : pc'[d] # "checked" /\ ~verdict'[d]
    BY <2>0, <2>3 DEF CheckGate, ShouldEnforce, Enforcing
  <2>4. CASE mode' \in {mode, "shadow"} /\ UNCHANGED callerVars
    BY <2>0, <2>4
  <2> QED
    BY <2>0, <2>1, <2>2, <2>3, <2>4
    DEF Next, vars, DisableEnforcement, EmergencyBypass,
        ClearEmergencyBypass, Close, Reopen, ClearMismatches,
        ResetComparisonResults, RecordComparisonMatch,
        RecordComparisonMismatch, RecordDecision, RecordMismatch, Tick
<1> QED
  BY <1>1, <1>2, GateTypeCorrect, PTL DEF Spec

-----------------------------------------------------------------------------
(* Nothing but SetMode leads into enforcement, and SetMode asks for an     *)
(* open gate.                                                              *)
THEOREM ClosedGateStaysOut == Spec => ClosedGateOnlyRelaxes
<1>1. ASSUME Next, closed
      PROVE  mode' \in {mode, "shadow"}
  BY <1>1
  DEF Next, SetMode, DisableEnforcement, EmergencyBypass,
      ClearEmergencyBypass, Close, Reopen, ClearMismatches,
      ResetComparisonResults, RecordComparisonMatch,
      RecordComparisonMismatch, RecordDecision, RecordMismatch,
      MiddlewareHeaders, CheckGate, CallerStep, AutoRevertIfNeeded,
      CheckRequest, Tick
<1> QED
  BY <1>1, PTL DEF Spec, ClosedGateOnlyRelaxes, vars

-----------------------------------------------------------------------------
(* A gate that has disabled itself was given mismatches and a threshold    *)
(* for them: no operator call forgets the one and keeps the other.         *)
THEOREM AutoDisabledForCause == Spec => []AutoDisableHasCause
<1>1. Init => AutoDisableHasCause
  BY DEF Init, AutoDisableHasCause
<1>2. TypeOK /\ AutoDisableHasCause /\ [Next]_vars => AutoDisableHasCause'
  <2> SUFFICES ASSUME TypeOK, AutoDisableHasCause, [Next]_vars, autoDisabled'
               PROVE  /\ mismatchCount' > 0
                      /\ options'.AutoDisableOnMismatchThreshold > 0
    BY DEF AutoDisableHasCause
  <2>0. mismatchCount \in Nat
    BY DEF TypeOK
  <2>1. CASE RecordMismatch
    <3>1. mismatchCount' = mismatchCount + 1 /\ options' = options
      BY <2>1 DEF RecordMismatch
    <3>2. autoDisabled \/ options.AutoDisableOnMismatchThreshold > 0
      BY <2>1, Zenon DEF RecordMismatch
    <3> QED
      BY <2>0, <3>1, <3>2 DEF AutoDisableHasCause
  <2>2. CASE UNCHANGED <<options, mismatchVars>>
    BY <2>2 DEF AutoDisableHasCause
  <2>3. ASSUME \/ \E m \in Modes : SetMode(m)
               \/ DisableEnforcement \/ ClearMismatches
        PROVE  FALSE
    BY <2>3 DEF SetMode, DisableEnforcement, ClearMismatches
  <2> QED
    BY <2>1, <2>2, <2>3
    DEF Next, vars, EmergencyBypass, ClearEmergencyBypass, Close, Reopen,
        ResetComparisonResults, RecordComparisonMatch,
        RecordComparisonMismatch, RecordDecision, MiddlewareHeaders,
        CheckGate, CallerStep, AutoRevertIfNeeded, CheckRequest, Tick
<1> QED
  BY <1>1, <1>2, GateTypeCorrect, PTL DEF Spec

-----------------------------------------------------------------------------
(* What CanaryExact says of m requests under a canary of P per cent.       *)
Share(P, m) == P * (m \div 100) + (IF m % 100 < P THEN m % 100 ELSE P - 1)

(* How the canary's share grows with one more request: the request itself  *)
(* is the first of its hundred, or inside the share, or outside it.        *)
LEMMA OneMoreRequest ==
    ASSUME NEW n \in Nat, NEW P \in 1..100
    PROVE  Share(P, n + 1)
             = Share(P, n) + (IF (n + 1) % 100 < P THEN 1 ELSE 0)
<1>1. CASE n % 100 < 99
  <2>1. (n + 1) % 100 = (n % 100) + 1 /\ (n + 1) \div 100 = n \div 100
    BY <1>1
  <2> QED
    BY <1>1, <2>1 DEF Share
<1>2. CASE n % 100 = 99
  <2>1. (n + 1) % 100 = 0 /\ (n + 1) \div 100 = n \div 100 + 1
    BY <1>2
  <2>2. P * (n \div 100 + 1) = P * (n \div 100) + P /\ n \div 100 \in Nat
    OBVIOUS
  <2> QED
    BY <1>2, <2>1, <2>2 DEF Share
<1> QED
  BY <1>1, <1>2

(* A counted request keeps the share exact; every other step leaves the    *)
(* canary's counters alone.                                                *)
LEMMA NextCanary == TypeOK /\ CanaryExact /\ [Next]_vars => CanaryExact'
<1> SUFFICES ASSUME TypeOK, CanaryExact, [Next]_vars PROVE CanaryExact'
  OBVIOUS
<1>1. options' = options
  BY DEF Next, vars, SetMode, DisableEnforcement, EmergencyBypass,
         ClearEmergencyBypass, Close, Reopen, ClearMismatches,
         ResetComparisonResults, RecordComparisonMatch,
         RecordComparisonMismatch, RecordDecision, RecordMismatch,
         MiddlewareHeaders, CheckGate, CallerStep, AutoRevertIfNeeded,
         CheckRequest, Tick
<1>2. CASE UNCHANGED canaryVars
  BY <1>1, <1>2 DEF CanaryExact
<1>3. ASSUME NEW c \in Callers, CheckRequest(c), CountsCanary
      PROVE  CanaryExact'
  <2> DEFINE P == options.CanaryPercentage
             n == canaryRequestCount
  <2>1. /\ options.CanaryEnabled /\ P \in 0..100
        /\ n \in Nat /\ canaryEnforced \in Nat
    BY <1>3, GateAssumption
    DEF CountsCanary, TypeOK, ValidOptions, Options
  <2>2. /\ canaryRequestCount' = n + 1
        /\ canaryEnforced' =
             canaryEnforced + (IF (n + 1) % 100 < P THEN 1 ELSE 0)
    BY <1>3, <2>1
    DEF CheckRequest, CountsCanary, IsCanaryRequest, InCanaryShare, TypeOK
  <2>3. CASE P = 0
    <3>1. canaryEnforced = 0
      BY <2>1, <2>3 DEF CanaryExact
    <3>2. ~((n + 1) % 100 < P)
      BY <2>1, <2>3
    <3> QED
      BY <1>1, <2>1, <2>2, <2>3, <3>1, <3>2 DEF CanaryExact
  <2>4. CASE P > 0
    <3>1. canaryEnforced = Share(P, n)
      <4>1. CASE n = 0
        <5>1. canaryEnforced = 0
          BY <4>1 DEF CanaryExact
        <5>2. n \div 100 = 0 /\ n % 100 = 0 /\ P * 0 = 0
          BY <2>1, <4>1
        <5> QED
          BY <2>1, <2>4, <5>1, <5>2 DEF Share
      <4>2. CASE n > 0
        BY <2>1, <2>4, <4>2 DEF CanaryExact, Share
      <4> QED
        BY <2>1, <4>1, <4>2
    <3>2. canaryEnforced' = Share(P, n + 1)
      BY <2>1, <2>2, <2>4, <3>1, OneMoreRequest
    <3> QED
      BY <1>1, <2>1, <2>2, <2>4, <3>2 DEF CanaryExact, Share
  <2> QED
    BY <2>1, <2>3, <2>4
<1> QED
  BY <1>2, <1>3
  DEF Next, vars, SetMode, DisableEnforcement, EmergencyBypass,
      ClearEmergencyBypass, Close, Reopen, ClearMismatches,
      ResetComparisonResults, RecordComparisonMatch,
      RecordComparisonMismatch, RecordDecision, RecordMismatch,
      MiddlewareHeaders, CheckGate, CallerStep, AutoRevertIfNeeded,
      CheckRequest, Tick

(* Of every hundred requests a percentage canary counts, exactly the       *)
(* configured percentage is enforced, for every percentage and however     *)
(* long the gate runs.                                                     *)
THEOREM CanaryShareExact == Spec => []CanaryExact /\ []CanaryShare
<1>1. Init => CanaryExact
  BY DEF Init, CanaryExact
<1>2. TypeOK /\ CanaryExact => CanaryShare
  <2> SUFFICES ASSUME TypeOK, CanaryExact, canaryRequestCount % 100 = 0
               PROVE  canaryEnforced * 100
                        = options.CanaryPercentage * canaryRequestCount
    BY DEF CanaryShare
  <2> DEFINE P == options.CanaryPercentage
             n == canaryRequestCount
             q == n \div 100
  <2>1. n \in Nat /\ q \in Nat /\ n = 100 * q
    BY DEF TypeOK
  <2>2. CASE n = 0
    <3>1. canaryEnforced = 0
      BY <2>2 DEF CanaryExact
    <3>2. P \in Int
      BY GateAssumption DEF TypeOK, Options
    <3> QED
      BY <2>2, <3>1, <3>2
  <2>3. CASE n > 0
    <3>1. P \in 0..100
      BY <2>3, GateAssumption DEF TypeOK, Options, ValidOptions, CanaryExact
    <3>2. CASE P = 0
      BY <2>1, <2>3, <3>2 DEF CanaryExact
    <3>3. CASE P > 0
      <4>1. canaryEnforced = P * q
        BY <2>1, <2>3, <3>1, <3>3 DEF CanaryExact
      <4>2. (P * q) * 100 = P * (100 * q)
        BY <2>1, <3>1
      <4> QED
        BY <2>1, <4>1, <4>2
    <3> QED
      BY <3>1, <3>2, <3>3
  <2> QED
    BY <2>1, <2>2, <2>3
<1> QED
  BY <1>1, <1>2, GateTypeCorrect, NextCanary, PTL DEF Spec
=============================================================================
