-------------------------- MODULE MCEnforcementGate --------------------------
(* Constants for model checking EnforcementGate.                           *)
EXTENDS EnforcementGate

CONSTANTS c1, c2, get, put, good, wrong

(* The gateway's own configuration (gateway.New).                          *)
GatewayConfig ==
    [InitialMode |-> "shadow", AllowEnforcement |-> FALSE,
     EmergencyBypassEnabled |-> TRUE, MaxEnforcementDuration |-> 0,
     AutoDisableOnMismatchThreshold |-> 0,
     RequireComparisonThreshold |-> FALSE,
     ComparisonThresholdPercentage |-> 0, ComparisonThresholdCount |-> 0,
     CanaryEnabled |-> FALSE, CanaryMode |-> "percentage",
     CanaryPercentage |-> 0]

(* Enforcement allowed once two consecutive comparisons and half of all of *)
(* them match; auto-disable above half mismatches.                         *)
EvidenceConfig ==
    [GatewayConfig EXCEPT !.AllowEnforcement = TRUE,
        !.RequireComparisonThreshold = TRUE,
        !.ComparisonThresholdPercentage = 60,
        !.ComparisonThresholdCount = 2,
        !.AutoDisableOnMismatchThreshold = 50]

(* Enforcement limited in time, header canary, started enforcing.          *)
TimedConfig ==
    [GatewayConfig EXCEPT !.AllowEnforcement = TRUE,
        !.MaxEnforcementDuration = 1, !.InitialMode = "enforce",
        !.CanaryEnabled = TRUE, !.CanaryMode = "header"]

(* A percentage canary.                                                    *)
CanaryConfig ==
    [GatewayConfig EXCEPT !.AllowEnforcement = TRUE,
        !.CanaryEnabled = TRUE, !.CanaryPercentage = 2]

CanaryConfigs ==
    {[CanaryConfig EXCEPT !.CanaryPercentage = p] : p \in {0, 1, 2, 99, 100}}
AllConfigs == {GatewayConfig, EvidenceConfig, TimedConfig} \union CanaryConfigs
TimedConfigs == {TimedConfig}

(* Two hundreds of requests where a percentage canary counts them, a few   *)
(* comparisons and mismatches elsewhere.                                   *)
SomeCounts == [o \in Configs |-> IF o \in CanaryConfigs THEN 0 ELSE 3]
TwoHundreds == [o \in Configs |-> IF o \in CanaryConfigs THEN 201 ELSE 0]
Nothing == [o \in Configs |-> 0]
=============================================================================
