------------------------------ MODULE Evaluators ------------------------------
(* The WAC and the ACP evaluator (src/internal/authz/wac_evaluator.go and     *)
(* acp_evaluator.go). Both make a policy of two fixed rules out of every      *)
(* document: the owner may do what OwnerModes says and the public agent may   *)
(* read the resource the document is about. Requests are well formed.         *)
EXTENDS Naturals, FiniteSets

CONSTANTS Documents,
          About,         \* per document the URI it is about: its own without
                         \* a trailing .acl
          Readable,      \* the documents in a content type of the parsers
          MaxPolicies,
          Owner, PublicAgent,
          NoAgent        \* a request without WebID

Families == {"wac", "acp"}

OwnerModes(family) ==
    {"read", "write", "control"} \union (IF family = "acp" THEN {"append"} ELSE {})

CreateSampleRules(family, d) ==
    {[accessTo |-> About[d], agent |-> Owner, modes |-> OwnerModes(family)],
     [accessTo |-> About[d], agent |-> PublicAgent, modes |-> {"read"}]}

ParsePolicies(family, docs) ==
    UNION {CreateSampleRules(family, d) : d \in docs \intersect Readable}

RuleMatchesRequest(rule, ask) ==
    rule.accessTo = ask.resource /\ rule.agent = ask.agent

(* One rule has to allow all the modes.                                       *)
RuleAllowsModes(rule, modes) == modes \subseteq rule.modes

(* Mutant: without a rule everything is allowed.                              *)
EvaluateRequest_Open(family, ask, docs) ==
    LET rules == ParsePolicies(family, docs)
    IN  IF rules = {} THEN "allow"
        ELSE IF \E rule \in rules :
                   RuleMatchesRequest(rule, ask) /\ RuleAllowsModes(rule, ask.modes)
        THEN "allow" ELSE "deny"

EvaluateRequest(family, ask, docs) ==
    LET rules == ParsePolicies(family, docs)
    IN  IF rules = {} \/ ask.agent = NoAgent THEN "abstain"
        ELSE IF \E rule \in rules :
                   RuleMatchesRequest(rule, ask) /\ RuleAllowsModes(rule, ask.modes)
        THEN "allow" ELSE "deny"

(* Evaluate of either evaluator outside shadow mode.                          *)
Evaluate(family, ask, docs) ==
    IF ask.modes = {} THEN "deny"
    ELSE IF Cardinality(docs) \notin 1..MaxPolicies THEN "abstain"
    ELSE EvaluateRequest(family, ask, docs)
===============================================================================
