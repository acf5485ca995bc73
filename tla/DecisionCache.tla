---------------------------- MODULE DecisionCache ----------------------------
(***************************************************************************)
(* internal/authz/caching_evaluator.go over internal/authz/cache/cache.go: *)
(* an authz.Evaluator that remembers decisions in a MemoryCache.           *)
(*                                                                         *)
(* Evaluate takes no lock of its own around the cache: reading an entry,   *)
(* judging its age, removing it, evaluating and storing are separate steps *)
(* of a caller, and the invalidations of other goroutines run in between.  *)
(* The evaluation of a request is a function of its key: the key holds the *)
(* version of the policy documents the request carries.  Agent, issuer and *)
(* client are one component of the key, and so are method and mode.        *)
(* Metrics and logging are left out, and with them the stale window: Get   *)
(* counts it and never sets a decision's Stale, so the refresh that        *)
(* Evaluate has for stale decisions is unreachable.                        *)
(***************************************************************************)
EXTENDS PolicyVersions, Naturals, FiniteSets

CONSTANTS
    Callers,     \* goroutines that call Evaluate
    Agents,      \* who asks; Anonymous has no agent, issuer or client
    Anonymous,
    Resources,   \* which resource
    Outcome,     \* what the wrapped evaluator decides for each key
    TTL, MaxTTL, MaxSize, EnableNegativeCache, NegativeCacheTTL,
    TimeBound    \* bound on the clock

Keys == [agent: Agents, resource: Resources, version: Versions]
DecisionValues == {"allow", "deny", "abstain"}

(* Config.Validate, and what the wrapped evaluator may return.             *)
ASSUME CacheAssumption ==
    /\ Outcome \in [Keys -> DecisionValues]
    /\ None \notin Keys
    /\ None \notin DecisionValues \union {"error"}
    /\ TTL \in Nat /\ MaxTTL \in Nat /\ MaxSize \in Nat
    /\ TTL > 0 /\ MaxTTL > 0 /\ MaxSize > 0
    /\ EnableNegativeCache \in BOOLEAN
    /\ NegativeCacheTTL \in Nat
    /\ EnableNegativeCache => NegativeCacheTTL \in 1..TTL
    /\ TimeBound \in Nat

VARIABLES
    now,
    enabled,     \* options.EnableCaching
    entries,     \* the cache: a function on the keys it holds
    pc,          \* where each caller stands in Evaluate
    key,         \* the key of its request
    found,       \* the entry Get read for it
    decision,    \* the fresh decision it is about to store
    overtaken,   \* an invalidation of its key ran since it evaluated
    result       \* what its last Evaluate returned

callVars == <<pc, key, found, decision, overtaken, result>>
cacheVars == <<now, enabled, entries, callVars>>

CacheInit ==
    /\ now = 0
    /\ enabled = TRUE
    /\ entries = [k \in {} |-> None]
    /\ pc = [c \in Callers |-> "idle"]
    /\ key = [c \in Callers |-> None]
    /\ found = [c \in Callers |-> None]
    /\ decision = [c \in Callers |-> None]
    /\ overtaken = [c \in Callers |-> FALSE]
    /\ result = [c \in Callers |-> None]

-----------------------------------------------------------------------------
(* MemoryCache.                                                            *)

Without(K) == [k \in DOMAIN entries \ K |-> entries[k]]

(* convertFromCacheDecision: the cache keeps one bit of the decision.      *)
FromCache(e) == IF e.allow THEN "allow" ELSE "deny"

Expired(e) == now > e.expiresAt

(* Put refuses keys that identify nobody and, unless negative caching is   *)
(* on, every decision that does not allow.                                 *)
Cacheable(k, d) ==
    /\ k.agent # Anonymous
    /\ d = "allow" \/ EnableNegativeCache

(* Mutant: the cap is forgotten.                                           *)
EntryTTL_Uncapped(d) == IF d = "allow" THEN TTL ELSE NegativeCacheTTL

EntryTTL(d) ==
    LET ttl == IF d = "allow" THEN TTL ELSE NegativeCacheTTL
    IN  IF ttl > MaxTTL THEN MaxTTL ELSE ttl

(* Mutant: off by one.                                                     *)
MakeRoom_OffByOne ==
    IF Cardinality(DOMAIN entries) <= MaxSize
    THEN {{}}
    ELSE {{k} : k \in {o \in DOMAIN entries :
              \A p \in DOMAIN entries :
                  entries[o].expiresAt <= entries[p].expiresAt}}

(* evictOldest: at the limit, one of the entries that expire first goes    *)
(* (WithinLimits makes the loop run once), even if the key is in the cache *)
(* already.  The sets of keys that may be removed:                         *)
MakeRoom ==
    IF Cardinality(DOMAIN entries) < MaxSize
    THEN {{}}
    ELSE {{k} : k \in {o \in DOMAIN entries :
              \A p \in DOMAIN entries :
                  entries[o].expiresAt <= entries[p].expiresAt}}

(* The invalidations; each runs under the cache's lock.  A caller that is  *)
(* about to store a decision is not told.                                  *)
Forget(K) ==
    /\ entries' = Without(K)
    /\ overtaken' = [c \in Callers |->
                       overtaken[c] \/ (pc[c] = "put" /\ key[c] \in K)]
    /\ UNCHANGED <<now, enabled, pc, key, found, decision, result>>

InvalidatePolicy(v) == Forget({k \in Keys : k.version = v})
InvalidateResource(r) == Forget({k \in Keys : k.resource = r})
InvalidateAgent(a) == Forget({k \in Keys : k.agent = a})
Clear == Forget(Keys)

-----------------------------------------------------------------------------
(* CachingEvaluator.Evaluate.                                              *)

(* The caching switch is read first, under e.mu.                           *)
Evaluate(c, k) ==
    /\ pc[c] = "idle"
    /\ key' = [key EXCEPT ![c] = k]
    /\ pc' = [pc EXCEPT ![c] = IF enabled THEN "get" ELSE "direct"]
    /\ result' = [result EXCEPT ![c] = None]
    /\ UNCHANGED <<now, enabled, entries, found, decision, overtaken>>

Return(c, d) ==
    /\ result' = [result EXCEPT ![c] = d]
    /\ pc' = [pc EXCEPT ![c] = "idle"]

(* Caching disabled: the wrapped evaluator answers, or fails.              *)
EvaluateDirect(c) ==
    /\ pc[c] = "direct"
    /\ \E d \in {Outcome[key[c]], "error"} : Return(c, d)
    /\ UNCHANGED <<now, enabled, entries, key, found, decision, overtaken>>

(* Mutant: the policy version is left out of the key.                      *)
GetLookup_AnyVersion(c) ==
    LET same == {k \in DOMAIN entries : k.agent = key[c].agent
                                          /\ k.resource = key[c].resource}
    IN  /\ pc[c] = "get"
        /\ IF same # {}
           THEN /\ \E k \in same : found' = [found EXCEPT ![c] = entries[k]]
                /\ pc' = [pc EXCEPT ![c] = "judge"]
           ELSE /\ pc' = [pc EXCEPT ![c] = "evaluate"]
                /\ UNCHANGED found
        /\ overtaken' = [overtaken EXCEPT ![c] = FALSE]
        /\ UNCHANGED <<now, enabled, entries, key, decision, result>>

(* Get: the map is read under the read lock, which is then released.       *)
GetLookup(c) ==
    /\ pc[c] = "get"
    /\ IF key[c] \in DOMAIN entries
       THEN /\ found' = [found EXCEPT ![c] = entries[key[c]]]
            /\ pc' = [pc EXCEPT ![c] = "judge"]
       ELSE /\ pc' = [pc EXCEPT ![c] = "evaluate"]
            /\ UNCHANGED found
    /\ overtaken' = [overtaken EXCEPT ![c] = FALSE]
    /\ UNCHANGED <<now, enabled, entries, key, decision, result>>

(* Get: an entry past its time is to be removed, any other one is served.  *)
GetJudge(c) ==
    /\ pc[c] = "judge"
    /\ IF Expired(found[c])
       THEN /\ pc' = [pc EXCEPT ![c] = "expired"]
            /\ UNCHANGED result
       ELSE Return(c, FromCache(found[c]))
    /\ found' = [found EXCEPT ![c] = None]
    /\ UNCHANGED <<now, enabled, entries, key, decision, overtaken>>

(* Get: the key is removed under the lock, whatever it holds by now.       *)
GetDelete(c) ==
    /\ pc[c] = "expired"
    /\ entries' = Without({key[c]})
    /\ pc' = [pc EXCEPT ![c] = "evaluate"]
    /\ overtaken' = [overtaken EXCEPT ![c] = FALSE]
    /\ UNCHANGED <<now, enabled, key, found, decision, result>>

(* A miss: the wrapped evaluator decides or fails.                         *)
EvaluateMiss(c) ==
    /\ pc[c] = "evaluate"
    /\ \/ /\ decision' = [decision EXCEPT ![c] = Outcome[key[c]]]
          /\ pc' = [pc EXCEPT ![c] = "put"]
          /\ UNCHANGED result
       \/ /\ Return(c, "error")
          /\ UNCHANGED decision
    /\ UNCHANGED <<now, enabled, entries, key, found, overtaken>>

(* Put, under the lock, then Evaluate returns the fresh decision.          *)
Put(c) ==
    /\ pc[c] = "put"
    /\ IF Cacheable(key[c], decision[c])
       THEN \E gone \in MakeRoom :
              entries' =
                [k \in (DOMAIN entries \ gone) \union {key[c]} |->
                   IF k = key[c]
                   THEN [allow |-> decision[c] = "allow",
                         expiresAt |-> now + EntryTTL(decision[c]),
                         overtaken |-> overtaken[c]]
                   ELSE entries[k]]
       ELSE UNCHANGED entries
    /\ Return(c, decision[c])
    /\ decision' = [decision EXCEPT ![c] = None]
    /\ UNCHANGED <<now, enabled, key, found, overtaken>>

EnableCaching(b) ==
    /\ enabled' = b
    /\ UNCHANGED <<now, entries, callVars>>

ClockTicks ==
    /\ now < TimeBound
    /\ now' = now + 1
    /\ UNCHANGED <<enabled, entries, callVars>>

CacheNext ==
    \/ \E c \in Callers :
          \/ \E k \in Keys : Evaluate(c, k)
          \/ EvaluateDirect(c)
          \/ GetLookup(c) \/ GetJudge(c) \/ GetDelete(c)
          \/ EvaluateMiss(c) \/ Put(c)
    \/ \E v \in Versions : InvalidatePolicy(v)
    \/ \E r \in Resources : InvalidateResource(r)
    \/ \E a \in Agents : InvalidateAgent(a)
    \/ Clear
    \/ \E b \in BOOLEAN : EnableCaching(b)
    \/ ClockTicks

CacheSpec == CacheInit /\ [][CacheNext]_cacheVars

-----------------------------------------------------------------------------
(* Properties.                                                             *)

Entry == [allow: BOOLEAN, expiresAt: 0..(TimeBound + MaxTTL),
          overtaken: BOOLEAN]
Stages == {"idle", "direct", "get", "judge", "expired", "evaluate", "put"}

(* Every stored entry is complete, and a caller of Authorize that judges   *)
(* or stores has the key, the entry or the decision it needs in hand.      *)
TypeOK ==
    /\ now \in 0..TimeBound
    /\ enabled \in BOOLEAN
    /\ DOMAIN entries \subseteq Keys
    /\ \A k \in DOMAIN entries : entries[k] \in Entry
    /\ pc \in [Callers -> Stages]
    /\ key \in [Callers -> Keys \union {None}]
    /\ \A c \in Callers : pc[c] # "idle" => key[c] \in Keys
    /\ found \in [Callers -> Entry \union {None}]
    /\ \A c \in Callers : pc[c] = "judge" => found[c] \in Entry
    /\ decision \in [Callers -> DecisionValues \union {None}]
    /\ \A c \in Callers : pc[c] = "put" => decision[c] \in DecisionValues
    /\ overtaken \in [Callers -> BOOLEAN]
    /\ result \in [Callers -> DecisionValues \union {"error", None}]

(* Concurrent Puts at the limit, racing invalidations and expiry, never    *)
(* take the cache past its size, and no entry has more than MaxTTL to      *)
(* live, whatever TTLs are configured.                                     *)
WithinLimits ==
    /\ Cardinality(DOMAIN entries) <= MaxSize
    /\ \A k \in DOMAIN entries : entries[k].expiresAt <= now + MaxTTL

(* Whatever is in the cache or in a caller's hands agrees with the wrapped *)
(* evaluator on allowing: no interleaving of lookups, expiry, eviction and *)
(* invalidation serves one key's decision to another.                      *)
AgreesWithEvaluator ==
    /\ \A k \in DOMAIN entries : entries[k].allow <=> Outcome[k] = "allow"
    /\ \A c \in Callers :
          /\ pc[c] = "judge" =>
                (found[c].allow <=> Outcome[key[c]] = "allow")
          /\ pc[c] = "put" => decision[c] = Outcome[key[c]]
          /\ result[c] \in DecisionValues =>
                (result[c] = "allow" <=> Outcome[key[c]] = "allow")

(* A caching evaluator is an Authorizer.                                   *)
asking == [c \in Callers |-> IF pc[c] = "idle" THEN None ELSE key[c]]
A == INSTANCE Authorizer WITH answer <- result
ImplementsAuthorizer == A!Spec

=============================================================================
