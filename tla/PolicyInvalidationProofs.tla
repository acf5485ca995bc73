---------------------- MODULE PolicyInvalidationProofs ----------------------
(***************************************************************************)
(* Proofs about the policy change notifier (PolicyChangeNotifier), the     *)
(* caching evaluator (DecisionCache) and the two together.  They hold for  *)
(* every set of files, versions, subscribers, callers, agents and          *)
(* resources, every policy, every channel capacity and every configuration *)
(* that Validate accepts.                                                  *)
(***************************************************************************)
EXTENDS PolicyInvalidation, FiniteSetTheorems, TLAPS

-----------------------------------------------------------------------------
(* The notifier.                                                           *)

USE DEF watchVars, ghostVars

MonitorStages == {"none", "select", "scan", "hash", "store", "notify", "stopped"}

(* The parts of the state the proofs need the type of.                     *)
NotifierType ==
    /\ policyVersions \in [Paths -> Versions]
    /\ content \in [Paths -> Versions]
    /\ subscribers \subseteq Chans
    /\ stage \in [Chans -> MonitorStages]
    /\ todo \in [Chans -> SUBSET Paths]
    /\ paths \subseteq Paths
    /\ work \in [Chans -> [path: Paths \union {None}, old: Versions,
                           new: Versions]]
    /\ \A m \in Chans :
          stage[m] \in {"hash", "store", "notify"} => work[m].path \in Paths
    /\ seen \in [Chans -> [Paths -> Versions]]

(* The constructor's state is well typed.                                  *)
LEMMA NotifierInitType == NotifierInit => NotifierType
BY NotifierAssumption DEF NotifierInit, NotifierType, MonitorStages, NoWork

(* Subscribers, monitors and callers keep it so.                           *)
LEMMA NotifierNextType == NotifierType /\ [NotifierNext]_notifierVars => NotifierType'
<1> SUFFICES ASSUME NotifierType, [NotifierNext]_notifierVars PROVE NotifierType'
  OBVIOUS
<1> USE NotifierAssumption DEF NotifierType
<1>1. ASSUME NEW p \in Paths, NEW v \in Versions, WritePolicy(p, v)
      PROVE  NotifierType'
  BY <1>1 DEF WritePolicy
<1>2. ASSUME NEW ch \in Chans, SubscribePolicyChanges(ch) PROVE NotifierType'
  BY <1>2 DEF SubscribePolicyChanges, MonitorStages
<1>3. CASE Close
  BY <1>3 DEF Close, CloseAll
<1>4. ASSUME NEW ch \in Chans, ListenerStep(ch) PROVE NotifierType'
  BY <1>4 DEF ListenerStep, TakeEvent, ListenerReturns, CloseAll
<1>5. ASSUME NEW m \in Chans, TickerFires(m) \/ Stop(m) \/ EndScan(m)
      PROVE  NotifierType'
  BY <1>5 DEF TickerFires, Stop, EndScan, MonitorStages
<1>6. ASSUME NEW m \in Chans, NEW p \in Paths, ReadKnown(m, p)
      PROVE  NotifierType'
  BY <1>6 DEF ReadKnown, MonitorStages
<1>7. ASSUME NEW m \in Chans, Hash(m) \/ HashFails(m) PROVE NotifierType'
  <2> DEFINE v == content[work[m].path]
  <2>1. v \in Versions /\ work[m].path \in Paths
    BY <1>7 DEF Hash, HashFails
  <2>2. CASE HashFails(m) \/ v = work[m].old
    <3>1. work' = [work EXCEPT ![m] = NoWork]
          /\ stage' = [stage EXCEPT ![m] = "scan"]
      BY <1>7, <2>2 DEF Hash, HashFails
    <3> QED
      BY <1>7, <3>1 DEF Hash, HashFails, NoWork, MonitorStages
  <2>3. CASE Hash(m) /\ v # work[m].old
    <3>1. work' = [work EXCEPT ![m].new = v]
          /\ stage' = [stage EXCEPT ![m] = "store"]
      BY <2>3 DEF Hash
    <3> HIDE DEF v
    <3> QED
      BY <2>1, <2>3, <3>1 DEF Hash, MonitorStages
  <2> QED
    BY <1>7, <2>2, <2>3
<1>8. ASSUME NEW m \in Chans, StoreVersion(m) PROVE NotifierType'
  BY <1>8 DEF StoreVersion, MonitorStages
<1>9. ASSUME NEW m \in Chans, NotifySubscribers(m) PROVE NotifierType'
  <2>1. work[m].path \in Paths /\ work[m].new \in Versions
    BY <1>9 DEF NotifySubscribers
  <2>2. seen' \in [Chans -> [Paths -> Versions]]
    BY <1>9, <2>1 DEF NotifySubscribers
  <2> QED
    BY <1>9, <2>2 DEF NotifySubscribers, NoWork, MonitorStages
<1>10. ASSUME NEW e \in Triggers, TriggerPolicyChange(e) PROVE NotifierType'
  <2>1. e.path \in Paths /\ e.new \in Versions
    BY DEF Event
  <2> QED
    BY <1>10, <2>1 DEF TriggerPolicyChange
<1>11. ASSUME NEW p \in Paths, AddPolicyPath(p) PROVE NotifierType'
  BY <1>11 DEF AddPolicyPath
<1>12. ASSUME NEW p \in Paths, RemovePolicyPath(p) PROVE NotifierType'
  BY <1>12 DEF RemovePolicyPath
<1>13. CASE UNCHANGED notifierVars
  BY <1>13 DEF notifierVars
<1> QED
  BY <1>1, <1>2, <1>3, <1>4, <1>5, <1>6, <1>7, <1>8, <1>9, <1>10, <1>11,
     <1>12, <1>13 DEF NotifierNext, Running, MonitorStep

(* Type correctness of the notifier.                                       *)
THEOREM NotifierTypeCorrect == NotifierSpec => []NotifierType
BY NotifierInitType, NotifierNextType, PTL DEF NotifierSpec

-----------------------------------------------------------------------------
(* OneMonitor is not inductive: that a second subscriber starts no second  *)
(* monitor rests on `running', which has to be right in both directions as *)
(* long as the notifier is open.                                           *)
MonitorInv ==
    ~stopClosed =>
        /\ \A m, n \in Chans :
              (stage[m] # "none" /\ stage[n] # "none") => m = n
        /\ running <=> \E m \in Chans : stage[m] # "none"
        /\ subscribers # {} => running

(* A step of a monitor neither starts nor ends one.                        *)
LEMMA MonitorsStay ==
    ASSUME NotifierType, NEW m \in Chans, MonitorStep(m)
    PROVE  /\ \A n \in Chans : stage'[n] # "none" <=> stage[n] # "none"
           /\ UNCHANGED <<stopClosed, running, subscribers>>
BY DEF NotifierType, MonitorStep, TickerFires, Stop, EndScan, ReadKnown, Hash,
       HashFails, StoreVersion, NotifySubscribers

(* Subscribe and Close keep `running' and the monitor in step.             *)
LEMMA NextMonitor ==
    NotifierType /\ MonitorInv /\ [NotifierNext]_notifierVars => MonitorInv'
<1> SUFFICES ASSUME NotifierType, MonitorInv, [NotifierNext]_notifierVars PROVE MonitorInv'
  OBVIOUS
<1>1. ASSUME NEW ch \in Chans, SubscribePolicyChanges(ch) PROVE MonitorInv'
  <2>1. CASE running
    BY <1>1, <2>1 DEF SubscribePolicyChanges, MonitorInv, NotifierType
  <2>2. CASE ~running
    BY <1>1, <2>2 DEF SubscribePolicyChanges, MonitorInv, NotifierType
  <2> QED
    BY <2>1, <2>2
<1>2. CASE stopClosed'
  BY <1>2 DEF MonitorInv
<1>3. ASSUME NEW m \in Chans, MonitorStep(m) PROVE MonitorInv'
  BY <1>3, MonitorsStay DEF MonitorInv
<1>4. CASE UNCHANGED <<stopClosed, running, subscribers, stage>>
  BY <1>4 DEF MonitorInv
<1> QED
  BY <1>1, <1>2, <1>3, <1>4
  DEF NotifierNext, Running, notifierVars, WritePolicy, Close, CloseAll, ListenerStep, TakeEvent,
      ListenerReturns, AddPolicyPath, RemovePolicyPath, TriggerPolicyChange

(* An open notifier with subscribers has one monitor and no more.          *)
THEOREM OneMonitorOnly == NotifierSpec => []OneMonitor
<1>1. NotifierInit => MonitorInv
  BY DEF NotifierInit, MonitorInv
<1>2. MonitorInv => OneMonitor
  BY DEF MonitorInv, OneMonitor
<1> QED
  BY <1>1, <1>2, NotifierTypeCorrect, NextMonitor, PTL DEF NotifierSpec

-----------------------------------------------------------------------------
(* What makes SubscribersInSync inductive: the version a monitor is about  *)
(* to notify is the one it stored.                                         *)
NotifyInv ==
    ~stopClosed =>
        \A m \in Chans :
            stage[m] = "notify" /\ work[m].path \notin unsure =>
                policyVersions[work[m].path] = work[m].new

SyncInv == NotifyInv /\ SubscribersInSync

(* While the notifier is open, no two monitors are at work.                *)
LEMMA NoOtherMonitor ==
    ASSUME MonitorInv, ~stopClosed, NEW m \in Chans, NEW n \in Chans,
           stage[m] # "none", stage[n] # "none"
    PROVE  m = n
BY DEF MonitorInv

(* The scan, the notification and the changes of paths keep subscribers in *)
(* step.                                                                   *)
LEMMA NextSync ==
    NotifierType /\ MonitorInv /\ SyncInv /\ [NotifierNext]_notifierVars => SyncInv'
<1> SUFFICES ASSUME NotifierType, MonitorInv, SyncInv, [NotifierNext]_notifierVars,
                    ~stopClosed'
             PROVE  SyncInv'
  BY DEF SyncInv, NotifyInv, SubscribersInSync
<1>0. ~stopClosed
  BY DEF NotifierNext, Running, notifierVars, WritePolicy, SubscribePolicyChanges, Close, CloseAll,
         ListenerStep, TakeEvent, ListenerReturns, MonitorStep, TickerFires, Stop,
         EndScan, ReadKnown, Hash, HashFails, StoreVersion, NotifySubscribers,
         TriggerPolicyChange, AddPolicyPath, RemovePolicyPath
<1> USE <1>0 DEF NotifierType, SyncInv, NotifyInv, SubscribersInSync
<1>1. ASSUME NEW ch \in Chans, SubscribePolicyChanges(ch) PROVE SyncInv'
  <2>1. /\ \A n \in Chans : stage'[n] = "notify" => stage[n] = "notify"
        /\ \A n \in Chans : stage[n] = "notify" => stage'[n] = "notify"
    <3>1. CASE running
      BY <1>1, <3>1 DEF SubscribePolicyChanges
    <3>2. CASE ~running
      BY <1>1, <3>2 DEF SubscribePolicyChanges, MonitorInv
    <3> QED
      BY <3>1, <3>2
  <2>2. /\ UNCHANGED <<policyVersions, unsure, work>>
        /\ subscribers' = subscribers \union {ch}
        /\ seen' = [seen EXCEPT ![ch] = policyVersions]
    BY <1>1 DEF SubscribePolicyChanges
  <2>3. NotifyInv'
    BY <2>1, <2>2
  <2>4. SubscribersInSync'
    BY <2>1, <2>2
  <2> QED
    BY <2>3, <2>4
<1>2. ASSUME NEW m \in Chans,
             \/ TickerFires(m) \/ Stop(m) \/ EndScan(m) \/ Hash(m) \/ HashFails(m)
             \/ \E p \in Paths : ReadKnown(m, p)
      PROVE  SyncInv'
  <2>1. /\ stage[m] # "notify" /\ stage'[m] # "notify"
        /\ \A n \in Chans : n # m => /\ stage'[n] = stage[n]
                                     /\ work'[n] = work[n]
    BY <1>2 DEF TickerFires, Stop, EndScan, Hash, HashFails, ReadKnown
  <2>2. UNCHANGED <<policyVersions, subscribers, seen, unsure, stopClosed>>
    BY <1>2 DEF TickerFires, Stop, EndScan, Hash, HashFails, ReadKnown
  <2>3. \A n \in Chans :
          /\ stage'[n] = "notify" <=> stage[n] = "notify"
          /\ stage[n] = "notify" => work'[n] = work[n]
    BY <2>1
  <2>4. NotifyInv'
    BY <2>2, <2>3
  <2>5. SubscribersInSync'
    BY <2>2, <2>3
  <2> QED
    BY <2>4, <2>5
<1>3. ASSUME NEW m \in Chans, StoreVersion(m) PROVE SyncInv'
  <2>1. \A n \in Chans : stage[n] # "notify"
    BY <1>3, NoOtherMonitor DEF StoreVersion
  <2>2. /\ work[m].path \in Paths
        /\ policyVersions' = [policyVersions EXCEPT ![work[m].path] = work[m].new]
        /\ stage' = [stage EXCEPT ![m] = "notify"]
        /\ UNCHANGED <<subscribers, seen, unsure, work>>
    BY <1>3 DEF StoreVersion
  <2>3. \A n \in Chans : stage'[n] = "notify" => n = m
    BY <2>1, <2>2
  <2>4. NotifyInv'
    BY <2>2, <2>3
  <2>5. ASSUME NEW ch \in subscribers, NEW p \in Paths \ unsure
        PROVE  seen[ch][p] = policyVersions'[p] \/ p = work[m].path
    BY <2>1, <2>2, <2>5
  <2>6. SubscribersInSync'
    BY <2>2, <2>5
  <2> QED
    BY <2>4, <2>6
<1>4. ASSUME NEW m \in Chans, NotifySubscribers(m) PROVE SyncInv'
  <2> DEFINE w == work[m]
  <2>1. /\ stage[m] = "notify" /\ w.path \in Paths
        /\ \A n \in Chans : stage[n] = "notify" => n = m
    BY <1>4, NoOtherMonitor DEF NotifySubscribers
  <2>2. /\ stage' = [stage EXCEPT ![m] = "scan"]
        /\ UNCHANGED <<policyVersions, subscribers>>
        /\ seen' = [ch \in Chans |->
                      IF ch \in subscribers /\ HasRoom(ch)
                      THEN [seen[ch] EXCEPT ![w.path] = w.new] ELSE seen[ch]]
        /\ unsure' = unsure \union
             {w.path : ch \in {x \in subscribers : ~HasRoom(x)}}
    BY <1>4 DEF NotifySubscribers
  <2>3. ASSUME NEW ch \in subscribers, NEW p \in Paths \ unsure'
        PROVE  seen'[ch][p] = policyVersions[p]
    <3>1. p \notin unsure /\ (p = w.path => HasRoom(ch))
      BY <2>2, <2>3
    <3>2. CASE p = w.path
      BY <2>1, <2>2, <2>3, <3>1, <3>2
    <3>3. CASE p # w.path
      BY <2>1, <2>2, <2>3, <3>1, <3>3
    <3> QED
      BY <3>2, <3>3
  <2> QED
    BY <2>1, <2>2, <2>3
<1>5. ASSUME NEW e \in Triggers, TriggerPolicyChange(e) PROVE SyncInv'
  BY <1>5 DEF TriggerPolicyChange
<1>6. ASSUME NEW p \in Paths, AddPolicyPath(p) PROVE SyncInv'
  BY <1>6 DEF AddPolicyPath
<1>7. ASSUME NEW p \in Paths, RemovePolicyPath(p) PROVE SyncInv'
  BY <1>7 DEF RemovePolicyPath
<1>8. CASE UNCHANGED <<policyVersions, subscribers, seen, unsure, stage, work,
                       stopClosed>>
  BY <1>8
<1> QED
  BY <1>1, <1>2, <1>3, <1>4, <1>5, <1>6, <1>7, <1>8
  DEF NotifierNext, Running, notifierVars, WritePolicy, Close, CloseAll, ListenerStep, TakeEvent,
      ListenerReturns, MonitorStep

(* Every subscriber of an open notifier has been told what the notifier    *)
(* believes, but for a notification on its way and the paths marked        *)
(* unsure.                                                                 *)
THEOREM SubscribersToldInStep == NotifierSpec => []SubscribersInSync
<1>1. NotifierInit => MonitorInv /\ SyncInv
  BY DEF NotifierInit, MonitorInv, SyncInv, NotifyInv, SubscribersInSync
<1>2. SyncInv => SubscribersInSync
  BY DEF SyncInv
<1> QED
  BY <1>1, <1>2, NotifierTypeCorrect, NextMonitor, NextSync, PTL DEF NotifierSpec

-----------------------------------------------------------------------------
(* The cache.                                                              *)

USE DEF callVars

(* The cache starts empty and every caller idle.                           *)
LEMMA CacheInitType == CacheInit => TypeOK
<1> SUFFICES ASSUME CacheInit PROVE TypeOK
  OBVIOUS
<1>1. enabled \in BOOLEAN /\ overtaken \in [Callers -> BOOLEAN]
  BY Zenon DEF CacheInit
<1> QED
  BY <1>1, CacheAssumption DEF CacheInit, TypeOK, Stages

(* What a Put stores is an entry.                                          *)
LEMMA EntryType ==
    ASSUME TypeOK, NEW c \in Callers, NEW d \in DecisionValues,
           Cacheable(key[c], d)
    PROVE  [allow |-> d = "allow", expiresAt |-> now + EntryTTL(d),
            overtaken |-> overtaken[c]] \in Entry
<1>1. EntryTTL(d) \in 0..MaxTTL
  BY CacheAssumption DEF EntryTTL, Cacheable
<1>2. now + EntryTTL(d) \in 0..(TimeBound + MaxTTL)
  BY <1>1, CacheAssumption DEF TypeOK
<1>3. overtaken[c] \in BOOLEAN /\ (d = "allow") \in BOOLEAN
  BY DEF TypeOK
<1> QED
  BY <1>2, <1>3 DEF Entry

(* What a Put does to the cache.                                           *)
LEMMA PutEntries ==
    ASSUME TypeOK, NEW c \in Callers, Put(c)
    PROVE  \/ entries' = entries
           \/ \E gone \in SUBSET DOMAIN entries :
                /\ Cacheable(key[c], decision[c])
                /\ entries' =
                     [k \in (DOMAIN entries \ gone) \union {key[c]} |->
                        IF k = key[c]
                        THEN [allow |-> decision[c] = "allow",
                              expiresAt |-> now + EntryTTL(decision[c]),
                              overtaken |-> overtaken[c]]
                        ELSE entries[k]]
<1>1. CASE ~Cacheable(key[c], decision[c])
  BY <1>1 DEF Put
<1>2. CASE Cacheable(key[c], decision[c])
  <2>1. \A gone \in MakeRoom : gone \in SUBSET DOMAIN entries
    BY DEF MakeRoom
  <2> QED
    BY <1>2, <2>1 DEF Put
<1> QED
  BY <1>1, <1>2

(* Callers and invalidations keep the cache and the callers well typed.    *)
LEMMA CacheNextType == TypeOK /\ [CacheNext]_cacheVars => TypeOK'
<1> SUFFICES ASSUME TypeOK, [CacheNext]_cacheVars PROVE TypeOK'
  OBVIOUS
<1> USE CacheAssumption DEF TypeOK, Stages
<1>1. ASSUME NEW c \in Callers, NEW k \in Keys, Evaluate(c, k) PROVE TypeOK'
  BY <1>1 DEF Evaluate
<1>2. ASSUME NEW c \in Callers, EvaluateDirect(c) PROVE TypeOK'
  <2>1. key[c] \in Keys /\ Outcome[key[c]] \in DecisionValues
    BY <1>2 DEF EvaluateDirect
  <2> QED
    BY <1>2, <2>1 DEF EvaluateDirect, Return
<1>3. ASSUME NEW c \in Callers, GetLookup(c) PROVE TypeOK'
  <2>1. overtaken' \in [Callers -> BOOLEAN]
    BY <1>3, Zenon DEF GetLookup
  <2> QED
    BY <1>3, <2>1 DEF GetLookup
<1>4. ASSUME NEW c \in Callers, GetJudge(c) PROVE TypeOK'
  <2>1. FromCache(found[c]) \in DecisionValues
    BY DEF FromCache, DecisionValues
  <2> QED
    BY <1>4, <2>1 DEF GetJudge, Return
<1>5. ASSUME NEW c \in Callers, GetDelete(c) PROVE TypeOK'
  <2>1. overtaken' \in [Callers -> BOOLEAN]
    BY <1>5, Zenon DEF GetDelete
  <2> QED
    BY <1>5, <2>1 DEF GetDelete, Without
<1>6. ASSUME NEW c \in Callers, EvaluateMiss(c) PROVE TypeOK'
  <2>1. key[c] \in Keys /\ Outcome[key[c]] \in DecisionValues
    BY <1>6 DEF EvaluateMiss
  <2> QED
    BY <1>6, <2>1 DEF EvaluateMiss, Return
<1>7. ASSUME NEW c \in Callers, Put(c) PROVE TypeOK'
  <2>1. key[c] \in Keys /\ decision[c] \in DecisionValues
    BY <1>7 DEF Put
  <2>2. /\ DOMAIN entries' \subseteq Keys
        /\ \A k \in DOMAIN entries' : entries'[k] \in Entry
    <3>1. CASE entries' = entries
      BY <3>1
    <3>2. CASE entries' # entries
      <4>1. PICK gone \in SUBSET DOMAIN entries :
              /\ Cacheable(key[c], decision[c])
              /\ entries' =
                   [k \in (DOMAIN entries \ gone) \union {key[c]} |->
                      IF k = key[c]
                      THEN [allow |-> decision[c] = "allow",
                            expiresAt |-> now + EntryTTL(decision[c]),
                            overtaken |-> overtaken[c]]
                      ELSE entries[k]]
        BY <1>7, <3>2, PutEntries
      <4>2. [allow |-> decision[c] = "allow",
             expiresAt |-> now + EntryTTL(decision[c]),
             overtaken |-> overtaken[c]] \in Entry
        BY <2>1, <4>1, EntryType
      <4> QED
        BY <2>1, <4>1, <4>2
    <3> QED
      BY <3>1, <3>2
  <2> QED
    BY <1>7, <2>1, <2>2 DEF Put, Return
<1>8. ASSUME NEW K, Forget(K) PROVE TypeOK'
  <2>1. overtaken' \in [Callers -> BOOLEAN]
    BY <1>8, Zenon DEF Forget
  <2> QED
    BY <1>8, <2>1 DEF Forget, Without
<1>9. ASSUME NEW b \in BOOLEAN, EnableCaching(b) PROVE TypeOK'
  BY <1>9 DEF EnableCaching
<1>10. CASE ClockTicks
  BY <1>10 DEF ClockTicks
<1>11. CASE UNCHANGED cacheVars
  BY <1>11 DEF cacheVars
<1> QED
  BY <1>1, <1>2, <1>3, <1>4, <1>5, <1>6, <1>7, <1>8, <1>9, <1>10, <1>11
  DEF CacheNext, InvalidatePolicy, InvalidateResource, InvalidateAgent, Clear

(* Type correctness of the caching evaluator.                              *)
THEOREM CacheTypeCorrect == CacheSpec => []TypeOK
BY CacheInitType, CacheNextType, PTL DEF CacheSpec

-----------------------------------------------------------------------------
(* What a Put stores agrees with the wrapped evaluator.                    *)
LEMMA PutAgrees ==
    ASSUME TypeOK, AgreesWithEvaluator, NEW c \in Callers, Put(c)
    PROVE  \A k \in DOMAIN entries' : entries'[k].allow <=> Outcome[k] = "allow"
<1>1. decision[c] = Outcome[key[c]]
  BY DEF Put, AgreesWithEvaluator
<1>2. \A k \in DOMAIN entries : entries[k].allow <=> Outcome[k] = "allow"
  BY DEF AgreesWithEvaluator
<1>3. CASE entries' = entries
  BY <1>2, <1>3
<1>4. CASE entries' # entries
  <2>1. PICK gone \in SUBSET DOMAIN entries :
          entries' = [k \in (DOMAIN entries \ gone) \union {key[c]} |->
                        IF k = key[c]
                        THEN [allow |-> decision[c] = "allow",
                              expiresAt |-> now + EntryTTL(decision[c]),
                              overtaken |-> overtaken[c]]
                        ELSE entries[k]]
    BY <1>4, PutEntries
  <2>2. TAKE k \in DOMAIN entries'
  <2>3. CASE k = key[c]
    <3>1. entries'[k].allow = (decision[c] = "allow")
      BY <2>1, <2>3
    <3> QED
      BY <1>1, <2>3, <3>1
  <2>4. CASE k # key[c]
    <3>1. k \in DOMAIN entries /\ entries'[k] = entries[k]
      BY <2>1, <2>4
    <3> QED
      BY <1>2, <3>1
  <2> QED
    BY <2>3, <2>4
<1> QED
  BY <1>3, <1>4

(* Agreement with the wrapped evaluator is inductive: what a caller holds  *)
(* belongs to its own key, and invalidation, eviction and expiry only take *)
(* entries away.                                                           *)
LEMMA NextAgrees ==
    TypeOK /\ AgreesWithEvaluator /\ [CacheNext]_cacheVars => AgreesWithEvaluator'
<1> SUFFICES ASSUME TypeOK, AgreesWithEvaluator, [CacheNext]_cacheVars
             PROVE  AgreesWithEvaluator'
  OBVIOUS
<1> USE CacheAssumption DEF TypeOK, Stages, AgreesWithEvaluator
<1>1. ASSUME NEW c \in Callers, NEW k \in Keys, Evaluate(c, k)
      PROVE  AgreesWithEvaluator'
  BY <1>1 DEF Evaluate, DecisionValues
<1>2. ASSUME NEW c \in Callers, EvaluateDirect(c) PROVE AgreesWithEvaluator'
  BY <1>2 DEF EvaluateDirect, Return, DecisionValues
<1>3. ASSUME NEW c \in Callers, GetLookup(c) PROVE AgreesWithEvaluator'
  BY <1>3 DEF GetLookup
<1>4. ASSUME NEW c \in Callers, GetJudge(c) PROVE AgreesWithEvaluator'
  <2>1. FromCache(found[c]) = "allow" <=> Outcome[key[c]] = "allow"
    BY <1>4 DEF GetJudge, FromCache, Entry
  <2> QED
    BY <1>4, <2>1 DEF GetJudge, Return
<1>5. ASSUME NEW c \in Callers, GetDelete(c) PROVE AgreesWithEvaluator'
  BY <1>5 DEF GetDelete, Without
<1>6. ASSUME NEW c \in Callers, EvaluateMiss(c) PROVE AgreesWithEvaluator'
  BY <1>6 DEF EvaluateMiss, Return, DecisionValues
<1>7. ASSUME NEW c \in Callers, Put(c) PROVE AgreesWithEvaluator'
  <2>1. decision[c] = Outcome[key[c]]
    BY <1>7 DEF Put
  <2>2. \A k \in DOMAIN entries' : entries'[k].allow <=> Outcome[k] = "allow"
    BY <1>7, PutAgrees
  <2> QED
    BY <1>7, <2>1, <2>2 DEF Put, Return
<1>8. ASSUME NEW K, Forget(K) PROVE AgreesWithEvaluator'
  BY <1>8 DEF Forget, Without
<1>9. CASE ClockTicks \/ (\E b \in BOOLEAN : EnableCaching(b)) \/ UNCHANGED cacheVars
  BY <1>9 DEF ClockTicks, EnableCaching, cacheVars
<1> QED
  BY <1>1, <1>2, <1>3, <1>4, <1>5, <1>6, <1>7, <1>8, <1>9
  DEF CacheNext, InvalidatePolicy, InvalidateResource, InvalidateAgent, Clear

(* Nothing the cache holds or a caller was told disagrees with the wrapped *)
(* evaluator about allowing.                                               *)
THEOREM CacheAgrees == CacheSpec => []AgreesWithEvaluator
<1>1. CacheInit => AgreesWithEvaluator
  BY CacheAssumption DEF CacheInit, AgreesWithEvaluator, DecisionValues
<1> QED
  BY <1>1, CacheTypeCorrect, NextAgrees, PTL DEF CacheSpec

-----------------------------------------------------------------------------
(* Finiteness has to be carried along: without it the size of the cache    *)
(* says nothing.                                                           *)
LimitsInv == IsFiniteSet(DOMAIN entries) /\ WithinLimits

(* What eviction leaves has room for one more key.                         *)
LEMMA CacheRoomForOne ==
    ASSUME LimitsInv, NEW gone \in MakeRoom
    PROVE  /\ IsFiniteSet(DOMAIN entries \ gone)
           /\ Cardinality(DOMAIN entries \ gone) < MaxSize
<1>0. /\ IsFiniteSet(DOMAIN entries) /\ Cardinality(DOMAIN entries) \in Nat
      /\ Cardinality(DOMAIN entries) <= MaxSize
      /\ MaxSize \in Nat
  BY FS_CardinalityType, CacheAssumption DEF LimitsInv, WithinLimits
<1>1. CASE Cardinality(DOMAIN entries) < MaxSize
  <2>1. DOMAIN entries \ gone = DOMAIN entries
    BY <1>1 DEF MakeRoom
  <2> QED
    BY <1>0, <1>1, <2>1
<1>2. CASE ~(Cardinality(DOMAIN entries) < MaxSize)
  <2>1. PICK k \in DOMAIN entries : gone = {k}
    BY <1>2 DEF MakeRoom
  <2>2. /\ IsFiniteSet(DOMAIN entries \ {k})
        /\ Cardinality(DOMAIN entries \ {k}) = Cardinality(DOMAIN entries) - 1
    BY <1>0, FS_RemoveElement
  <2> QED
    BY <1>0, <2>1, <2>2
<1> QED
  BY <1>1, <1>2

(* A Put at the limit makes room first, and caps the lifetime of what it   *)
(* stores.                                                                 *)
LEMMA PutLimits ==
    ASSUME TypeOK, LimitsInv, NEW c \in Callers, Put(c)
    PROVE  LimitsInv'
<1>0. now \in Nat /\ now' = now /\ MaxSize \in Nat
  BY CacheAssumption DEF TypeOK, Put
<1>1. CASE ~Cacheable(key[c], decision[c])
  <2>1. entries' = entries
    BY <1>1 DEF Put
  <2> QED
    BY <1>0, <2>1 DEF LimitsInv, WithinLimits
<1>2. CASE Cacheable(key[c], decision[c])
  <2>1. PICK gone \in MakeRoom :
          entries' =
            [k \in (DOMAIN entries \ gone) \union {key[c]} |->
               IF k = key[c]
               THEN [allow |-> decision[c] = "allow",
                     expiresAt |-> now + EntryTTL(decision[c]),
                     overtaken |-> overtaken[c]]
               ELSE entries[k]]
    BY <1>2 DEF Put
  <2> DEFINE D == DOMAIN entries \ gone
  <2>2. DOMAIN entries' = D \union {key[c]}
    BY <2>1
  <2>3. IsFiniteSet(D) /\ Cardinality(D) < MaxSize /\ Cardinality(D) \in Nat
    BY CacheRoomForOne, FS_CardinalityType
  <2>4. /\ IsFiniteSet(D \union {key[c]})
        /\ \/ Cardinality(D \union {key[c]}) = Cardinality(D)
           \/ Cardinality(D \union {key[c]}) = Cardinality(D) + 1
    <3> HIDE DEF D
    <3> QED
      BY <2>3, FS_AddElement
  <2>5. Cardinality(D \union {key[c]}) <= MaxSize
    BY <1>0, <2>3, <2>4
  <2>6. ASSUME NEW k \in DOMAIN entries'
        PROVE  entries'[k].expiresAt <= now + MaxTTL
    <3>1. CASE k = key[c]
      <4>1. entries'[k].expiresAt = now + EntryTTL(decision[c])
        BY <2>1, <3>1
      <4>2. EntryTTL(decision[c]) \in 0..MaxTTL
        BY <1>2, CacheAssumption DEF EntryTTL, Cacheable
      <4> QED
        BY <1>0, <4>1, <4>2, CacheAssumption
    <3>2. CASE k # key[c]
      <4>1. k \in DOMAIN entries /\ entries'[k] = entries[k]
        BY <2>1, <3>2
      <4> QED
        BY <4>1 DEF LimitsInv, WithinLimits
    <3> QED
      BY <3>1, <3>2
  <2> QED
    BY <1>0, <2>2, <2>4, <2>5, <2>6 DEF LimitsInv, WithinLimits
<1> QED
  BY <1>1, <1>2

(* Removing keys keeps the limits.                                         *)
LEMMA WithoutLimits ==
    ASSUME LimitsInv, NEW K, entries' = Without(K), now' = now
    PROVE  LimitsInv'
<1>1. DOMAIN entries' \subseteq DOMAIN entries
  BY DEF Without
<1>2. /\ IsFiniteSet(DOMAIN entries')
      /\ Cardinality(DOMAIN entries') <= Cardinality(DOMAIN entries)
  BY <1>1, FS_Subset DEF LimitsInv
<1>3. /\ Cardinality(DOMAIN entries') \in Nat
      /\ Cardinality(DOMAIN entries) \in Nat /\ MaxSize \in Nat
  BY <1>2, FS_CardinalityType, CacheAssumption DEF LimitsInv
<1>4. \A k \in DOMAIN entries' : entries'[k] = entries[k]
  BY DEF Without
<1> QED
  BY <1>1, <1>2, <1>3, <1>4 DEF LimitsInv, WithinLimits

(* The cache never holds more than MaxSize entries, nor one that lives     *)
(* longer than MaxTTL from now.                                            *)
THEOREM CacheWithinLimits == CacheSpec => []WithinLimits
<1>1. CacheInit => LimitsInv
  <2> SUFFICES ASSUME CacheInit PROVE LimitsInv
    OBVIOUS
  <2>1. DOMAIN entries = {}
    BY DEF CacheInit
  <2> QED
    BY <2>1, FS_EmptySet, CacheAssumption DEF LimitsInv, WithinLimits
<1>2. TypeOK /\ LimitsInv /\ [CacheNext]_cacheVars => LimitsInv'
  <2> SUFFICES ASSUME TypeOK, LimitsInv, [CacheNext]_cacheVars PROVE LimitsInv'
    OBVIOUS
  <2>1. ASSUME NEW c \in Callers, Put(c) PROVE LimitsInv'
    BY <2>1, PutLimits
  <2>2. ASSUME NEW c \in Callers, GetDelete(c) PROVE LimitsInv'
    BY <2>2, WithoutLimits DEF GetDelete
  <2>3. ASSUME NEW K, Forget(K) PROVE LimitsInv'
    BY <2>3, WithoutLimits DEF Forget
  <2>4. CASE entries' = entries /\ now' = now
    BY <2>4 DEF LimitsInv, WithinLimits
  <2>5. CASE ClockTicks
    <3>1. entries' = entries /\ now' = now + 1
      BY <2>5 DEF ClockTicks
    <3>2. /\ now \in Nat /\ MaxTTL \in Nat
          /\ \A k \in DOMAIN entries : entries[k].expiresAt \in Nat
      BY CacheAssumption DEF TypeOK, Entry
    <3> QED
      BY <3>1, <3>2 DEF LimitsInv, WithinLimits
  <2> QED
    BY <2>1, <2>2, <2>3, <2>4, <2>5
    DEF CacheNext, cacheVars, Evaluate, EvaluateDirect, GetLookup, GetJudge, EvaluateMiss,
        InvalidatePolicy, InvalidateResource, InvalidateAgent, Clear,
        EnableCaching
<1>3. LimitsInv => WithinLimits
  BY DEF LimitsInv
<1> QED
  BY <1>1, <1>2, <1>3, CacheTypeCorrect, PTL DEF CacheSpec

-----------------------------------------------------------------------------
(* The caching evaluator implements Authorizer: Evaluate is Ask, the step  *)
(* that returns is Reply, and the steps in between are invisible.          *)
THEOREM CacheIsAuthorizer == CacheSpec => ImplementsAuthorizer
<1>1. CacheInit => A!Init
  BY DEF CacheInit, A!Init, asking
<1>2. TypeOK /\ AgreesWithEvaluator /\ [CacheNext]_cacheVars
        => [A!Next]_<<asking, result>>
  <2> SUFFICES ASSUME TypeOK, AgreesWithEvaluator, [CacheNext]_cacheVars
               PROVE  A!Next \/ UNCHANGED <<asking, result>>
    OBVIOUS
  <2> USE CacheAssumption DEF TypeOK, Stages, asking
  <2>1. ASSUME NEW c \in Callers, NEW k \in Keys, Evaluate(c, k)
        PROVE  A!Ask(c, k)
    BY <2>1 DEF Evaluate, A!Ask
  <2>2. ASSUME NEW c \in Callers, pc[c] # "idle",
               NEW d \in DecisionValues \union {"error"}, Return(c, d),
               key' = key,
               d \in DecisionValues =>
                   (d = "allow" <=> Outcome[key[c]] = "allow")
        PROVE  A!Reply(c)
    <3>1. asking[c] = key[c] /\ asking[c] # None
      BY <2>2
    <3>2. d \in A!Permitted(asking[c])
      BY <2>2, <3>1 DEF A!Permitted, DecisionValues
    <3>3. asking' = [asking EXCEPT ![c] = None]
      BY <2>2 DEF Return
    <3> QED
      BY <2>2, <3>1, <3>2, <3>3 DEF A!Reply, Return
  <2>3. ASSUME NEW c \in Callers, EvaluateDirect(c) PROVE A!Reply(c)
    <3>1. PICK d \in {Outcome[key[c]], "error"} : Return(c, d)
      BY <2>3 DEF EvaluateDirect
    <3>2. /\ d \in DecisionValues \union {"error"}
          /\ d \in DecisionValues =>
               (d = "allow" <=> Outcome[key[c]] = "allow")
      BY <2>3, <3>1 DEF EvaluateDirect, DecisionValues
    <3> QED
      BY <2>2, <2>3, <3>1, <3>2 DEF EvaluateDirect
  <2>4. ASSUME NEW c \in Callers, GetLookup(c) \/ GetDelete(c)
        PROVE  UNCHANGED <<asking, result>>
    BY <2>4 DEF GetLookup, GetDelete
  <2>5. ASSUME NEW c \in Callers, GetJudge(c)
        PROVE  A!Reply(c) \/ UNCHANGED <<asking, result>>
    <3>1. CASE Expired(found[c])
      BY <2>5, <3>1 DEF GetJudge
    <3>2. CASE ~Expired(found[c])
      <4>1. /\ FromCache(found[c]) \in DecisionValues
            /\ FromCache(found[c]) = "allow" <=> Outcome[key[c]] = "allow"
        BY <2>5 DEF GetJudge, FromCache, Entry, AgreesWithEvaluator,
                    DecisionValues
      <4> QED
        BY <2>2, <2>5, <3>2, <4>1 DEF GetJudge
    <3> QED
      BY <3>1, <3>2
  <2>6. ASSUME NEW c \in Callers, EvaluateMiss(c)
        PROVE  A!Reply(c) \/ UNCHANGED <<asking, result>>
    <3>1. CASE Return(c, "error")
      BY <2>2, <2>6, <3>1 DEF EvaluateMiss, DecisionValues
    <3>2. CASE ~Return(c, "error")
      BY <2>6, <3>2 DEF EvaluateMiss
    <3> QED
      BY <3>1, <3>2
  <2>7. ASSUME NEW c \in Callers, Put(c) PROVE A!Reply(c)
    BY <2>2, <2>7 DEF Put, AgreesWithEvaluator
  <2>8. ASSUME NEW K, Forget(K) PROVE UNCHANGED <<asking, result>>
    BY <2>8 DEF Forget
  <2>9. CASE ClockTicks \/ (\E b \in BOOLEAN : EnableCaching(b)) \/ UNCHANGED cacheVars
    BY <2>9 DEF ClockTicks, EnableCaching, cacheVars
  <2> QED
    BY <2>1, <2>3, <2>4, <2>5, <2>6, <2>7, <2>8, <2>9
    DEF CacheNext, InvalidatePolicy, InvalidateResource, InvalidateAgent, Clear,
        A!Next
<1> QED
  BY <1>1, <1>2, CacheTypeCorrect, CacheAgrees, PTL
  DEF CacheSpec, ImplementsAuthorizer, A!Spec

-----------------------------------------------------------------------------
(* The two together.                                                       *)

USE DEF notifierVars, cacheVars

(* Nothing has ended the process.                                          *)
NoPanic == panicked = FALSE

(* The listener's steps and the callers' leave the notifier alone, or are  *)
(* its steps: nobody closes it, so no panic ends it.                       *)
LEMMA NotifierStepOrStutter ==
    ASSUME NoPanic, [Next]_vars
    PROVE  [NotifierNext]_notifierVars /\ NoPanic'
<1> USE DEF NoPanic
<1>1. CASE NotifierStep
  <2>1. ASSUME NEW p \in Paths, NEW v \in FileVersions, WritePolicy(p, v)
        PROVE  Running /\ NoPanic'
    BY <2>1, VersionAssumption DEF Running, WritePolicy
  <2>2. ASSUME NEW ch \in Chans, SubscribePolicyChanges(ch)
        PROVE  Running /\ NoPanic'
    BY <2>2 DEF Running, SubscribePolicyChanges
  <2>3. ASSUME NEW ch \in Chans, MonitorStep(ch)
        PROVE  Running /\ NoPanic'
    <3>1. panicked' = panicked
      BY <2>3 DEF MonitorStep, TickerFires, Stop, EndScan, ReadKnown,
                  Hash, HashFails, StoreVersion, NotifySubscribers
    <3> QED
      BY <2>3, <3>1 DEF Running
  <2> QED
    BY <1>1, <2>1, <2>2, <2>3 DEF NotifierStep, NotifierNext
<1>2. ASSUME NEW ch \in Chans, ReceiveEvent(ch)
      PROVE  NotifierNext /\ NoPanic'
  BY <1>2 DEF ReceiveEvent, NotifierNext, Running, ListenerStep, TakeEvent
<1>3. CASE UNCHANGED notifierVars
  BY <1>3 DEF notifierVars
<1>4. ASSUME NEW c \in Callers, CallerStep(c) PROVE UNCHANGED notifierVars
  BY <1>4 DEF CallerStep
<1>5. ASSUME NEW ch \in Chans, HandlePolicy(ch) \/ HandleResource(ch)
      PROVE  UNCHANGED notifierVars
  BY <1>5 DEF HandlePolicy, HandleResource
<1> HIDE DEF notifierVars, cacheVars
<1> QED
  BY <1>1, <1>2, <1>3, <1>4, <1>5 DEF Next, HandlingStep, vars

(* A notifier with a CachingEvaluator behind it is the notifier.           *)
THEOREM NotifierPreserved == Spec => NotifierSpec
<1>1. Init => NotifierInit /\ NoPanic
  BY DEF Init, NotifierInit, NoPanic
<1> QED
  BY <1>1, NotifierStepOrStutter, PTL DEF Spec, NotifierSpec

-----------------------------------------------------------------------------
(* What a listener has in hand.                                            *)
Handling == [event: Event \union {None},
             next: {"receive", "policy", "resource"}]

ListenerInv ==
    /\ queue \in [Chans -> Seq(Event)]
    /\ handling \in [Chans -> Handling]
    /\ \A ch \in Chans :
          handling[ch].next # "receive" => handling[ch].event \in Event

(* What a monitor sends is an event about one of the policy files.         *)
LEMMA SentIsEvent ==
    ASSUME NotifierType, queue \in [Chans -> Seq(Event)],
           NEW m \in Chans, NotifySubscribers(m)
    PROVE  queue' \in [Chans -> Seq(Event)]
<1> DEFINE w == work[m]
           e == [path |-> w.path, old |-> w.old, new |-> w.new,
                 type |-> ChangeType(w.old, w.new)]
<1>1. w.path \in Paths /\ w.old \in Versions /\ w.new \in Versions
  BY DEF NotifierType, NotifySubscribers
<1>2. e \in Event
  BY <1>1 DEF Event, Changes, ChangeType
<1>3. Send(e)
  BY DEF NotifySubscribers
<1> HIDE DEF e
<1> QED
  BY <1>2, <1>3 DEF Send

(* Channels carry events, and a listener handles the one it took.          *)
LEMMA NextListener ==
    ASSUME NotifierType, ListenerInv, [Next]_vars
    PROVE  ListenerInv'
<1>1. CASE NotifierStep
  <2>1. handling' = handling
    BY <1>1 DEF NotifierStep
  <2>2. ASSUME NEW m \in Chans, NotifySubscribers(m)
        PROVE  queue' \in [Chans -> Seq(Event)]
    BY <2>2, SentIsEvent DEF ListenerInv
  <2>3. ASSUME queue' = queue PROVE queue' \in [Chans -> Seq(Event)]
    BY <2>3 DEF ListenerInv
  <2>4. queue' \in [Chans -> Seq(Event)]
    BY <1>1, <2>2, <2>3
    DEF NotifierStep, ListenerInv, WritePolicy, SubscribePolicyChanges,
        MonitorStep, TickerFires, Stop, EndScan, ReadKnown, Hash,
        HashFails, StoreVersion
  <2> QED
    BY <2>1, <2>4 DEF ListenerInv
<1>2. ASSUME NEW ch \in Chans, ReceiveEvent(ch) PROVE ListenerInv'
  <2>1. /\ queue[ch] \in Seq(Event) /\ queue[ch] # <<>>
        /\ queue' = [queue EXCEPT ![ch] = Tail(queue[ch])]
        /\ handling' = [handling EXCEPT
              ![ch] = [event |-> Head(queue[ch]), next |-> "policy"]]
    BY <1>2 DEF ReceiveEvent, TakeEvent, ListenerInv
  <2>2. Head(queue[ch]) \in Event /\ Tail(queue[ch]) \in Seq(Event)
    BY <2>1
  <2> QED
    BY <2>1, <2>2 DEF ListenerInv, Handling
<1>3. ASSUME NEW ch \in Chans, HandlePolicy(ch) PROVE ListenerInv'
  BY <1>3 DEF HandlePolicy, ListenerInv, Handling
<1>4. ASSUME NEW ch \in Chans, HandleResource(ch) PROVE ListenerInv'
  BY <1>4 DEF HandleResource, ListenerInv, Handling, Idle
<1>5. ASSUME NEW c \in Callers, CallerStep(c) PROVE ListenerInv'
  BY <1>5 DEF CallerStep, ListenerInv
<1>6. CASE UNCHANGED vars
  BY <1>6 DEF vars, ListenerInv
<1> QED
  BY <1>1, <1>2, <1>3, <1>4, <1>5, <1>6 DEF Next, HandlingStep

(* The cache is a function, so that forgetting nothing changes nothing.    *)
CacheIsFunction == entries = [k \in DOMAIN entries |-> entries[k]]

(* Invalidating the URI of a policy file leaves the cache as it is: it     *)
(* names no resource a decision was made about.                            *)
LEMMA FileForgetsNothing ==
    ASSUME TypeOK, CacheIsFunction, NEW p \in Paths, InvalidateResource(p)
    PROVE  UNCHANGED cacheVars
<1> DEFINE K == {k \in Keys : k.resource = p}
<1>1. K = {}
  BY FilesAreNoResources DEF Keys
<1>2. Forget(K)
  BY DEF InvalidateResource
<1> HIDE DEF K
<1>3. entries' = entries
  <2>1. entries' = Without({})
    BY <1>1, <1>2 DEF Forget
  <2> QED
    BY <2>1 DEF Without, CacheIsFunction
<1>4. overtaken' = overtaken
  <2>1. overtaken \in [Callers -> BOOLEAN]
    BY DEF TypeOK
  <2>2. overtaken' = [c \in Callers |-> overtaken[c]]
    BY <1>1, <1>2, <2>1, Zenon DEF Forget
  <2> QED
    BY <2>1, <2>2, Zenon
<1> QED
  BY <1>2, <1>3, <1>4 DEF Forget, cacheVars

(* The listener's invalidations are the cache's: the version an event      *)
(* tells it to forget is one a request may carry.                          *)
LEMMA CacheStepOrStutter ==
    ASSUME ListenerInv, TypeOK, CacheIsFunction, [Next]_vars
    PROVE  [CacheNext]_cacheVars
<1>1. ASSUME NEW c \in Callers, CallerStep(c) PROVE CacheNext
  BY <1>1 DEF CallerStep, CacheNext
<1>2. ASSUME NEW ch \in Chans, HandlePolicy(ch) PROVE [CacheNext]_cacheVars
  <2> DEFINE v == VersionToForget(handling[ch].event)
  <2>1. handling[ch].event \in Event
    BY <1>2 DEF HandlePolicy, ListenerInv
  <2>2. v \in Versions
    BY <2>1 DEF VersionToForget, Event
  <2>3. CASE v # NoVersion
    BY <1>2, <2>2, <2>3 DEF HandlePolicy, CacheNext
  <2>4. CASE v = NoVersion
    BY <1>2, <2>4 DEF HandlePolicy, cacheVars
  <2> QED
    BY <2>3, <2>4
<1>3. ASSUME NEW ch \in Chans, HandleResource(ch) PROVE UNCHANGED cacheVars
  <2>1. /\ handling[ch].event.path \in Paths
        /\ InvalidateResource(handling[ch].event.path)
    BY <1>3 DEF HandleResource, ListenerInv, Event
  <2> QED
    BY <2>1, FileForgetsNothing
<1>4. CASE UNCHANGED cacheVars
  BY <1>4 DEF cacheVars
<1>5. CASE NotifierStep \/ \E ch \in Chans : ReceiveEvent(ch)
  BY <1>4, <1>5 DEF NotifierStep, ReceiveEvent
<1>6. CASE UNCHANGED vars
  BY <1>4, <1>6 DEF vars
<1> QED
  BY <1>1, <1>2, <1>3, <1>5, <1>6 DEF Next, HandlingStep

(* Every step of the cache leaves a function.                              *)
LEMMA CacheStaysFunction ==
    ASSUME CacheIsFunction, [CacheNext]_cacheVars
    PROVE  CacheIsFunction'
<1>1. ASSUME NEW K, entries' = Without(K) PROVE CacheIsFunction'
  BY <1>1 DEF Without, CacheIsFunction
<1>2. ASSUME NEW c \in Callers, Put(c) PROVE CacheIsFunction'
  BY <1>2 DEF Put, CacheIsFunction
<1>3. CASE entries' = entries
  BY <1>3 DEF CacheIsFunction
<1> QED
  BY <1>1, <1>2, <1>3
  DEF CacheNext, cacheVars, Evaluate, EvaluateDirect, GetLookup, GetJudge,
      GetDelete, EvaluateMiss, InvalidatePolicy, InvalidateResource,
      InvalidateAgent, Clear, Forget, EnableCaching, ClockTicks

(* A caching evaluator with its listener attached is a caching evaluator:  *)
(* whatever the watcher reports, the listener only does what the cache's   *)
(* other callers may do.                                                   *)
THEOREM CachePreserved == Spec => CacheSpec
<1>1. Init => CacheInit /\ TypeOK /\ CacheIsFunction /\ ListenerInv
  <2> SUFFICES ASSUME Init
               PROVE  TypeOK /\ CacheIsFunction /\ ListenerInv
    BY DEF Init
  <2>1. TypeOK
    BY CacheInitType DEF Init
  <2>2. CacheIsFunction
    BY DEF Init, CacheInit, CacheIsFunction
  <2>3. ListenerInv
    BY DEF Init, NotifierInit, ListenerInv, Handling, Idle
  <2> QED
    BY <2>1, <2>2, <2>3
<1> QED
  BY <1>1, NotifierPreserved, NotifierTypeCorrect, NextListener,
     CacheStepOrStutter, CacheNextType, CacheStaysFunction, PTL
  DEF Spec, CacheSpec

(* So what was proved of each part holds of the two together: subscribers  *)
(* are in step with the one monitor, and decisions agree with the wrapped  *)
(* evaluator and keep the limits while invalidations come from the files.  *)
THEOREM InvalidationIsSafe ==
    Spec => [](/\ OneMonitor /\ SubscribersInSync
               /\ AgreesWithEvaluator /\ WithinLimits)
BY NotifierPreserved, CachePreserved, OneMonitorOnly, SubscribersToldInStep,
   CacheAgrees, CacheWithinLimits, PTL

(* And the two together still are an Authorizer.                           *)
THEOREM InvalidationIsAuthorizer == Spec => ImplementsAuthorizer
BY CachePreserved, CacheIsAuthorizer, PTL
=============================================================================
