-------------------------- MODULE PolicyInvalidation --------------------------
(***************************************************************************)
(* A CachingEvaluator listening to a PolicyChangeNotifier: requests carry  *)
(* a version of the policy as it is when the request is built, the         *)
(* notifier polls the files, and the listener goroutine of                 *)
(* caching_evaluator.go turns each event into cache invalidations.         *)
(*                                                                         *)
(* The two versions are different hashes.  The notifier's is the hash of   *)
(* the file; BuildRequest puts "sha256:" and the hash of the canonical     *)
(* documents into a request, unless BuildOptions.PolicyVersion gives it    *)
(* another.  RequestVersion is that conversion.                            *)
(*                                                                         *)
(* The ResourceURI of a watcher event is a file: URI and names no resource *)
(* of an HTTP request.  The clock stands still and caching stays on, so    *)
(* nothing leaves the cache but by invalidation or eviction; the notifier  *)
(* has loaded its files and is not closed.                                 *)
(***************************************************************************)
EXTENDS PolicyChangeNotifier, DecisionCache

CONSTANT RequestVersion   \* of a request built from a file, by the file's hash

(* The hashes of files, "" for a missing one.                              *)
FileVersions == DOMAIN RequestVersion

(* Without documents there is no version: PolicyVersionForDocuments.       *)
ASSUME VersionAssumption ==
    /\ FileVersions \subseteq Versions
    /\ RequestVersion \in [FileVersions -> Versions]
    /\ NoVersion \in FileVersions /\ RequestVersion[NoVersion] = NoVersion

ASSUME FilesAreNoResources == Paths \intersect Resources = {}

VARIABLE handling   \* the event each listener has in hand, and what is left to do

vars == <<notifierVars, cacheVars, handling>>

Idle == [event |-> None, next |-> "receive"]

Init ==
    /\ NotifierInit
    /\ content \in [Paths -> FileVersions]
    /\ paths = Paths /\ policyVersions = content
    /\ CacheInit
    /\ handling = [ch \in Chans |-> Idle]

-----------------------------------------------------------------------------
(* listenForPolicyChanges.                                                 *)
ReceiveEvent(ch) ==
    /\ handling[ch] = Idle
    /\ TakeEvent(ch)
    /\ handling' = [handling EXCEPT
                      ![ch] = [event |-> Head(queue[ch]), next |-> "policy"]]
    /\ UNCHANGED cacheVars

(* Mutant: an update forgets the new version instead of the old one.       *)
VersionToForget_New(e) == e.new

(* The version an event makes the listener forget; none if it is "".       *)
VersionToForget(e) == IF e.type = "delete" THEN e.new ELSE e.old

HandlePolicy(ch) ==
    /\ handling[ch].next = "policy"
    /\ LET v == VersionToForget(handling[ch].event)
       IN  IF v # NoVersion THEN InvalidatePolicy(v) ELSE UNCHANGED cacheVars
    /\ handling' = [handling EXCEPT ![ch].next = "resource"]
    /\ UNCHANGED notifierVars

HandleResource(ch) ==
    /\ handling[ch].next = "resource"
    /\ InvalidateResource(handling[ch].event.path)
    /\ handling' = [handling EXCEPT ![ch] = Idle]
    /\ UNCHANGED notifierVars

HandlingStep(ch) ==
    ReceiveEvent(ch) \/ HandlePolicy(ch) \/ HandleResource(ch)

-----------------------------------------------------------------------------
(* The rest of the notifier, and the callers of Evaluate.                  *)
NotifierStep ==
    /\ \/ \E p \in Paths, v \in FileVersions : WritePolicy(p, v)
       \/ \E ch \in Chans : SubscribePolicyChanges(ch) \/ MonitorStep(ch)
    /\ UNCHANGED <<cacheVars, handling>>

(* What requests built now carry.                                          *)
Carried == {RequestVersion[content[p]] : p \in Paths}

CallerStep(c) ==
    /\ \/ \E k \in Keys : k.version \in Carried /\ Evaluate(c, k)
       \/ GetLookup(c) \/ GetJudge(c)
       \/ EvaluateMiss(c) \/ Put(c)
    /\ UNCHANGED <<notifierVars, handling>>

Next ==
    \/ NotifierStep
    \/ \E ch \in Chans : HandlingStep(ch)
    \/ \E c \in Callers : CallerStep(c)

Spec == Init /\ [][Next]_vars

(* The listener goroutine runs.                                            *)
FairSpec == Spec /\ \A ch \in Chans : WF_vars(HandlingStep(ch))

-----------------------------------------------------------------------------
Cached(v) == \E k \in DOMAIN entries : k.version = v
InFlight(v) == \E c \in Callers : pc[c] # "idle" /\ key[c].version = v

(* The listener's event e replaced the content hashed v.                   *)
Replaces(e, v) == e.type = "update" /\ e.old = v

(* Content v has been replaced: the event saying so is in a channel or in  *)
(* a listener's hands, and nothing carries its version any more.           *)
Replaced(v) ==
    /\ RequestVersion[v] \notin Carried /\ ~InFlight(RequestVersion[v])
    /\ \E ch \in Chans :
          \/ \E i \in 1..Len(queue[ch]) : Replaces(queue[ch][i], v)
          \/ handling[ch].next = "policy" /\ Replaces(handling[ch].event, v)

(* Once an update is in the listener's channel, decisions made under the   *)
(* replaced content leave the cache, through the channel, the listener and *)
(* the cache's lock.  It holds where requests carry the watcher's hashes.  *)
UpdateReachesCache ==
    \A v \in FileVersions \ {NoVersion} :
        Replaced(v) ~> (~Cached(RequestVersion[v])
                          \/ RequestVersion[v] \in Carried)

(* When the listener has handled an update, no decision made under the     *)
(* content it replaced is left in the cache: what cache.go:157-158 says    *)
(* InvalidatePolicy is for, which is called when a policy changes to       *)
(* ensure stale decisions are not used.  With requests as BuildRequest     *)
(* builds them the listener names another version.                         *)
UpdateForgotten ==
    [][\A ch \in Chans :
          LET e == handling[ch].event
          IN  /\ handling[ch].next = "policy" /\ handling'[ch].next = "resource"
              /\ e.type = "update"
              => \A k \in DOMAIN entries' : k.version # RequestVersion[e.old]]_vars

=============================================================================
