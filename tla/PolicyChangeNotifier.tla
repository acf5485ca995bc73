------------------------ MODULE PolicyChangeNotifier ------------------------
(***************************************************************************)
(* internal/authz/policy_change_notifier.go: a goroutine that polls policy *)
(* files, compares content hashes and tells subscribers what changed.      *)
(*                                                                         *)
(* n.mu protects the subscribers and the versions, but not the scan: a     *)
(* monitor reads the known version, hashes the file, stores the new        *)
(* version and notifies in four separate steps.  stopChan is made once, in *)
(* the constructor; closing it a second time is a Go panic, which ends the *)
(* process.  A channel stands for the subscriber that owns it and for the  *)
(* monitor goroutine its Subscribe may have started.                       *)
(***************************************************************************)
EXTENDS PolicyVersions, Naturals, Sequences

CONSTANTS
    Paths,      \* policy files that may be monitored
    NoVersion,  \* "", the version of a missing file
    Chans,      \* one for each SubscribePolicyChanges call
    Capacity,   \* of a subscriber's channel; 100 in the code
    Triggers    \* events that may come from outside

Changes == {"create", "update", "delete"}
Event == [path: Paths, old: Versions, new: Versions, type: Changes]

ASSUME NotifierAssumption ==
    /\ NoVersion \in Versions
    /\ None \notin Paths
    /\ Capacity \in Nat \ {0}
    /\ Triggers \subseteq Event

VARIABLES
    content,         \* the files
    paths,           \* policyPaths
    policyVersions,
    subscribers,     \* open channels
    queue,           \* what waits in each channel
    running,
    stopClosed,      \* stopChan has been closed
    panicked,
    stage,           \* of each monitor goroutine
    todo,            \* paths its scan has still to visit
    work,            \* the path it is at, with the versions it saw
    listener,        \* each subscriber's receive loop
    seen,            \* ghost: the version each subscriber was last told
    unsure           \* ghost: paths reloaded, or whose event was dropped

watchVars == <<stage, todo, work>>
ghostVars == <<seen, unsure>>
notifierVars == <<content, paths, policyVersions, subscribers, queue, running,
          stopClosed, panicked, watchVars, listener, ghostVars>>

NoWork == [path |-> None, old |-> NoVersion, new |-> NoVersion]

(* NewPolicyChangeNotifier with any configured paths; the first versions   *)
(* are those of the files, or "" when a file cannot be read.               *)
NotifierInit ==
    /\ content \in [Paths -> Versions]
    /\ paths \in SUBSET Paths
    /\ policyVersions \in [Paths -> Versions]
    /\ \A p \in Paths :
          policyVersions[p] \in {NoVersion} \union
                                (IF p \in paths THEN {content[p]} ELSE {})
    /\ subscribers = {}
    /\ queue = [ch \in Chans |-> <<>>]
    /\ running = FALSE
    /\ stopClosed = FALSE
    /\ panicked = FALSE
    /\ stage = [ch \in Chans |-> "none"]
    /\ todo = [ch \in Chans |-> {}]
    /\ work = [ch \in Chans |-> NoWork]
    /\ listener = [ch \in Chans |-> "none"]
    /\ seen = [ch \in Chans |-> policyVersions]
    /\ unsure = {}

-----------------------------------------------------------------------------
(* The environment: somebody writes or deletes a policy file.              *)
WritePolicy(p, v) ==
    /\ content' = [content EXCEPT ![p] = v]
    /\ UNCHANGED <<paths, policyVersions, subscribers, queue, running,
                   stopClosed, panicked, watchVars, listener, ghostVars>>

(* Mutant: every subscriber starts a monitor.                              *)
SubscribePolicyChanges_AlwaysStarts(ch) ==
    /\ listener[ch] = "none"
    /\ listener' = [listener EXCEPT ![ch] = "receiving"]
    /\ subscribers' = subscribers \union {ch}
    /\ seen' = [seen EXCEPT ![ch] = policyVersions]
    /\ running' = TRUE
    /\ stage' = [stage EXCEPT ![ch] = "select"]
    /\ UNCHANGED <<content, paths, policyVersions, queue, stopClosed,
                   panicked, todo, work, unsure>>

(* SubscribePolicyChanges, by a CachingEvaluator's listener.               *)
SubscribePolicyChanges(ch) ==
    /\ listener[ch] = "none"
    /\ listener' = [listener EXCEPT ![ch] = "receiving"]
    /\ subscribers' = subscribers \union {ch}
    /\ seen' = [seen EXCEPT ![ch] = policyVersions]
    /\ running' = TRUE
    /\ stage' = [stage EXCEPT ![ch] = IF running THEN @ ELSE "select"]
    /\ UNCHANGED <<content, paths, policyVersions, queue, stopClosed,
                   panicked, todo, work, unsure>>

(* Close, and CloseSubscriber, which removes every subscriber and so does  *)
(* the same: the channels are closed, then stopChan.                       *)
CloseAll ==
    /\ subscribers' = {}
    /\ stopClosed' = TRUE
    /\ panicked' = stopClosed
    /\ running' = (running /\ stopClosed)

Close ==
    /\ CloseAll
    /\ UNCHANGED <<content, paths, policyVersions, queue, watchVars, listener,
                   ghostVars>>

(* listenForPolicyChanges: the range loop takes what the channel holds ... *)
TakeEvent(ch) ==
    /\ listener[ch] = "receiving"
    /\ queue[ch] # <<>>
    /\ queue' = [queue EXCEPT ![ch] = Tail(@)]
    /\ UNCHANGED <<content, paths, policyVersions, subscribers, running,
                   stopClosed, panicked, watchVars, listener, ghostVars>>

(* ... and ends when it is closed and drained; the deferred call closes    *)
(* the notifier.                                                           *)
ListenerReturns(ch) ==
    /\ listener[ch] = "receiving"
    /\ queue[ch] = <<>>
    /\ ch \notin subscribers
    /\ listener' = [listener EXCEPT ![ch] = "returned"]
    /\ CloseAll
    /\ UNCHANGED <<content, paths, policyVersions, queue, watchVars, ghostVars>>

-----------------------------------------------------------------------------
(* monitorPolicies and checkForPolicyChanges.                              *)

(* The ticker fired: a scan over the paths of this moment begins.          *)
TickerFires(m) ==
    /\ stage[m] = "select"
    /\ todo' = [todo EXCEPT ![m] = paths]
    /\ stage' = [stage EXCEPT ![m] = "scan"]
    /\ UNCHANGED <<content, paths, policyVersions, subscribers, queue, running,
                   stopClosed, panicked, work, listener, ghostVars>>

Stop(m) ==
    /\ stage[m] = "select"
    /\ stopClosed
    /\ stage' = [stage EXCEPT ![m] = "stopped"]
    /\ UNCHANGED <<content, paths, policyVersions, subscribers, queue, running,
                   stopClosed, panicked, todo, work, listener, ghostVars>>

EndScan(m) ==
    /\ stage[m] = "scan"
    /\ todo[m] = {}
    /\ stage' = [stage EXCEPT ![m] = "select"]
    /\ UNCHANGED <<content, paths, policyVersions, subscribers, queue, running,
                   stopClosed, panicked, todo, work, listener, ghostVars>>

ReadKnown(m, p) ==
    /\ stage[m] = "scan"
    /\ p \in todo[m]
    /\ todo' = [todo EXCEPT ![m] = @ \ {p}]
    /\ work' = [work EXCEPT ![m] = [path |-> p, old |-> policyVersions[p],
                                    new |-> NoVersion]]
    /\ stage' = [stage EXCEPT ![m] = "hash"]
    /\ UNCHANGED <<content, paths, policyVersions, subscribers, queue, running,
                   stopClosed, panicked, listener, ghostVars>>

(* calculateCurrentVersion succeeds; an unchanged file needs nothing more. *)
Hash(m) ==
    /\ stage[m] = "hash"
    /\ LET v == content[work[m].path]
       IN  IF v = work[m].old
           THEN /\ work' = [work EXCEPT ![m] = NoWork]
                /\ stage' = [stage EXCEPT ![m] = "scan"]
           ELSE /\ work' = [work EXCEPT ![m].new = v]
                /\ stage' = [stage EXCEPT ![m] = "store"]
    /\ UNCHANGED <<content, paths, policyVersions, subscribers, queue, running,
                   stopClosed, panicked, todo, listener, ghostVars>>

(* The file cannot be read: the scan goes on.                              *)
HashFails(m) ==
    /\ stage[m] = "hash"
    /\ work' = [work EXCEPT ![m] = NoWork]
    /\ stage' = [stage EXCEPT ![m] = "scan"]
    /\ UNCHANGED <<content, paths, policyVersions, subscribers, queue, running,
                   stopClosed, panicked, todo, listener, ghostVars>>

(* Mutant: the version is stored and the notification forgotten.           *)
StoreVersion_Silent(m) ==
    /\ stage[m] = "store"
    /\ policyVersions' = [policyVersions EXCEPT ![work[m].path] = work[m].new]
    /\ stage' = [stage EXCEPT ![m] = "scan"]
    /\ UNCHANGED <<content, paths, subscribers, queue, running, stopClosed,
                   panicked, todo, work, listener, ghostVars>>

(* Mutant: the new version is not stored.                                  *)
StoreVersion_Forgets(m) ==
    /\ stage[m] = "store"
    /\ stage' = [stage EXCEPT ![m] = "notify"]
    /\ UNCHANGED <<content, paths, policyVersions, subscribers, queue, running,
                   stopClosed, panicked, todo, work, listener, ghostVars>>

StoreVersion(m) ==
    /\ stage[m] = "store"
    /\ policyVersions' = [policyVersions EXCEPT ![work[m].path] = work[m].new]
    /\ stage' = [stage EXCEPT ![m] = "notify"]
    /\ UNCHANGED <<content, paths, subscribers, queue, running, stopClosed,
                   panicked, todo, work, listener, ghostVars>>

(* createPolicyChangeEvent                                                 *)
ChangeType(old, new) ==
    IF new = NoVersion THEN "delete"
    ELSE IF old = NoVersion THEN "create" ELSE "update"

(* notifySubscribers: a full channel drops the event.                      *)
HasRoom(ch) == Len(queue[ch]) < Capacity

Send(e) ==
    queue' = [ch \in Chans |->
                IF ch \in subscribers /\ HasRoom(ch)
                THEN Append(queue[ch], e) ELSE queue[ch]]

NotifySubscribers(m) ==
    LET w == work[m]
        e == [path |-> w.path, old |-> w.old, new |-> w.new,
              type |-> ChangeType(w.old, w.new)]
    IN  /\ stage[m] = "notify"
        /\ Send(e)
        /\ seen' = [ch \in Chans |->
                      IF ch \in subscribers /\ HasRoom(ch)
                      THEN [seen[ch] EXCEPT ![w.path] = w.new] ELSE seen[ch]]
        /\ unsure' = unsure \union
             {w.path : ch \in {x \in subscribers : ~HasRoom(x)}}
        /\ stage' = [stage EXCEPT ![m] = "scan"]
        /\ work' = [work EXCEPT ![m] = NoWork]
        /\ UNCHANGED <<content, paths, policyVersions, subscribers, running,
                       stopClosed, panicked, todo, listener>>

-----------------------------------------------------------------------------
(* TriggerPolicyChange: an event from outside, which the files know        *)
(* nothing of.                                                             *)
TriggerPolicyChange(e) ==
    /\ Send(e)
    /\ seen' = [ch \in Chans |->
                  IF ch \in subscribers /\ HasRoom(ch)
                  THEN [seen[ch] EXCEPT ![e.path] = e.new] ELSE seen[ch]]
    /\ unsure' = unsure \union {e.path}
    /\ UNCHANGED <<content, paths, policyVersions, subscribers, running,
                   stopClosed, panicked, watchVars, listener>>

(* AddPolicyPath: the path stays in the list even if its version cannot    *)
(* be loaded.                                                              *)
AddPolicyPath(p) ==
    /\ p \notin paths
    /\ paths' = paths \union {p}
    /\ \E v \in {content[p], policyVersions[p]} :
          policyVersions' = [policyVersions EXCEPT ![p] = v]
    /\ unsure' = unsure \union {p}
    /\ UNCHANGED <<content, subscribers, queue, running, stopClosed, panicked,
                   watchVars, listener, seen>>

(* RemovePolicyPath shifts the slice a scan may be ranging over without    *)
(* the lock: that scan may miss one other path.  It may also come to the   *)
(* last path twice, as the next scan would if the ticker fired at once.    *)
RemovePolicyPath(p) ==
    /\ p \in paths
    /\ paths' = paths \ {p}
    /\ policyVersions' = [policyVersions EXCEPT ![p] = NoVersion]
    /\ unsure' = unsure \union {p}
    /\ \E missed \in SUBSET Paths :
          /\ \A q, r \in missed : q = r
          /\ todo' = [m \in Chans |-> todo[m] \ missed]
    /\ UNCHANGED <<content, subscribers, queue, running, stopClosed, panicked,
                   stage, work, listener, seen>>

-----------------------------------------------------------------------------
MonitorStep(m) ==
    \/ TickerFires(m) \/ Stop(m) \/ EndScan(m)
    \/ \E p \in Paths : ReadKnown(m, p)
    \/ Hash(m) \/ HashFails(m) \/ StoreVersion(m) \/ NotifySubscribers(m)

ListenerStep(ch) == TakeEvent(ch) \/ ListenerReturns(ch)

Running ==
    \/ \E p \in Paths, v \in Versions : WritePolicy(p, v)
    \/ \E ch \in Chans : SubscribePolicyChanges(ch)
    \/ Close
    \/ \E ch \in Chans : ListenerStep(ch) \/ MonitorStep(ch)
    \/ \E p \in Paths : AddPolicyPath(p) \/ RemovePolicyPath(p)
    \/ \E e \in Triggers : TriggerPolicyChange(e)

(* A panic ends the process.                                               *)
NotifierNext == ~panicked /\ Running

NotifierSpec == NotifierInit /\ [][NotifierNext]_notifierVars

(* Goroutines run, tickers tick, and a file that can be read at all is     *)
(* read once in a while.                                                   *)
NotifierFairness ==
    /\ \A m \in Chans : /\ WF_notifierVars(NotifierNext /\ MonitorStep(m))
                        /\ SF_notifierVars(NotifierNext /\ Hash(m))
    /\ \A ch \in Chans : WF_notifierVars(NotifierNext /\ ListenerStep(ch))

-----------------------------------------------------------------------------
(* Properties.                                                             *)

(* Until it is closed, a notifier has at most one monitor: subscribers     *)
(* that arrive together do not start two, and none is left without.        *)
OneMonitor ==
    ~stopClosed =>
        /\ \A m, n \in Chans :
              (stage[m] # "none" /\ stage[n] # "none") => m = n
        /\ subscribers # {} => \E m \in Chans : stage[m] # "none"

(* Between the steps that store a version and notify it, every subscriber  *)
(* of an open notifier has been told the version the notifier believes in, *)
(* of every path that was neither re-added nor lost an event to a full     *)
(* channel.                                                                *)
SubscribersInSync ==
    ~stopClosed =>
        \A ch \in subscribers, p \in Paths \ unsure :
            \/ seen[ch][p] = policyVersions[p]
            \/ \E m \in Chans : stage[m] = "notify" /\ work[m].path = p

(* A monitored file that keeps its content is eventually known with that   *)
(* content, as long as the notifier has a subscriber and is not closed.    *)
ChangeNoticed ==
    \A p \in Paths, v \in Versions, S \in SUBSET Paths :
        <>[](/\ paths = S /\ p \in S /\ content[p] = v
             /\ subscribers # {} /\ ~stopClosed)
            => <>[](policyVersions[p] = v)

=============================================================================
