---------------------------- MODULE RuntimeStorage ----------------------------
(***************************************************************************)
(* The storage layer of the native runtime (runtime/storage.go,            *)
(* storage_conditional.go) and the container service on top of it          *)
(* (container_operations.go), for one resource of one container.           *)
(*                                                                         *)
(* The layer sends every operation to its default backend and retries what *)
(* may have failed on the way.  A memory backend works under its mutex; an *)
(* HTTP backend talks to a server outside the repository: a request can be *)
(* lost, its answer can be lost after it took effect, and a request given  *)
(* up by its caller can arrive later.  The container service looks, writes *)
(* and reads back under the lock of the container; direct callers of the   *)
(* layer do not take that lock.                                            *)
(*                                                                         *)
(* A version of the resource is its body, and a validator (ETag) the body  *)
(* it is the hash of.  Callers leave StorageResource.ETag empty, so that   *)
(* the backend names the version it stores; URIs and sizes are valid; a    *)
(* name is registered for one backend only.  Reads that change nothing and *)
(* no caller of the module acts on (Head, List, HealthCheck), metrics and  *)
(* dates are left out.                                                     *)
(***************************************************************************)
EXTENDS Naturals, FiniteSets

CONSTANTS
    Callers,          \* goroutines that use the layer
    Memory, Remote,   \* the backends, in memory and over HTTP
    Bodies,           \* the versions of the resource
    Absent,           \* no resource
    NoTag,            \* the empty ETag
    Star,             \* the validator "*"
    None,             \* nobody, nothing
    Operations,       \* the writes each caller makes
    MaxRetries,
    LateBound         \* requests under way that nobody waits for

Backends == Memory \union Remote

(* The validators of If-Match and If-None-Match; both lists may be empty.  *)
StoragePreconditions == [match: SUBSET (Bodies \union {Star}),
                         none: SUBSET (Bodies \union {Star})]
IsEmpty == [match |-> {}, none |-> {}]

ASSUME RuntimeStorageAssumption ==
    /\ Memory \intersect Remote = {}
    /\ None \notin Callers \union Backends
    /\ NoTag \notin Bodies \union {Star}
    /\ MaxRetries \in Nat /\ LateBound \in Nat
    \* via: the container service, Put or Delete, or their conditional forms;
    \* the body is Absent for a delete
    /\ \A c \in Callers : \A o \in Operations[c] :
          /\ o.via \in {"service", "plain", "conditional"}
          /\ o.body \in Bodies \union {Absent}
          /\ o.if \in StoragePreconditions
          /\ o.via # "conditional" => o.if = IsEmpty

VARIABLES
    status,    \* of each backend: not yet registered, registered, closed
    default,   \* StorageAbstractionLayer.defaultBackend
    closed,    \* StorageAbstractionLayer.closed
    store,     \* what each backend holds under the resource's URI
    late,      \* requests whose callers have given up
    lock,      \* the holder of the container's lock
    call,      \* the call each caller is in
    report     \* the answer a caller got in the last step

layerVars == <<status, default, closed>>
vars == <<layerVars, store, late, lock, call, report>>

(* A call: what it does next, the write it is about, the backend of its    *)
(* current storage operation and how many attempts of that one failed.     *)
(* Ghosts: the write has taken effect; the answer the container service    *)
(* acts on is wrong or out of date for a reason its lock cannot help.      *)
Idle == [pc |-> "idle", op |-> None, backend |-> None, failed |-> 0,
         done |-> FALSE, disturbed |-> FALSE]

Init ==
    /\ status \in [Backends -> {"new", "open"}]
    /\ default \in {b \in Backends : status[b] = "open"}
    /\ closed = FALSE
    /\ store = [b \in Backends |-> Absent]
    /\ late = {}
    /\ lock = None
    /\ call = [c \in Callers |-> Idle]
    /\ report = None

-----------------------------------------------------------------------------
(* Preconditions and what the backends store.                              *)

EtagListMatches(list, current) ==
    current # Absent /\ (Star \in list \/ current.tag \in list)

(* Mutant: If-Match lets a resource that is not there through.             *)
EvaluateStoragePreconditions_Absent(current, if) ==
    /\ if.match # {} => current = Absent \/ EtagListMatches(if.match, current)
    /\ if.none # {} => ~EtagListMatches(if.none, current)

EvaluateStoragePreconditions(current, if) ==
    /\ if.match # {} => EtagListMatches(if.match, current)
    /\ if.none # {} => ~EtagListMatches(if.none, current)

(* InMemoryStorageBackend: Put keeps the caller's empty ETag, and          *)
(* PutConditional computes one.                                            *)
MemoryStored(o) ==
    IF o.body = Absent THEN Absent
    ELSE [body |-> o.body,
          tag |-> IF o.via = "conditional" THEN o.body ELSE NoTag]

(* The server names every version it stores.                               *)
ServerStored(o) ==
    IF o.body = Absent THEN Absent ELSE [body |-> o.body, tag |-> o.body]

Stored(b, o) == IF b \in Memory THEN MemoryStored(o) ELSE ServerStored(o)

(* What a backend that handles the write answers: a memory backend deletes *)
(* what is not there without complaint, a server answers 404.              *)
Answer(b, o) ==
    IF ~EvaluateStoragePreconditions(store[b], o.if) THEN "precondition"
    ELSE IF b \in Remote /\ o.body = Absent /\ store[b] = Absent
         THEN "not found"
         ELSE "ok"

(* Calls of the container service between their look and their write, and  *)
(* calls that are looking.                                                 *)
Looked(k) == k.pc = "write" /\ k.op.via = "service"
Looking(k) == k.pc = "exists" /\ k.backend # None

(* The calls, when somebody without the container's lock changes the       *)
(* resource.                                                               *)
Intruded == [c \in Callers |->
               [call[c] EXCEPT !.disturbed = @ \/ Looked(call[c])]]

(* Backend b handles the write o.                                          *)
Handle(b, o) ==
    store' = [store EXCEPT ![b] = IF Answer(b, o) = "ok" THEN Stored(b, o)
                                  ELSE @]

-----------------------------------------------------------------------------
(* Calls.                                                                  *)

(* A caller asks the container service to create or delete the resource,   *)
(* or uses Put, Delete, PutConditional or DeleteConditional of the layer.  *)
Begin(c, o) ==
    /\ call[c].pc = "idle"
    /\ call' = [call EXCEPT ![c] =
                  [Idle EXCEPT !.pc = IF o.via = "service" THEN "lock"
                                      ELSE "write",
                               !.op = o]]
    /\ report' = None
    /\ UNCHANGED <<layerVars, store, late, lock>>

AcquireLock(c) ==
    /\ call[c].pc = "lock" /\ lock = None
    /\ lock' = c
    /\ call' = [call EXCEPT ![c].pc = "exists"]
    /\ report' = None
    /\ UNCHANGED <<layerVars, store, late>>

(* Mutant: the conflict is returned with the lock held.                    *)
Return_Locked(c, calls, r) ==
    /\ call' = [calls EXCEPT ![c] = Idle]
    /\ report' = [said |-> r, done |-> calls[c].done,
                   retried |-> calls[c].failed > 0]
    /\ lock' = IF lock = c /\ r # "conflict" THEN None ELSE lock

(* Caller c's call returns r; the service's deferred Unlock runs.  `calls'  *)
(* are the calls as the step has left them so far.                         *)
Return(c, calls, r) ==
    /\ call' = [calls EXCEPT ![c] = Idle]
    /\ report' = [said |-> r, done |-> calls[c].done,
                   retried |-> calls[c].failed > 0]
    /\ lock' = IF lock = c THEN None ELSE lock

(* Mutant: the container is unlocked before the write.                     *)
GoOn_Unlocked(c, calls, place) ==
    /\ call' = [calls EXCEPT ![c].pc = place, ![c].backend = None,
                             ![c].failed = 0]
    /\ lock' = IF lock = c THEN None ELSE lock
    /\ report' = None

(* The next storage operation of the same call.                            *)
GoOn(c, calls, place) ==
    /\ call' = [calls EXCEPT ![c].pc = place, ![c].backend = None,
                             ![c].failed = 0]
    /\ report' = None
    /\ UNCHANGED lock

(* Mutant: the last failure is forgotten when the retries are used up.     *)
Retry_Forgets(c, calls) ==
    IF calls[c].failed = MaxRetries
    THEN Return(c, calls, "ok")
    ELSE /\ call' = [calls EXCEPT ![c].failed = @ + 1]
         /\ report' = None
         /\ UNCHANGED lock

(* doWithRetry after an error that shouldRetry accepts.                    *)
Retry(c, calls) ==
    IF calls[c].failed = MaxRetries
    THEN Return(c, calls, "max retries")
    ELSE /\ call' = [calls EXCEPT ![c].failed = @ + 1]
         /\ report' = None
         /\ UNCHANGED lock

(* An attempt failed: a timeout, an EOF or a 5xx is retried; any other     *)
(* error, the caller's own cancellation included, is returned.             *)
AttemptFails(c, calls) == Retry(c, calls) \/ Return(c, calls, "error")

(* getDefaultBackend and GetBackend.                                       *)
Resolve(c) ==
    /\ call[c].pc \in {"exists", "write", "read"} /\ call[c].backend = None
    /\ IF status[default] = "open" /\ ~closed
       THEN /\ call' = [call EXCEPT ![c].backend = default]
            /\ report' = None
            /\ UNCHANGED lock
       ELSE Return(c, call, "error")
    /\ UNCHANGED <<layerVars, store, late>>

(* The context ends while the caller waits to try again, or its backend    *)
(* has been closed: neither is retried.                                    *)
CancelOrClosed(c) ==
    /\ call[c].backend # None
    /\ call[c].failed > 0 \/ status[call[c].backend] = "closed"
    /\ Return(c, call, "error")
    /\ UNCHANGED <<layerVars, store, late>>

(* Caller c makes an attempt, for which its backend is still open.         *)
Attempting(c, place) ==
    /\ call[c].pc = place /\ call[c].backend # None
    /\ status[call[c].backend] = "open"

OverHTTP(c) == call[c].backend \in Remote

(* CreateResource and DeleteResource, told whether the resource exists.    *)
Decide(c, calls, exists) ==
    IF exists = (call[c].op.body = Absent)
    THEN GoOn(c, calls, "write")
    ELSE Return(c, calls, IF exists THEN "conflict" ELSE "not found")

(* Exists; over HTTP every status but 200 means that it does not exist.    *)
Exists(c) ==
    /\ Attempting(c, "exists")
    /\ \/ Decide(c, call, store[call[c].backend] # Absent)
       \/ OverHTTP(c) /\ Decide(c, [call EXCEPT ![c].disturbed = TRUE], FALSE)
       \/ OverHTTP(c) /\ AttemptFails(c, call)
    /\ UNCHANGED <<layerVars, store, late>>

(* The calls after c's backend has answered r to c's write, whether or not *)
(* c receives it.                                                          *)
Written(c, r) ==
    IF r # "ok" THEN call
    ELSE [d \in Callers |->
            [call[d] EXCEPT
                !.done = @ \/ d = c,
                !.disturbed = @ \/ (Looked(call[d])
                                     /\ call[c].op.via # "service")]]

(* The backend handles a write.  Its answer arrives, and an acknowledged   *)
(* create is read back; or, over HTTP, the answer is lost.                 *)
HandleWrite(c) ==
    LET k == call[c]
        r == Answer(k.backend, k.op)
    IN  /\ Attempting(c, "write")
        /\ Handle(k.backend, k.op)
        /\ \/ IF r = "ok" /\ k.op.via = "service" /\ k.op.body # Absent
              THEN GoOn(c, Written(c, r), "read")
              ELSE Return(c, Written(c, r), r)
           \/ OverHTTP(c) /\ AttemptFails(c, Written(c, r))
        /\ UNCHANGED <<layerVars, late>>

(* The request is lost, or still under way when its caller gives up.       *)
WriteUndelivered(c) ==
    /\ Attempting(c, "write") /\ OverHTTP(c)
    /\ AttemptFails(c, call)
    /\ \/ UNCHANGED late
       \/ /\ Cardinality(late) < LateBound
          /\ late' = late \union {[op |-> call[c].op, to |-> call[c].backend]}
    /\ UNCHANGED <<layerVars, store>>

(* A request nobody waits for reaches the server, or never does.           *)
Arrive(r) ==
    /\ late' = late \ {r}
    /\ \/ /\ Handle(r.to, r.op)
          /\ call' = IF Answer(r.to, r.op) = "ok" THEN Intruded ELSE call
       \/ UNCHANGED <<store, call>>
    /\ report' = None
    /\ UNCHANGED <<layerVars, lock>>

(* Get at the end of CreateResource.                                       *)
ReadBack(c) ==
    /\ Attempting(c, "read")
    /\ \/ Return(c, call, IF store[call[c].backend] # Absent THEN "ok"
                          ELSE "not found")
       \/ OverHTTP(c) /\ AttemptFails(c, call)
    /\ UNCHANGED <<layerVars, store, late>>

-----------------------------------------------------------------------------
(* The operator of the layer.                                              *)

RegisterBackend(b) ==
    /\ ~closed /\ status[b] = "new"
    /\ status' = [status EXCEPT ![b] = "open"]
    /\ report' = None
    /\ UNCHANGED <<default, closed, store, late, lock, call>>

(* A memory backend that is closed forgets its resources.                  *)
Closing(B) ==
    /\ status' = [b \in Backends |-> IF b \in B THEN "closed" ELSE status[b]]
    /\ store' = [b \in Backends |->
                   IF b \in B \intersect Memory THEN Absent ELSE store[b]]
    /\ report' = None
    /\ UNCHANGED <<default, late, lock, call>>

UnregisterBackend(b) ==
    /\ ~closed /\ status[b] = "open"
    /\ Closing({b})
    /\ UNCHANGED closed

Close ==
    /\ ~closed
    /\ closed' = TRUE
    /\ Closing({b \in Backends : status[b] = "open"})

(* What the container service has seen is no longer what it writes to.     *)
SetDefaultBackend(b) ==
    /\ ~closed /\ status[b] = "open"
    /\ default' = b
    /\ call' = [c \in Callers |->
                  [call[c] EXCEPT !.disturbed =
                      @ \/ Looked(call[c]) \/ Looking(call[c])]]
    /\ report' = None
    /\ UNCHANGED <<status, closed, store, late, lock>>

-----------------------------------------------------------------------------
Attempt(c) ==
    \/ Resolve(c) \/ CancelOrClosed(c)
    \/ Exists(c) \/ ReadBack(c)
    \/ HandleWrite(c) \/ WriteUndelivered(c)

Next ==
    \/ \E c \in Callers :
          \/ \E o \in Operations[c] : Begin(c, o)
          \/ AcquireLock(c)
          \/ Attempt(c)
    \/ \E r \in late : Arrive(r)
    \/ \E b \in Backends :
          RegisterBackend(b) \/ UnregisterBackend(b) \/ SetDefaultBackend(b)
    \/ Close

(* Attempts end, by an answer or by the client's timeout, and sync.Mutex   *)
(* starves nobody.                                                         *)
Spec ==
    /\ Init /\ [][Next]_vars
    /\ \A c \in Callers : WF_vars(Attempt(c)) /\ SF_vars(AcquireLock(c))

-----------------------------------------------------------------------------
(* Properties.                                                             *)

(* Write o reaches backend b in this step and takes effect there.          *)
TakesEffect(b, o) ==
    /\ \/ \E c \in Callers :
             call[c].backend = b /\ call[c].op = o /\ HandleWrite(c)
       \/ \E r \in late : r = [op |-> o, to |-> b] /\ Arrive(r)
    /\ store'[b] # store[b]

(* No lost update: whatever is retried, lost or late, a conditional write  *)
(* that changes the resource replaces a version its If-Match names, and    *)
(* with If-None-Match: * replaces none.                                    *)
ConditionalReplacesNamed ==
    [][\A b \in Backends, o \in UNION {Operations[c] : c \in Callers} :
          TakesEffect(b, o) =>
              LET old == IF store[b] = Absent THEN {}
                         ELSE {Star, store[b].body}
              IN  /\ o.if.match # {} => old \intersect o.if.match # {}
                  /\ Star \in o.if.none => old = {}]_vars

(* CreateResource "prevents duplicate creates": one that takes effect for  *)
(* the first time finds no resource, unless somebody who does not take the *)
(* container's lock came between its look and its write (a direct writer,  *)
(* a late request, a changed default backend) or the look was answered by  *)
(* an error status.                                                        *)
CreateNeverReplaces ==
    [][\A c \in Callers :
          LET k == call[c]
          IN  (/\ HandleWrite(c)
               /\ k.op.via = "service" /\ k.op.body # Absent
               /\ ~k.done /\ ~k.disturbed)
              => store[k.backend] = Absent]_vars

(* What a call reports is what happened: a success has taken effect, a     *)
(* conflict has not, and neither has a write refused at its first attempt. *)
(* (A retried one may be refused because of its own earlier attempt.)      *)
ReportsAreTrue ==
    report # None =>
        /\ report.said = "ok" => report.done
        /\ report.said = "conflict" => ~report.done
        /\ (report.said = "precondition" /\ ~report.retried) => ~report.done

(* Every call returns, whatever fails and whoever holds the container's    *)
(* lock through its retries.                                               *)
CallsReturn == \A c \in Callers : call[c].pc # "idle" ~> call[c].pc = "idle"
=============================================================================
