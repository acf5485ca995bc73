------------------------ MODULE RuntimeStorageProofs -------------------------
(* Proofs about RuntimeStorage, for any number of callers, backends and    *)
(* versions, any operations and any number of retries and late requests.   *)
EXTENDS RuntimeStorage, TLAPS

USE DEF layerVars

Writes == UNION {Operations[c] : c \in Callers}

(* A version as a backend keeps it: its validator is its own, or empty.    *)
Versions == {v \in [body: Bodies, tag: Bodies \union {NoTag}] :
                v.tag = v.body \/ v.tag = NoTag}

Places == {"idle", "lock", "exists", "write", "read"}

CallRecord == [pc: Places, op: Writes \union {None},
               backend: Backends \union {None}, failed: Nat,
               done: BOOLEAN, disturbed: BOOLEAN]

CallsType(calls) ==
    /\ calls \in [Callers -> CallRecord]
    /\ \A c \in Callers : calls[c].pc # "idle" => calls[c].op \in Writes

StorageType ==
    /\ default \in Backends
    /\ store \in [Backends -> Versions \union {Absent}]
    /\ late \subseteq [op: Writes, to: Backends]
    /\ CallsType(call)

(* What is known of a write.                                               *)
LEMMA WriteType ==
    ASSUME NEW o \in Writes
    PROVE  /\ o.via \in {"service", "plain", "conditional"}
           /\ o.body \in Bodies \union {Absent}
           /\ o.if \in StoragePreconditions
           /\ o.via # "conditional" => o.if = IsEmpty
BY RuntimeStorageAssumption DEF Writes

(* What a backend stores is a version or nothing.                          *)
LEMMA StoredType ==
    ASSUME NEW b \in Backends, NEW o \in Writes
    PROVE  Stored(b, o) \in Versions \union {Absent}
<1>1. CASE o.body = Absent
  BY <1>1 DEF Stored, MemoryStored, ServerStored
<1>2. CASE o.body # Absent
  <2>1. o.body \in Bodies
    BY <1>2, WriteType
  <2> QED
    BY <1>2, <2>1 DEF Stored, MemoryStored, ServerStored, Versions
<1> QED
  BY <1>1, <1>2

(* Handling a write changes one backend, and only on the answer "ok".      *)
LEMMA HandleType ==
    ASSUME StorageType, NEW b \in Backends, NEW o \in Writes, Handle(b, o)
    PROVE  /\ store' \in [Backends -> Versions \union {Absent}]
           /\ \A d \in Backends : d # b => store'[d] = store[d]
           /\ Answer(b, o) # "ok" => store' = store
BY StoredType DEF StorageType, Handle

(* What the three ways a step leaves caller c's call do to the calls.      *)
LEMMA ReturnMove ==
    ASSUME NEW c \in Callers, NEW calls, CallsType(calls), NEW r,
           Return(c, calls, r)
    PROVE  /\ CallsType(call')
           /\ call'[c] = Idle
           /\ \A d \in Callers : d # c => call'[d] = calls[d]
           /\ \A d \in Callers : d # c /\ lock = d => lock' = d
           /\ report' = [said |-> r, done |-> calls[c].done,
                         retried |-> calls[c].failed > 0]
<1>1. Idle \in CallRecord /\ Idle.pc = "idle"
  BY DEF Idle, CallRecord, Places
<1> QED
  BY <1>1 DEF Return, CallsType

LEMMA GoOnMove ==
    ASSUME NEW c \in Callers, NEW calls, CallsType(calls),
           calls[c].pc # "idle", NEW p \in Places, GoOn(c, calls, p)
    PROVE  /\ CallsType(call')
           /\ call'[c] = [calls[c] EXCEPT !.pc = p, !.backend = None,
                                          !.failed = 0]
           /\ \A d \in Callers : d # c => call'[d] = calls[d]
           /\ lock' = lock /\ report' = None
<1> DEFINE k == [calls[c] EXCEPT !.pc = p, !.backend = None, !.failed = 0]
<1>1. calls[c] \in CallRecord
  BY DEF CallsType
<1>2. k \in CallRecord /\ k.op = calls[c].op
  BY <1>1 DEF CallRecord
<1>3. call' = [calls EXCEPT ![c] = k]
  BY <1>1 DEF GoOn, CallsType
<1> HIDE DEF k
<1>4. CallsType(call')
  BY <1>2, <1>3 DEF CallsType
<1> QED
  BY <1>3, <1>4 DEF GoOn, CallsType, k

LEMMA RetryMove ==
    ASSUME NEW c \in Callers, NEW calls, CallsType(calls),
           calls[c].pc # "idle", Retry(c, calls)
    PROVE  \/ Return(c, calls, "max retries")
           \/ /\ CallsType(call')
              /\ call'[c] = [calls[c] EXCEPT !.failed = @ + 1]
              /\ \A d \in Callers : d # c => call'[d] = calls[d]
              /\ lock' = lock /\ report' = None
<1> DEFINE k == [calls[c] EXCEPT !.failed = @ + 1]
<1>1. calls[c] \in CallRecord
  BY DEF CallsType
<1>2. k \in CallRecord /\ k.op = calls[c].op
  BY <1>1 DEF CallRecord
<1>3. CASE call' = [calls EXCEPT ![c].failed = @ + 1] /\ report' = None
           /\ lock' = lock
  <2>1. call' = [calls EXCEPT ![c] = k]
    BY <1>3 DEF CallsType
  <2> HIDE DEF k
  <2>2. CallsType(call')
    BY <1>2, <2>1 DEF CallsType
  <2> QED
    BY <1>3, <2>1, <2>2 DEF CallsType, k
<1> QED
  BY <1>3 DEF Retry

(* The calls after a write: nothing but the ghosts has changed.            *)
LEMMA WrittenCalls ==
    ASSUME StorageType, NEW c \in Callers, NEW r
    PROVE  /\ CallsType(Written(c, r))
           /\ \A d \in Callers :
                 LET w == Written(c, r)[d]
                 IN  /\ w.pc = call[d].pc /\ w.op = call[d].op
                     /\ w.backend = call[d].backend
                     /\ w.failed = call[d].failed
                     /\ w.done = (call[d].done \/ (r = "ok" /\ d = c))
                     /\ w.disturbed =
                          (call[d].disturbed \/
                             (r = "ok" /\ Looked(call[d])
                                /\ call[c].op.via # "service"))
<1>1. CASE r # "ok"
  BY <1>1 DEF Written, StorageType, CallsType, CallRecord
<1>2. CASE r = "ok"
  <2> DEFINE D(d) == call[d].done \/ d = c
             I(d) == call[d].disturbed
                       \/ (Looked(call[d]) /\ call[c].op.via # "service")
             w == [d \in Callers |->
                     [call[d] EXCEPT !.done = D(d), !.disturbed = I(d)]]
  <2>1. Written(c, r) = w
    BY <1>2 DEF Written, StorageType, CallsType, CallRecord
  <2>2. \A d \in Callers : D(d) \in BOOLEAN /\ I(d) \in BOOLEAN
    OBVIOUS
  <2>3. \A d \in Callers : call[d] \in CallRecord
    BY DEF StorageType, CallsType
  <2> HIDE DEF D, I
  <2>4. \A d \in Callers : w[d] \in CallRecord /\ w[d].pc = call[d].pc
           /\ w[d].op = call[d].op /\ w[d].backend = call[d].backend
           /\ w[d].failed = call[d].failed /\ w[d].done = D(d)
           /\ w[d].disturbed = I(d)
    BY <2>2, <2>3 DEF CallRecord
  <2>5. w \in [Callers -> CallRecord]
    BY <2>4
  <2> HIDE DEF w
  <2>6. CallsType(w)
    BY <2>4, <2>5 DEF CallsType, StorageType
  <2> QED
    BY <1>2, <2>1, <2>4, <2>6 DEF D, I
<1> QED
  BY <1>1, <1>2

(* The calls after somebody has disturbed some of them.                    *)
LEMMA DisturbedCalls ==
    ASSUME StorageType, NEW f \in [Callers -> BOOLEAN]
    PROVE  LET w == [c \in Callers |-> [call[c] EXCEPT !.disturbed = f[c]]]
           IN  /\ CallsType(w)
               /\ \A c \in Callers :
                     /\ w[c].pc = call[c].pc /\ w[c].op = call[c].op
                     /\ w[c].backend = call[c].backend
                     /\ w[c].failed = call[c].failed
                     /\ w[c].done = call[c].done
                     /\ w[c].disturbed = f[c]
<1> DEFINE w == [c \in Callers |-> [call[c] EXCEPT !.disturbed = f[c]]]
<1>1. \A c \in Callers : call[c] \in CallRecord
  BY DEF StorageType, CallsType
<1>2. \A c \in Callers : w[c] \in CallRecord /\ w[c].pc = call[c].pc
         /\ w[c].op = call[c].op /\ w[c].backend = call[c].backend
         /\ w[c].failed = call[c].failed /\ w[c].done = call[c].done
         /\ w[c].disturbed = f[c]
  BY <1>1 DEF CallRecord
<1>3. w \in [Callers -> CallRecord]
  BY <1>2
<1> HIDE DEF w
<1>4. CallsType(w)
  BY <1>2, <1>3 DEF CallsType, StorageType
<1> QED
  BY <1>2, <1>4 DEF w

(* Somebody without the lock changed the resource, or the default backend. *)
LEMMA IntrudedCalls ==
    ASSUME StorageType
    PROVE  /\ CallsType(Intruded)
           /\ \A c \in Callers :
                 LET w == Intruded[c]
                 IN  /\ w.pc = call[c].pc /\ w.op = call[c].op
                     /\ w.backend = call[c].backend
                     /\ w.failed = call[c].failed
                     /\ w.done = call[c].done
                     /\ w.disturbed = (call[c].disturbed \/ Looked(call[c]))
<1> DEFINE f == [c \in Callers |-> call[c].disturbed \/ Looked(call[c])]
<1>1. f \in [Callers -> BOOLEAN]
  OBVIOUS
<1>2. Intruded = [c \in Callers |-> [call[c] EXCEPT !.disturbed = f[c]]]
  BY DEF Intruded, StorageType, CallsType, CallRecord
<1>3. \A c \in Callers : f[c] = (call[c].disturbed \/ Looked(call[c]))
  OBVIOUS
<1> HIDE DEF f
<1> QED
  BY <1>1, <1>2, <1>3, DisturbedCalls

LEMMA SetDefaultCalls ==
    ASSUME StorageType, NEW b \in Backends, SetDefaultBackend(b)
    PROVE  /\ CallsType(call')
           /\ \A c \in Callers :
                 LET w == call'[c]
                 IN  /\ w.pc = call[c].pc /\ w.op = call[c].op
                     /\ w.backend = call[c].backend
                     /\ w.failed = call[c].failed
                     /\ w.done = call[c].done
                     /\ w.disturbed = (call[c].disturbed \/ Looked(call[c])
                                         \/ Looking(call[c]))
<1> DEFINE f == [c \in Callers |-> call[c].disturbed \/ Looked(call[c])
                                     \/ Looking(call[c])]
<1>1. f \in [Callers -> BOOLEAN]
  OBVIOUS
<1>2. call' = [c \in Callers |-> [call[c] EXCEPT !.disturbed = f[c]]]
  BY DEF SetDefaultBackend, StorageType, CallsType, CallRecord
<1>3. \A c \in Callers : f[c] = (call[c].disturbed \/ Looked(call[c])
                                   \/ Looking(call[c]))
  OBVIOUS
<1> HIDE DEF f
<1> QED
  BY <1>1, <1>2, <1>3, DisturbedCalls

-----------------------------------------------------------------------------
(* Type correctness.                                                       *)

LEMMA InitStorageType == Init => StorageType
BY DEF Init, StorageType, CallsType, CallRecord, Idle, Places

(* However an attempt fails, the calls stay well typed.                    *)
LEMMA AttemptFailsType ==
    ASSUME NEW c \in Callers, NEW calls, CallsType(calls),
           calls[c].pc # "idle", AttemptFails(c, calls)
    PROVE  CallsType(call')
BY RetryMove, ReturnMove DEF AttemptFails

LEMMA DecideType ==
    ASSUME NEW c \in Callers, NEW calls, CallsType(calls),
           calls[c].pc # "idle", NEW e, Decide(c, calls, e)
    PROVE  CallsType(call')
BY GoOnMove, ReturnMove DEF Decide, Places

(* The calls after an error status has passed for "does not exist".        *)
LEMMA MisledCalls ==
    ASSUME StorageType, NEW c \in Callers
    PROVE  LET w == [call EXCEPT ![c].disturbed = TRUE]
           IN  /\ CallsType(w)
               /\ w[c] = [call[c] EXCEPT !.disturbed = TRUE]
               /\ \A d \in Callers : d # c => w[d] = call[d]
BY DEF StorageType, CallsType, CallRecord

LEMMA NextStorageType == StorageType /\ [Next]_vars => StorageType'
<1> SUFFICES ASSUME StorageType, [Next]_vars PROVE StorageType'
  OBVIOUS
<1>0. CallsType(call)
  BY DEF StorageType
<1>1. ASSUME NEW c \in Callers, NEW o \in Operations[c], Begin(c, o)
      PROVE  StorageType'
  <2> DEFINE k == [Idle EXCEPT !.pc = IF o.via = "service" THEN "lock"
                                      ELSE "write",
                               !.op = o]
  <2>1. o \in Writes
    BY DEF Writes
  <2>2. k \in CallRecord /\ k.op = o
    BY <2>1 DEF Idle, CallRecord, Places
  <2>3. call' = [call EXCEPT ![c] = k]
    BY <1>1 DEF Begin
  <2> HIDE DEF k
  <2>4. CallsType(call')
    BY <1>0, <2>1, <2>2, <2>3 DEF CallsType
  <2> QED
    BY <1>1, <2>4 DEF Begin, StorageType
<1>2. ASSUME NEW c \in Callers, AcquireLock(c) PROVE StorageType'
  <2>1. CallsType(call')
    BY <1>0, <1>2 DEF AcquireLock, CallsType, CallRecord, Places
  <2> QED
    BY <1>2, <2>1 DEF AcquireLock, StorageType
<1>3. ASSUME NEW c \in Callers, Resolve(c) PROVE StorageType'
  <2>1. CASE Return(c, call, "error")
    BY <1>0, <1>3, <2>1, ReturnMove DEF Resolve, StorageType
  <2>2. CASE call' = [call EXCEPT ![c].backend = default]
    <3>1. CallsType(call')
      BY <1>0, <2>2 DEF StorageType, CallsType, CallRecord
    <3> QED
      BY <1>3, <3>1 DEF Resolve, StorageType
  <2> QED
    BY <1>3, <2>1, <2>2 DEF Resolve
<1>4. ASSUME NEW c \in Callers, CancelOrClosed(c) PROVE StorageType'
  BY <1>0, <1>4, ReturnMove DEF CancelOrClosed, StorageType
<1>5. ASSUME NEW c \in Callers, Exists(c) PROVE StorageType'
  <2>1. call[c].pc = "exists"
    BY <1>5 DEF Exists, Attempting
  <2> DEFINE w == [call EXCEPT ![c].disturbed = TRUE]
  <2>2. CallsType(w) /\ w[c].pc = "exists"
    BY <2>1, MisledCalls DEF StorageType, CallsType, CallRecord
  <2> HIDE DEF w
  <2>3. CallsType(call')
    BY <1>0, <1>5, <2>1, <2>2, DecideType, AttemptFailsType DEF Exists, w
  <2> QED
    BY <1>5, <2>3 DEF Exists, StorageType
<1>6. ASSUME NEW c \in Callers, HandleWrite(c) PROVE StorageType'
  <2> DEFINE r == Answer(call[c].backend, call[c].op)
             w == Written(c, r)
  <2>1. call[c].pc = "write" /\ call[c].backend \in Backends
        /\ call[c].op \in Writes
    BY <1>0, <1>6 DEF HandleWrite, Attempting, CallsType, CallRecord
  <2>2. CallsType(w) /\ w[c].pc = "write"
    BY <2>1, WrittenCalls
  <2>3. \/ GoOn(c, w, "read") \/ Return(c, w, r) \/ AttemptFails(c, w)
    BY <1>6 DEF HandleWrite
  <2> HIDE DEF w, r
  <2>4. CallsType(call')
    BY <2>2, <2>3, GoOnMove, ReturnMove, AttemptFailsType DEF Places
  <2>5. store' \in [Backends -> Versions \union {Absent}]
    BY <1>6, <2>1, HandleType DEF HandleWrite
  <2> QED
    BY <1>6, <2>4, <2>5 DEF HandleWrite, StorageType
<1>7. ASSUME NEW c \in Callers, WriteUndelivered(c) PROVE StorageType'
  <2>1. call[c].pc = "write" /\ call[c].backend \in Backends
        /\ call[c].op \in Writes
    BY <1>0, <1>7 DEF WriteUndelivered, Attempting, CallsType, CallRecord
  <2>2. CallsType(call')
    BY <1>0, <1>7, <2>1, AttemptFailsType DEF WriteUndelivered
  <2> QED
    BY <1>7, <2>1, <2>2 DEF WriteUndelivered, StorageType
<1>8. ASSUME NEW q \in late, Arrive(q) PROVE StorageType'
  <2>1. q.to \in Backends /\ q.op \in Writes
    BY DEF StorageType
  <2>2. store' \in [Backends -> Versions \union {Absent}] /\ CallsType(call')
    BY <1>0, <1>8, <2>1, HandleType, IntrudedCalls DEF Arrive, StorageType
  <2> QED
    BY <1>8, <2>2 DEF Arrive, StorageType
<1>9. ASSUME NEW c \in Callers, ReadBack(c) PROVE StorageType'
  <2>1. call[c].pc = "read"
    BY <1>9 DEF ReadBack, Attempting
  <2>2. CallsType(call')
    BY <1>0, <1>9, <2>1, AttemptFailsType, ReturnMove DEF ReadBack
  <2> QED
    BY <1>9, <2>2 DEF ReadBack, StorageType
<1>10. ASSUME NEW b \in Backends, RegisterBackend(b) PROVE StorageType'
  BY <1>10 DEF RegisterBackend, StorageType
<1>11. ASSUME NEW B, Closing(B) PROVE StorageType'
  BY <1>11 DEF Closing, StorageType
<1>12. ASSUME NEW b \in Backends, SetDefaultBackend(b) PROVE StorageType'
  BY <1>12, SetDefaultCalls DEF SetDefaultBackend, StorageType
<1>13. CASE UNCHANGED vars
  BY <1>13 DEF vars, StorageType
<1> QED
  BY <1>1, <1>2, <1>3, <1>4, <1>5, <1>6, <1>7, <1>8, <1>9, <1>10, <1>11,
     <1>12, <1>13 DEF Next, Attempt, UnregisterBackend, Close

(* Type correctness of the layer, its backends and the calls.              *)
THEOREM StorageTypeCorrect == Spec => []StorageType
BY InitStorageType, NextStorageType, PTL DEF Spec

-----------------------------------------------------------------------------
(* ReportsAreTrue says nothing of calls under way.  What makes it          *)
(* inductive: a call has taken effect when it reads back, has not before   *)
(* it writes, and has not at its first attempt to write.                   *)
EffectKnown(k) ==
    /\ k.pc \in {"idle", "lock", "exists"} => ~k.done
    /\ k.pc = "write" /\ k.failed = 0 => ~k.done
    /\ k.pc = "read" => k.done

EffectInv == ReportsAreTrue /\ \A c \in Callers : EffectKnown(call[c])

(* Idle calls have done nothing, and where the report of a return is true. *)
LEMMA ReturnEffect ==
    ASSUME NEW c \in Callers, NEW calls, CallsType(calls), NEW r,
           Return(c, calls, r),
           \A d \in Callers : d # c => EffectKnown(calls[d]),
           r = "ok" => calls[c].done,
           r = "conflict" => ~calls[c].done,
           r = "precondition" /\ calls[c].failed = 0 => ~calls[c].done
    PROVE  EffectInv'
<1>1. \A d \in Callers : EffectKnown(call'[d])
  BY ReturnMove DEF EffectKnown, Idle
<1>2. calls[c].failed \in Nat
  BY DEF CallsType, CallRecord
<1>3. ReportsAreTrue'
  <2>1. report'.said = r /\ report'.done = calls[c].done
    BY ReturnMove
  <2>2. ~report'.retried => calls[c].failed = 0
    <3>1. report'.retried = (calls[c].failed > 0)
      BY ReturnMove
    <3>2. calls[c].failed = 0 \/ calls[c].failed > 0
      BY <1>2
    <3> QED
      BY <3>1, <3>2, Zenon
  <2> QED
    BY <2>1, <2>2 DEF ReportsAreTrue
<1> QED
  BY <1>1, <1>3 DEF EffectInv, EffectKnown

LEMMA AttemptFailsEffect ==
    ASSUME NEW c \in Callers, NEW calls, CallsType(calls),
           AttemptFails(c, calls),
           \A d \in Callers : d # c => EffectKnown(calls[d]),
           calls[c].pc \in {"exists", "write", "read"},
           calls[c].pc = "exists" => ~calls[c].done,
           calls[c].pc = "read" => calls[c].done
    PROVE  EffectInv'
<1>1. CASE \E r \in {"error", "max retries"} : Return(c, calls, r)
  BY <1>1, ReturnEffect
<1>2. CASE call'[c] = [calls[c] EXCEPT !.failed = @ + 1]
           /\ (\A d \in Callers : d # c => call'[d] = calls[d])
           /\ report' = None
  <2>1. calls[c] \in CallRecord
    BY DEF CallsType
  <2>2. call'[c].failed # 0 /\ call'[c].pc = calls[c].pc
        /\ call'[c].done = calls[c].done
    BY <1>2, <2>1 DEF CallRecord
  <2>3. \A d \in Callers : EffectKnown(call'[d])
    BY <1>2, <2>2 DEF EffectKnown
  <2> QED
    BY <1>2, <2>3 DEF EffectInv, EffectKnown, ReportsAreTrue
<1> QED
  BY <1>1, <1>2, RetryMove DEF AttemptFails

LEMMA DecideEffect ==
    ASSUME NEW c \in Callers, NEW calls, CallsType(calls), NEW e,
           Decide(c, calls, e), calls[c].pc = "exists",
           \A d \in Callers : EffectKnown(calls[d])
    PROVE  EffectInv'
<1>1. calls[c] \in CallRecord /\ ~calls[c].done
  BY DEF CallsType, EffectKnown
<1>2. CASE GoOn(c, calls, "write")
  <2>1. call'[c].pc = "write" /\ ~call'[c].done /\ report' = None
        /\ \A d \in Callers : d # c => call'[d] = calls[d]
    <3>1. call'[c] = [calls[c] EXCEPT !.pc = "write", !.backend = None,
                                      !.failed = 0]
      BY <1>2, GoOnMove DEF Places
    <3>2. call'[c].pc = "write" /\ call'[c].done = calls[c].done
      BY <1>1, <3>1 DEF CallRecord
    <3>3. ~call'[c].done
      BY <1>1, <3>2, Zenon
    <3>4. report' = None /\ \A d \in Callers : d # c => call'[d] = calls[d]
      BY <1>2 DEF GoOn, CallsType
    <3> QED
      BY <3>2, <3>3, <3>4, Zenon
  <2> QED
    BY <2>1 DEF EffectInv, EffectKnown, ReportsAreTrue
<1>3. CASE \E r : r \in {"conflict", "not found"} /\ Return(c, calls, r)
  BY <1>1, <1>3, ReturnEffect
<1> QED
  BY <1>2, <1>3 DEF Decide

(* A step that reports nothing and leaves every call where it is.          *)
LEMMA SameEffect ==
    ASSUME EffectInv, report' = None,
           \A c \in Callers : call'[c].pc = call[c].pc
              /\ call'[c].failed = call[c].failed
              /\ call'[c].done = call[c].done
    PROVE  EffectInv'
BY DEF EffectInv, EffectKnown, ReportsAreTrue

LEMMA NextEffect == StorageType /\ EffectInv /\ [Next]_vars => EffectInv'
<1> SUFFICES ASSUME StorageType, EffectInv, [Next]_vars PROVE EffectInv'
  OBVIOUS
<1>0. CallsType(call) /\ \A c \in Callers : EffectKnown(call[c])
  BY DEF StorageType, EffectInv
<1>1. ASSUME NEW c \in Callers, NEW o \in Operations[c], Begin(c, o)
      PROVE  EffectInv'
  <2>1. ~call'[c].done /\ report' = None
        /\ call'[c].pc \in {"lock", "write"}
        /\ \A d \in Callers : d # c => call'[d] = call[d]
    BY <1>0, <1>1 DEF Begin, Idle, CallsType
  <2> QED
    BY <1>0, <2>1 DEF EffectInv, EffectKnown, ReportsAreTrue
<1>2. ASSUME NEW c \in Callers, AcquireLock(c) PROVE EffectInv'
  <2>1. call[c].pc = "lock" /\ call'[c].done = call[c].done
        /\ report' = None /\ call'[c].pc = "exists"
        /\ \A d \in Callers : d # c => call'[d] = call[d]
    BY <1>0, <1>2 DEF AcquireLock, CallsType, CallRecord
  <2> QED
    BY <1>0, <2>1 DEF EffectInv, EffectKnown, ReportsAreTrue
<1>3. ASSUME NEW c \in Callers, Resolve(c) PROVE EffectInv'
  <2>1. CASE Return(c, call, "error")
    BY <1>0, <2>1, ReturnEffect
  <2>2. CASE call' = [call EXCEPT ![c].backend = default] /\ report' = None
    BY <1>0, <2>2, SameEffect DEF CallsType, CallRecord
  <2> QED
    BY <1>3, <2>1, <2>2 DEF Resolve
<1>4. ASSUME NEW c \in Callers, CancelOrClosed(c) PROVE EffectInv'
  BY <1>0, <1>4, ReturnEffect DEF CancelOrClosed
<1>5. ASSUME NEW c \in Callers, Exists(c) PROVE EffectInv'
  <2>1. call[c].pc = "exists" /\ ~call[c].done
    BY <1>0, <1>5 DEF Exists, Attempting, EffectKnown
  <2> DEFINE w == [call EXCEPT ![c].disturbed = TRUE]
  <2>2. CallsType(w) /\ w[c].pc = "exists" /\ w[c].done = call[c].done
        /\ \A d \in Callers : d # c => w[d] = call[d]
    BY <2>1, MisledCalls DEF StorageType, CallsType, CallRecord
  <2> HIDE DEF w
  <2>3. \A d \in Callers : EffectKnown(w[d])
    BY <1>0, <2>1, <2>2 DEF EffectKnown
  <2>4. \/ \E e : Decide(c, call, e)
        \/ \E e : Decide(c, w, e)
        \/ AttemptFails(c, call)
    BY <1>5 DEF Exists, w
  <2> QED
    BY <1>0, <2>1, <2>2, <2>3, <2>4, DecideEffect, AttemptFailsEffect
<1>6. ASSUME NEW c \in Callers, HandleWrite(c) PROVE EffectInv'
  <2> DEFINE r == Answer(call[c].backend, call[c].op)
             w == Written(c, r)
  <2>1. call[c].pc = "write"
    BY <1>6 DEF HandleWrite, Attempting
  <2>2. CallsType(w) /\ w[c].pc = "write" /\ w[c].failed = call[c].failed
        /\ w[c].done = (call[c].done \/ r = "ok")
        /\ \A d \in Callers : d # c => /\ w[d].pc = call[d].pc
                                       /\ w[d].failed = call[d].failed
                                       /\ w[d].done = call[d].done
    <3>1. \A d \in Callers : call[d].done \in BOOLEAN
      BY <1>0 DEF CallsType, CallRecord
    <3> HIDE DEF r
    <3> QED
      BY <2>1, <3>1, WrittenCalls
  <2>3. \A d \in Callers : d # c => EffectKnown(w[d])
    BY <1>0, <2>2 DEF EffectKnown
  <2>4. \/ r = "ok" /\ GoOn(c, w, "read")
        \/ Return(c, w, r)
        \/ AttemptFails(c, w)
    BY <1>6 DEF HandleWrite
  <2>5. r \in {"precondition", "not found", "ok"}
    BY DEF Answer
  <2> HIDE DEF w, r
  <2>6. CASE r = "ok" /\ GoOn(c, w, "read")
    <3>1. call'[c].pc = "read" /\ call'[c].done = w[c].done
          /\ report' = None
          /\ \A d \in Callers : d # c => call'[d] = w[d]
      <4>1. call'[c] = [w[c] EXCEPT !.pc = "read", !.backend = None,
                                    !.failed = 0]
        BY <2>2, <2>6, GoOnMove DEF Places
      <4>2. call'[c].pc = "read" /\ call'[c].done = w[c].done
        BY <2>2, <4>1 DEF CallsType, CallRecord
      <4> QED
        BY <2>2, <2>6, <4>2, GoOnMove DEF Places
    <3> QED
      BY <2>2, <2>3, <2>6, <3>1 DEF EffectInv, EffectKnown, ReportsAreTrue
  <2>7. CASE Return(c, w, r)
    <3>1. r = "ok" => w[c].done
      BY <2>2
    <3>2. r = "precondition" /\ w[c].failed = 0 => ~w[c].done
      BY <1>0, <2>1, <2>2 DEF EffectKnown
    <3> QED
      BY <2>2, <2>3, <2>5, <2>7, <3>1, <3>2, ReturnEffect
  <2>8. CASE AttemptFails(c, w)
    BY <2>2, <2>3, <2>8, AttemptFailsEffect
  <2> QED
    BY <2>4, <2>6, <2>7, <2>8
<1>7. ASSUME NEW c \in Callers, WriteUndelivered(c) PROVE EffectInv'
  BY <1>0, <1>7, AttemptFailsEffect DEF WriteUndelivered, Attempting
<1>8. ASSUME NEW q \in late, Arrive(q) PROVE EffectInv'
  BY <1>8, IntrudedCalls, SameEffect DEF Arrive
<1>9. ASSUME NEW c \in Callers, ReadBack(c) PROVE EffectInv'
  <2>1. call[c].pc = "read" /\ call[c].done
    BY <1>0, <1>9 DEF ReadBack, Attempting, EffectKnown
  <2>2. CASE \E r \in {"ok", "not found"} : Return(c, call, r)
    BY <1>0, <2>1, <2>2, ReturnEffect
  <2>3. CASE AttemptFails(c, call)
    BY <1>0, <2>1, <2>3, AttemptFailsEffect
  <2> QED
    BY <1>9, <2>2, <2>3 DEF ReadBack
<1>10. ASSUME NEW b \in Backends, RegisterBackend(b) PROVE EffectInv'
  BY <1>10, SameEffect DEF RegisterBackend
<1>11. ASSUME NEW B, Closing(B) PROVE EffectInv'
  BY <1>11, SameEffect DEF Closing
<1>12. ASSUME NEW b \in Backends, SetDefaultBackend(b) PROVE EffectInv'
  BY <1>12, SetDefaultCalls, SameEffect DEF SetDefaultBackend
<1>13. CASE UNCHANGED vars
  BY <1>13 DEF vars, EffectInv, EffectKnown, ReportsAreTrue
<1> QED
  BY <1>1, <1>2, <1>3, <1>4, <1>5, <1>6, <1>7, <1>8, <1>9, <1>10, <1>11,
     <1>12, <1>13 DEF Next, Attempt, UnregisterBackend, Close

(* Whatever is retried, lost or late, what a call reports is what          *)
(* happened.                                                               *)
THEOREM ReportsTrue == Spec => []ReportsAreTrue
<1>1. Init => EffectInv
  BY DEF Init, EffectInv, EffectKnown, ReportsAreTrue, Idle
<1>2. EffectInv => ReportsAreTrue
  BY DEF EffectInv
<1> QED
  BY <1>1, <1>2, StorageTypeCorrect, NextEffect, PTL DEF Spec

-----------------------------------------------------------------------------
(* No lost update.  A write that changes a backend passed its              *)
(* preconditions there, and a validator a caller can name is never the     *)
(* empty one, so it names the body that is replaced.                       *)

LEMMA EffectPassed ==
    ASSUME StorageType, NEW b \in Backends, NEW o \in Writes, Handle(b, o),
           store'[b] # store[b]
    PROVE  EvaluateStoragePreconditions(store[b], o.if)
BY DEF StorageType, Handle, Answer

LEMMA PassedNames ==
    ASSUME StorageType, NEW b \in Backends, NEW o \in Writes,
           EvaluateStoragePreconditions(store[b], o.if)
    PROVE  LET old == IF store[b] = Absent THEN {}
                      ELSE {Star, store[b].body}
           IN  /\ o.if.match # {} => old \intersect o.if.match # {}
               /\ Star \in o.if.none => old = {}
<1>1. /\ o.if.match \subseteq Bodies \union {Star}
      /\ o.if.none \subseteq Bodies \union {Star}
  BY WriteType DEF StoragePreconditions
<1>2. CASE store[b] = Absent
  BY <1>2 DEF EvaluateStoragePreconditions, EtagListMatches
<1>3. CASE store[b] # Absent
  <2>1. store[b].tag = store[b].body \/ store[b].tag = NoTag
    BY <1>3 DEF StorageType, Versions
  <2>2. store[b].tag \in o.if.match => store[b].body \in o.if.match
    BY <1>1, <2>1, RuntimeStorageAssumption
  <2> QED
    BY <1>3, <2>2 DEF EvaluateStoragePreconditions, EtagListMatches
<1> QED
  BY <1>2, <1>3

(* A conditional write that changes the resource, first sent, retried or   *)
(* late, replaces a version its If-Match names, and with If-None-Match: *  *)
(* none.                                                                   *)
THEOREM ConditionalWritesReplaceNamed == Spec => ConditionalReplacesNamed
<1> DEFINE Named == \A b \in Backends, o \in UNION {Operations[c] : c \in Callers} :
                       TakesEffect(b, o) =>
                         LET old == IF store[b] = Absent THEN {}
                                    ELSE {Star, store[b].body}
                         IN  /\ o.if.match # {} => old \intersect o.if.match # {}
                             /\ Star \in o.if.none => old = {}
<1>1. StorageType => Named
  <2> SUFFICES ASSUME StorageType, NEW b \in Backends, NEW o \in Writes,
                      TakesEffect(b, o)
               PROVE  LET old == IF store[b] = Absent THEN {}
                                 ELSE {Star, store[b].body}
                      IN  /\ o.if.match # {} => old \intersect o.if.match # {}
                          /\ Star \in o.if.none => old = {}
    BY DEF Writes
  <2>1. Handle(b, o)
    <3>1. ASSUME NEW c \in Callers, call[c].backend = b, call[c].op = o,
                 HandleWrite(c)
          PROVE  Handle(b, o)
      BY <3>1 DEF HandleWrite
    <3>2. ASSUME NEW r \in late, r = [op |-> o, to |-> b], Arrive(r)
          PROVE  Handle(b, o)
      BY <3>2 DEF Arrive, TakesEffect
    <3> QED
      BY <3>1, <3>2 DEF TakesEffect
  <2>2. EvaluateStoragePreconditions(store[b], o.if)
    BY <2>1, EffectPassed DEF TakesEffect
  <2> QED
    BY <2>2, PassedNames
<1>2. [][Named]_vars => ConditionalReplacesNamed
  BY PTL DEF ConditionalReplacesNamed
<1> QED
  BY <1>1, <1>2, StorageTypeCorrect, PTL

-----------------------------------------------------------------------------
(* Why a create finds no resource: from its look to its write it holds the *)
(* container's lock, it looked at the backend it is going to write to, and *)
(* what it saw is still so.  State as parameters: c's call k with the lock *)
(* held by l, default backend d and contents st.                           *)
LooksBeforeLeap(c, k, l, d, st) ==
    /\ k.pc \in {"lock", "exists", "read"} => k.op.via = "service"
    /\ k.pc = "lock" => k.backend = None
    /\ (k.pc \in {"exists", "write", "read"} /\ k.op.via = "service") => l = c
    /\ Looking(k) /\ ~k.disturbed => k.backend = d
    /\ (Looked(k) /\ k.op.body # Absent /\ ~k.done /\ ~k.disturbed)
         => st[IF k.backend = None THEN d ELSE k.backend] = Absent

CreateInv ==
    \A c \in Callers : LooksBeforeLeap(c, call[c], lock, default, store)

USE DEF Looked, Looking

LEMMA ReturnLook ==
    ASSUME NEW c \in Callers, NEW calls, CallsType(calls), NEW r,
           Return(c, calls, r), default' = default,
           \A d \in Callers :
              d # c => LooksBeforeLeap(d, calls[d], lock, default, store')
    PROVE  CreateInv'
<1>1. LooksBeforeLeap(c, call'[c], lock', default', store')
  BY ReturnMove DEF LooksBeforeLeap, Idle
<1>2. ASSUME NEW d \in Callers, d # c
      PROVE  LooksBeforeLeap(d, call'[d], lock', default', store')
  <2>1. call'[d] = calls[d] /\ (lock = d => lock' = d)
    BY <1>2, ReturnMove
  <2>2. LooksBeforeLeap(d, calls[d], lock, default, store')
    BY <1>2
  <2> QED
    BY <2>1, <2>2 DEF LooksBeforeLeap
<1> QED
  BY <1>1, <1>2 DEF CreateInv, LooksBeforeLeap

LEMMA AttemptFailsLook ==
    ASSUME NEW c \in Callers, NEW calls, CallsType(calls),
           calls[c].pc # "idle", AttemptFails(c, calls), default' = default,
           \A d \in Callers :
              LooksBeforeLeap(d, calls[d], lock, default, store')
    PROVE  CreateInv'
<1>1. CASE \E r \in {"error", "max retries"} : Return(c, calls, r)
  BY <1>1, ReturnLook
<1>2. CASE call'[c] = [calls[c] EXCEPT !.failed = @ + 1]
           /\ (\A d \in Callers : d # c => call'[d] = calls[d])
           /\ lock' = lock
  <2>1. calls[c] \in CallRecord
    BY DEF CallsType
  <2>2. /\ call'[c].pc = calls[c].pc /\ call'[c].op = calls[c].op
        /\ call'[c].backend = calls[c].backend
        /\ call'[c].done = calls[c].done
        /\ call'[c].disturbed = calls[c].disturbed
    BY <1>2, <2>1 DEF CallRecord
  <2>3. LooksBeforeLeap(c, call'[c], lock', default', store')
    BY <1>2, <2>2 DEF LooksBeforeLeap
  <2>4. \A d \in Callers :
           d # c => LooksBeforeLeap(d, call'[d], lock', default', store')
    BY <1>2
  <2> QED
    BY <2>3, <2>4 DEF CreateInv, LooksBeforeLeap
<1>3. CASE Retry(c, calls)
  <2>1. \/ Return(c, calls, "max retries")
        \/ /\ call'[c] = [calls[c] EXCEPT !.failed = @ + 1]
           /\ \A d \in Callers : d # c => call'[d] = calls[d]
           /\ lock' = lock
    BY <1>3 DEF Retry, CallsType
  <2>2. CASE Return(c, calls, "max retries")
    BY <1>1, <2>2
  <2> QED
    BY <1>2, <2>1, <2>2, Zenon
<1> QED
  BY <1>1, <1>3 DEF AttemptFails

(* The look has been answered: the service goes on to write only what its  *)
(* answer allows.                                                          *)
LEMMA DecideLook ==
    ASSUME NEW c \in Callers, NEW calls, CallsType(calls), NEW e \in BOOLEAN,
           Decide(c, calls, e), calls[c].pc = "exists",
           calls[c].op = call[c].op,
           default' = default, store' = store,
           \A d \in Callers :
              LooksBeforeLeap(d, calls[d], lock, default, store),
           ~calls[c].disturbed => (calls[c].backend # None
                                    /\ e = (store[calls[c].backend] # Absent))
    PROVE  CreateInv'
<1>1. calls[c] \in CallRecord
  BY DEF CallsType
<1>2. CASE GoOn(c, calls, "write") /\ (e = (call[c].op.body = Absent))
  <2>1. call'[c] = [calls[c] EXCEPT !.pc = "write", !.backend = None,
                                    !.failed = 0]
    BY <1>2, GoOnMove DEF Places
  <2>2. /\ call'[c].pc = "write" /\ call'[c].backend = None
        /\ call'[c].op = calls[c].op
        /\ call'[c].disturbed = calls[c].disturbed
    BY <1>1, <2>1 DEF CallRecord
  <2>3. lock' = lock /\ \A d \in Callers : d # c => call'[d] = calls[d]
    BY <1>2 DEF GoOn, CallsType
  <2>4. lock = c
    BY DEF LooksBeforeLeap
  <2>5. calls[c].op.body # Absent /\ ~calls[c].disturbed
          => store[default] = Absent
    <3> SUFFICES ASSUME calls[c].op.body # Absent, ~calls[c].disturbed
                 PROVE  store[default] = Absent
      OBVIOUS
    <3>1. calls[c].backend = default
      BY DEF LooksBeforeLeap
    <3>2. store[calls[c].backend] = Absent
      BY <1>2
    <3> QED
      BY <3>1, <3>2
  <2>6. LooksBeforeLeap(c, call'[c], lock', default', store')
    BY <2>2, <2>3, <2>4, <2>5 DEF LooksBeforeLeap
  <2>7. \A d \in Callers :
           d # c => LooksBeforeLeap(d, call'[d], lock', default', store')
    BY <2>3
  <2> QED
    BY <2>6, <2>7 DEF CreateInv, LooksBeforeLeap
<1>3. CASE \E r : Return(c, calls, r)
  BY <1>3, ReturnLook
<1> QED
  BY <1>2, <1>3 DEF Decide

(* A step that leaves the lock, the default backend and the contents of    *)
(* the backends alone, and every call where it is.                         *)
LEMMA SameLook ==
    ASSUME CreateInv, UNCHANGED <<lock, default, call>>,
           \A b \in Backends : store'[b] \in {store[b], Absent},
           StorageType
    PROVE  CreateInv'
<1> SUFFICES ASSUME NEW c \in Callers
             PROVE  LooksBeforeLeap(c, call[c], lock, default, store')
  BY DEF CreateInv, LooksBeforeLeap
<1>1. call[c].backend \in Backends \union {None} /\ default \in Backends
  BY DEF StorageType, CallsType, CallRecord
<1> QED
  BY <1>1 DEF CreateInv, LooksBeforeLeap

LEMMA NextLook == StorageType /\ CreateInv /\ [Next]_vars => CreateInv'
<1> SUFFICES ASSUME StorageType, CreateInv, [Next]_vars PROVE CreateInv'
  OBVIOUS
<1>0. CallsType(call)
      /\ \A c \in Callers : LooksBeforeLeap(c, call[c], lock, default, store)
  BY DEF StorageType, CreateInv
<1>1. ASSUME NEW c \in Callers, NEW o \in Operations[c], Begin(c, o)
      PROVE  CreateInv'
  <2>1. /\ call'[c].pc = IF o.via = "service" THEN "lock" ELSE "write"
        /\ call'[c].op = o /\ call'[c].backend = None
        /\ UNCHANGED <<lock, default, store>>
        /\ \A d \in Callers : d # c => call'[d] = call[d]
    BY <1>0, <1>1 DEF Begin, Idle, CallsType
  <2>2. LooksBeforeLeap(c, call'[c], lock', default', store')
    BY <2>1 DEF LooksBeforeLeap
  <2>3. \A d \in Callers :
           d # c => LooksBeforeLeap(d, call'[d], lock', default', store')
    BY <1>0, <2>1
  <2> QED
    BY <2>2, <2>3 DEF CreateInv, LooksBeforeLeap
<1>2. ASSUME NEW c \in Callers, AcquireLock(c) PROVE CreateInv'
  <2>1. call[c] \in CallRecord /\ call[c].pc = "lock" /\ lock = None
        /\ call[c].op.via = "service" /\ call[c].backend = None
    BY <1>0, <1>2 DEF AcquireLock, CallsType, LooksBeforeLeap
  <2>2. /\ call'[c].pc = "exists" /\ call'[c].op = call[c].op
        /\ call'[c].backend = call[c].backend
        /\ call'[c].disturbed = call[c].disturbed
        /\ lock' = c
        /\ UNCHANGED <<default, store>>
        /\ \A d \in Callers : d # c => call'[d] = call[d]
    BY <1>0, <1>2, <2>1 DEF AcquireLock, CallsType, CallRecord
  <2>3. LooksBeforeLeap(c, call'[c], lock', default', store')
    BY <2>1, <2>2 DEF LooksBeforeLeap
  <2>4. \A d \in Callers :
           d # c => LooksBeforeLeap(d, call'[d], lock', default', store')
    BY <1>0, <2>1, <2>2, RuntimeStorageAssumption DEF LooksBeforeLeap
  <2> QED
    BY <2>3, <2>4 DEF CreateInv, LooksBeforeLeap
<1>3. ASSUME NEW c \in Callers, Resolve(c) PROVE CreateInv'
  <2>1. CASE Return(c, call, "error")
    BY <1>0, <1>3, <2>1, ReturnLook DEF Resolve
  <2>2. CASE call' = [call EXCEPT ![c].backend = default] /\ lock' = lock
    <3>1. call[c] \in CallRecord /\ call[c].backend = None
          /\ default \in Backends /\ call[c].pc # "lock"
      BY <1>0, <1>3 DEF Resolve, StorageType, CallsType
    <3>2. /\ call'[c].pc = call[c].pc /\ call'[c].op = call[c].op
          /\ call'[c].backend = default
          /\ call'[c].done = call[c].done
          /\ call'[c].disturbed = call[c].disturbed
          /\ UNCHANGED <<lock, default, store>>
          /\ \A d \in Callers : d # c => call'[d] = call[d]
      BY <1>0, <1>3, <2>2, <3>1 DEF Resolve, CallsType, CallRecord
    <3>3. LooksBeforeLeap(c, call'[c], lock', default', store')
      BY <1>0, <3>1, <3>2, RuntimeStorageAssumption DEF LooksBeforeLeap
    <3>4. \A d \in Callers :
             d # c => LooksBeforeLeap(d, call'[d], lock', default', store')
      BY <1>0, <3>2
    <3> QED
      BY <3>3, <3>4 DEF CreateInv, LooksBeforeLeap
  <2> QED
    BY <1>3, <2>1, <2>2 DEF Resolve
<1>4. ASSUME NEW c \in Callers, CancelOrClosed(c) PROVE CreateInv'
  BY <1>0, <1>4, ReturnLook DEF CancelOrClosed
<1>5. ASSUME NEW c \in Callers, Exists(c) PROVE CreateInv'
  <2>1. call[c].pc = "exists" /\ call[c].backend # None
        /\ UNCHANGED <<default, store>>
    BY <1>5 DEF Exists, Attempting
  <2> DEFINE w == [call EXCEPT ![c].disturbed = TRUE]
             e == store[call[c].backend] # Absent
  <2>2. CallsType(w) /\ w[c].pc = "exists" /\ w[c].disturbed
        /\ w[c].op = call[c].op /\ w[c].backend = call[c].backend
        /\ \A d \in Callers : d # c => w[d] = call[d]
    BY <2>1, MisledCalls DEF StorageType, CallsType, CallRecord
  <2> HIDE DEF w
  <2>3. \A d \in Callers : LooksBeforeLeap(d, w[d], lock, default, store)
    BY <1>0, <2>1, <2>2 DEF LooksBeforeLeap
  <2>4. \/ Decide(c, call, e)
        \/ Decide(c, w, FALSE)
        \/ AttemptFails(c, call)
    BY <1>5 DEF Exists, w
  <2>5. e \in BOOLEAN
    OBVIOUS
  <2>6. CASE Decide(c, call, e)
    <3> HIDE DEF e
    <3> QED
      BY <1>0, <2>1, <2>5, <2>6, DecideLook DEF e
  <2>7. CASE Decide(c, w, FALSE)
    BY <2>1, <2>2, <2>3, <2>7, DecideLook
  <2>8. CASE AttemptFails(c, call)
    BY <1>0, <2>1, <2>8, AttemptFailsLook
  <2> QED
    BY <2>4, <2>6, <2>7, <2>8
<1>6. ASSUME NEW c \in Callers, HandleWrite(c) PROVE CreateInv'
  <2> DEFINE r == Answer(call[c].backend, call[c].op)
             w == Written(c, r)
  <2>1. call[c].pc = "write" /\ call[c].backend \in Backends
        /\ call[c].op \in Writes /\ default' = default
    BY <1>0, <1>6 DEF HandleWrite, Attempting, CallsType, CallRecord
  <2>2. \/ r = "ok" /\ call[c].op.via = "service" /\ GoOn(c, w, "read")
        \/ Return(c, w, r)
        \/ AttemptFails(c, w)
    BY <1>6 DEF HandleWrite
  <2>3. r # "ok" => store' = store
    BY <1>6, <2>1, HandleType DEF HandleWrite
  <2> HIDE DEF r
  <2>4. CallsType(w)
        /\ \A d \in Callers :
              /\ w[d].pc = call[d].pc /\ w[d].op = call[d].op
              /\ w[d].backend = call[d].backend
              /\ w[d].done = (call[d].done \/ (r = "ok" /\ d = c))
              /\ w[d].disturbed =
                   (call[d].disturbed \/
                      (r = "ok" /\ Looked(call[d])
                         /\ call[c].op.via # "service"))
    BY WrittenCalls
  <2> HIDE DEF w
  <2>5. ASSUME NEW d \in Callers
        PROVE  LooksBeforeLeap(d, w[d], lock, default, store')
    <3>1. LooksBeforeLeap(d, call[d], lock, default, store)
      BY <1>0
    <3>2. ASSUME Looked(w[d]), ~w[d].done, ~w[d].disturbed
          PROVE  store' = store /\ ~call[d].done /\ ~call[d].disturbed
      <4>1. ~call[d].done /\ ~call[d].disturbed
        BY <2>4, <3>2
      <4>2. CASE r # "ok"
        BY <2>3, <4>1, <4>2
      <4>3. CASE r = "ok"
        <5>1. d # c /\ call[c].op.via = "service" /\ Looked(call[d])
          BY <2>4, <3>2, <4>3
        <5>2. lock = c /\ lock = d
          BY <1>0, <2>1, <5>1 DEF LooksBeforeLeap
        <5> QED
          BY <5>1, <5>2
      <4> QED
        BY <4>2, <4>3
    <3>3. ~w[d].disturbed => ~call[d].disturbed
      BY <2>4
    <3> QED
      BY <2>4, <3>1, <3>2, <3>3 DEF LooksBeforeLeap
  <2>6. CASE r = "ok" /\ call[c].op.via = "service" /\ GoOn(c, w, "read")
    <3>1. call'[c] = [w[c] EXCEPT !.pc = "read", !.backend = None,
                                  !.failed = 0]
      BY <2>1, <2>4, <2>6, GoOnMove DEF Places
    <3>2. call'[c].pc = "read" /\ call'[c].op = call[c].op
      BY <2>4, <3>1 DEF CallsType, CallRecord
    <3>3. lock' = lock /\ \A d \in Callers : d # c => call'[d] = w[d]
      BY <2>4, <2>6 DEF GoOn, CallsType
    <3>4. lock = c
      BY <1>0, <2>1, <2>6 DEF LooksBeforeLeap
    <3>5. LooksBeforeLeap(c, call'[c], lock', default', store')
      BY <2>1, <2>6, <3>2, <3>3, <3>4 DEF LooksBeforeLeap
    <3>6. \A d \in Callers :
             d # c => LooksBeforeLeap(d, call'[d], lock', default', store')
      BY <2>1, <2>5, <3>3
    <3> QED
      BY <3>5, <3>6 DEF CreateInv, LooksBeforeLeap
  <2>7. CASE Return(c, w, r)
    BY <2>1, <2>4, <2>5, <2>7, ReturnLook
  <2>8. CASE AttemptFails(c, w)
    BY <2>1, <2>4, <2>5, <2>8, AttemptFailsLook
  <2> QED
    BY <2>2, <2>6, <2>7, <2>8
<1>7. ASSUME NEW c \in Callers, WriteUndelivered(c) PROVE CreateInv'
  BY <1>0, <1>7, AttemptFailsLook DEF WriteUndelivered, Attempting
<1>8. ASSUME NEW q \in late, Arrive(q) PROVE CreateInv'
  <2>1. q.to \in Backends /\ q.op \in Writes
        /\ UNCHANGED <<lock, default>>
    BY <1>8 DEF StorageType, Arrive
  <2>2. CASE UNCHANGED <<store, call>>
    BY <1>0, <2>1, <2>2 DEF CreateInv, LooksBeforeLeap
  <2>3. CASE call' = Intruded
    BY <1>0, <2>1, <2>3, IntrudedCalls DEF CreateInv, LooksBeforeLeap
  <2> QED
    BY <1>8, <2>1, <2>2, <2>3, HandleType DEF Arrive
<1>9. ASSUME NEW c \in Callers, ReadBack(c) PROVE CreateInv'
  <2>1. CASE \E r : Return(c, call, r)
    BY <1>0, <1>9, <2>1, ReturnLook DEF ReadBack
  <2>2. CASE AttemptFails(c, call)
    BY <1>0, <1>9, <2>2, AttemptFailsLook DEF ReadBack, Attempting
  <2> QED
    BY <1>9, <2>1, <2>2 DEF ReadBack
<1>10. ASSUME NEW b \in Backends, RegisterBackend(b) PROVE CreateInv'
  BY <1>10, SameLook DEF RegisterBackend
<1>11. ASSUME NEW B, Closing(B) PROVE CreateInv'
  BY <1>11, SameLook DEF Closing
<1>12. ASSUME NEW b \in Backends, SetDefaultBackend(b) PROVE CreateInv'
  <2>1. UNCHANGED <<lock, store>>
    BY <1>12 DEF SetDefaultBackend
  <2> QED
    BY <1>0, <1>12, <2>1, SetDefaultCalls DEF CreateInv, LooksBeforeLeap
<1>13. CASE UNCHANGED vars
  BY <1>13 DEF vars, CreateInv, LooksBeforeLeap
<1> QED
  BY <1>1, <1>2, <1>3, <1>4, <1>5, <1>6, <1>7, <1>8, <1>9, <1>10, <1>11,
     <1>12, <1>13 DEF Next, Attempt, UnregisterBackend, Close

(* The container's lock prevents duplicate creates as far as it reaches.   *)
THEOREM CreateFindsNothing == Spec => CreateNeverReplaces
<1> DEFINE Clear == \A c \in Callers :
              LET k == call[c]
              IN  (/\ HandleWrite(c)
                   /\ k.op.via = "service" /\ k.op.body # Absent
                   /\ ~k.done /\ ~k.disturbed)
                  => store[k.backend] = Absent
<1>1. Init => CreateInv
  BY DEF Init, CreateInv, LooksBeforeLeap, Idle
<1>2. CreateInv => Clear
  BY DEF CreateInv, LooksBeforeLeap, HandleWrite, Attempting
<1>3. [][Clear]_vars => CreateNeverReplaces
  BY PTL DEF CreateNeverReplaces
<1> QED
  BY <1>1, <1>2, <1>3, StorageTypeCorrect, NextLook, PTL DEF Spec
=============================================================================
