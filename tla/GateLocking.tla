----------------------------- MODULE GateLocking -----------------------------
(***************************************************************************)
(* How the goroutines that call the enforcement gate (enforcement_gate.go) *)
(* share its sync.RWMutex g.mu.                                            *)
(*                                                                         *)
(* A plain reader (Mode, IsClosed, ...) takes the read lock once.          *)
(* ShouldEnforce holds the read lock and calls IsEmergencyBypassActive,    *)
(* which takes it a second time.  A writer (SetMode, Close, ...) takes the *)
(* write lock.  sync.RWMutex is the Go library's: a writer announces       *)
(* itself, from then on RLock blocks, it gets the lock when the readers    *)
(* already in have left, and its Unlock admits every reader that waited.   *)
(***************************************************************************)
EXTENDS Naturals

CONSTANTS
    PlainReaders, NestedReaders, Writers,  \* disjoint sets of goroutines
    NoWriter                               \* no writer has announced itself

Readers == PlainReaders \union NestedReaders
Goroutines == Readers \union Writers

ASSUME GateLockingAssumption ==
    /\ PlainReaders \intersect NestedReaders = {}
    /\ Readers \intersect Writers = {}
    /\ NoWriter \notin Goroutines

VARIABLES
    pc,      \* what each goroutine is doing
    held,    \* read locks each goroutine holds
    writer   \* the writer that has announced itself, if any

vars == <<pc, held, writer>>

Init ==
    /\ pc = [g \in Goroutines |-> "idle"]
    /\ held = [g \in Goroutines |-> 0]
    /\ writer = NoWriter

-----------------------------------------------------------------------------
(* RLock by g, standing at `at`, going on to `to`; if a writer is pending   *)
(* or active, g joins the waiting readers instead.                         *)
RLock(g, at, to, waiting) ==
    /\ pc[g] = at
    /\ IF writer = NoWriter
       THEN /\ held' = [held EXCEPT ![g] = @ + 1]
            /\ pc' = [pc EXCEPT ![g] = to]
       ELSE /\ pc' = [pc EXCEPT ![g] = waiting]
            /\ UNCHANGED held
    /\ UNCHANGED writer

RUnlock(g, at, to) ==
    /\ pc[g] = at
    /\ held' = [held EXCEPT ![g] = @ - 1]
    /\ pc' = [pc EXCEPT ![g] = to]
    /\ UNCHANGED writer

(* Lock: the RWMutex's inner mutex admits one writer at a time, which then *)
(* waits for the readers that are in.                                      *)
CallWriter(g) ==
    /\ pc[g] = "idle"
    /\ pc' = [pc EXCEPT ![g] = "queued"]
    /\ UNCHANGED <<held, writer>>

Announce(g) ==
    /\ pc[g] = "queued"
    /\ writer = NoWriter
    /\ writer' = g
    /\ pc' = [pc EXCEPT ![g] = "pending"]
    /\ UNCHANGED held

Acquire(g) ==
    /\ pc[g] = "pending"
    /\ \A r \in Readers : held[r] = 0
    /\ pc' = [pc EXCEPT ![g] = "writing"]
    /\ UNCHANGED <<held, writer>>

Waiting == {"waitOuter", "waitInner"}
Admitted(state) == IF state = "waitOuter" THEN "outer" ELSE "inner"

Unlock(g) ==
    /\ pc[g] = "writing"
    /\ writer' = NoWriter
    /\ pc' = [h \in Goroutines |->
                IF h = g THEN "idle"
                ELSE IF pc[h] \in Waiting THEN Admitted(pc[h]) ELSE pc[h]]
    /\ held' = [h \in Goroutines |->
                  IF pc[h] \in Waiting THEN held[h] + 1 ELSE held[h]]

-----------------------------------------------------------------------------
(* ShouldEnforce: a closed or auto-disabled gate returns before the nested *)
(* call; otherwise IsEmergencyBypassActive takes and returns the lock.     *)
ShouldEnforceStep(g) ==
    \/ RLock(g, "idle", "outer", "waitOuter")
    \/ RUnlock(g, "outer", "idle")
    \/ RLock(g, "outer", "inner", "waitInner")
    \/ RUnlock(g, "inner", "return")
    \/ RUnlock(g, "return", "idle")

(* Mutant: a getter calls another getter with the lock held.               *)
PlainReaderStep_Nested(g) == ShouldEnforceStep(g)

(* Mode, IsClosed and the other one-lock readers.                          *)
PlainReaderStep(g) ==
    \/ RLock(g, "idle", "outer", "waitOuter")
    \/ RUnlock(g, "outer", "idle")

(* SetMode, EmergencyBypass, RecordMismatch and the other writers.         *)
WriterStep(g) == CallWriter(g) \/ Announce(g) \/ Acquire(g) \/ Unlock(g)

Next ==
    \/ \E g \in PlainReaders : PlainReaderStep(g)
    \/ \E g \in NestedReaders : ShouldEnforceStep(g)
    \/ \E g \in Writers : WriterStep(g)

Spec == Init /\ [][Next]_vars

(* A goroutine inside a gate call runs when it can, and the inner mutex of *)
(* the RWMutex is starvation-free (sync.Mutex hands over to a waiter after *)
(* 1 ms).  Nothing obliges a goroutine to start a call.                    *)
FairSpec ==
    /\ Spec
    /\ \A g \in PlainReaders : WF_vars(pc[g] # "idle" /\ PlainReaderStep(g))
    /\ \A g \in NestedReaders :
           WF_vars(pc[g] # "idle" /\ ShouldEnforceStep(g))
    /\ \A g \in Writers : /\ WF_vars(pc[g] # "idle" /\ WriterStep(g))
                          /\ SF_vars(Announce(g))

-----------------------------------------------------------------------------
(* A goroutine inside ShouldEnforce waits for its second read lock.        *)
NestedWait == \E g \in NestedReaders : pc[g] = "waitInner"

(* Every gate call returns, however many readers and writers compete, as   *)
(* long as no goroutine is caught between its two read locks: the nested   *)
(* RLock is the only way a call of the gate can hang.                      *)
OnlyNestingBlocks ==
    \A g \in Goroutines : pc[g] # "idle" ~> (pc[g] = "idle" \/ NestedWait)
=============================================================================
