-------------------------- MODULE EventStreamProofs --------------------------
(* Proofs about EventStream, for any events, subscribers and filters, any    *)
(* sizes of buffer and channels and any number of calls that wait.           *)
EXTENDS EventStream, FiniteSetTheorems, SequenceTheorems, TLAPS

(*****************************************************************************)
(* How often an event is in a channel, and how sending and taking change it. *)

Places(q, e) == {i \in 1..Len(q) : q[i] = e}

(* An event is in a channel a finite number of times.                        *)
LEMMA CountType ==
    ASSUME NEW q \in Seq(Events), NEW e
    PROVE  IsFiniteSet(Places(q, e)) /\ Cardinality(Places(q, e)) \in Nat
<1>1. Len(q) \in Nat
  OBVIOUS
<1>2. IsFiniteSet(1..Len(q))
  BY <1>1, FS_Interval
<1>3. Places(q, e) \in SUBSET (1..Len(q))
  BY DEF Places
<1>4. IsFiniteSet(Places(q, e))
  BY <1>2, <1>3, FS_Subset
<1> QED
  BY <1>4, FS_CardinalityType

(* A channel that was just made, or closed, holds nothing.                   *)
LEMMA CountEmpty ==
    ASSUME NEW e
    PROVE  Cardinality(Places(<<>>, e)) = 0
<1>1. Places(<<>>, e) = {}
  BY DEF Places
<1> QED
  BY <1>1, FS_EmptySet

(* Sending an event adds one of that event.                                  *)
LEMMA CountAppend ==
    ASSUME NEW q \in Seq(Events), NEW x \in Events, NEW e
    PROVE  Cardinality(Places(Append(q, x), e)) =
               Cardinality(Places(q, e)) + (IF x = e THEN 1 ELSE 0)
<1> DEFINE n == Len(q) + 1
<1>1. /\ Len(q) \in Nat /\ Len(Append(q, x)) = n
      /\ Append(q, x)[n] = x
      /\ \A i \in 1..Len(q) : Append(q, x)[i] = q[i]
  OBVIOUS
<1>2. n \notin Places(q, e)
  BY <1>1 DEF Places
<1>3. CASE x = e
  <2>1. Places(Append(q, x), e) = Places(q, e) \union {n}
    BY <1>1, <1>3 DEF Places
  <2> QED
    BY <1>2, <1>3, <2>1, CountType, FS_AddElement
<1>4. CASE x # e
  <2>1. Places(Append(q, x), e) = Places(q, e)
    BY <1>1, <1>4 DEF Places
  <2> QED
    BY <1>4, <2>1, CountType
<1> QED
  BY <1>3, <1>4

(* Taking the first one leaves one less of it.                               *)
LEMMA CountTail ==
    ASSUME NEW q \in Seq(Events), q # <<>>, NEW e
    PROVE  Cardinality(Places(q, e)) =
               Cardinality(Places(Tail(q), e)) + (IF Head(q) = e THEN 1 ELSE 0)
<1> DEFINE T == Places(Tail(q), e)
           R == Places(q, e) \ {1}
           f == [i \in T |-> i + 1]
<1>1. /\ Len(q) \in Nat /\ Len(q) > 0 /\ Head(q) = q[1]
      /\ Tail(q) \in Seq(Events) /\ Len(Tail(q)) = Len(q) - 1
      /\ \A i \in 1..Len(Tail(q)) : Tail(q)[i] = q[i + 1]
  OBVIOUS
<1>2. \A i \in T : i \in Nat /\ i + 1 \in R
  BY <1>1 DEF Places
<1>3. \A j \in R : j - 1 \in T /\ j \in Nat
  BY <1>1 DEF Places
<1>4. f \in Bijection(T, R)
  <2>1. f \in [T -> R]
    BY <1>2
  <2>2. \A a, b \in T : f[a] = f[b] => a = b
    BY <1>2
  <2>3. \A j \in R : \E i \in T : f[i] = j
    <3> SUFFICES ASSUME NEW j \in R PROVE \E i \in T : f[i] = j
      OBVIOUS
    <3>1. j - 1 \in T /\ f[j - 1] = j
      BY <1>3
    <3> QED
      BY <3>1
  <2> QED
    BY <2>1, <2>2, <2>3 DEF Bijection, Injection, Surjection, IsInjective
<1>5. Cardinality(R) = Cardinality(T) /\ Cardinality(T) \in Nat
  <2>1. IsFiniteSet(T) /\ Cardinality(T) \in Nat
    BY <1>1, CountType
  <2>2. ExistsBijection(T, R)
    BY <1>4 DEF ExistsBijection
  <2> QED
    BY <2>1, <2>2, FS_Bijection
<1>6. /\ IsFiniteSet(Places(q, e)) /\ Cardinality(Places(q, e)) \in Nat
      /\ 1 \in Places(q, e) <=> Head(q) = e
  <2>1. 1 \in Places(q, e) <=> Head(q) = e
    BY <1>1 DEF Places
  <2> QED
    BY <2>1, CountType
<1>7. Cardinality(R) = IF 1 \in Places(q, e) THEN Cardinality(Places(q, e)) - 1
                       ELSE Cardinality(Places(q, e))
  BY <1>6, FS_RemoveElement
<1> QED
  BY <1>5, <1>6, <1>7

(*****************************************************************************)
(* Parts of sequences of events.                                             *)

Distinct(q) == \A i \in 1..Len(q), j \in 1..Len(q) : q[i] = q[j] => i = j

Elements(q) == {q[i] : i \in 1..Len(q)}

(* What is left of a sequence from a place on has no element twice if the    *)
(* sequence has none, nor an element from before that place.                 *)
LEMMA RestOf ==
    ASSUME NEW q \in Seq(Events), NEW m \in Nat \ {0}
    PROVE  LET p == SubSeq(q, m, Len(q))
           IN  /\ p \in Seq(Events)
               /\ Elements(p) = {q[i] : i \in m..Len(q)}
               /\ Distinct(q) => Distinct(p)
<1> DEFINE n == Len(q)
           p == SubSeq(q, m, n)
<1>1. n \in Nat /\ m \in Int /\ \A i \in m..n : q[i] \in Events
  OBVIOUS
<1>2. /\ p \in Seq(Events)
      /\ Len(p) = IF m <= n THEN n - m + 1 ELSE 0
      /\ \A i \in 1..(n - m + 1) : p[i] = q[m + i - 1]
  BY <1>1, SubSeqProperties
<1> HIDE DEF p, n
<1>3. \A i \in 1..Len(p) : p[i] = q[m + i - 1] /\ m + i - 1 \in m..n
  BY <1>1, <1>2
<1>4. \A j \in m..n : j - m + 1 \in 1..Len(p) /\ p[j - m + 1] = q[j]
  BY <1>1, <1>2
<1>5. Elements(p) = {q[i] : i \in m..n}
  <2>1. ASSUME NEW x \in Elements(p) PROVE x \in {q[i] : i \in m..n}
    BY <1>3 DEF Elements
  <2>2. ASSUME NEW j \in m..n PROVE q[j] \in Elements(p)
    BY <1>4 DEF Elements
  <2> QED
    BY <2>1, <2>2
<1>6. ASSUME Distinct(q) PROVE Distinct(p)
  <2> SUFFICES ASSUME NEW i \in 1..Len(p), NEW j \in 1..Len(p), p[i] = p[j]
               PROVE  i = j
    BY DEF Distinct
  <2>1. Len(p) \in Nat /\ m \in Nat /\ m > 0
    BY <1>1, <1>2
  <2>2. /\ m + i - 1 \in 1..Len(q) /\ m + j - 1 \in 1..Len(q)
        /\ q[m + i - 1] = q[m + j - 1]
    BY <1>1, <1>3, <2>1 DEF n
  <2>3. m + i - 1 = m + j - 1
    BY <1>6, <2>2 DEF Distinct
  <2> QED
    BY <2>1, <2>3
<1> QED
  BY <1>2, <1>5, <1>6 DEF p, n

(* What was sent is not in the rest.                                         *)
LEMMA SentOnce ==
    ASSUME NEW q \in Seq(Events), Distinct(q), NEW i \in 1..Len(q)
    PROVE  LET p == SubSeq(q, i + 1, Len(q))
           IN  /\ q[i] \in Elements(q) /\ q[i] \notin Elements(p)
               /\ Elements(p) \subseteq Elements(q)
<1> DEFINE p == SubSeq(q, i + 1, Len(q))
<1>1. Len(q) \in Nat /\ i + 1 \in Nat \ {0}
  OBVIOUS
<1>2. Elements(p) = {q[j] : j \in (i + 1)..Len(q)}
  BY <1>1, RestOf
<1> HIDE DEF p
<1>3. \A j \in (i + 1)..Len(q) : j \in 1..Len(q) /\ i # j
  BY <1>1
<1>4. q[i] \in Elements(q) /\ Elements(p) \subseteq Elements(q)
  BY <1>2, <1>3 DEF Elements
<1>5. \A j \in (i + 1)..Len(q) : q[i] # q[j]
  BY <1>3 DEF Distinct
<1>6. q[i] \notin Elements(p)
  BY <1>2, <1>5
<1> QED
  BY <1>4, <1>6 DEF p

(* A new event at the end, and perhaps without the oldest one.               *)
LEMMA AddedType ==
    ASSUME NEW q \in Seq(Events), NEW e \in Events
    PROVE  Append(q, e) \in Seq(Events) /\ Tail(Append(q, e)) \in Seq(Events)
<1>1. /\ Append(q, e) \in Seq(Events)
      /\ Len(q) \in Nat /\ Len(Append(q, e)) = Len(q) + 1
  OBVIOUS
<1> QED
  BY <1>1

(* An event that was not there is there once.                                *)
LEMMA AddedOnce ==
    ASSUME NEW q \in Seq(Events), NEW e \in Events, e \notin Elements(q), Distinct(q)
    PROVE  LET a == Append(q, e)
           IN  /\ a \in Seq(Events) /\ Tail(a) \in Seq(Events)
               /\ Distinct(a) /\ Distinct(Tail(a))
               /\ Elements(a) \subseteq Elements(q) \union {e}
               /\ Elements(Tail(a)) \subseteq Elements(q) \union {e}
<1> DEFINE a == Append(q, e)
           n == Len(q)
<1>1. /\ n \in Nat /\ Len(a) = n + 1 /\ a \in Seq(Events) /\ a # <<>>
      /\ a[n + 1] = e
      /\ \A i \in 1..n : a[i] = q[i]
  OBVIOUS
<1>2. Distinct(a)
  BY <1>1 DEF Distinct, Elements
<1>3. Elements(a) \subseteq Elements(q) \union {e}
  BY <1>1 DEF Elements
<1> HIDE DEF a
<1>4. /\ Tail(a) \in Seq(Events) /\ Len(Tail(a)) = n
      /\ \A i \in 1..n : Tail(a)[i] = a[i + 1]
  BY <1>1
<1>5. Distinct(Tail(a)) /\ Elements(Tail(a)) \subseteq Elements(a)
  BY <1>1, <1>2, <1>4 DEF Distinct, Elements
<1> QED
  BY <1>1, <1>2, <1>3, <1>4, <1>5 DEF a

(*****************************************************************************)
(* The inductive invariant.                                                  *)

StreamType ==
    /\ buffer \in Seq(Events)
    /\ delivery \in [Events -> [pc: {"none", "start", "deliver", "done"},
                                todo: SUBSET Subscribers, at: SUBSET Subscribers]]
    /\ \A e \in Events : delivery[e].at \subseteq delivery[e].todo
    /\ member \in [Subscribers -> {"new", "on", "off"}]
    /\ channel \in [Subscribers -> Seq(Events)]
    /\ catchup \in [Subscribers -> [pc: {"none", "read", "send", "done"},
                                    queue: Seq(Events)]]
    /\ received \in [Subscribers -> [Events -> Nat]]

(* Whatever queues for the lock, an event is added once, so it is in the     *)
(* buffer once, and a subscriber begins to catch up once.                    *)
OnceInv ==
    /\ Distinct(buffer)
    /\ \A e \in Elements(buffer) : delivery[e].pc # "none"
    /\ \A e \in Events : Call("add", e) \in waiting => delivery[e].pc = "none"
    /\ \A s \in Subscribers :
          /\ Call("subscribe", s) \in waiting => member[s] = "new"
          /\ Call("unsubscribe", s) \in waiting => member[s] # "new"
          /\ member[s] = "new" => catchup[s].pc = "none"
          /\ Distinct(catchup[s].queue)

(* The goroutine that delivers e is done with s.                             *)
DeliveredTo(e, s) ==
    IF delivery[e].pc \in {"deliver", "done"} /\ s \notin delivery[e].todo
    THEN 1 ELSE 0

(* The goroutine that catches up for s is done with e.                       *)
CaughtUpOn(e, s) ==
    IF catchup[s].pc \in {"send", "done"} /\ e \notin Elements(catchup[s].queue)
    THEN 1 ELSE 0

(* Each of the two goroutines accounts for one copy.                         *)
CopyInv ==
    \A e \in Events, s \in Subscribers :
        Copies(e, s) <= DeliveredTo(e, s) + CaughtUpOn(e, s)

StreamInv == StreamType /\ OnceInv /\ CopyInv

(*****************************************************************************)
(* The type.                                                                 *)

(* Nothing has happened yet.                                                 *)
LEMMA InitInv == Init => StreamInv
<1> SUFFICES ASSUME Init PROVE StreamInv
  OBVIOUS
<1>1. StreamType
  BY DEF Init, StreamType
<1>2. OnceInv
  BY DEF Init, OnceInv, Distinct, Elements
<1>3. CopyInv
  <2> SUFFICES ASSUME NEW e \in Events, NEW s \in Subscribers
               PROVE  Copies(e, s) <= DeliveredTo(e, s) + CaughtUpOn(e, s)
    BY DEF CopyInv
  <2>1. channel[s] = <<>> /\ received[s][e] = 0
    BY DEF Init
  <2>2. Copies(e, s) = 0
    BY <2>1, CountEmpty DEF Copies, Places
  <2> QED
    BY <2>2 DEF DeliveredTo, CaughtUpOn
<1> QED
  BY <1>1, <1>2, <1>3 DEF StreamInv

DeliveryRecord == [pc: {"none", "start", "deliver", "done"},
                   todo: SUBSET Subscribers, at: SUBSET Subscribers]

(* The goroutine of one event goes on.                                       *)
LEMMA DeliveryGoesOn ==
    ASSUME StreamType, NEW e \in Events, NEW r \in DeliveryRecord, r.at \subseteq r.todo,
           delivery' = [delivery EXCEPT ![e] = r]
    PROVE  /\ delivery' \in [Events -> DeliveryRecord]
           /\ \A x \in Events : delivery'[x].at \subseteq delivery'[x].todo
           /\ delivery'[e] = r
           /\ \A x \in Events \ {e} : delivery'[x] = delivery[x]
<1>1. delivery \in [Events -> DeliveryRecord]
  BY DEF StreamType, DeliveryRecord
<1>2. /\ delivery' \in [Events -> DeliveryRecord]
      /\ delivery'[e] = r /\ \A x \in Events \ {e} : delivery'[x] = delivery[x]
  BY <1>1
<1>3. ASSUME NEW x \in Events PROVE delivery'[x].at \subseteq delivery'[x].todo
  <2>1. CASE x = e
    BY <1>2, <2>1
  <2>2. CASE x # e
    <3>1. delivery'[x] = delivery[x] /\ delivery[x].at \subseteq delivery[x].todo
      BY <1>2, <2>2 DEF StreamType
    <3> QED
      BY <3>1
  <2> QED
    BY <2>1, <2>2
<1> QED
  BY <1>2, <1>3

(* It is through with a subscriber.                                          *)
LEMMA ServedIs ==
    ASSUME StreamType, NEW e \in Events, NEW s \in Subscribers,
           delivery' = [delivery EXCEPT ![e] =
                           [delivery[e] EXCEPT !.todo = delivery[e].todo \ {s}, !.at = {}]]
    PROVE  /\ delivery' \in [Events -> DeliveryRecord]
           /\ \A x \in Events : delivery'[x].at \subseteq delivery'[x].todo
           /\ delivery'[e].pc = delivery[e].pc
           /\ delivery'[e].todo = delivery[e].todo \ {s}
           /\ \A x \in Events \ {e} : delivery'[x] = delivery[x]
<1> DEFINE T == delivery[e].todo \ {s}
           r == [delivery[e] EXCEPT !.todo = T, !.at = {}]
<1>1. delivery[e] \in DeliveryRecord
  BY DEF StreamType, DeliveryRecord
<1>2. /\ r \in DeliveryRecord /\ r.at = {} /\ r.pc = delivery[e].pc
      /\ r.todo = delivery[e].todo \ {s}
  BY <1>1 DEF DeliveryRecord
<1>3. delivery' = [delivery EXCEPT ![e] = r]
  OBVIOUS
<1> HIDE DEF r
<1> QED
  BY <1>2, <1>3, DeliveryGoesOn

(* The loop comes to a subscriber.                                           *)
LEMMA ReachesIs ==
    ASSUME StreamType, NEW e \in Events, NEW s \in Subscribers, DeliverReaches(e, s)
    PROVE  /\ StreamType'
           /\ delivery[e].pc = "deliver" /\ delivery'[e].pc = delivery[e].pc
           /\ delivery'[e].todo \in {delivery[e].todo, delivery[e].todo \ {s}}
           /\ \A x \in Events \ {e} : delivery'[x] = delivery[x]
           /\ UNCHANGED <<buffer, status, waiting, subscriberVars>>
<1>1. /\ delivery[e].pc = "deliver" /\ delivery[e].at = {} /\ s \in delivery[e].todo
      /\ UNCHANGED <<buffer, status, waiting, subscriberVars>>
  BY DEF DeliverReaches
<1>2. delivery[e] \in DeliveryRecord
  BY DEF StreamType, DeliveryRecord
<1> DEFINE stays == [delivery[e] EXCEPT !.at = {s}]
           passes == [delivery[e] EXCEPT !.todo = @ \ {s}]
<1>3. /\ stays \in DeliveryRecord /\ stays.at \subseteq stays.todo
      /\ stays.pc = delivery[e].pc /\ stays.todo = delivery[e].todo
  BY <1>1, <1>2 DEF DeliveryRecord
<1>4. /\ passes \in DeliveryRecord /\ passes.at \subseteq passes.todo
      /\ passes.pc = delivery[e].pc /\ passes.todo = delivery[e].todo \ {s}
  BY <1>1, <1>2 DEF DeliveryRecord
<1>5. \/ delivery' = [delivery EXCEPT ![e] = stays]
      \/ delivery' = [delivery EXCEPT ![e] = passes]
  BY DEF DeliverReaches
<1> HIDE DEF stays, passes
<1>6. PICK r \in {stays, passes} : delivery' = [delivery EXCEPT ![e] = r]
  BY <1>5
<1>7. /\ r \in DeliveryRecord /\ r.at \subseteq r.todo /\ r.pc = delivery[e].pc
      /\ r.todo \in {delivery[e].todo, delivery[e].todo \ {s}}
  BY <1>3, <1>4, <1>6
<1>8. /\ delivery' \in [Events -> DeliveryRecord]
      /\ \A x \in Events : delivery'[x].at \subseteq delivery'[x].todo
      /\ delivery'[e] = r
      /\ \A x \in Events \ {e} : delivery'[x] = delivery[x]
  BY <1>6, <1>7, DeliveryGoesOn
<1>9. StreamType'
  BY <1>1, <1>8 DEF StreamType, DeliveryRecord, subscriberVars
<1> QED
  BY <1>1, <1>7, <1>8, <1>9

(* Every step keeps the type.                                                *)
LEMMA NextType == StreamType /\ [Next]_vars => StreamType'
<1> SUFFICES ASSUME StreamType, [Next]_vars PROVE StreamType'
  OBVIOUS
<1> USE DEF StreamType, subscriberVars
<1>1. ASSUME NEW e \in Events, AddEvent(e) PROVE StreamType'
  BY <1>1 DEF AddEvent
<1>2. ASSUME NEW e \in Events, Deliver(e) PROVE StreamType'
  BY <1>2 DEF Deliver
<1>3. ASSUME NEW e \in Events, DeliverEnds(e) PROVE StreamType'
  BY <1>3 DEF DeliverEnds
<1>4. ASSUME NEW e \in Events, NEW s \in Subscribers,
             DeliverReaches(e, s) \/ DeliverTo(e, s)
      PROVE  StreamType'
  <2>1. CASE DeliverReaches(e, s)
    BY <2>1, ReachesIs
  <2>2. CASE DeliverTo(e, s)
    <3>1. delivery' = [delivery EXCEPT ![e] =
               [delivery[e] EXCEPT !.todo = delivery[e].todo \ {s}, !.at = {}]]
      BY <2>2 DEF DeliverTo
    <3>2. /\ delivery' \in [Events -> DeliveryRecord]
          /\ \A x \in Events : delivery'[x].at \subseteq delivery'[x].todo
      BY <3>1, ServedIs
    <3>3. channel' \in [Subscribers -> Seq(Events)]
      BY <2>2 DEF DeliverTo
    <3> QED
      BY <2>2, <3>2, <3>3 DEF DeliverTo, DeliveryRecord
  <2> QED
    BY <1>4, <2>1, <2>2
<1>5. ASSUME NEW e \in Events, NEW s \in Subscribers, DeliverGivesUp(e, s)
      PROVE  StreamType'
  <2>1. delivery' = [delivery EXCEPT ![e] =
               [delivery[e] EXCEPT !.todo = delivery[e].todo \ {s}, !.at = {}]]
    BY <1>5 DEF DeliverGivesUp
  <2>2. /\ delivery' \in [Events -> DeliveryRecord]
        /\ \A x \in Events : delivery'[x].at \subseteq delivery'[x].todo
    BY <2>1, ServedIs
  <2> QED
    BY <1>5, <2>2 DEF DeliverGivesUp, DeliveryRecord
<1>6. ASSUME NEW s \in Subscribers, Subscribe(s) \/ Unsubscribe(s) PROVE StreamType'
  BY <1>6 DEF Subscribe, Unsubscribe
<1>7. ASSUME NEW s \in Subscribers, GetRecentEvents(s) PROVE StreamType'
  <2>1. Recent \in Seq(Events)
    <3>1. (IF Len(buffer) > RecentEvents THEN Len(buffer) - RecentEvents + 1 ELSE 1)
             \in Nat \ {0}
      BY StreamAssumption
    <3> QED
      BY <3>1, RestOf DEF Recent
  <2> QED
    BY <1>7, <2>1 DEF GetRecentEvents
<1>8. ASSUME NEW s \in Subscribers, CatchUp(s) PROVE StreamType'
  <2>1. PICK i \in NextShown(s) :
          /\ channel' = [channel EXCEPT ![s] = Append(@, catchup[s].queue[i])]
          /\ catchup' = [catchup EXCEPT ![s].queue = SubSeq(@, i + 1, Len(@))]
    BY <1>8 DEF CatchUp
  <2> DEFINE q == catchup[s].queue
  <2>2. q \in Seq(Events) /\ i \in 1..Len(q) /\ q[i] \in Events
    BY <2>1 DEF NextShown
  <2>3. SubSeq(q, i + 1, Len(q)) \in Seq(Events)
    BY <2>2, RestOf
  <2>4. channel' \in [Subscribers -> Seq(Events)]
    BY <2>1, <2>2
  <2>5. catchup' \in [Subscribers -> [pc: {"none", "read", "send", "done"},
                                      queue: Seq(Events)]]
    BY <2>1, <2>3
  <2> QED
    BY <1>8, <2>4, <2>5 DEF CatchUp
<1>9. ASSUME NEW s \in Subscribers, CatchUpEnds(s) \/ CatchUpPanics(s)
      PROVE  StreamType'
  <2> DEFINE empty == <<>>
  <2>1. empty \in Seq(Events)
    OBVIOUS
  <2>2. \/ catchup' = [catchup EXCEPT ![s] = [pc |-> "done", queue |-> empty]]
        \/ catchup' = catchup
    BY <1>9 DEF CatchUpEnds, CatchUpPanics
  <2> HIDE DEF empty
  <2>3. catchup' \in [Subscribers -> [pc: {"none", "read", "send", "done"},
                                      queue: Seq(Events)]]
    <3> DEFINE r == [pc |-> "done", queue |-> empty]
    <3>1. r \in [pc: {"none", "read", "send", "done"}, queue: Seq(Events)]
      BY <2>1
    <3>2. catchup' = [catchup EXCEPT ![s] = r] \/ catchup' = catchup
      BY <2>2
    <3> HIDE DEF r
    <3> QED
      BY <3>1, <3>2
  <2>4. UNCHANGED <<buffer, delivery, member, channel, received>>
    BY <1>9 DEF CatchUpEnds, CatchUpPanics
  <2> QED
    BY <2>3, <2>4
<1>10. ASSUME NEW s \in Subscribers, Receive(s) PROVE StreamType'
  <2>1. Head(channel[s]) \in Events /\ Tail(channel[s]) \in Seq(Events)
    BY <1>10 DEF Receive
  <2> QED
    BY <1>10, <2>1 DEF Receive
<1>11. ASSUME NEW s \in Subscribers, Cancel(s) PROVE StreamType'
  BY <1>11 DEF Cancel
<1>12. ASSUME NEW e \in Events, AddEventLocked(e) PROVE StreamType'
  <2>1. buffer' \in Seq(Events)
    <3> DEFINE added == Append(buffer, e)
    <3>1. buffer' = IF Len(added) > MaxStreamBufferSize THEN Tail(added) ELSE added
      BY <1>12 DEF AddEventLocked
    <3>2. added \in Seq(Events) /\ Tail(added) \in Seq(Events)
      BY AddedType
    <3> HIDE DEF added
    <3> QED
      BY <3>1, <3>2
  <2> QED
    BY <1>12, <2>1 DEF AddEventLocked
<1>13. ASSUME NEW s \in Subscribers, SubscribeLocked(s) PROVE StreamType'
  BY <1>13 DEF SubscribeLocked
<1>14. ASSUME NEW s \in Subscribers, UnsubscribeLocked(s) PROVE StreamType'
  BY <1>14 DEF UnsubscribeLocked, Leave
<1>15. CASE CloseLocked
  BY <1>15 DEF CloseLocked, Leave
<1>16. CASE Close \/ UNCHANGED vars
  BY <1>16 DEF Close, vars
<1>17. CASE CleanOldEvents
  BY <1>17 DEF CleanOldEvents
<1> QED
  BY <1>1, <1>2, <1>3, <1>4, <1>5, <1>6, <1>7, <1>8, <1>9, <1>10, <1>11, <1>12,
     <1>13, <1>14, <1>15, <1>16, <1>17
  DEF Next, Delivering, CatchingUp, Locked

(*****************************************************************************)
(* Events are added once and subscribers begin to catch up once.             *)

(* Every step keeps OnceInv.                                                 *)
LEMMA NextOnce == StreamType /\ OnceInv /\ [Next]_vars => OnceInv'
<1> SUFFICES ASSUME StreamType, OnceInv, [Next]_vars PROVE OnceInv'
  OBVIOUS
<1> USE DEF subscriberVars
<1>1. ASSUME NEW e \in Events, AddEvent(e) PROVE OnceInv'
  BY <1>1 DEF AddEvent, OnceInv, Waits, Call
<1>2. ASSUME NEW e \in Events, Delivering(e) PROVE OnceInv'
  <2>1. /\ UNCHANGED <<buffer, waiting, member, catchup>>
        /\ \A d \in Events : delivery'[d].pc = "none" <=> delivery[d].pc = "none"
    <3>1. UNCHANGED <<buffer, waiting, member, catchup>>
      BY <1>2 DEF Delivering, Deliver, DeliverEnds, DeliverReaches, DeliverTo,
                  DeliverGivesUp
    <3>2. delivery[e].pc # "none"
      BY <1>2 DEF Delivering, Deliver, DeliverEnds, DeliverReaches, DeliverTo,
                  DeliverGivesUp
    <3>3. /\ delivery'[e].pc # "none"
          /\ \A d \in Events \ {e} : delivery'[d] = delivery[d]
      <4>1. CASE Deliver(e)
        BY <4>1 DEF Deliver, StreamType
      <4>2. CASE DeliverEnds(e)
        BY <4>2 DEF DeliverEnds, StreamType
      <4>0. ASSUME NEW s \in Subscribers, DeliverReaches(e, s)
            PROVE  /\ delivery'[e].pc # "none"
                   /\ \A d \in Events \ {e} : delivery'[d] = delivery[d]
        BY <4>0, ReachesIs
      <4>3. ASSUME NEW s \in Subscribers, DeliverTo(e, s) \/ DeliverGivesUp(e, s)
            PROVE  /\ delivery'[e].pc # "none"
                   /\ \A d \in Events \ {e} : delivery'[d] = delivery[d]
        <5>1. /\ delivery[e].pc = "deliver"
              /\ delivery' = [delivery EXCEPT ![e] =
               [delivery[e] EXCEPT !.todo = delivery[e].todo \ {s}, !.at = {}]]
          BY <4>3 DEF DeliverTo, DeliverGivesUp
        <5> QED
          BY <5>1, ServedIs
      <4> QED
        BY <1>2, <4>0, <4>1, <4>2, <4>3 DEF Delivering
    <3> QED
      BY <3>1, <3>2, <3>3
  <2>2. Elements(buffer) \subseteq Events
    BY DEF StreamType, Elements
  <2> QED
    BY <2>1, <2>2 DEF OnceInv
<1>3. ASSUME NEW s \in Subscribers, Subscribe(s) \/ Unsubscribe(s) PROVE OnceInv'
  BY <1>3 DEF Subscribe, Unsubscribe, OnceInv, Waits, Call
<1>4. ASSUME NEW s \in Subscribers, CatchingUp(s) PROVE OnceInv'
  <2>1. UNCHANGED <<buffer, waiting, delivery, member>>
    BY <1>4 DEF CatchingUp, GetRecentEvents, CatchUp, CatchUpEnds, CatchUpPanics
  <2>2. ASSUME NEW t \in Subscribers
        PROVE  /\ member[t] = "new" => catchup'[t].pc = "none"
               /\ Distinct(catchup'[t].queue)
    <3>1. CASE t # s \/ CatchUpPanics(s)
      <4>1. catchup'[t] = catchup[t]
        BY <1>4, <3>1 DEF CatchingUp, GetRecentEvents, CatchUp, CatchUpEnds,
                          CatchUpPanics, StreamType
      <4> QED
        BY <4>1 DEF OnceInv
    <3>2. CASE t = s /\ ~CatchUpPanics(s)
      <4>1. catchup[s].pc # "none"
        BY <1>4, <3>2 DEF CatchingUp, GetRecentEvents, CatchUp, CatchUpEnds
      <4>2. member[s] # "new"
        BY <4>1 DEF OnceInv
      <4>3. Distinct(catchup'[s].queue)
        <5>1. CASE GetRecentEvents(s)
          <6>1. catchup'[s].queue = Recent
            BY <5>1 DEF GetRecentEvents, StreamType
          <6>2. buffer \in Seq(Events) /\ Distinct(buffer)
            BY DEF StreamType, OnceInv
          <6>3. (IF Len(buffer) > RecentEvents THEN Len(buffer) - RecentEvents + 1
                 ELSE 1) \in Nat \ {0}
            BY <6>2, StreamAssumption
          <6> QED
            BY <6>1, <6>2, <6>3, RestOf DEF Recent
        <5>2. CASE CatchUp(s)
          <6> DEFINE q == catchup[s].queue
          <6>1. PICK i \in NextShown(s) :
                  catchup' = [catchup EXCEPT ![s].queue = SubSeq(q, i + 1, Len(q))]
            BY <5>2 DEF CatchUp
          <6>2. catchup'[s].queue = SubSeq(q, i + 1, Len(q))
            BY <6>1 DEF StreamType
          <6>3. q \in Seq(Events) /\ Distinct(q) /\ i + 1 \in Nat \ {0}
            BY <6>1 DEF StreamType, OnceInv, NextShown
          <6> QED
            BY <6>2, <6>3, RestOf
        <5>3. CASE CatchUpEnds(s)
          <6> DEFINE empty == <<>>
          <6>1. Distinct(empty)
            BY DEF Distinct
          <6>2. catchup' = [catchup EXCEPT ![s] = [pc |-> "done", queue |-> empty]]
            BY <5>3 DEF CatchUpEnds
          <6> HIDE DEF empty
          <6>3. catchup'[s].queue = empty
            BY <6>2 DEF StreamType
          <6> QED
            BY <6>1, <6>3
        <5> QED
          BY <1>4, <3>2, <5>1, <5>2, <5>3 DEF CatchingUp
      <4> QED
        BY <3>2, <4>2, <4>3
    <3> QED
      BY <3>1, <3>2
  <2> QED
    BY <2>1, <2>2 DEF OnceInv
<1>5. ASSUME NEW s \in Subscribers, Receive(s) \/ Cancel(s) PROVE OnceInv'
  BY <1>5 DEF Receive, Cancel, OnceInv
<1>6. ASSUME NEW e \in Events, AddEventLocked(e) PROVE OnceInv'
  <2> DEFINE added == Append(buffer, e)
  <2>1. /\ Call("add", e) \in waiting
        /\ waiting' = waiting \ {Call("add", e)}
        /\ buffer' = IF Len(added) > MaxStreamBufferSize THEN Tail(added) ELSE added
        /\ delivery' = [delivery EXCEPT ![e].pc = "start"]
        /\ UNCHANGED <<member, catchup>>
    BY <1>6 DEF AddEventLocked
  <2>2. e \notin Elements(buffer)
    BY <2>1 DEF OnceInv
  <2>3. /\ Distinct(added) /\ Distinct(Tail(added))
        /\ Elements(added) \subseteq Elements(buffer) \union {e}
        /\ Elements(Tail(added)) \subseteq Elements(buffer) \union {e}
    BY <2>2, AddedOnce DEF StreamType, OnceInv
  <2> HIDE DEF added
  <2>4. Distinct(buffer') /\ Elements(buffer') \subseteq Elements(buffer) \union {e}
    BY <2>1, <2>3
  <2>5. Elements(buffer) \subseteq Events
    BY DEF StreamType, Elements
  <2>6. /\ delivery'[e].pc = "start"
        /\ \A d \in Events \ {e} : delivery'[d].pc = delivery[d].pc
    BY <2>1 DEF StreamType
  <2>7. \A d \in Elements(buffer') : delivery'[d].pc # "none"
    BY <2>4, <2>5, <2>6 DEF OnceInv
  <2>8. \A d \in Events : Call("add", d) \in waiting' => delivery'[d].pc = "none"
    BY <2>1, <2>6 DEF OnceInv
  <2> QED
    BY <2>1, <2>4, <2>7, <2>8 DEF OnceInv
<1>7. ASSUME NEW s \in Subscribers, SubscribeLocked(s) PROVE OnceInv'
  <2>1. /\ Call("subscribe", s) \in waiting
        /\ waiting' = waiting \ {Call("subscribe", s)}
        /\ \/ /\ member' = [member EXCEPT ![s] = "on"]
              /\ catchup' = [catchup EXCEPT ![s].pc = "read"]
           \/ /\ member' = [member EXCEPT ![s] = "new"]
              /\ catchup' = [catchup EXCEPT ![s].pc = "none"]
        /\ UNCHANGED <<buffer, delivery>>
    BY <1>7 DEF SubscribeLocked
  <2>2. member[s] = "new" /\ Call("unsubscribe", s) \notin waiting
    BY <2>1 DEF OnceInv
  <2>3. ASSUME NEW t \in Subscribers
        PROVE  /\ Call("subscribe", t) \in waiting' => member'[t] = "new"
               /\ Call("unsubscribe", t) \in waiting' => member'[t] # "new"
               /\ member'[t] = "new" => catchup'[t].pc = "none"
               /\ catchup'[t].queue = catchup[t].queue
    BY <2>1, <2>2 DEF OnceInv, StreamType, Call
  <2> QED
    BY <2>1, <2>3 DEF OnceInv
<1>8. ASSUME NEW s \in Subscribers, UnsubscribeLocked(s) PROVE OnceInv'
  <2>1. /\ Call("unsubscribe", s) \in waiting
        /\ waiting' \subseteq waiting
        /\ \A t \in Subscribers : member'[t] = IF t = s THEN "off" ELSE member[t]
        /\ UNCHANGED <<buffer, delivery, catchup>>
    BY <1>8 DEF UnsubscribeLocked, Leave
  <2>2. Call("subscribe", s) \notin waiting
    BY <2>1 DEF OnceInv
  <2> QED
    BY <2>1, <2>2 DEF OnceInv
<1>9. CASE CloseLocked
  <2>1. /\ buffer' = <<>> /\ waiting' = {}
        /\ \A t \in Subscribers : member'[t] = "off"
        /\ UNCHANGED <<delivery, catchup>>
    BY <1>9 DEF CloseLocked, Leave
  <2>2. Distinct(buffer') /\ Elements(buffer') = {}
    BY <2>1 DEF Distinct, Elements
  <2> QED
    BY <2>1, <2>2 DEF OnceInv
<1>10. CASE Close \/ UNCHANGED vars
  BY <1>10 DEF Close, vars, OnceInv, Waits, Call
<1>11. CASE CleanOldEvents
  <2>1. /\ buffer # <<>> /\ buffer' = Tail(buffer) /\ buffer \in Seq(Events)
        /\ UNCHANGED <<waiting, delivery, member, catchup>>
    BY <1>11 DEF CleanOldEvents, StreamType
  <2>2. buffer' = SubSeq(buffer, 2, Len(buffer))
    BY <2>1, TailIsSubSeq
  <2>3. /\ Distinct(buffer')
        /\ Elements(buffer') = {buffer[i] : i \in 2..Len(buffer)}
    <3> DEFINE two == 2
    <3>1. two \in Nat \ {0} /\ buffer' = SubSeq(buffer, two, Len(buffer))
      BY <2>2
    <3> HIDE DEF two
    <3>2. /\ Distinct(buffer')
          /\ Elements(buffer') = {buffer[i] : i \in two..Len(buffer)}
      BY <2>1, <3>1, RestOf DEF OnceInv
    <3> QED
      BY <3>2 DEF two
  <2>4. Elements(buffer') \subseteq Elements(buffer)
    BY <2>1, <2>3 DEF Elements
  <2> QED
    BY <2>1, <2>3, <2>4 DEF OnceInv
<1> QED
  BY <1>1, <1>2, <1>3, <1>4, <1>5, <1>6, <1>7, <1>8, <1>9, <1>10, <1>11
  DEF Next, Locked

(*****************************************************************************)
(* Copies.                                                                   *)

(* Every step keeps CopyInv.                                                 *)
LEMMA NextCopies ==
    StreamType /\ StreamType' /\ OnceInv /\ CopyInv /\ [Next]_vars => CopyInv'
<1> SUFFICES ASSUME StreamType, StreamType', OnceInv, CopyInv, [Next]_vars,
                    NEW e \in Events, NEW s \in Subscribers
             PROVE  (Copies(e, s) <= DeliveredTo(e, s) + CaughtUpOn(e, s))'
  BY DEF CopyInv
<1> DEFINE Inv == (Copies(e, s) <= DeliveredTo(e, s) + CaughtUpOn(e, s))'
<1>n. /\ Copies(e, s) = received[s][e] + Cardinality(Places(channel[s], e))
      /\ Copies(e, s)' = received'[s][e] + Cardinality(Places(channel'[s], e))
  BY DEF Copies, Places
<1>t. /\ channel[s] \in Seq(Events) /\ received[s][e] \in Nat
      /\ Cardinality(Places(channel[s], e)) \in Nat
      /\ Copies(e, s) \in Nat
      /\ DeliveredTo(e, s) \in 0..1 /\ DeliveredTo(e, s)' \in 0..1
      /\ CaughtUpOn(e, s) \in 0..1 /\ CaughtUpOn(e, s)' \in 0..1
  <2>1. channel[s] \in Seq(Events) /\ received[s][e] \in Nat
    BY DEF StreamType
  <2>2. Cardinality(Places(channel[s], e)) \in Nat
    BY <2>1, CountType
  <2>3. Copies(e, s) \in Nat
    BY <1>n, <2>1, <2>2
  <2> QED
    BY <2>1, <2>2, <2>3 DEF DeliveredTo, CaughtUpOn
<1>i. Copies(e, s) <= DeliveredTo(e, s) + CaughtUpOn(e, s)
  BY DEF CopyInv
<1>c. ASSUME channel'[s] = channel[s], received'[s] = received[s]
      PROVE  Copies(e, s)' = Copies(e, s)
  BY <1>c, <1>n
<1>d. ASSUME delivery'[e] = delivery[e] PROVE DeliveredTo(e, s)' = DeliveredTo(e, s)
  BY <1>d DEF DeliveredTo
<1>u. ASSUME catchup'[s] = catchup[s] PROVE CaughtUpOn(e, s)' = CaughtUpOn(e, s)
  BY <1>u DEF CaughtUpOn
<1> USE DEF subscriberVars
<1>1. ASSUME UNCHANGED <<delivery, channel, received, catchup>> PROVE Inv
  BY <1>1, <1>i, <1>c, <1>d, <1>u
<1>2. ASSUME NEW d \in Events, Deliver(d) \/ DeliverEnds(d)
      PROVE  Inv
  <2>1. UNCHANGED <<channel, received, catchup>>
    BY <1>2 DEF Deliver, DeliverEnds
  <2>2. DeliveredTo(e, s)' >= DeliveredTo(e, s)
    <3>1. CASE d # e
      <4>1. delivery'[e] = delivery[e]
        BY <1>2, <3>1 DEF Deliver, DeliverEnds, StreamType
      <4> QED
        BY <4>1, <1>d, <1>t
    <3>2. CASE d = e /\ Deliver(d)
      <4>1. DeliveredTo(e, s) = 0
        BY <3>2 DEF Deliver, DeliveredTo
      <4> QED
        BY <4>1, <1>t
    <3>3. CASE d = e /\ DeliverEnds(d)
      <4>1. delivery'[e].pc = "done" /\ delivery'[e].todo = {}
        BY <3>3 DEF DeliverEnds, StreamType
      <4>2. DeliveredTo(e, s)' = 1
        BY <4>1 DEF DeliveredTo
      <4> QED
        BY <4>2, <1>t
    <3> QED
      BY <1>2, <3>1, <3>2, <3>3
  <2> QED
    BY <2>1, <2>2, <1>i, <1>t, <1>c, <1>u
<1>3. ASSUME NEW d \in Events, NEW t \in Subscribers, DeliverTo(d, t)
      PROVE  Inv
  <2>1. /\ received' = received /\ catchup' = catchup
        /\ delivery[d].pc = "deliver" /\ t \in delivery[d].todo
        /\ delivery'[d].pc = "deliver" /\ delivery'[d].todo = delivery[d].todo \ {t}
        /\ \A x \in Events \ {d} : delivery'[x] = delivery[x]
        /\ channel'[t] = Append(channel[t], d)
        /\ \A x \in Subscribers \ {t} : channel'[x] = channel[x]
    <3>1. /\ delivery[d].pc = "deliver" /\ t \in delivery[d].todo
          /\ delivery' = [delivery EXCEPT ![d] =
                [delivery[d] EXCEPT !.todo = delivery[d].todo \ {t}, !.at = {}]]
      BY <1>3 DEF DeliverTo, StreamType
    <3>2. /\ delivery'[d].pc = "deliver" /\ delivery'[d].todo = delivery[d].todo \ {t}
          /\ \A x \in Events \ {d} : delivery'[x] = delivery[x]
      BY <3>1, ServedIs
    <3> QED
      BY <1>3, <3>1, <3>2 DEF DeliverTo, StreamType
  <2>2. DeliveredTo(e, s)' = IF d = e /\ t = s THEN 1 ELSE DeliveredTo(e, s)
    BY <2>1 DEF DeliveredTo
  <2>3. d = e /\ t = s => DeliveredTo(e, s) = 0
    BY <2>1 DEF DeliveredTo
  <2>4. Copies(e, s)' = IF d = e /\ t = s THEN Copies(e, s) + 1 ELSE Copies(e, s)
    <3>1. CASE t # s
      BY <2>1, <3>1, <1>c
    <3>2. CASE t = s
      <4>1. Cardinality(Places(channel'[s], e)) =
              Cardinality(Places(channel[s], e)) + (IF d = e THEN 1 ELSE 0)
        <5>1. channel'[s] = Append(channel[s], d)
          BY <2>1, <3>2
        <5>2. Cardinality(Places(Append(channel[s], d), e)) =
                Cardinality(Places(channel[s], e)) + (IF d = e THEN 1 ELSE 0)
          BY <1>t, CountAppend
        <5> QED
          BY <5>1, <5>2
      <4> QED
        BY <2>1, <3>2, <4>1, <1>n, <1>t
    <3> QED
      BY <3>1, <3>2
  <2> QED
    BY <2>1, <2>2, <2>3, <2>4, <1>i, <1>t, <1>u
<1>4. ASSUME NEW d \in Events, NEW t \in Subscribers,
             DeliverReaches(d, t) \/ DeliverGivesUp(d, t)
      PROVE  Inv
  <2>1. /\ UNCHANGED <<channel, received, catchup>>
        /\ delivery'[d].pc = delivery[d].pc
        /\ delivery'[d].todo \in {delivery[d].todo, delivery[d].todo \ {t}}
        /\ \A x \in Events \ {d} : delivery'[x] = delivery[x]
    <3>1. CASE DeliverReaches(d, t)
      BY <3>1, ReachesIs
    <3>2. CASE DeliverGivesUp(d, t)
      <4>1. delivery' = [delivery EXCEPT ![d] =
                [delivery[d] EXCEPT !.todo = delivery[d].todo \ {t}, !.at = {}]]
        BY <3>2 DEF DeliverGivesUp
      <4> QED
        BY <3>2, <4>1, ServedIs DEF DeliverGivesUp
    <3> QED
      BY <1>4, <3>1, <3>2
  <2>2. DeliveredTo(e, s)' >= DeliveredTo(e, s)
    BY <2>1 DEF DeliveredTo
  <2> QED
    BY <2>1, <2>2, <1>i, <1>t, <1>c, <1>u
<1>5. ASSUME NEW t \in Subscribers, GetRecentEvents(t) \/ CatchUpEnds(t)
      PROVE  Inv
  <2>1. UNCHANGED <<delivery, channel, received>>
    BY <1>5 DEF GetRecentEvents, CatchUpEnds
  <2>2. CaughtUpOn(e, s)' >= CaughtUpOn(e, s)
    <3>1. CASE t # s
      <4>1. catchup'[s] = catchup[s]
        BY <1>5, <3>1 DEF GetRecentEvents, CatchUpEnds, StreamType
      <4> QED
        BY <4>1, <1>u, <1>t
    <3>2. CASE t = s /\ GetRecentEvents(t)
      <4>1. CaughtUpOn(e, s) = 0
        BY <3>2 DEF GetRecentEvents, CaughtUpOn
      <4> QED
        BY <4>1, <1>t
    <3>3. CASE t = s /\ CatchUpEnds(t)
      <4> DEFINE empty == <<>>
      <4>1. Elements(empty) = {}
        BY DEF Elements
      <4>2. catchup' = [catchup EXCEPT ![s] = [pc |-> "done", queue |-> empty]]
        BY <3>3 DEF CatchUpEnds
      <4> HIDE DEF empty
      <4>3. catchup'[s].pc = "done" /\ catchup'[s].queue = empty
        BY <4>2 DEF StreamType
      <4>4. CaughtUpOn(e, s)' = 1
        BY <4>1, <4>3 DEF CaughtUpOn
      <4> QED
        BY <4>4, <1>t
    <3> QED
      BY <1>5, <3>1, <3>2, <3>3
  <2> QED
    BY <2>1, <2>2, <1>i, <1>t, <1>c, <1>d
<1>6. ASSUME NEW t \in Subscribers, CatchUp(t) PROVE Inv
  <2> DEFINE q == catchup[t].queue
  <2>1. PICK i \in NextShown(t) :
          /\ channel' = [channel EXCEPT ![t] = Append(@, q[i])]
          /\ catchup' = [catchup EXCEPT ![t].queue = SubSeq(q, i + 1, Len(q))]
    BY <1>6 DEF CatchUp
  <2>2. /\ delivery' = delivery /\ received' = received
        /\ catchup[t].pc = "send" /\ catchup'[t].pc = "send"
        /\ catchup'[t].queue = SubSeq(q, i + 1, Len(q))
        /\ \A x \in Subscribers \ {t} :
              catchup'[x] = catchup[x] /\ channel'[x] = channel[x]
        /\ channel'[t] = Append(channel[t], q[i])
    <3>1. /\ channel \in [Subscribers -> Seq(Events)]
          /\ catchup \in [Subscribers -> [pc: {"none", "read", "send", "done"},
                                          queue: Seq(Events)]]
      BY DEF StreamType
    <3>2. /\ delivery' = delivery /\ received' = received /\ catchup[t].pc = "send"
      BY <1>6 DEF CatchUp
    <3> QED
      BY <2>1, <3>1, <3>2
  <2>3. CASE t # s
    BY <2>2, <2>3, <1>i, <1>c, <1>d, <1>u
  <2>4. CASE t = s
    <3>1. q \in Seq(Events) /\ i \in 1..Len(q) /\ q[i] \in Events /\ Distinct(q)
      BY <2>1 DEF StreamType, OnceInv, NextShown
    <3>2. /\ q[i] \in Elements(q) /\ q[i] \notin Elements(catchup'[t].queue)
          /\ Elements(catchup'[t].queue) \subseteq Elements(q)
      BY <2>2, <3>1, SentOnce
    <3>3. /\ CaughtUpOn(e, s) = IF e \notin Elements(q) THEN 1 ELSE 0
          /\ CaughtUpOn(e, s)' = IF e \notin Elements(catchup'[t].queue) THEN 1 ELSE 0
      BY <2>2, <2>4 DEF CaughtUpOn
    <3>4. /\ CaughtUpOn(e, s)' >= CaughtUpOn(e, s)
          /\ q[i] = e => CaughtUpOn(e, s) = 0 /\ CaughtUpOn(e, s)' = 1
      BY <3>2, <3>3
    <3>5. Copies(e, s)' = IF q[i] = e THEN Copies(e, s) + 1 ELSE Copies(e, s)
      <4>1. Cardinality(Places(channel'[s], e)) =
              Cardinality(Places(channel[s], e)) + (IF q[i] = e THEN 1 ELSE 0)
        <5>1. channel'[s] = Append(channel[s], q[i])
          BY <2>2, <2>4
        <5>2. Cardinality(Places(Append(channel[s], q[i]), e)) =
                Cardinality(Places(channel[s], e)) + (IF q[i] = e THEN 1 ELSE 0)
          BY <3>1, <1>t, CountAppend
        <5> QED
          BY <5>1, <5>2
      <4> QED
        BY <2>2, <4>1, <1>n, <1>t
    <3> QED
      BY <2>2, <3>4, <3>5, <1>i, <1>t, <1>d
  <2> QED
    BY <2>3, <2>4
<1>7. ASSUME NEW t \in Subscribers, Receive(t) PROVE Inv
  <2>1. /\ UNCHANGED <<delivery, catchup>>
        /\ channel[t] # <<>> /\ channel'[t] = Tail(channel[t])
        /\ received'[t] = [received[t] EXCEPT ![Head(channel[t])] = @ + 1]
        /\ \A x \in Subscribers \ {t} :
              channel'[x] = channel[x] /\ received'[x] = received[x]
    BY <1>7 DEF Receive, StreamType
  <2>2. CASE t # s
    BY <2>1, <2>2, <1>i, <1>c, <1>d, <1>u
  <2>3. CASE t = s
    <3>1. Cardinality(Places(channel[s], e)) =
            Cardinality(Places(channel'[s], e))
              + (IF Head(channel[s]) = e THEN 1 ELSE 0)
      BY <2>1, <2>3, <1>t, CountTail
    <3>2. received'[s][e] = received[s][e] + (IF Head(channel[s]) = e THEN 1 ELSE 0)
      BY <2>1, <2>3 DEF StreamType
    <3>3. Cardinality(Places(channel'[s], e)) \in Nat
      BY CountType DEF StreamType
    <3>4. Copies(e, s)' = Copies(e, s)
      BY <3>1, <3>2, <3>3, <1>n, <1>t
    <3> QED
      BY <2>1, <3>4, <1>i, <1>d, <1>u
  <2> QED
    BY <2>2, <2>3
<1>8. ASSUME NEW d \in Events, AddEventLocked(d) PROVE Inv
  <2>1. /\ UNCHANGED <<channel, received, catchup>>
        /\ Call("add", d) \in waiting
        /\ \A x \in Events \ {d} : delivery'[x] = delivery[x]
    BY <1>8 DEF AddEventLocked, StreamType
  <2>2. d = e => DeliveredTo(e, s) = 0
    BY <2>1 DEF OnceInv, DeliveredTo
  <2>3. DeliveredTo(e, s)' >= DeliveredTo(e, s)
    BY <2>1, <2>2, <1>d, <1>t
  <2> QED
    BY <2>1, <2>3, <1>i, <1>t, <1>c, <1>u
<1>9. ASSUME NEW t \in Subscribers, SubscribeLocked(t) PROVE Inv
  <2>1. /\ UNCHANGED <<delivery, channel, received>>
        /\ Call("subscribe", t) \in waiting
        /\ \A x \in Subscribers \ {t} : catchup'[x] = catchup[x]
    BY <1>9 DEF SubscribeLocked, StreamType
  <2>2. t = s => CaughtUpOn(e, s) = 0
    BY <2>1 DEF OnceInv, CaughtUpOn
  <2>3. CaughtUpOn(e, s)' >= CaughtUpOn(e, s)
    BY <2>1, <2>2, <1>u, <1>t
  <2> QED
    BY <2>1, <2>3, <1>i, <1>t, <1>c, <1>d
<1>10. ASSUME NEW who \in SUBSET Subscribers, Leave(who), UNCHANGED <<delivery, catchup>>
       PROVE  Inv
  <2>1. CASE s \notin who
    <3>1. channel'[s] = channel[s] /\ received'[s] = received[s]
      BY <1>10, <2>1 DEF Leave
    <3> QED
      BY <1>10, <3>1, <1>i, <1>c, <1>d, <1>u
  <2>2. CASE s \in who
    <3>1. channel'[s] = <<>> /\ received'[s][e] = 0
      BY <1>10, <2>2 DEF Leave
    <3>2. Copies(e, s)' = 0
      BY <3>1, <1>n, CountEmpty
    <3> QED
      BY <3>2, <1>t
  <2> QED
    BY <2>1, <2>2
<1>11. ASSUME NEW t \in Subscribers, UnsubscribeLocked(t) PROVE Inv
  <2>1. Leave({t}) /\ UNCHANGED <<delivery, catchup>>
    BY <1>11 DEF UnsubscribeLocked
  <2> QED
    BY <2>1, <1>10
<1>12. CASE CloseLocked
  <2>1. Leave(Subscribers) /\ UNCHANGED <<delivery, catchup>>
    BY <1>12 DEF CloseLocked
  <2> QED
    BY <2>1, <1>10
<1>13. CASE \/ \E d \in Events : AddEvent(d)
            \/ \E t \in Subscribers : \/ Subscribe(t) \/ Unsubscribe(t)
                                       \/ CatchUpPanics(t) \/ Cancel(t)
            \/ Close \/ CleanOldEvents \/ UNCHANGED vars
  <2>1. UNCHANGED <<delivery, channel, received, catchup>>
    BY <1>13 DEF AddEvent, Subscribe, Unsubscribe, CatchUpPanics, Cancel, Close,
                 CleanOldEvents, vars
  <2> QED
    BY <1>1, <2>1
<1> QED
  BY <1>2, <1>3, <1>4, <1>5, <1>6, <1>7, <1>8, <1>9, <1>11, <1>12, <1>13
  DEF Next, Delivering, CatchingUp, Locked

(* However many calls queue for the lock, an event is added once, a          *)
(* subscriber catches up once, and nobody has more copies of an event than   *)
(* the goroutines of AddEvent and of Subscribe that have sent it.            *)
THEOREM StreamInvariant == Spec => []StreamInv
<1>1. StreamInv /\ [Next]_vars => StreamInv'
  BY NextType, NextOnce, NextCopies DEF StreamInv
<1> QED
  BY InitInv, <1>1, PTL DEF Spec

(* An event comes twice at most, and once at most before its delivery has    *)
(* begun: live delivery and catching up send it once each, whatever          *)
(* subscribes, leaves, closes or waits for the lock in between.              *)
THEOREM TwoCopiesAtMost == Spec => []NoThirdCopy
<1>1. StreamInv => NoThirdCopy
  <2> SUFFICES ASSUME StreamInv, NEW e \in Events, NEW s \in Subscribers
               PROVE  Copies(e, s) <=
                        (IF delivery[e].pc \in {"none", "start"} THEN 1 ELSE 2)
    BY DEF NoThirdCopy
  <2>1. Copies(e, s) <= DeliveredTo(e, s) + CaughtUpOn(e, s)
    BY DEF StreamInv, CopyInv
  <2>2. Copies(e, s) \in Nat
    <3>1. /\ channel[s] \in Seq(Events) /\ received[s][e] \in Nat
      BY DEF StreamInv, StreamType
    <3>2. Cardinality(Places(channel[s], e)) \in Nat
      BY <3>1, CountType
    <3> QED
      BY <3>1, <3>2 DEF Copies, Places
  <2>3. /\ DeliveredTo(e, s) \in 0..1 /\ CaughtUpOn(e, s) \in 0..1
        /\ delivery[e].pc \in {"none", "start"} => DeliveredTo(e, s) = 0
    BY DEF DeliveredTo, CaughtUpOn
  <2> QED
    BY <2>1, <2>2, <2>3
<1> QED
  BY <1>1, StreamInvariant, PTL
===============================================================================
