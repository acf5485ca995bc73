----------------------------- MODULE EventStream -----------------------------
(* The event stream layer (src/internal/runtime/event_stream.go): a bounded  *)
(* buffer of recent events, subscribers with a channel each, one goroutine   *)
(* per event that delivers it, and one per subscriber that catches up on the *)
(* buffer.                                                                   *)
(*                                                                           *)
(* The layer's RWMutex: a delivery holds it for reading from its first to    *)
(* its last subscriber, also while it waits for room in a channel, and goes  *)
(* on to nobody else until there is room. Who wants to write waits for the   *)
(* deliveries that hold it, and once somebody waits no new reader gets in.   *)
(* Events and filters are well formed.                                       *)
EXTENDS Naturals, Sequences, FiniteSets

CONSTANTS Events,
          Subscribers,          \* each subscribes at most once
          Shows,                \* per subscriber the events its filter and its
                                \* privacy level let through
          Wants,                \* and those of them its WebID lets through
          Reading,              \* the subscribers that keep taking events
          MaxStreamBufferSize,
          RecentEvents,         \* how many events a catch-up reads; 100 in the code
          MaxStreamSubscribers,
          BufferSize,           \* capacity of a subscriber's channel
          MaxWaiting            \* a bound: calls that wait for the lock at once

ASSUME StreamAssumption ==
    /\ MaxStreamBufferSize \in Nat /\ RecentEvents \in Nat
    /\ BufferSize \in Nat \ {0}

VARIABLES buffer,    \* eventStreamBuffer
          status,    \* "open", "closed", or "panicked"
          waiting,   \* the calls that wait for the write lock
          delivery,  \* per event its goroutine: where it is, whom it has yet to
                     \* look at, and the one of them it is sending to
          member,    \* per subscriber "new", "on" (in streamSubscribers), "off"
          active,    \* the Active flag
          context,   \* per subscriber whether the caller's context is done
          channel,   \* per subscriber its channel
          catchup,   \* per subscriber its catch-up goroutine
          received   \* per subscriber how often it has taken which event

vars == <<buffer, status, waiting, delivery, member, active, context, channel,
          catchup, received>>

subscriberVars == <<member, active, context, channel, catchup, received>>

Up == status = "open"

(*****************************************************************************)
(* The lock.                                                                 *)

Readers == {e \in Events : delivery[e].pc = "deliver"}
MayRead == Up /\ waiting = {}
MayWrite == Up /\ Readers = {}

(* The calls that lock for writing, first as they ask for the lock.          *)
Call(op, arg) == [op |-> op, arg |-> arg]

Waits(call) ==
    /\ Cardinality(waiting) < MaxWaiting
    /\ call \notin waiting
    /\ waiting' = waiting \union {call}

(*****************************************************************************)
(* Calls.                                                                    *)

(* AddEvent up to the lock: the event passed the validation, the rate        *)
(* limiter and the circuit breaker. A refusal changes nothing here, so that  *)
(* the breaker, which refused subscriptions open, has no variable.           *)
AddEvent(e) ==
    /\ MayRead /\ delivery[e].pc = "none" /\ Waits(Call("add", e))
    /\ UNCHANGED <<buffer, status, delivery, subscriberVars>>

Subscribe(s) ==
    /\ MayRead
    /\ member[s] = "new" /\ Waits(Call("subscribe", s))
    /\ UNCHANGED <<buffer, status, delivery, subscriberVars>>

(* Unsubscribe by the subscriber, or cleanInactiveSubscribers.               *)
Unsubscribe(s) ==
    /\ Up /\ member[s] = "on" /\ Waits(Call("unsubscribe", s))
    /\ UNCHANGED <<buffer, status, delivery, subscriberVars>>

Close ==
    /\ Up /\ Waits(Call("close", 0))
    /\ UNCHANGED <<buffer, status, delivery, subscriberVars>>

(* AddEvent with the lock: the event is added, the oldest one goes when that *)
(* is one too many, and a goroutine is started to deliver it.                *)
AddEventLocked(e) ==
    /\ MayWrite /\ Call("add", e) \in waiting
    /\ waiting' = waiting \ {Call("add", e)}
    /\ LET added == Append(buffer, e)
       IN  buffer' = IF Len(added) > MaxStreamBufferSize THEN Tail(added) ELSE added
    /\ delivery' = [delivery EXCEPT ![e].pc = "start"]
    /\ UNCHANGED <<status, subscriberVars>>

(* Subscribe with the lock; with the map full the caller is refused.         *)
SubscribeLocked(s) ==
    LET room == Cardinality({t \in Subscribers : member[t] = "on"}) < MaxStreamSubscribers
    IN  /\ MayWrite /\ Call("subscribe", s) \in waiting
        /\ waiting' = waiting \ {Call("subscribe", s)}
        /\ member' = [member EXCEPT ![s] = IF room THEN "on" ELSE "new"]
        /\ active' = [active EXCEPT ![s] = room]
        /\ catchup' = [catchup EXCEPT ![s].pc = IF room THEN "read" ELSE "none"]
        /\ UNCHANGED <<buffer, status, delivery, context, channel, received>>

(* What has left the map is not followed further, except that its catch-up   *)
(* goroutine may still be sending.                                           *)
Leave(who) ==
    /\ member' = [s \in Subscribers |-> IF s \in who THEN "off" ELSE member[s]]
    /\ active' = [s \in Subscribers |-> active[s] /\ s \notin who]
    /\ context' = [s \in Subscribers |-> IF s \in who THEN "done" ELSE context[s]]
    /\ channel' = [s \in Subscribers |-> IF s \in who THEN <<>> ELSE channel[s]]
    /\ received' = [s \in Subscribers |->
           IF s \in who THEN [e \in Events |-> 0] ELSE received[s]]

(* The channel is closed and only then is the derived context cancelled; the *)
(* delivery goroutines do not watch that one.                                *)
UnsubscribeLocked(s) ==
    /\ MayWrite /\ Call("unsubscribe", s) \in waiting
    /\ waiting' = waiting \ {Call("unsubscribe", s)}
    /\ Leave({s})
    /\ UNCHANGED <<buffer, status, delivery, catchup>>

CloseLocked ==
    /\ MayWrite /\ Call("close", 0) \in waiting
    /\ status' = "closed"
    /\ waiting' = {}
    /\ buffer' = <<>>
    /\ Leave(Subscribers)
    /\ UNCHANGED <<delivery, catchup>>

(* cleanOldEvents: what is older than the retention time leaves the buffer.  *)
CleanOldEvents ==
    /\ MayWrite /\ buffer # <<>>
    /\ buffer' = Tail(buffer)
    /\ UNCHANGED <<status, waiting, delivery, subscriberVars>>

(*****************************************************************************)
(* deliverToStreamSubscribers.                                               *)

Deliver(e) ==
    /\ MayRead /\ delivery[e].pc = "start"
    /\ delivery' = [delivery EXCEPT ![e] =
           [pc |-> "deliver", at |-> {},
            todo |-> {s \in Subscribers : member[s] = "on" /\ e \in Wants[s]}]]
    /\ UNCHANGED <<buffer, status, waiting, subscriberVars>>

(* The loop comes to the next subscriber that may have the event, in any     *)
(* order, and stays there to send, or passes on if it is not active.         *)
DeliverReaches(e, s) ==
    /\ Up /\ delivery[e].pc = "deliver"
    /\ delivery[e].at = {} /\ s \in delivery[e].todo
    /\ delivery' = IF active[s]
                   THEN [delivery EXCEPT ![e].at = {s}]
                   ELSE [delivery EXCEPT ![e].todo = @ \ {s}]
    /\ UNCHANGED <<buffer, status, waiting, subscriberVars>>

(* Mutant: the loop ends with the first subscriber that is served.           *)
DeliverTo_First(e, s) ==
    /\ Up /\ delivery[e].pc = "deliver" /\ s \in delivery[e].at
    /\ Len(channel[s]) < BufferSize
    /\ channel' = [channel EXCEPT ![s] = Append(@, e)]
    /\ delivery' = [delivery EXCEPT ![e].todo = {}, ![e].at = {}]
    /\ UNCHANGED <<buffer, status, waiting, member, active, context, catchup,
                   received>>

DeliverTo(e, s) ==
    /\ Up /\ delivery[e].pc = "deliver" /\ s \in delivery[e].at
    /\ Len(channel[s]) < BufferSize
    /\ channel' = [channel EXCEPT ![s] = Append(@, e)]
    /\ delivery' = [delivery EXCEPT ![e] =
           [delivery[e] EXCEPT !.todo = delivery[e].todo \ {s}, !.at = {}]]
    /\ UNCHANGED <<buffer, status, waiting, member, active, context, catchup,
                   received>>

DeliverGivesUp(e, s) ==
    /\ Up /\ delivery[e].pc = "deliver" /\ s \in delivery[e].at
    /\ context[s] = "done"
    /\ active' = [active EXCEPT ![s] = FALSE]
    /\ delivery' = [delivery EXCEPT ![e] =
           [delivery[e] EXCEPT !.todo = delivery[e].todo \ {s}, !.at = {}]]
    /\ UNCHANGED <<buffer, status, waiting, member, context, channel, catchup,
                   received>>

DeliverEnds(e) ==
    /\ Up /\ delivery[e].pc = "deliver" /\ delivery[e].todo = {}
    /\ delivery' = [delivery EXCEPT ![e].pc = "done"]
    /\ UNCHANGED <<buffer, status, waiting, subscriberVars>>

(*****************************************************************************)
(* The catch-up goroutine of Subscribe, which sends without the lock. It     *)
(* looks at the filter and the privacy level, not at the WebID.              *)

(* getRecentEvents: the last of the buffer.                                  *)
Recent ==
    SubSeq(buffer, IF Len(buffer) > RecentEvents
                   THEN Len(buffer) - RecentEvents + 1 ELSE 1, Len(buffer))

(* Mutant: the buffer is read again for every event that is sent.            *)
GetRecentEvents_Again(s) ==
    /\ MayRead /\ catchup[s].pc \in {"read", "send"}
    /\ catchup' = [catchup EXCEPT ![s] = [pc |-> "send", queue |-> Recent]]
    /\ UNCHANGED <<buffer, status, waiting, delivery, member, active, context,
                   channel, received>>

GetRecentEvents(s) ==
    /\ MayRead /\ catchup[s].pc = "read"
    /\ catchup' = [catchup EXCEPT ![s] = [pc |-> "send", queue |-> Recent]]
    /\ UNCHANGED <<buffer, status, waiting, delivery, member, active, context,
                   channel, received>>

(* The place of the next event in the queue that is shown to s, if any.      *)
NextShown(s) ==
    LET queue == catchup[s].queue
    IN  {i \in 1..Len(queue) : /\ queue[i] \in Shows[s]
                               /\ \A j \in 1..(i - 1) : queue[j] \notin Shows[s]}

CatchUp(s) ==
    /\ Up /\ catchup[s].pc = "send"
    /\ member[s] = "on" /\ Len(channel[s]) < BufferSize
    /\ \E i \in NextShown(s) :
          /\ channel' = [channel EXCEPT ![s] = Append(@, catchup[s].queue[i])]
          /\ catchup' = [catchup EXCEPT ![s].queue = SubSeq(@, i + 1, Len(@))]
    /\ UNCHANGED <<buffer, status, waiting, delivery, member, active, context,
                   received>>

CatchUpEnds(s) ==
    /\ Up /\ catchup[s].pc = "send"
    /\ NextShown(s) = {} \/ context[s] = "done" \/ member[s] = "off"
    /\ catchup' = [catchup EXCEPT ![s] = [pc |-> "done", queue |-> <<>>]]
    /\ UNCHANGED <<buffer, status, waiting, delivery, member, active, context,
                   channel, received>>

(* A send to the channel that was closed in the meantime.                    *)
CatchUpPanics(s) ==
    /\ status \in {"open", "closed"}
    /\ catchup[s].pc = "send" /\ NextShown(s) # {} /\ member[s] = "off"
    /\ status' = "panicked"
    /\ UNCHANGED <<buffer, waiting, delivery, subscriberVars>>

(*****************************************************************************)
(* The subscriber's side.                                                    *)

Receive(s) ==
    /\ Up /\ channel[s] # <<>>
    /\ received' = [received EXCEPT ![s][Head(channel[s])] = @ + 1]
    /\ channel' = [channel EXCEPT ![s] = Tail(@)]
    /\ UNCHANGED <<buffer, status, waiting, delivery, member, active, context,
                   catchup>>

Cancel(s) ==
    /\ Up /\ member[s] = "on" /\ context[s] = "live"
    /\ context' = [context EXCEPT ![s] = "done"]
    /\ UNCHANGED <<buffer, status, waiting, delivery, member, active, channel,
                   catchup, received>>

Init ==
    /\ buffer = <<>>
    /\ status = "open"
    /\ waiting = {}
    /\ delivery = [e \in Events |-> [pc |-> "none", todo |-> {}, at |-> {}]]
    /\ member = [s \in Subscribers |-> "new"]
    /\ active = [s \in Subscribers |-> FALSE]
    /\ context = [s \in Subscribers |-> "live"]
    /\ channel = [s \in Subscribers |-> <<>>]
    /\ catchup = [s \in Subscribers |-> [pc |-> "none", queue |-> <<>>]]
    /\ received = [s \in Subscribers |-> [e \in Events |-> 0]]

Delivering(e) ==
    \/ Deliver(e) \/ DeliverEnds(e)
    \/ \E s \in Subscribers :
          DeliverReaches(e, s) \/ DeliverTo(e, s) \/ DeliverGivesUp(e, s)

CatchingUp(s) ==
    GetRecentEvents(s) \/ CatchUp(s) \/ CatchUpEnds(s) \/ CatchUpPanics(s)

Locked ==
    \/ \E e \in Events : AddEventLocked(e)
    \/ \E s \in Subscribers :
          SubscribeLocked(s) \/ UnsubscribeLocked(s)
    \/ CloseLocked

Next ==
    \/ \E e \in Events : AddEvent(e) \/ Delivering(e)
    \/ \E s \in Subscribers :
          Subscribe(s) \/ Unsubscribe(s) \/ CatchingUp(s) \/ Receive(s) \/ Cancel(s)
    \/ Locked
    \/ Close \/ CleanOldEvents

(* The subscriber takes events now: one that has called Unsubscribe need not *)
(* come back to its channel before the call returns.                         *)
Reads(s) == s \in Reading /\ Call("unsubscribe", s) \notin waiting

(* Goroutines run, the subscribers that keep reading read, and the mutex is  *)
(* handed to who waits: an RWMutex lets the readers in that waited for a     *)
(* writer before the next writer, so a reader is not passed over for ever.   *)
Fairness ==
    /\ WF_vars(Locked)
    /\ \A e \in Events : SF_vars(Deliver(e)) /\ WF_vars(Delivering(e))
    /\ \A s \in Subscribers : WF_vars(Reads(s) /\ Receive(s)) /\ WF_vars(CatchingUp(s))

Spec == Init /\ [][Next]_vars /\ Fairness

(*****************************************************************************)
(* Properties.                                                               *)

Copies(e, s) ==
    received[s][e] + Cardinality({i \in 1..Len(channel[s]) : channel[s][i] = e})

(* An event comes to a subscriber twice at most, and once at most before its *)
(* delivery has begun: the goroutine that delivers it may start after the    *)
(* subscription although the event was added, and caught up on, before it.   *)
NoThirdCopy ==
    \A e \in Events, s \in Subscribers :
        Copies(e, s) <= (IF delivery[e].pc \in {"none", "start"} THEN 1 ELSE 2)

Gone(s) == member[s] = "off" \/ context[s] = "done" \/ status # "open"

(* A delivery is waiting for a subscriber that does not read. It holds the   *)
(* lock, so that everybody else waits for that subscriber too, an            *)
(* Unsubscribe by the very one included.                                     *)
HeldUp ==
    \E e \in Events, s \in Subscribers :
        s \in delivery[e].at /\ Len(channel[s]) = BufferSize /\ ~Reads(s)

(* An event that is being delivered reaches a subscriber that keeps reading, *)
(* however many calls queue for the lock, if no delivery is held up for good *)
(* by a subscriber that does not read.                                       *)
DeliveredInTheEnd ==
    []<>~HeldUp =>
        \A s \in Reading : \A e \in Wants[s] :
            (delivery[e].pc = "start" /\ member[s] = "on" /\ active[s])
                ~> (received[s][e] > 0 \/ Gone(s))

===============================================================================
