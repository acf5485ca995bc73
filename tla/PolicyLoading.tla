---------------------------- MODULE PolicyLoading -----------------------------
(* The policies of a request: discovery, the sources one after the other with *)
(* a retry in the middleware around the retry in the HTTP loader, the cached  *)
(* loader and its store, and the evaluation of whatever was loaded            *)
(* (src/internal/authz/policy_discovery_middleware.go, policy_http_loader.go, *)
(* policy_cached_loader.go, policy_refresh.go, policy_loading.go).            *)
(*                                                                            *)
(* What a source says is the time at which its server said it. Computation    *)
(* takes no time; the network and the waits between attempts do.              *)
EXTENDS Evaluators, Integers, Sequences, Functions, SequencesExt

CONSTANTS Requests,
          Asks,              \* what is asked: resource, agent and modes
          Order,             \* the sources of a request, by priority
          SameType,          \* the sources that answer in the content type the
                             \* source was discovered with
          MaxPolicySources,
          MaxRetries,        \* of the middleware
          MaxFetchRetries,   \* of the HTTP loader
          Timeout,           \* of the discovery, from its start
          Expiry,            \* DefaultExpiryDuration
          MaxTime,           \* a bound on the clock
          None

ASSUME PolicyAssumption ==
    /\ Order \in Seq(Documents)
    /\ MaxPolicySources \in Nat /\ MaxPolicies \in Nat
    /\ MaxRetries \in Nat /\ MaxFetchRetries \in Nat
    /\ Timeout \in Nat \ {0}
    /\ Expiry \in Nat
    /\ MaxTime \in Nat
    /\ None \notin Nat

VARIABLES now,
          store,  \* the policy cache: per source None or what it said and
                  \* until when that is fresh
          req     \* per request where it is and what it has

vars == <<now, store, req>>

Idle == [pc |-> "idle", start |-> 0, todo |-> <<>>, attempt |-> 0, tries |-> 0,
         fetched |-> None, docs |-> <<>>, allowed |-> {}]

Set(r, record) == req' = [req EXCEPT ![r] = record]

Expired(r) == now >= req[r].start + Timeout
Source(r) == Head(req[r].todo)

(******************************************************************************)
(* The middleware.                                                            *)

(* The sources that are discovered, cut to as many as may be loaded.          *)
Sources ==
    SubSeq(Order, 1, IF Len(Order) > MaxPolicySources THEN MaxPolicySources
                                                      ELSE Len(Order))

Middleware(r) ==
    /\ req[r].pc \in {"idle", "done"}
    /\ Set(r, [Idle EXCEPT !.pc = "next", !.start = now, !.todo = Sources])
    /\ UNCHANGED <<now, store>>

(* A URI or links the discovery cannot use: the request goes on without       *)
(* policies.                                                                  *)
DiscoveryFails(r) ==
    /\ req[r].pc = "next" /\ req[r].todo = Sources
    /\ Set(r, [req[r] EXCEPT !.pc = "evaluate", !.todo = <<>>])
    /\ UNCHANGED <<now, store>>

(* loadPolicySources takes the next source, unless there is none or the time  *)
(* is over.                                                                   *)
LoadPolicySources(r) ==
    /\ req[r].pc = "next"
    /\ IF req[r].todo = <<>> \/ Expired(r)
       THEN Set(r, [req[r] EXCEPT !.pc = "evaluate", !.todo = <<>>])
       ELSE Set(r, [req[r] EXCEPT !.pc = "attempt"])
    /\ UNCHANGED <<now, store>>

(* After a source: the next one, with a fresh count of attempts.              *)
Further(r, docs) ==
    Set(r, [req[r] EXCEPT !.pc = "next", !.todo = Tail(@), !.attempt = 0,
                          !.tries = 0, !.fetched = None, !.docs = docs])

Loaded(r, t) ==
    Further(r, [s \in DOMAIN req[r].docs \union {Source(r)} |->
                   IF s = Source(r) THEN t ELSE req[r].docs[s]])

GivesUp(r) == Further(r, req[r].docs)

(* loadPolicySourceWithRetry after an attempt that failed.                    *)
AttemptFailed(r) ==
    IF req[r].attempt = MaxRetries THEN GivesUp(r)
    ELSE Set(r, [req[r] EXCEPT !.pc = "backoff", !.attempt = @ + 1, !.tries = 0,
                               !.fetched = None])

(* Mutant: the wait sleeps through the end of the context.                    *)
WaitEnds_Sleeps(r) == FALSE

(* The wait before the next attempt watches the context.                      *)
WaitEnds(r) == req[r].pc = "backoff" /\ Expired(r)

(* When the wait and the context end together, select takes either.           *)
Backoff(r) ==
    /\ req[r].pc = "backoff"
    /\ Set(r, [req[r] EXCEPT !.pc = "attempt"]) \/ (WaitEnds(r) /\ GivesUp(r))
    /\ UNCHANGED <<now, store>>

(******************************************************************************)
(* CachedPolicyLoader.                                                        *)

PolicyCacheStateAt(record) ==
    IF record = None THEN "missing"
    ELSE IF now >= record.expires THEN "expired" ELSE "fresh"

(* Mutant: a hit renews the record.                                           *)
LoadCached_Renews(r) ==
    /\ req[r].pc = "attempt" /\ ~Expired(r)
    /\ PolicyCacheStateAt(store[Source(r)]) = "fresh"
    /\ Loaded(r, store[Source(r)].fetched)
    /\ store' = [store EXCEPT ![Source(r)].expires = now + Expiry]
    /\ UNCHANGED now

LoadCached(r) ==
    /\ req[r].pc = "attempt" /\ ~Expired(r)
    /\ PolicyCacheStateAt(store[Source(r)]) = "fresh"
    /\ Loaded(r, store[Source(r)].fetched)
    /\ UNCHANGED <<now, store>>

LoadFromSource(r) ==
    /\ req[r].pc = "attempt" /\ ~Expired(r)
    /\ PolicyCacheStateAt(store[Source(r)]) # "fresh"
    /\ Set(r, [req[r] EXCEPT !.pc = "fetch"])
    /\ UNCHANGED <<now, store>>

AttemptTooLate(r) ==
    /\ req[r].pc = "attempt" /\ Expired(r)
    /\ GivesUp(r)
    /\ UNCHANGED <<now, store>>

(* The record is stored under the content type that came back, and not when   *)
(* the time is over. Whoever stores last wins.                                *)
StoreInCache(r) ==
    /\ req[r].pc = "store"
    /\ store' = IF Source(r) \in SameType /\ ~Expired(r)
                THEN [store EXCEPT ![Source(r)] =
                         [fetched |-> req[r].fetched, expires |-> now + Expiry]]
                ELSE store
    /\ Loaded(r, req[r].fetched)
    /\ UNCHANGED now

(******************************************************************************)
(* PolicyHTTPLoader.                                                          *)

(* The server answers with the policy, and the answer is on its way.          *)
Answer(r) ==
    /\ req[r].pc = "fetch" /\ req[r].fetched = None /\ ~Expired(r)
    /\ Set(r, [req[r] EXCEPT !.fetched = now])
    /\ UNCHANGED <<now, store>>

Receive(r) ==
    /\ req[r].pc = "fetch" /\ req[r].fetched # None /\ ~Expired(r)
    /\ Set(r, [req[r] EXCEPT !.pc = "store"])
    /\ UNCHANGED <<now, store>>

(* No connection, a server error or 429: again after a delay.                 *)
FetchRetry(r) ==
    /\ req[r].pc = "fetch" /\ req[r].fetched = None /\ ~Expired(r)
    /\ IF req[r].tries < MaxFetchRetries
       THEN Set(r, [req[r] EXCEPT !.tries = @ + 1])
       ELSE AttemptFailed(r)
    /\ UNCHANGED <<now, store>>

(* Another status, or a body the loader refuses: the middleware may retry.    *)
FetchFails(r) ==
    /\ req[r].pc = "fetch" /\ ~Expired(r)
    /\ AttemptFailed(r)
    /\ UNCHANGED <<now, store>>

(* A URI or a content type that is refused for good.                          *)
FetchRefused(r) ==
    /\ req[r].pc = "fetch" /\ ~Expired(r)
    /\ GivesUp(r)
    /\ UNCHANGED <<now, store>>

(* So do the client, while it waits for the server, and the wait between two  *)
(* tries.                                                                     *)
FetchEnds(r) == req[r].pc = "fetch" /\ Expired(r)

(* The request's context is done: the client returns.                         *)
FetchTooLate(r) ==
    /\ FetchEnds(r)
    /\ AttemptFailed(r)
    /\ UNCHANGED <<now, store>>

(******************************************************************************)

(* The evaluation does not change what was loaded, so that one request stands *)
(* for all that can be asked about the resource.                              *)
Allowed(docs) ==
    {judged \in Families \X Asks : Evaluate(judged[1], judged[2], docs) = "allow"}

(* One document that cannot be made (it is too large, or there twice) loses   *)
(* them all: the request goes on without policies.                            *)
DocumentsRefused(r) ==
    /\ req[r].pc = "evaluate" /\ req[r].docs # <<>>
    /\ Set(r, [req[r] EXCEPT !.docs = <<>>])
    /\ UNCHANGED <<now, store>>

EvaluateLoaded(r) ==
    /\ req[r].pc = "evaluate"
    /\ Set(r, [Idle EXCEPT !.pc = "done", !.allowed = Allowed(DOMAIN req[r].docs)])
    /\ UNCHANGED <<now, store>>

(* What the code does at once, or at the latest when the time is over.        *)
Prompt(r) ==
    \/ LoadPolicySources(r) \/ LoadCached(r) \/ LoadFromSource(r)
    \/ AttemptTooLate(r) \/ StoreInCache(r) \/ FetchTooLate(r) \/ EvaluateLoaded(r)
    \/ Expired(r) /\ Backoff(r)

Network(r) ==
    \/ Answer(r) \/ Receive(r) \/ FetchRetry(r) \/ FetchFails(r) \/ FetchRefused(r)
    \/ ~Expired(r) /\ Backoff(r)

(* Where the code does not wait: it computes, or its wait was ended by the    *)
(* context. Only where the code looks at the context does time stop for it.   *)
Urgent(r) ==
    \/ req[r].pc \in {"next", "attempt", "store", "evaluate"}
    \/ FetchEnds(r) \/ WaitEnds(r)

Tick ==
    /\ now < MaxTime
    /\ \A r \in Requests : ~Urgent(r)
    /\ now' = now + 1
    /\ UNCHANGED <<store, req>>

Init ==
    /\ now = 0
    /\ store = [s \in Range(Order) |-> None]
    /\ req = [r \in Requests |-> Idle]

Next ==
    \/ \E r \in Requests :
          \/ Middleware(r) \/ DiscoveryFails(r) \/ DocumentsRefused(r)
          \/ Prompt(r) \/ Network(r)
    \/ Tick

Spec == Init /\ [][Next]_vars

(******************************************************************************)
(* Properties.                                                                *)

(* Whatever a request is decided on was in force less than the lifetime of a  *)
(* record and two discovery timeouts ago, however slow the load was that      *)
(* filled the cache and whoever stored last: one timeout for the load that    *)
(* stored it and one for the request that found it.                           *)
AgeBounded ==
    \A r \in Requests : req[r].pc = "evaluate" =>
        \A s \in DOMAIN req[r].docs : now - req[r].docs[s] < Expiry + 2 * Timeout

(* What the rules of the documents grant, however many they are.              *)
Granted(docs) ==
    {judged \in Families \X Asks :
        /\ judged[2].modes # {}
        /\ EvaluateRequest(judged[1], judged[2], docs) = "allow"}

(* A policy that could not be loaded never grants: what a request is allowed  *)
(* after failures, the rules of all the sources together grant too. (They may *)
(* be too many for the evaluator, which then abstains.)                       *)
MissingNeverGrants ==
    \A r \in Requests : req[r].allowed \subseteq Granted(Range(Sources))
===============================================================================
