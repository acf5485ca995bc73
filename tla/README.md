# solid-sidecar: TLA+ models

solid-sidecar is an HTTP gateway in front of a Solid server (Community Solid
Server). It checks how a request authenticates, evaluates authorization in
*shadow* (it logs what it would have decided), and under an *enforcement gate*
may one day enforce. Around that core the repository holds a native runtime, a
storage engine, notifications, SDKs and tools, most of them experimental or
switched off (`docs/canonical-status.md`).

The models cover three layers: what every request goes through and what decides
whether authorization is enforced (gate, decision cache and its invalidation,
authentication preflight, shadow evaluation, policy loading and evaluation);
what keeps resources (the storage engine, and the storage layer and container
service of the native runtime); and what tells clients of changes (the durable
event log and the live event stream).

## Inventory

Paths are under `src/internal/`.

| Part | State it keeps | Operations | What makes it hard | What makes it correct | Module |
|---|---|---|---|---|---|
| Enforcement gate, `authz/enforcement_gate.go` | mode, bypass tokens, closed, mismatch, comparison and canary counters, time of the last change | operator calls, comparison and mismatch records, the two halves of `ShouldEnforceForRequest`, `AutoRevertIfNeeded` | a verdict in two locked halves; cached verdicts; a deadline only requests notice | enforcement only on evidence, exact canary, expiry ends | `EnforcementGate` |
| the gate's mutex | `sync.RWMutex` | readers, a reader that locks twice, writers | nested read lock | calls return | `GateLocking` |
| Decision cache, `authz/cache/cache.go`, `authz/caching_evaluator.go` | entries with expiry, caching switch | `Evaluate` (Get, evaluate, Put), invalidations, Clear | judged copies, stores after invalidations, a full cache | same answers as without a cache | `DecisionCache`, `Authorizer` |
| Policy change notifier, `authz/policy_change_notifier.go` | known versions, subscribers, channels, `running`, `stopChan` | subscribe, close, scan, trigger, add and remove paths | a scan in steps, dropped events, close from several places | one monitor, subscribers in step, changes noticed | `PolicyChangeNotifier` |
| Notifier and cache together | both | the listener of the caching evaluator | which version to forget, in which of two hashes | a replaced version leaves the cache | `PolicyInvalidation` |
| Preflight and DPoP, `authn/middleware.go`, `dpop.go`, `replay_cache.go` | replay cache | preflight, `Store`, `Cleanup` | two readings of the clock, eviction of live entries, an age check that outlasts the memory | no second use inside the replay window | `DPoPReplay` |
| Shadow middleware and backoff, `authz/middleware.go`, `backoff_evaluator.go` | failures, next allowed attempt | evaluate, record, fall back, serve | overlapping attempts, cancelled clients | backoff ends, requests are served | `ShadowEvaluation` |
| Policy discovery and loaders, `authz/policy_discovery_middleware.go`, `policy_http_loader.go`, `policy_cached_loader.go`, `policy_refresh.go` | policy cache with expiry | discover, load with retries in retries, cache, hand on | one deadline over two levels of retry, records stored by slow loads, one bad document, two limits on the number of policies | bounded age, nothing gained from what is missing | `PolicyLoading` |
| WAC and ACP evaluators, `authz/wac_evaluator.go`, `acp_evaluator.go` | none | evaluation | which rules apply when documents are missing | more documents never take a right away | `Evaluators` |
| Storage engine, `storage/engine.go`, `filesystem.go`, `memory.go`, `transaction.go`, with backup, integrity and the invalidator | bodies, metadata, quota and its file, tombstones, transactions | Get, conditional Put, Delete, DeleteWithTombstone, Commit, restore, repair | no lock over test and write or over read and keep, failing file operations, a quota file that gets lost, crashes | no lost update, quota covers what is stored, policy cache fresh | `StorageEngine` |
| Runtime storage, `runtime/storage.go`, `storage_conditional.go`, `container_operations.go` | registered backends, container locks | conditional writes with retries, create and delete, registering, removing and closing backends | lost answers, late requests, a default backend that changes | no lost update, no duplicate create, true reports | `RuntimeStorage` |
| Durable event log, `runtime/durable_event_log.go` | files, sequence counter, index, subscriptions | write, flush, rotate, clean up, restart, subscribe from a cursor | torn lines, lost unsynced lines, files that cannot be read, the order of file names | numbers unique, nothing skipped | `DurableEventLog` |
| Event stream, `runtime/event_stream.go` | buffer, subscribers, channels | publish, subscribe, catch up, deliver, clean, close | a lock held while a channel is full, catching up beside live delivery | delivered to who reads, and not three times | `EventStream` |
| Subscription registry and fan-out, `runtime/subscription_registry.go`, `fanout_worker.go` | subscriptions, indexes, queues | create, update, expire, distribute | two maps in step, requeues | limits and indexes agree | not modelled |
| Identity verification, `authn/verifier.go`, `issuer.go`, `webid_cache.go`, `dpop_key_rotation.go` | issuer, JWKS and WebID caches, keys | discovery, verification, rotation | stale caches, overlapping keys | no verdict from an expired entry | not modelled |
| Rate limiter, `ratelimit/limiter.go`; request path, `gateway/server.go` | counts per address; none | `Allow`; order of the middlewares | one mutex, one step; fixed at start | – | not modelled |

How they interact: `gateway.New` wraps the reverse proxy in preflight, then the
shadow middleware, then the gate's middleware, then compression, tracing, rate
limiting and the safety checks; the last one wrapped is the first to see a
request. All of them run on the request's goroutine and share only what the
table lists, each under its own mutex. The notifier's monitor and the cache's
listener are goroutines of their own, joined by a channel. The policy discovery
hands its documents to the evaluators through the request's context. The storage
engine tells the invalidator after a write, which removes entries from a policy
cache; the container service calls the runtime's storage layer, which calls the
default backend. Log and stream are fed by the runtime and read by subscribers
through channels. Everything else in the repository is listed with its reason in
`PROJECT.json`.

## Modules

One module per component; `MC*` modules only give constants their values, bounds and
views, and put two components side by side in `MCCacheAndNotifier` and `MCRequestPath`;
`*Proofs` modules hold the theorems and extend the module they are about.
`PolicyInvalidationProofs` extends the composition, and so the notifier and the
cache too; `RequestPathProofs` extends `DPoPReplay` and `ShadowEvaluation`. Names
such as `NotifierInit`, `CacheSpec` and `ShadowNext` keep the parts apart where
one module extends several. **PolicyVersions** declares the constants that the
notifier and the cache share.

**EnforcementGate.** Every exported operation of the gate is an action. A
request is a caller with a program counter, because `ShouldEnforceForRequest`
locks twice: `CheckGate` is the first half (`ShouldEnforce`), `CheckRequest` the
second (canary and allowlists), and operators may act in between. The middleware
is `MiddlewareHeaders` and `AutoRevertIfNeeded`. Time is `age`, the time since
enforcement began, which stops counting just past the limit. Percentages are
compared as exact ratios: the code uses `float64`. `options` is a variable that
never changes, so that one run covers several configurations.

**GateLocking.** The same gate seen from `sync.RWMutex`: a writer announces
itself, readers that come later wait, and `ShouldEnforce` calls
`IsEmergencyBypassActive` with the read lock held. The lock itself is the Go
library's and marked external.

**Authorizer** is the abstract specification: a caller asks about a key and is
told allow exactly when the policy allows (or gets an error). **DecisionCache**
is the caching evaluator: a call of `Evaluate` is five or six steps, and locks
are released between `GetLookup`, `GetJudge` and `GetDelete` as in `Get`. A ghost
flag `overtaken` remembers that an invalidation of the key came while the
decision was being made.

**PolicyChangeNotifier** has the scan in its steps (read the known version, hash
the file, store, notify), several monitors if the code should start them, and
channels with a capacity. `seen` and `unsure` are ghosts: what each subscriber
was last told, and the paths for which an event was dropped. **PolicyInvalidation**
composes it with `DecisionCache` and adds the listener that takes an event and
performs the two invalidations as separate steps. The constant `RequestVersion`
takes the hash of a file, which is the notifier's version, to the version requests
carry: `BuildRequest` hashes the canonical documents and puts `sha256:` before it
(`DocumentsHash`), unless `BuildOptions.PolicyVersion` gives another
(`WatchersHash`; nothing in the repository sets it).

**DPoPReplay.** `Preflight` is the whole header decision and the age check,
`Store` the replay cache under its lock; the clock and other handlers come
between. Proof parsing, signature, `htm`, `htu`, `ath` and key binding are one bit
(`fits`). Eviction picks any set of live entries of the size the code computes,
since Go's map order is arbitrary. The ghost `used` holds the proofs accepted and not
displaced since by a full cache.

**ShadowEvaluation.** One handler per request; `AllowAttempt`, `RecordFailure` and
`RecordSuccess` are the three critical sections, the command runs between them.
`wait` is the time left until `nextAllowed`. Failures count up to 32: above that
the shift limit makes the delay independent of the counter, so the bound loses
nothing. `Doubled` is the base delay after so many
rounds of the loop, `Delay` says at which of them the loop stops.

**Evaluators** are the two evaluators as operators over the documents a request
has: a document becomes two fixed rules, as both parsers do in this version.
**PolicyLoading** extends them with the way to the documents. A request walks
through its sources by priority; for each it makes attempts of the middleware,
each of which looks into the cache and else makes attempts of the HTTP loader.
What a source says is the time at which its server said it, so that the age of a
policy can be talked about. Computation takes no time (`Prompt` steps are taken
before the clock moves); answers and waits between attempts do (`Network`). Time
stops at the deadline only where the code looks at the context while it waits
(`WaitEnds`, `FetchEnds`). The limits `MaxPolicySources` of the discovery and
`MaxPolicies` of the evaluators are independent. `DiscoveryFails` and
`DocumentsRefused` are the error paths after which the request goes on without
policies.

**StorageEngine.** A call of a backend holds the backend's mutex and is one step;
the engine holds no lock, so an engine operation is several steps with everybody
else's between them: the engine's test of the precondition, the write with the
backend's own test, the notification. An ETag is a digest of the body and the
body stands for it. A filesystem write that fails or is cut short by a crash has
several outcomes: the old body, a fragment or all of the new one, with old metadata, or
metadata that does not parse. The count of the bytes in use is in memory, and `saved` is
its file: a save may fail or leave a broken file (`SaveQuotaInfo`), and a start that
cannot use the file begins with nothing counted and no limit (`LoadQuotaInfo`). A limit
only ever comes from that file. Transactions, backup, `restoreResource` and the repair of
sizes are operations of the same engine. A caller of the policy engine reads a policy
(`PolicyLoad`) and hands it over in a later step (`LoadPolicy`). Ghosts: `torn` (a write
of this resource was cut short or patched, so its metadata may name another body), `last`
(which operation changed the resource last, because only `Put` notifies reliably),
`unaccounted` (bytes are stored or claimed that nobody counts), `late` and `stale` (a
client is about to keep, or kept, a policy it had read before the notification that it
was replaced).

**RuntimeStorage.** One resource of one container. The layer's `Put`, `Delete`,
`Exists`, `Get` and the conditional forms are attempts of a call at the backend
that was the default when the operation began. The server behind the HTTP backend
is external: a request may be lost, take effect with its answer lost, or arrive
after its caller has given up (`late`). `AcquireLock` is the container service
taking the lock of the container; it then looks, writes and reads back. Ghosts: `done`
(the write has taken effect), `disturbed` (something the container's lock does
not exclude came between look and write), `report` (what a caller was told in the
last step).

**DurableEventLog.** One RWMutex, so an operation is one step. A file is its
lines, how many of them are surely on disk, whether it ends in a broken line
(`torn`) and whether the tracked size is behind (`skewed`). A restart keeps any
prefix of the lines that covers the synced ones, reads the counter from the last
line of every file it can read, and lists the files in the order of their names, which
is the order of digits and not of numbers. A directory that cannot be read means a fresh
start with no files, a file without file info is not listed, one that cannot be read is
listed and does not count; `blind` remembers that numbers were overlooked which the
counter gives again. A read of the log passes over the files it cannot read (`Batch`);
`missed` remembers that a subscription lost something by it, and `known` what the counter
was when it read the history. What a reader gets is the set of the entries
that parse, each with its file and line, and `ReadBefore` is the order it takes
them in. Rotation under the lock takes the lock again
and is the status `"stuck"`.

**EventStream.** Calls that lock for writing first wait (`waiting`) and then act
(`Locked`); a delivery is a reader from its first to its last subscriber, comes to
one after the other (`DeliverReaches`) and stays at the one it has reached, with the
lock, while that one's channel is full; a reader does not enter while a writer waits. `Cancel` is a subscriber whose context ends, `CatchingUp` the goroutine
that replays the buffer without the lock: it copies the last `RecentEvents` of the
buffer under the lock and applies the subscriber's filter as it sends (`NextShown`).
A send on a closed channel ends the process (`"panicked"`).

## Runs

| Run | Shows | Instance |
|---|---|---|
| `gate` | evidence behind `thresholdMet`, evidence and permission behind every switch to enforcing, the startup guardrail, the cause of auto-disable, a closed gate only relaxes, the exact canary share, expiry ends | eight configurations: the gateway's own, thresholds with auto-disable, a time limit with a header canary, percentage canaries at 0, 1, 2, 99 and 100; counters to 3, two hundreds of canary requests; one request at a time besides the operators |
| `lock` | only the nested read lock can hang a call | two readers of each kind, two writers |
| `decisions` | the cache: size and lifetime, agreement, refinement of `Authorizer`; the notifier: one monitor, subscribers in step, lasting changes noticed | two callers, two agents, two policy versions, room for one entry; one path, two subscribers, channels of one event |
| `invalidation` | a reported update removes the decisions under the replaced version, where requests carry the watcher's hashes | one path, two contents or none, one listener, one caller |
| `versions` (violation) | with the hashes `BuildRequest` computes an update removes nothing | the same, with two more versions |
| `requests` | the preflight: bounded cache, accepted proofs remembered for their window, no second use before its end; the shadow evaluation: backoff follows the failures, never shortened by a late failure, requests served, evaluator recovers | two handlers, three proof keys for two places, window 2, skew 1, clock to 3; two evaluations, delays 1 to 5, 32 failures |
| `policy` | a request decides on nothing older than the bound, and is granted nothing because a policy is missing | two requests over a shared cache, two sources of which one answers in another type, an evaluator that takes one policy, one retry at each level, deadline 2, lifetime 2, clock to 6 |
| `quota` | the count covers what is stored until one of three named losses, and keeps within the limit as long as there is one | one client and a transaction, two resources, bodies of length 2 and fragments of length 1, limit 3, both backends |
| `storage` | a conditional write replaces what it names, a written policy is not shadowed by an older cached one except by a client that had read it before | two clients, one policy resource, two bodies and a fragment, no limit, the filesystem, every kind of precondition |
| `remote` | no lost update, no duplicate create, true reports, calls return | one caller that creates, one that creates, deletes, updates with If-Match and adds with If-None-Match; a memory and an HTTP backend; one retry, one late request |
| `eventlog` | numbers unique, unless a start overlooked a number it gives again; what was written is found; no holes in a resumed subscription, everything due sent in the end | two events, two events to a file, three files, a retention size of three lines, a counter that starts at 3 with digits in base 2, so that names change their length, and a subscription that resumes from 3, the next number |
| `stream` | an event comes twice at most, and reaches every subscriber that reads on unless a delivery is held up for good | two events, two subscribers with different filters of which one keeps reading, a buffer, a catch-up and channels of one |

The run marked violation checks one sentence of a comment, which `PROJECT.json` quotes
under "findings", and TLC finds the behaviour of the code that contradicts it. `decisions`
and `requests` hold two components each that share no state: the variable `part` of the MC
module says which one moves, so that the run explores one after the other, and symmetry
permutes names of the one whose properties are all safety.

Why these bounds: every limit is met and passed (a full cache, a full channel, a
canary past two wraps, an odd maximum delay, a proof at each end of its window, a
quota that two writes exceed, a file name that gets a digit, a buffer that
drops), and two actors suffice for each race the code has, because every critical
section involves one actor and shared state. In `gate` the other requests' only
effects on the shared state are a return to shadow, which operators have too, and
the canary counter; the theorems cover any number of callers. In `storage` the
constraint `Bound` has one of a transaction, a backup and a policy cache at a time
beside the clients, since each of them is a sequence of the same backend calls; the view
`Uncounted` leaves the counts out of a state, which nothing depends on without a limit.
In `quota` every backend call counts by itself, so one client is enough, and two
resources because what one loses the other is short of; `QuotaBound` keeps a transaction,
a backup and calls apart, takes backups of resources whose size is wrong, and stops at
three bytes (`ByteBound`) where the limit was lost; the view `Counted` leaves out the
ghosts of the other properties. The theorems have none of these bounds.
In `stream` one call waits for the lock at a time (`MaxWaiting`): waiting writers keep readers out together or alone. A cap on a counter or on the
clock is in the guard of the action that would pass it and is named in the module
(`CountBound`, `CanaryBound`, `TimeBound`, `Capacity`, `Saturated`, `MaxTime`,
`MaxFiles`, `MaxWaiting`, `LateBound`).

Every property of a passing run has a mutant in `PROJECT.json`: a definition of the model
with a plausible mistake, defined just before the one it replaces, under which
TLC reports that property.

### Fairness

Goroutines that have begun a call run on when they can (weak fairness of their
steps); nothing obliges a client, an operator or a file to do anything. Beyond that:

- `sync.Mutex` is starvation-free: strong fairness for a writer announcing itself
  (`lock`) and for the container's lock (`remote`);
- `sync.RWMutex` lets the readers that waited for a writer in before the next
  writer: strong fairness of `Deliver` (`stream`);
- a policy file that can be read again and again is read at some time: strong
  fairness of `Hash`, the ticker repeating the scan (`decisions`);
- the external command and the HTTP client have a timeout, so an evaluation and an
  attempt end (`requests`, `remote`), and time passes while a backoff is running;
- the subscription's ticker ticks and its reader takes what is sent (`eventlog`);
- of the subscribers of the stream only those in `Reading` take what is in their channel,
  and not while they are inside `Unsubscribe` (`stream`). The others may stop at any time:
  that no delivery waits for such a one for ever is a premise of `DeliveredInTheEnd`.

`EvaluatorRecovers` states its own assumptions: the command works, clients stay,
requests keep coming.

### Deadlock

Checked except in `lock` (a hang behind the nested lock is what the property tells
apart), `decisions` and `stream` (a panic or a close ends the component), `eventlog` (a
closed or stuck log with the bound of files reached) and `policy` (the clock is
bounded).

## Proofs

| Theorem | Argument |
|---|---|
| `GateTypeCorrect` | inductive as it stands; the counters have to be ordered (consecutive, matches, total), which is part of the type |
| `EvidenceBehindFlag` | `ThresholdEvidence` with the type. The code does not look at the counters again while the flag is set, so the step needs `PercentGrows`: one more match never lowers a percentage |
| `EnforcementNeedsEvidence` | from the previous one: `SetMode` only reads the flag |
| `ShadowGateNeverEnforces` | the guardrail together with "no caller is past the first half" |
| `ClosedGateStaysOut` | by action |
| `AutoDisabledForCause` | inductive with the type: the counter has to be a natural number |
| `CanaryShareExact` | `CanaryShare` speaks of full hundreds only and is not inductive; `CanaryExact` counts the rest of the hundred as well, and `OneMoreRequest` is the arithmetic of one step |
| `CacheTypeCorrect` | inductive |
| `CacheAgrees` | the entry, the copy judged, the decision about to be stored and the answer all agree with the evaluator on their own key |
| `CacheWithinLimits` | inductive with the type and the finiteness of the cache, without which its size says nothing |
| `CacheIsAuthorizer` | refinement mapping: `asking` is the key of a call in progress, `answer` its result; every step is an `Ask`, a `Reply` or a stutter, by `CacheAgrees` |
| `ReplayTypeCorrect` | inductive |
| `AcceptedProofsRemembered` | inductive with the type: until its window ends, an accepted proof that was not displaced keeps its entry, with the end of the window as its expiry |
| `ProofReusedPastWindow` | from the previous one: `Store` refuses a live key. It says when a proof may come again, not that it cannot |
| `ReplayCacheBounded` | finiteness of the cache is needed besides its size; `RoomForOne` counts what eviction leaves |
| `NotifierTypeCorrect` | inductive |
| `OneMonitorOnly` | `OneMonitor` is not inductive: a second subscriber starts no second monitor because of `running`, which has to be right in both directions while the notifier is open (`MonitorInv`) |
| `SubscribersToldInStep` | `NotifyInv`: the version a monitor is about to notify is the one it stored; and `MonitorInv`, since a second monitor could store another one in between |
| `NotifierPreserved` | the composition implements the notifier: nobody closes it, so it never panics, and the other steps leave it alone |
| `CachePreserved` | the composition implements the cache. What the channels carry and a listener has in hand is an event about a policy file (`ListenerInv`), so what it forgets is a hash of the set `Versions` the keys are made from, though not necessarily one that requests carry; invalidating the URI of a file removes nothing since files are no resources, and that this is a stutter needs the cache to be a function |
| `InvalidationIsSafe`, `InvalidationIsAuthorizer` | from the two before and the theorems about the parts |
| `BackoffInvariant` | the time left is at most the delay of the failures counted (`BackoffInv`); `BackoffFollowsFailures` bounds nothing past 31 failures and is not inductive |
| `BackoffCounted`, `BackoffNotShortened` | from it by `DelayRange` and `DelayGrows`: a delay short of the maximum has taken none of the loop's early returns, and neither has a shorter loop. That `Doubled` satisfies its recursive equation, and grows, is proved through a least counterexample |
| `StorageTypeCorrect` | inductive; a stored version's validator is its own body's or empty |
| `ReportsTrue` | `ReportsAreTrue` is silent about calls under way; `EffectKnown` says where a call has taken effect, where it has not, and that only a retried write may have either |
| `ConditionalWritesReplaceNamed` | by action, from the type: the backend tests the precondition in the step that writes |
| `CreateFindsNothing` | a call of the service that is about to write holds the container's lock, has looked, and there is nothing unless it was disturbed |
| `EngineInvariant` | type of disk, quota file, clients, transaction and backup over every outcome of a file operation, with the tag and quota parts below |
| `QuotaCoversStored` | `QuotaCovers` is not inductive: `Delete` releases what the metadata claims. What is: the charge covers, summed over the resources, the larger of a body's length and its recorded size, until one of the three losses (`unaccounted`); and the quota file, when it parses, holds a count within its own limit, which is what a start takes over. The sum of `FoldSet` over any finite set is taken apart by lemmas proved through a least counterexample |
| `NoLostUpdate` | the metadata of a resource no write was cut short on names its body, so the backend's own test of the ETag is a test of the body |
| `PolicyCacheNeverStale` | a cached policy is the stored one, except while a put has written and not yet notified, or when a client that had read it before the notification kept it. The same is said of the copies clients are about to keep (`ReadInv`), since those become the cached ones |
| `LoadingInvariant` | one invariant per request (its place has what it needs, what it waits for began at most a timeout ago, what it has was said after it began or came from a record that is in time, what it was allowed the rules of all documents grant), kept by every step of any other request because they share only the cache |
| `PolicyAgeBounded`, `FailuresNeverHelp` | from `LoadingInvariant`; the second rests on the monotonicity in their documents of the rules of both evaluators, with no assumption on which limit is the larger |
| `LogInvariant` | numbers are bounded in any case (`BoundInv`), and grow along a file and from file to file and stay below the counter while no start has overlooked any (`OrderInv`); the index is true of this process's writes (`IndexInv`); an event that is due was sent, is in the batch, or is newer than everything sent and in the batch, as long as no read missed a file (`SubInv`). The counter read at a restart is above the numbers of every file that could be read since the last line of a file that parses has the largest one; that a bounded set of numbers has a largest is proved from the well-foundedness of `<` |
| `NumbersIdentifyEvents`, `WritesAreFound`, `SubscriptionHasNoGap` | from `LogInvariant`: entries with one number are at one place, the index points at a line that is read, and a waiting subscription has an empty batch, so what is due up to its cursor was sent |
| `StreamInvariant` | an event is added once and a subscriber catches up once, whatever waits for the lock (`OnceInv`); of the copies of an event at a subscriber the delivery accounts for one at most and the catch-up for one, which it no longer has in its queue (`CopyInv`). Copies are counted as positions in the channel, so sending and receiving change a cardinality by one |
| `TwoCopiesAtMost` | from `CopyInv` |

The assumptions are the named `ASSUME`s of the modules. Most are what the constructors
check: positive sizes, windows and timeouts, ordered delays, natural times and counts.
The others keep names apart: the empty validator is no body's digest and not `*`, a
digest is none of the words that stand for an error, a line that does not parse is no
entry, a policy file is no resource a request is about, and a missing file has no version.
The resources of the storage engine are finitely many, and nothing is assumed of its
limits, of the size of fragments, or of which of two limits is larger.

Only model-checked is everything temporal beyond `[]` (`ExpiryReverts`,
`OnlyNestingBlocks`, `ChangeNoticed`, `UpdateReachesCache`, `RequestsAreServed`,
`EvaluatorRecovers`, `SentInTheEnd`, `DeliveredInTheEnd`, `CallsReturn`), because the
prover has neither fairness nor ENABLED. Every invariant and every action property of a
run is a theorem.

## Observations

Met while modelling; the models do what the code does, and no property calls it
correct. Where a document, a comment or a test says otherwise, it is quoted.

Gate, cache, notifier and authentication:

- A request past the first half of `ShouldEnforceForRequest` (`enforcement_gate.go:741`)
  is enforced after `EmergencyBypass` has returned, because the second half (`:745`) does
  not look at the bypass again; `docs/enforcement-canary-controls.md:398` says "This
  immediately disables enforcement for all requests".
- `ShouldEnforce` holds `g.mu` for reading and calls `IsEmergencyBypassActive`, which
  locks it again (`enforcement_gate.go:724`): with a writer in between both hang, and
  every later call of the gate. `enforcement_gate_test.go:990-995` ("Should not panic and
  gate should still be functional") tests concurrent calls without `ShouldEnforce`. The
  `lock` run shows that nothing else hangs.
- A decision made before an invalidation may be stored after it
  (`caching_evaluator.go:249`) and is served until it expires; `cache/cache.go:157-158`
  says "This is called when a policy changes to ensure stale decisions are not used".
- `Close` of the notifier (`policy_change_notifier.go:155`, `:167`) closes the channels;
  a listener that returns calls `Close` again (`caching_evaluator.go:388`), which closes
  the closed `stopChan` and panics.
- The version of a watcher's event is the bare hash of the file
  (`policy_change_notifier.go:266`), the version of a request is `sha256:` and the hash of
  its canonical documents (`builder.go:54-57`, `policy_input.go:104-110`). They are never
  equal, so the invalidation an update asks for removes nothing (run `versions`). A request
  built from new documents has a new key all the same; what stays is the old entry.
- For a delete event the listener forgets `event.PolicyVersion`, which the watcher leaves
  empty (`policy_change_notifier.go:311-321`), although `caching_evaluator.go:423` says
  "Invalidate entries for the deleted policy": the decisions made under the deleted policy
  stay. `UpdateReachesCache` is about updates.
- An event that finds a subscriber's channel full is dropped and not sent again
  (`policy_change_notifier.go:351`). `SubscribersInSync` exempts a path from then on, and
  `UpdateReachesCache` is about events that are in the channel: no property covers the drop.
- A DPoP proof is remembered until iat + `ReplayWindow` (`dpop.go:112`) and accepted until
  iat + `ReplayWindow` + `MaxClockSkew` (`dpop.go:89-91`): inside the skew it is accepted a
  second time without any eviction, which is what `ReuseOnlyPastWindow` allows. `docs/css-compatibility-matrix.md:147`
  says "One-time use", `docs/threat-model.md:61` "DPoP replay attempts are rejected".
- `Close` of the gate says it prevents "any mode changes" (`enforcement_gate.go:657`);
  `DisableEnforcement` (`:613`) and `AutoRevertIfNeeded` (`:693`) still go to shadow.
  `ClosedGateOnlyRelaxes` is the property that holds.
- The canary answers before the allowlists (`enforcement_gate.go:749`), so a canary may
  enforce methods the allowlist leaves out (`docs/enforcement-canary-controls.md:111`).
- `InitialMode` is taken whatever `AllowEnforcement` says (`enforcement_gate.go:446`,
  `:61-63`); the guardrail is about gates started in shadow, as `gateway.New` does.
- Stale-while-revalidate never runs: `Get` computes staleness for its metrics only and
  returns a copy whose `Stale` is false (`cache/cache.go:22`, `:248`).
- `Get` deletes by key after judging a copy (`cache/cache.go:239-241`) and may remove an
  entry stored in between: a lost entry, never a wrong answer.
- `Store` says it evicts the oldest entries (`replay_cache.go:47`) and evicts any
  (`:110-122`); the displaced proofs are the exception in `ReuseOnlyPastWindow`.
- A cancelled request counts as an evaluator failure (`backoff_evaluator.go:71`).
- Preflight is wrapped by the shadow middleware and so runs after it: the evaluation is
  made before an identity is in the context (`gateway/server.go`).
- The identity verifier's `Now` is the time of construction (`authn/middleware.go:28`);
  `CheckKeyRotation` never compares the WebID it is given.

Policies:

- The cache key holds the content type of the answer, so a source that answers in another
  type than expected is stored and never found again; `MaxCacheSize` is not enforced and
  `InvalidateCache` does nothing.
- One document that cannot be loaded into the request's list loses all of them
  (`DocumentsRefused`), and a Link source equal to a derived URI makes discovery fail.
- Both evaluators make the same two sample rules of every document, whatever it says.
  `MissingNeverGrants` holds because rules only ever allow.
- The limits on the number of policies are separate options that nothing compares: the
  evaluators' `MaxPolicies` (`wac_evaluator.go:86`, `:147`, `acp_evaluator.go:86`, `:147`)
  and the discovery's `MaxPolicySources` (`policy_discovery_middleware.go:105`, `:195`).
  With `MaxPolicies` smaller, an evaluator abstains when every source was loaded, and a
  request for which one is missing is allowed by the rest. `MissingNeverGrants` compares
  with what the rules of all the documents grant, not with that abstention.
- The middleware also retries errors the HTTP loader has called permanent.

Storage engine:

- `Put` does not clear the engine's tombstone, so an acknowledged write after
  `DeleteWithTombstone` stays invisible to `Get`; and a `DeleteWithTombstone` that fails
  removes the tombstone of one that succeeded beside it.
- `CompareAndSwap` is only tested by the engine (`engine.go:1333`), outside every lock;
  `storage/interface.go:102` describes it as a swap. If-Match and If-None-Match are tested
  again by the backends, which is why `ConditionalWriteReplacesNamed` names these two.
- `Delete` calls the backend twice and asks for the resource's type after it is gone, so
  a deleted policy stays in the policy cache; `DeleteWithTombstone` and `Commit` never
  notify. `PolicyCacheFresh` is therefore about `Put`.
- `Commit` applies its writes one by one and undoes none; a key deleted and then put in
  one transaction is committed as deleted.
- An overwrite is charged in full and the part for metadata is never given back, so the
  charge errs upwards, with three exceptions, which `QuotaCovers` names (`unaccounted`):
  a restore passes the archived metadata on (`storage/backup.go:279-285`), `Put` charges
  the body but keeps a size that is not 0 (`storage/filesystem.go:410`) and `Delete`
  releases that size (`:512-520`), so that the restore of a resource whose write had been
  cut short costs the other resources of the root their count; a body write that fails
  gives the whole length back whatever it left in the file (`:397-401`); and the count does
  not survive a restart for certain: an error of `saveQuotaInfo` is only logged (`:869-871`)
  or ignored (`:892`), a quota file that does not parse is passed over (`:926`), and a
  root with an underscore in its name is read back as another one (`:901`, `:931`). In the
  last case the limit, which comes from the same file, is lost too. The engine's own quota
  manager never has a limit.
- `LoadPolicy` keeps what its caller read some time before (`runtime/policy.go:358`): a
  `Put` and its notification fit in between, and then the older policy is kept until the
  next notification. `PolicyCacheFresh` names this exception (`stale`).
- A crash between body and metadata leaves the old ETag, which the repair of the scanner
  keeps. Restore and repair read and then write without a condition.
- `Put` of the S3 backend takes its own lock twice; the engine cannot construct it.

Runtime storage:

- A caller that writes back the resource it got from `Get` brings the old ETag with it, and
  `PutConditional` keeps it (`storage_conditional.go:117-119`): the new body under the old
  validator. The callers of the model leave it empty. Plain `Put` in memory stores an
  empty ETag that only `*` matches.
- A retried conditional write can be told "precondition failed" because of its own
  earlier attempt; a late request can overwrite after the lock was released; the default
  backend may change between look and write; `Exists` over HTTP reads every status but
  200 as absence. `ReportsAreTrue` and `CreateNeverReplaces` name these exceptions.
- `CreateResource` reports an error when only the read-back failed.

Notifications:

- `rotateFile` is called under `l.mu` and `createNewFile` locks it again: the log is stuck at
  its first rotation. A new file is never added to `logFiles`.
- A write that failed half-way garbles the next acknowledged line and shifts every later
  index offset of the file (the exception in `WrittenIsFound`).
- A log whose directory cannot be read starts fresh at 0 beside its old files
  (`durable_event_log.go:360-363`), and a file that cannot be read at the start does not
  count for the counter (`:428`) but is listed (`:449`): numbers that exist are given out
  again. `SequenceUnique` holds until then (`blind`).
- A file that cannot be read while a subscription polls is passed over with a warning
  (`:929-932`), and the cursor moves past its events for good (the exception `missed`).
- A subscription from cursor -1 reads files in the order of their names and may skip
  events (the properties are about resumed subscriptions). A cursor is inclusive in the
  history (`:1284`) and exclusive afterwards (`:1313`, `:1319`): a client that resumes with
  the next number never gets the event that is written under it after the history was read,
  although `docs/phase24-completion.md:159` promises "sequence >= cursor", and the test
  `phase24_e2e_test.go:529-534` resumes that way. `Due` names this exception.
- The stream's delivery holds the read lock while the channel of the subscriber it has
  reached is full: one that does not read stalls the delivery to all behind it, publishing,
  unsubscribing (its own `Unsubscribe` included, which then waits for itself) and closing,
  and the case for `closeChan` is never reached. `DeliveredInTheEnd` names this (`HeldUp`). A catch-up may send on a channel that was closed. Refused subscriptions open the
  circuit breaker that publishing asks too, and nothing records a success.
- Read, not modelled: the registry removes a stale subscription from its map before its
  indexes (which then count it for ever); the fan-out's `SubmitEvent` feeds a channel that
  nothing reads.

## Plan

1. `SubscriptionRegistry` (map and indexes in step, limits, expiry) and, once something
   reads its channel, the fan-out worker.
2. `IdentityCaches` (issuer, JWKS, WebID) and `KeyRotation`; the reload of tenants; the
   steps and the rollback of a migration.
3. `storage_adapter.go` between runtime and engine, composing `RuntimeStorage` and
   `StorageEngine`, against one abstract specification: a register per resource whose
   conditional writes are atomic.
4. Proofs: the refinement of item 3.

## Not modelled

`PROJECT.json` lists every part with its reason. The larger groups, which make up most of
the repository's lines: parsers, serialisers and codecs (RDF, WAC, ACP, Link headers,
proofs, archives), where a model would repeat the text; metrics, audit, tracing and
logging, which no decision reads; indexing, plugins, search and the older notification
layer, which are experimental and compute functions of what is stored; fixture export and
distribution, dependency auditing and the conformance client, which are tools run over
files; the SDKs and the Rust kernel, which run outside the sidecar's process; and the rate
limiter, request safety and compression, each of which is one step under one lock or none.
