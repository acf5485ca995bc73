---------------------------- MODULE StorageEngine ----------------------------
(* The storage engine (src/internal/storage): conditional writes, deletes    *)
(* with and without tombstone, transactions, backup, restore and integrity   *)
(* repair, over the filesystem or the memory backend.                        *)
(*                                                                           *)
(* A backend call holds the backend's mutex from its first to its last line, *)
(* so it is one step here; what it leaves behind when a file operation fails *)
(* or the process dies in the middle is one of several outcomes. The engine  *)
(* takes no lock of its own around its calls: everything an engine operation *)
(* reads may have changed when its next call reaches the backend.            *)
(*                                                                           *)
(* An ETag is a digest of the body, so a body stands for its own tag. A file *)
(* whose write was cut short holds a fragment, whose tag is its own too.     *)
(* Requests carry well-formed URIs in normal form and bodies within the size *)
(* limits. The resources share one storage root, and with it one quota.      *)
EXTENDS Naturals, FiniteSets, FiniteSetsExt

CONSTANTS Clients,      \* goroutines that call the engine
          URIs,
          Policies,     \* the URIs whose resource type is ACL or ACP
          Bodies,
          Fragments,    \* what a write that was cut short may leave in a file
          SizeOf,       \* the length of each body and fragment
          Overhead,     \* what estimateMetadataSize adds to a body's length
          Limits,       \* the byte limits the root may start with, 0 for none
          Backends,     \* the backends an instance may start with
          Conditions,   \* the preconditions clients use
          None,
          Broken        \* a metadata or quota file that does not parse

ASSUME StorageAssumption ==
    /\ Policies \subseteq URIs
    /\ SizeOf \in [Bodies \union Fragments -> Nat]
    /\ Overhead \in Nat
    /\ Limits \subseteq Nat
    /\ Backends \subseteq {"filesystem", "memory"}
    /\ Conditions \subseteq
          [kind: {"none", "absent", "exists"}, tag: {None}] \union
          [kind: {"match", "differs", "cas"}, tag: Bodies \union Fragments]
    /\ None \notin Bodies \union Fragments \union {Broken}
    /\ IsFiniteSet(URIs)
    \* a body's tag is a digest, and no answer that stands for an error
    /\ (Bodies \union Fragments) \intersect
          {"", "notfound", "pathtag", "unreadable", "tombstoned"} = {}

VARIABLES backend,   \* the default backend
          file,      \* per URI the stored body
          meta,      \* per URI the stored metadata
          used,      \* UsedBytes of the storage root
          limit,     \* MaxBytes of the storage root, 0 for none
          saved,     \* the storage root's quota file
          tombs,     \* the engine's tombstone store, in memory only
          cached,    \* what the policy cache behind the invalidator holds
          pc, op,    \* per client: the next step and the operation
          txn,       \* the transaction
          archive,   \* the last backup
          torn,      \* ghost: a write of the resource was cut short or patched
          last,      \* ghost: the operation that last changed the resource
          unaccounted, \* ghost: bytes are stored or claimed that nobody counts
          late,      \* ghost: clients about to keep a policy replaced since
          stale      \* ghost: policies of which such a client kept the old one

disk == <<file, meta, used, limit, saved>>
ghosts == <<torn, last, unaccounted>>
policyVars == <<cached, late, stale>>
vars == <<backend, file, meta, used, limit, saved, tombs, cached, pc, op, txn,
          archive, torn, last, unaccounted, late, stale>>

Contents == Bodies \union Fragments

Length(b) == IF b \in Contents THEN SizeOf[b] ELSE 0

(* The metadata a backend completes for a body that came without any.        *)
Fresh(b) == [etag |-> b, size |-> Length(b)]

Unconditional == [kind |-> "none", tag |-> None]

Idle == [kind |-> "idle", u |-> None, b |-> None, m |-> None,
         cond |-> Unconditional]

(*****************************************************************************)
(* Reading.                                                                  *)

(* On disk, metadata that is missing is derived from the body and metadata   *)
(* that does not parse is an error; in memory the two are one record.        *)
FilesystemGet(u) ==
    IF file[u] = None \/ meta[u] = Broken THEN None
    ELSE [b |-> file[u],
          m |-> IF meta[u] = None THEN Fresh(file[u]) ELSE meta[u]]

MemoryGet(u) ==
    IF file[u] = None THEN None ELSE [b |-> file[u], m |-> meta[u]]

BackendGet(u) ==
    IF backend = "memory" THEN MemoryGet(u) ELSE FilesystemGet(u)

(* The engine's Get, which looks for a tombstone first.                      *)
Get(u) == IF u \in tombs THEN None ELSE BackendGet(u)

(* The ETag the backend's GetMetadata reports. A file without metadata gets  *)
(* a tag made of its path and time, which is no body's tag.                  *)
BackendGetMetadata(u) ==
    CASE meta[u] = None /\ file[u] = None -> "notfound"
      [] meta[u] = None /\ file[u] # None -> "pathtag"
      [] meta[u] = Broken -> "unreadable"
      [] OTHER -> meta[u].etag

(* The engine's GetMetadata.                                                 *)
GetMetadata(u) == IF u \in tombs THEN "tombstoned" ELSE BackendGetMetadata(u)

Exists(u) == file[u] # None

(* The ETag a backend compares inside its own lock.                          *)
GetResourceNoLock(u) ==
    CASE file[u] = None -> "notfound"
      [] file[u] # None /\ meta[u] \in {None, Broken} -> ""
      [] OTHER -> meta[u].etag

(*****************************************************************************)
(* The preconditions of a write, as the engine and as the backend test them. *)
(* A compare-and-swap on a custom value is tested by the engine alone; the   *)
(* value belongs to a version of the resource, so its tag stands for it.     *)

HandlePreconditions(u, cond) ==
    CASE cond.kind = "none"    -> TRUE
      [] cond.kind = "absent"  -> ~Exists(u)
      [] cond.kind = "exists"  -> Exists(u)
      [] cond.kind = "differs" -> GetMetadata(u) \notin {"unreadable", cond.tag}
      [] OTHER                 -> GetMetadata(u) = cond.tag

(* Mutant: the backend trusts the engine's test of If-Match.                 *)
BackendPreconditions_Trusting(u, cond) == cond.kind = "absent" => ~Exists(u)

BackendPreconditions(u, cond) ==
    CASE cond.kind \in {"none", "cas"} -> TRUE
      [] cond.kind = "absent"  -> ~Exists(u)
      [] cond.kind = "exists"  -> Exists(u)
      [] cond.kind = "differs" -> GetResourceNoLock(u) # cond.tag
      [] OTHER                 -> GetResourceNoLock(u) = cond.tag

(*****************************************************************************)
(* The backend calls that change something.                                  *)

Charge(b) == Length(b) + Overhead

(* checkAndUpdateQuota: charged before the write, for the whole new body.    *)
QuotaAllows(b) == limit = 0 \/ used + Charge(b) <= limit

(* rollbackQuota.                                                            *)
Released(n) == IF used >= n THEN used - n ELSE 0

(* How a call ends: what it leaves of the resource, the bytes in use, whether *)
(* it succeeds, and the counts it saves to the quota file on the way.        *)
Outcome(b, m, n, ok, counts) ==
    [file |-> b, meta |-> m, used |-> n, ok |-> ok, counts |-> counts]

(* How a Put can end in memory: the quota refuses, or it stores.             *)
MemoryPut(u, b, m) ==
    LET n == used + Charge(b)
    IN  IF QuotaAllows(b) THEN {Outcome(b, m, n, TRUE, {n})}
        ELSE {Outcome(file[u], meta[u], used, FALSE, {})}

(* What a body write that fails leaves in the file: what was there, a part   *)
(* of the new body, or, when only closing failed, all of it.                 *)
Leftovers(u, b) == {file[u], b} \union {f \in Fragments : SizeOf[f] < SizeOf[b]}

(* On disk the body is written first and the metadata second, and either     *)
(* write may fail. A failed body write gives back the length of the body.    *)
FilesystemPut(u, b, m) ==
    LET n == used + Charge(b)
        k == used + Overhead
    IN  MemoryPut(u, b, m) \union
        IF ~QuotaAllows(b) THEN {}
        ELSE {Outcome(c, meta[u], k, FALSE, {n, k}) : c \in Leftovers(u, b)}
             \union
             {Outcome(b, d, n, FALSE, {n}) : d \in {meta[u], Broken}}

PutOutcomes(u, b, m) ==
    IF backend = "memory" THEN MemoryPut(u, b, m) ELSE FilesystemPut(u, b, m)

SizeOnRecord(u) == IF meta[u] \in {None, Broken} THEN 0 ELSE meta[u].size

(* Delete in memory releases the size the metadata names.                    *)
MemoryDelete(u) ==
    LET n == Released(SizeOnRecord(u))
    IN  {Outcome(None, None, n, TRUE, IF SizeOnRecord(u) > 0 THEN {n} ELSE {})}

(* Mutant: the size is released although the body could not be removed.      *)
FilesystemDelete_EarlyRelease(u) ==
    MemoryDelete(u) \union
    {Outcome(c, meta[u], Released(SizeOnRecord(u)), FALSE, {}) :
       c \in {file[u], None}}

(* On disk the body goes first, then the metadata, and only then is the size *)
(* released; either removal may fail.                                        *)
FilesystemDelete(u) ==
    MemoryDelete(u) \union
    {Outcome(c, meta[u], used, FALSE, {}) : c \in {file[u], None}}

DeleteOutcomes(u) ==
    IF backend = "memory" THEN MemoryDelete(u) ELSE FilesystemDelete(u)

(* saveQuotaInfo, at most twice in a call. Its error is only logged, and     *)
(* leaves the file as it was or cut short.                                   *)
SaveQuotaInfo(counts) ==
    saved' \in IF backend = "memory" \/ counts = {} THEN {saved}
               ELSE {saved, Broken} \union [used: counts, max: {limit}]

Store(u, o) ==
    /\ file' = [file EXCEPT ![u] = o.file]
    /\ meta' = [meta EXCEPT ![u] = o.meta]
    /\ SaveQuotaInfo(o.counts)

Apply(u, o) == Store(u, o) /\ used' = o.used /\ UNCHANGED limit

(* Ghosts: the metadata of u no longer describes its body, or again does.    *)
Describe(u, o, kind) ==
    /\ torn' = [torn EXCEPT ![u] =
                   CASE o.file = None -> FALSE
                     [] o.file = file[u] /\ o.meta = meta[u] -> @
                     [] OTHER -> ~o.ok \/ o.meta.etag # o.file]
    /\ last' = [last EXCEPT ![u] = IF o.ok THEN kind ELSE "other"]

(* New metadata claims more bytes than the body it comes with has. (Backends *)
(* fill in the size only when the caller left it out.)                       *)
Overstates(u, o) ==
    /\ o.meta \notin {None, Broken, meta[u]}
    /\ o.meta.size > Length(o.file)

(* A failed write leaves more of its body than stays charged.                *)
Undercharges(u, o) ==
    /\ ~o.ok /\ o.file # file[u]
    /\ Length(o.file) + used > Length(file[u]) + o.used

Remember(u, o, kind) ==
    /\ Describe(u, o, kind)
    /\ unaccounted' = (unaccounted \/ Overstates(u, o) \/ Undercharges(u, o))

(*****************************************************************************)
(* Put, as a client asks for it, or as a restore or a repair does.           *)

Start(c, kind, u, b, m, cond) ==
    /\ pc[c] = "idle"
    /\ op' = [op EXCEPT ![c] =
                 [kind |-> kind, u |-> u, b |-> b, m |-> m, cond |-> cond]]

Finish(c) ==
    /\ pc' = [pc EXCEPT ![c] = "idle"]
    /\ op' = [op EXCEPT ![c] = Idle]

(* Put up to its call of the backend. A write whose precondition already     *)
(* fails is answered at once, which changes nothing. The engine's own quota  *)
(* manager is never given a limit and refuses nobody.                        *)
Put(c) ==
    /\ \E u \in URIs, b \in Bodies, cond \in Conditions :
          /\ HandlePreconditions(u, cond)
          /\ Start(c, "put", u, b, Fresh(b), cond)
    /\ pc' = [pc EXCEPT ![c] = "store"]
    /\ UNCHANGED <<backend, disk, tombs, txn, archive, ghosts, policyVars>>

(* restoreResource: a resource whose tag is the archived one is left alone.  *)
RestoreResource(c) ==
    /\ \E u \in URIs :
          /\ archive[u] # None
          /\ Exists(u) => GetMetadata(u) \notin {archive[u].m.etag, "unreadable"}
          /\ Start(c, "put", u, archive[u].b, archive[u].m, Unconditional)
    /\ pc' = [pc EXCEPT ![c] = "store"]
    /\ UNCHANGED <<backend, disk, tombs, txn, archive, ghosts, policyVars>>

(* The scan reports a resource whose stored size is not the length of its    *)
(* body; repairResource reads it again, corrects size and digest, keeps the  *)
(* ETag and puts it back.                                                    *)
ScanResource(u) == Get(u) # None /\ Get(u).m.size # Length(Get(u).b)

RepairResource(c) ==
    /\ \E u \in URIs :
          /\ ScanResource(u)
          /\ LET r == Get(u)
             IN  Start(c, "put", u, r.b,
                       [r.m EXCEPT !.size = Length(r.b)], Unconditional)
    /\ pc' = [pc EXCEPT ![c] = "store"]
    /\ UNCHANGED <<backend, disk, tombs, txn, archive, ghosts, policyVars>>

(* The backend's Put.                                                        *)
BackendPut(c) ==
    LET o == op[c]
    IN  /\ pc[c] = "store"
        /\ BackendPreconditions(o.u, o.cond)
        /\ \E r \in PutOutcomes(o.u, o.b, o.m) :
              /\ Apply(o.u, r)
              /\ Remember(o.u, r, "put")
              /\ IF r.ok THEN pc' = [pc EXCEPT ![c] = "notify"] /\ UNCHANGED op
                         ELSE Finish(c)
        /\ UNCHANGED <<backend, tombs, txn, archive, policyVars>>

BackendRefuses(c) ==
    /\ pc[c] = "store"
    /\ ~BackendPreconditions(op[c].u, op[c].cond)
    /\ Finish(c)
    /\ UNCHANGED <<backend, disk, tombs, txn, archive, ghosts, policyVars>>

(* triggerCacheInvalidation and the authorization caches' invalidator. Put   *)
(* knows the type of what it wrote; Delete looks the type up when the        *)
(* resource is gone, and finds one only if it has been written again.        *)
Invalidate(c, isPolicy) ==
    /\ cached' = IF isPolicy THEN [cached EXCEPT ![op[c].u] = None] ELSE cached
    /\ stale' = IF isPolicy THEN stale \ {op[c].u} ELSE stale

(* Ghost: clients that have read u, and not what is there now.               *)
Outdated(u) ==
    {c \in Clients : pc[c] = "keep" /\ op[c].u = u /\ op[c].b # file[u]}

(* Mutant: the event is sent for what was deleted only.                      *)
PutNotify_Silent(c) ==
    /\ pc[c] = "notify" /\ op[c].kind = "put"
    /\ Finish(c)
    /\ UNCHANGED <<backend, disk, tombs, txn, archive, ghosts, policyVars>>

PutNotify(c) ==
    /\ pc[c] = "notify" /\ op[c].kind = "put"
    /\ Invalidate(c, op[c].u \in Policies)
    /\ late' = late \union Outdated(op[c].u)
    /\ Finish(c)
    /\ UNCHANGED <<backend, disk, tombs, txn, archive, ghosts>>

DeleteNotify(c) ==
    /\ pc[c] = "notify" /\ op[c].kind = "delete"
    /\ Invalidate(c, /\ op[c].u \in Policies
                     /\ meta[op[c].u] \notin {None, Broken})
    /\ Finish(c)
    /\ UNCHANGED <<backend, disk, tombs, txn, archive, ghosts, late>>

(*****************************************************************************)
(* Delete and DeleteWithTombstone. Both call the backend's Delete twice: the *)
(* metadata store's DeleteMetadata is the same call.                         *)

Delete(c) ==
    /\ \E u \in URIs : Start(c, "delete", u, None, None, Unconditional)
    /\ pc' = [pc EXCEPT ![c] = "remove"]
    /\ UNCHANGED <<backend, disk, tombs, txn, archive, ghosts, policyVars>>

DeleteWithTombstone(c) ==
    /\ \E u \in URIs :
          /\ Start(c, "bury", u, None, None, Unconditional)
          /\ tombs' = tombs \union {u}
    /\ pc' = [pc EXCEPT ![c] = "remove"]
    /\ UNCHANGED <<backend, disk, txn, archive, ghosts, policyVars>>

(* The first call: an error ends the operation, and the tombstone goes.      *)
BackendDelete(c) ==
    LET u == op[c].u
    IN  /\ pc[c] = "remove"
        /\ \E r \in DeleteOutcomes(u) :
              /\ Apply(u, r)
              /\ Remember(u, r, "delete")
              /\ IF r.ok
                 THEN /\ pc' = [pc EXCEPT ![c] = "again"]
                      /\ UNCHANGED <<op, tombs>>
                 ELSE /\ Finish(c)
                      /\ tombs' = IF op[c].kind = "bury" THEN tombs \ {u}
                                                         ELSE tombs
        /\ UNCHANGED <<backend, txn, archive, policyVars>>

(* The second call: its error is only logged.                                *)
DeleteMetadata(c) ==
    LET u == op[c].u
    IN  /\ pc[c] = "again"
        /\ \E r \in DeleteOutcomes(u) : Apply(u, r) /\ Remember(u, r, "delete")
        /\ IF op[c].kind = "bury"
           THEN Finish(c)
           ELSE pc' = [pc EXCEPT ![c] = "notify"] /\ UNCHANGED op
        /\ UNCHANGED <<backend, tombs, txn, archive, policyVars>>

(*****************************************************************************)
(* A transaction: writes and deletes are collected and Commit applies them   *)
(* one by one, straight to the backend, the writes first. An error ends it   *)
(* and what was applied stays.                                               *)

NoTxn == [status |-> "none", pending |-> [u \in URIs |-> None], deleted |-> {}]

BeginTransaction ==
    /\ txn.status = "none"
    /\ txn' = [NoTxn EXCEPT !.status = "open"]
    /\ UNCHANGED <<backend, disk, tombs, pc, op, archive, ghosts, policyVars>>

TransactionPut(u, b) ==
    /\ txn.status = "open"
    /\ txn' = [txn EXCEPT !.pending[u] = b]
    /\ UNCHANGED <<backend, disk, tombs, pc, op, archive, ghosts, policyVars>>

TransactionDelete(u) ==
    /\ txn.status = "open"
    /\ txn' = [txn EXCEPT !.deleted = @ \union {u}, !.pending[u] = None]
    /\ UNCHANGED <<backend, disk, tombs, pc, op, archive, ghosts, policyVars>>

CommitWrites == {u \in URIs : txn.pending[u] # None}

Commit ==
    /\ txn.status \in {"open", "committing"}
    /\ \/ \E u \in CommitWrites :
             \E r \in PutOutcomes(u, txn.pending[u], Fresh(txn.pending[u])) :
                /\ Apply(u, r)
                /\ Remember(u, r, "other")
                /\ txn' = IF r.ok
                          THEN [txn EXCEPT !.status = "committing",
                                           !.pending[u] = None]
                          ELSE NoTxn
       \/ /\ CommitWrites = {}
          /\ \E u \in txn.deleted : \E r \in DeleteOutcomes(u) :
                /\ Apply(u, r)
                /\ Remember(u, r, "other")
                /\ txn' = IF r.ok
                          THEN [txn EXCEPT !.status = "committing",
                                           !.deleted = @ \ {u}]
                          ELSE NoTxn
       \/ /\ CommitWrites = {} /\ txn.deleted = {}
          /\ txn' = NoTxn
          /\ UNCHANGED <<disk, ghosts>>
    /\ UNCHANGED <<backend, tombs, pc, op, archive, policyVars>>

Rollback ==
    /\ txn.status = "open"
    /\ txn' = NoTxn
    /\ UNCHANGED <<backend, disk, tombs, pc, op, archive, ghosts, policyVars>>

(*****************************************************************************)
(* The rest of the system.                                                   *)

(* Backup reads one resource after the other, with writers in between.       *)
Backup(u) ==
    /\ archive[u] # Get(u)
    /\ archive' = [archive EXCEPT ![u] = Get(u)]
    /\ UNCHANGED <<backend, disk, tombs, pc, op, txn, ghosts, policyVars>>

(* The policy engine's caller reads a policy from the engine and hands what  *)
(* it read to LoadPolicy, which keeps it. Nothing holds the two together.    *)
PolicyLoad(c) ==
    /\ \E u \in Policies :
          /\ Get(u) # None
          /\ Start(c, "load", u, Get(u).b, None, Unconditional)
    /\ pc' = [pc EXCEPT ![c] = "keep"]
    /\ UNCHANGED <<backend, disk, tombs, txn, archive, ghosts, policyVars>>

LoadPolicy(c) ==
    LET u == op[c].u
    IN  /\ pc[c] = "keep"
        /\ cached' = [cached EXCEPT ![u] = op[c].b]
        /\ stale' = IF c \in late THEN stale \union {u} ELSE stale \ {u}
        /\ late' = late \ {c}
        /\ Finish(c)
        /\ UNCHANGED <<backend, disk, tombs, txn, archive, ghosts>>

(* The process dies, in the middle of at most one backend call, and starts   *)
(* again. The memory backend, the tombstones and the policy cache start      *)
(* empty; a Put or Delete under way may have written any prefix of what it   *)
(* writes: quota, body, metadata.                                            *)
Unfinished(c) ==
    LET o == op[c]
        u == o.u
    IN  CASE pc[c] = "store" /\ BackendPreconditions(u, o.cond) /\ QuotaAllows(o.b) ->
               {Outcome(f, meta[u], used + Charge(o.b), FALSE,
                        {used + Charge(o.b)}) : f \in Leftovers(u, o.b)}
               \union PutOutcomes(u, o.b, o.m)
          [] pc[c] \in {"remove", "again"} -> DeleteOutcomes(u)
          [] OTHER -> {}

Restart ==
    /\ tombs' = {}
    /\ cached' = [u \in URIs |-> None]
    /\ late' = {} /\ stale' = {}
    /\ pc' = [c \in Clients |-> "idle"]
    /\ op' = [c \in Clients |-> Idle]
    /\ txn' = NoTxn
    /\ UNCHANGED <<backend, archive>>

(* loadQuotaInfo. A quota file that is missing, cannot be read or does not   *)
(* parse is passed over, and one whose root has an underscore in its name is *)
(* taken for another root's: the root starts with nothing counted and no     *)
(* limit. (counted and lost serve the ghost: the bytes counted when the      *)
(* process died, and whether its last call left some uncounted.)             *)
LoadQuotaInfo(counted, lost) ==
    \E q \in {[used |-> 0, max |-> 0]} \union ({saved'} \ {None, Broken}) :
        /\ used' = q.used /\ limit' = q.max
        /\ unaccounted' = (unaccounted \/ lost \/ q.used < counted)

Crash ==
    /\ backend = "filesystem"
    /\ \/ /\ UNCHANGED <<file, meta, saved, torn, last>>
          /\ LoadQuotaInfo(used, FALSE)
       \/ \E c \in Clients : \E r \in Unfinished(c) :
             LET u == op[c].u IN
             /\ Store(u, r)
             /\ Describe(u, r, "other")
             /\ LoadQuotaInfo(r.used, Overstates(u, r) \/ Undercharges(u, r))
    /\ Restart

CrashMemory ==
    /\ backend = "memory"
    /\ file' = [u \in URIs |-> None]
    /\ meta' = [u \in URIs |-> None]
    /\ used' = 0 /\ UNCHANGED <<limit, saved>>
    /\ torn' = [u \in URIs |-> FALSE]
    /\ last' = [u \in URIs |-> "other"]
    /\ unaccounted' = FALSE
    /\ Restart

(* A limit comes from a quota file that is there when the process starts;    *)
(* the memory backend has none.                                              *)
Init ==
    /\ backend \in Backends
    /\ file = [u \in URIs |-> None]
    /\ meta = [u \in URIs |-> None]
    /\ used = 0
    /\ limit \in IF backend = "memory" THEN {0} ELSE Limits
    /\ saved = IF limit = 0 THEN None ELSE [used |-> 0, max |-> limit]
    /\ tombs = {}
    /\ cached = [u \in URIs |-> None]
    /\ pc = [c \in Clients |-> "idle"]
    /\ op = [c \in Clients |-> Idle]
    /\ txn = NoTxn
    /\ archive = [u \in URIs |-> None]
    /\ torn = [u \in URIs |-> FALSE]
    /\ last = [u \in URIs |-> "other"]
    /\ unaccounted = FALSE
    /\ late = {} /\ stale = {}

Step(c) ==
    \/ Put(c) \/ RestoreResource(c) \/ RepairResource(c)
    \/ BackendPut(c) \/ BackendRefuses(c) \/ PutNotify(c)
    \/ Delete(c) \/ DeleteWithTombstone(c)
    \/ BackendDelete(c) \/ DeleteMetadata(c) \/ DeleteNotify(c)
    \/ PolicyLoad(c) \/ LoadPolicy(c)

Next ==
    \/ \E c \in Clients : Step(c)
    \/ BeginTransaction \/ Commit \/ Rollback
    \/ \E u \in URIs, b \in Bodies : TransactionPut(u, b)
    \/ \E u \in URIs : TransactionDelete(u) \/ Backup(u)
    \/ Crash \/ CrashMemory

Spec == Init /\ [][Next]_vars

(*****************************************************************************)
(* Properties.                                                               *)

(* What is charged covers what is stored: whatever writes fail or are cut    *)
(* short, and in whatever order bodies are replaced, deleted and restored,   *)
(* the stored bytes never exceed the bytes the quota counts, so they never   *)
(* exceed the limit. That ends in three ways, and in no other: a backup of a *)
(* resource whose write was cut short is restored, and Delete releases the   *)
(* size its metadata claims; a failed write leaves part of its body behind   *)
(* and its charge is given back; the process starts from a quota file that   *)
(* is missing, cut short or old. The count keeps within the limit even then, *)
(* as long as there is one.                                                  *)
QuotaCovers ==
    /\ ~unaccounted =>
          FoldSet(LAMBDA u, n : n + Length(file[u]), 0, URIs) <= used
    /\ limit # 0 => used <= limit

Stored(c) == pc[c] = "store" /\ pc'[c] = "notify"

(* No lost update: between the engine's test of If-Match and the write other *)
(* writers may have come and gone, and still a write that succeeds replaces  *)
(* the very body whose ETag the client named, and a write that asked for an  *)
(* absent resource replaces nothing.                                         *)
ConditionalWriteReplacesNamed ==
    [][\A c \in Clients : Stored(c) =>
          LET o == op[c] IN
          /\ o.cond.kind = "match" => file[o.u] = o.cond.tag \/ torn[o.u]
          /\ o.cond.kind = "absent" => file[o.u] = None]_vars

Busy(u) == \E c \in Clients : op[c].u = u /\ pc[c] \in {"notify", "again"}

(* A policy written through the engine is not shadowed by an older copy: as  *)
(* long as the last change was such a write and nobody is about to notify,   *)
(* the policy cache holds that version or none. The one exception is a       *)
(* client that had read the older version when the notification came, and    *)
(* keeps it afterwards.                                                      *)
PolicyCacheFresh ==
    \A u \in Policies \ stale : last[u] = "put" /\ ~Busy(u) =>
        cached[u] \in {None, file[u]}

===============================================================================
