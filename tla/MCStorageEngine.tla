--------------------------- MODULE MCStorageEngine ---------------------------
EXTENDS StorageEngine, TLC

BodySizes ==
    [b \in Bodies \union Fragments |-> IF b = "long" THEN 2 ELSE 1]

Blind == {Unconditional}

(* One precondition of each kind the code treats in a way of its own.         *)
Preconditions ==
    {Unconditional} \union
    [kind: {"absent", "exists"}, tag: {None}] \union
    [kind: {"match", "differs", "cas"}, tag: {"short"}]

InBackup == {u \in URIs : archive[u] # None}

Calls == {c \in Clients : pc[c] # "idle"}

(* Bound: beside the clients' calls there is one of a transaction, a backup   *)
(* and a policy cache at a time, a transaction meets one call at most, and a  *)
(* backup is one of a resource whose tag is the one the preconditions name.   *)
Bound ==
    /\ Cardinality({x \in {"transaction", "backup", "policies"} :
           CASE x = "transaction" -> txn.status # "none"
             [] x = "backup" -> InBackup # {}
             [] OTHER -> \/ cached # [u \in URIs |-> None]
                         \/ \E c \in Clients : pc[c] = "keep"}) < 2
    /\ txn.status # "none" => Cardinality(Calls) < 2
    /\ \A u \in InBackup : archive[u].m.etag = "short"

(* Bound on the bytes in use where nothing limits them.                       *)
ByteBound == 3

(* Bound of the quota run, where each backend call counts by itself: a        *)
(* transaction meets no call and no backup, one resource is buried at a time, *)
(* and a backup is one of a resource whose metadata does not fit its body.    *)
QuotaBound ==
    /\ limit = 0 => used <= ByteBound
    /\ txn.status # "none" => InBackup = {} /\ Calls = {}
    /\ Cardinality(tombs) < 2 /\ Cardinality(InBackup) < 2
    /\ \A u \in InBackup : archive[u].m.size # Length(archive[u].b)

ClientSymmetry == Permutations(Clients)

ResourceSymmetry == Permutations(URIs)

(* A root that starts without a limit never has one, and then no step depends *)
(* on what is counted: two states that differ in the counts alone are one.    *)
Uncounted == <<backend, file, meta, tombs, cached, pc, op, txn, archive, torn,
               last, late, stale>>

(* What QuotaCovers speaks of does not depend on the ghosts of the other      *)
(* properties.                                                                *)
Counted == <<backend, file, meta, used, limit, saved, tombs, pc, op, txn,
             archive, unaccounted>>
===============================================================================
