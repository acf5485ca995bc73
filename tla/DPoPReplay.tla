------------------------------ MODULE DPoPReplay ------------------------------
(***************************************************************************)
(* The authentication preflight of internal/authn: middleware.go decides   *)
(* by the shape of the Authorization and DPoP headers, dpop.go checks a    *)
(* proof's claims and replay_cache.go remembers the proofs it has seen.    *)
(*                                                                         *)
(* VerifyRequest reads the clock once for the age of the proof and Store   *)
(* reads it again, under the cache's lock: two steps of a handler, with    *)
(* other handlers and the clock in between.  A proof is known by its       *)
(* replay key, the proof key's hash with the jti; the same replay key may  *)
(* come with another iat.  Whether type, signature, htm, htu, jti, ath and *)
(* token binding fit the request is one bit of it.                         *)
(***************************************************************************)
EXTENDS Naturals, FiniteSets

CONSTANTS
    Handlers,      \* requests in progress
    Keys,          \* replay keys
    MaxEntries,    \* of the cache; 10000 by default
    ReplayWindow, MaxClockSkew,
    Grace,         \* how long Store keeps a proof that came late: a minute
    RequireDPoPForDPoPAuthorization,
    None,
    TimeBound      \* bound on the clock

ASSUME ReplayAssumption ==
    /\ MaxEntries \in Nat /\ MaxEntries > 0
    /\ ReplayWindow \in Nat /\ MaxClockSkew \in Nat
    /\ Grace \in Nat /\ Grace > 0
    /\ RequireDPoPForDPoPAuthorization \in BOOLEAN
    /\ TimeBound \in Nat
    /\ None \notin Keys /\ None \notin {"forward", "reject"}

VARIABLES
    now,
    entries,    \* the replay cache: expiry of each key it holds
    pc,         \* where each handler stands
    proof,      \* the proof it is about to store
    outcome,    \* what became of its last request
    used        \* ghost: proofs accepted and not displaced since by a full cache

vars == <<now, entries, pc, proof, outcome, used>>

Times == 0..TimeBound
Proof == [key: Keys, iat: Times]
NoProof == [key |-> None, iat |-> 0]

(* What a request carries, as far as preflight looks at it: a proof that   *)
(* can be parsed is in a present header.                                   *)
Authorization == {"none", "malformed", "dpop", "bearer", "other"}
Request ==
    [authorization: Authorization, header: {"absent", "malformed"},
     proof: {NoProof}, fits: {FALSE}]
      \union
    [authorization: Authorization, header: {"present"},
     proof: Proof, fits: BOOLEAN]

Init ==
    /\ now = 0
    /\ entries = [k \in {} |-> 0]
    /\ pc = [h \in Handlers |-> "idle"]
    /\ proof = [h \in Handlers |-> NoProof]
    /\ outcome = [h \in Handlers |-> None]
    /\ used = {}

-----------------------------------------------------------------------------
(* DPoPVerifier.VerifyRequest: the age of the proof.                       *)
InFuture(p) == p.iat > now + MaxClockSkew
TooOld(p) == p.iat + ReplayWindow + MaxClockSkew < now

(* preflightRequest: what becomes of a request; "store" when its proof has *)
(* passed every check but the replay cache.                                *)
Verdicts(r) ==
    CASE r.authorization = "none" -> {"forward"}
      [] r.authorization # "none"
            /\ ("malformed" \in {r.authorization, r.header}
                  \/ r.authorization = "other") -> {"reject"}
      [] r.authorization = "dpop" /\ r.header = "absent" ->
            {IF RequireDPoPForDPoPAuthorization THEN "reject" ELSE "forward"}
      [] r.authorization = "dpop" /\ r.header = "present" ->
            {IF r.fits /\ ~InFuture(r.proof) /\ ~TooOld(r.proof)
             THEN "store" ELSE "reject"}
      [] r.authorization = "bearer" /\ r.header = "present" -> {"reject"}
      [] r.authorization = "bearer" /\ r.header = "absent" ->
            {"forward", "reject"}   \* as the identity verifier says

Preflight(h, r) ==
    /\ pc[h] = "idle"
    /\ \E v \in Verdicts(r) :
          IF v = "store"
          THEN /\ pc' = [pc EXCEPT ![h] = "store"]
               /\ proof' = [proof EXCEPT ![h] = r.proof]
               /\ outcome' = [outcome EXCEPT ![h] = None]
          ELSE /\ outcome' = [outcome EXCEPT ![h] = v]
               /\ UNCHANGED <<pc, proof>>
    /\ UNCHANGED <<now, entries, used>>

-----------------------------------------------------------------------------
(* ReplayCache.                                                            *)

Live == {k \in DOMAIN entries : entries[k] > now}

(* Mutant: every proof is kept as long as a late one.                      *)
KeptUntil_Short(t) == now + Grace

(* How long a proof issued at t is kept.                                   *)
KeptUntil(t) ==
    IF t + ReplayWindow > now THEN t + ReplayWindow ELSE now + Grace

(* A tenth of the entries, at least one.                                   *)
NumToEvict == (MaxEntries + 9) \div 10

(* Mutant: off by one.                                                     *)
Evictions_OffByOne ==
    IF Cardinality(Live) <= MaxEntries
    THEN {{}}
    ELSE {S \in SUBSET Live : Cardinality(S) = NumToEvict}

(* The sets of entries that may have to go for a new one: the expired ones *)
(* are gone already, so these are any, in the order of a Go map.           *)
Evictions ==
    IF Cardinality(Live) < MaxEntries
    THEN {{}}
    ELSE {S \in SUBSET Live : Cardinality(S) = NumToEvict}

Keep(K) == [k \in K |-> entries[k]]

(* Mutant: nothing is asked of the cache.                                  *)
Seen_Never(k) == FALSE

Seen(k) == k \in Live

(* Store, whole under the lock, and the end of the request.                *)
Store(h) ==
    LET k == proof[h].key
        until == KeptUntil(proof[h].iat)
    IN  /\ pc[h] = "store"
        /\ pc' = [pc EXCEPT ![h] = "idle"]
        /\ proof' = [proof EXCEPT ![h] = NoProof]
        /\ IF Seen(k)
           THEN /\ entries' = Keep(Live)
                /\ outcome' = [outcome EXCEPT ![h] = "reject"]
                /\ UNCHANGED used
           ELSE \E gone \in Evictions :
                /\ entries' = [x \in (Live \ gone) \union {k} |->
                                 IF x = k THEN until ELSE entries[x]]
                /\ outcome' = [outcome EXCEPT ![h] = "forward"]
                /\ used' = {p \in used : p.key \notin gone} \union {proof[h]}
        /\ UNCHANGED now

Cleanup ==
    /\ entries' = Keep(Live)
    /\ UNCHANGED <<now, pc, proof, outcome, used>>

Tick ==
    /\ now < TimeBound
    /\ now' = now + 1
    /\ UNCHANGED <<entries, pc, proof, outcome, used>>

Next ==
    \/ \E h \in Handlers : Store(h) \/ \E r \in Request : Preflight(h, r)
    \/ Cleanup
    \/ Tick

Spec == Init /\ [][Next]_vars

-----------------------------------------------------------------------------
(* Properties.                                                             *)

(* A replay key is kept no longer than its window and the grace, and a     *)
(* handler that stores has the proof it parsed in hand.                    *)
TypeOK ==
    /\ now \in Times
    /\ DOMAIN entries \subseteq Keys
    /\ \A k \in DOMAIN entries :
          entries[k] \in 0..(TimeBound + ReplayWindow + Grace)
    /\ pc \in [Handlers -> {"idle", "store"}]
    /\ proof \in [Handlers -> Proof \union {NoProof}]
    /\ \A h \in Handlers : pc[h] = "store" => proof[h] \in Proof
    /\ outcome \in [Handlers -> {"forward", "reject", None}]
    /\ used \subseteq Proof

(* Whatever handlers store at the same time, the cache keeps its limit.    *)
CacheBounded == Cardinality(DOMAIN entries) <= MaxEntries

(* The part of the cache a replay is recognised by: until its replay       *)
(* window has passed, an accepted proof is in the cache, under an expiry   *)
(* that is the end of the window, unless a full cache displaced it.        *)
AcceptedIsRemembered ==
    \A p \in used :
        now < p.iat + ReplayWindow =>
            /\ p.key \in DOMAIN entries
            /\ entries[p.key] = p.iat + ReplayWindow

(* The request of h goes on with the proof it came with.                   *)
Accepts(h) ==
    pc[h] = "store" /\ pc'[h] = "idle" /\ outcome'[h] = "forward"

(* A proof that was accepted, and that no full cache displaced, is         *)
(* accepted again only when its replay window has passed: no interleaving  *)
(* of handlers, expiry, clean-up and the clock between the age check and   *)
(* Store opens another way.  Then it may be: the age check goes on         *)
(* accepting for the clock skew after the window (dpop.go:89).             *)
ReuseOnlyPastWindow ==
    [][\A h \in Handlers :
          Accepts(h) /\ proof[h] \in used =>
              now >= proof[h].iat + ReplayWindow]_vars

=============================================================================
