--------------------------- MODULE ResponseCache ---------------------------
(***************************************************************************)
(* SqliteKvStore (gateway-storage/src/sqlite/kv.rs) under the requests     *)
(* that use it: L1 in memory, L2 a table that survives restarts, an        *)
(* evictor.  get and put touch the tiers one after the other, with other   *)
(* requests in between.  A client is one proxy request: it looks up its    *)
(* key and, on a miss, asks the upstream and writes back.                  *)
(***************************************************************************)
EXTENDS Fingerprint, FiniteSets

CONSTANTS
  Clients,      \* requests in flight, each used once
  Requests,     \* what may arrive
  L1_TTL,       \* lifetime of an L1 entry (time_to_live), whatever its ttl
  EVICT_LIMIT,  \* rows an eviction may delete
  I64_MAX,      \* i64::MAX of the timestamps
  MaxClock,     \* bound on time
  MaxRestarts,  \* bound on restarts
  None          \* Option::None

RequestType ==
  [namespace : Seq(Byte), endpoint : Seq(Byte), cache_scope : Seq(Byte),
   body : Nodes, directive : {"Default", "Refresh", "OnlyIfCached"}, ttl : Nat]

\* A cached value: who wrote it, for which request, and when it expires.
Values == [by : Clients, of : Requests, exp : Int]

ASSUME CacheAssumption ==
  /\ Requests \subseteq RequestType
  /\ {L1_TTL, EVICT_LIMIT, I64_MAX, MaxClock, MaxRestarts} \subseteq Nat
  /\ MaxClock <= I64_MAX
  /\ None \notin Requests \cup Values

VARIABLES
  clock,
  l1,        \* per key: the entry in memory, with the time it was inserted
  l2,        \* per key: the row of kv_cache
  evictor,   \* None between two ticks, else the time the tick read
  req,       \* per client: its request
  pc,        \* where its get or put is
  seen,      \* the value read from L2, or the one being put
  restarts,
  answer,    \* history: the cached value a client was given, and when
  latest,    \* history: per key, the value of the last put that ended well
  tainted    \* history: per key, the last put overlapped another call or failed

vars == <<clock, l1, l2, evictor, req, pc, seen, restarts, answer, latest, tainted>>

Keys == {CacheKey(r) : r \in Requests}

\* The key of a client, once its request has arrived.
KeyOf(c) == CacheKey(req[c])

Init ==
  /\ clock = 0
  /\ l1 = [k \in Keys |-> None]
  /\ l2 = [k \in Keys |-> None]
  /\ evictor = None
  /\ req = [c \in Clients |-> None]
  /\ pc = [c \in Clients |-> "idle"]
  /\ seen = [c \in Clients |-> None]
  /\ restarts = 0
  /\ answer = [c \in Clients |-> None]
  /\ latest = [k \in Keys |-> None]
  /\ tainted = [k \in Keys |-> FALSE]

Goto(c, p) == pc' = [pc EXCEPT ![c] = p]

\* Other calls on the key that have something in their hands.
Holding(c, k, where) ==
  \E d \in Clients \ {c} : pc[d] \in where /\ KeyOf(d) = k

----------------------------------------------------------------------------
(* get                                                                     *)

\* A request that reads or writes the cache arrives; refresh skips the lookup.
Arrive(c, r) ==
  /\ pc[c] = "idle"
  /\ req' = [req EXCEPT ![c] = r]
  /\ Goto(c, IF r.directive = "Refresh" THEN "upstream" ELSE "l1")
  /\ UNCHANGED <<clock, l1, l2, evictor, seen, restarts, answer, latest, tainted>>

L1Live(k) == l1[k] # None /\ clock < l1[k].at + L1_TTL

Serve(c, v) ==
  /\ answer' = [answer EXCEPT ![c] = [val |-> v, at |-> clock]]
  /\ Goto(c, "done")

L1Hit(c) ==
  /\ pc[c] = "l1" /\ L1Live(KeyOf(c))
  /\ Serve(c, l1[KeyOf(c)].val)
  /\ UNCHANGED <<clock, l1, l2, evictor, req, seen, restarts, latest, tainted>>

L1Miss(c) ==
  /\ pc[c] = "l1" /\ ~L1Live(KeyOf(c))
  /\ Goto(c, "l2")
  /\ UNCHANGED <<clock, l1, l2, evictor, req, seen, restarts, answer, latest, tainted>>

\* A miss goes to the upstream, unless the client wants cached answers only.
Missed(c) ==
  Goto(c, IF req[c].directive = "OnlyIfCached" THEN "done" ELSE "upstream")

\* No row, or the query fails: both are a miss to the handler.
L2Miss(c) ==
  /\ pc[c] = "l2"
  /\ Missed(c)
  /\ UNCHANGED <<clock, l1, l2, evictor, req, seen, restarts, answer, latest, tainted>>

\* SELECT: an expired row will be deleted, by key; another one goes to L1.
L2Read(c) ==
  LET k == KeyOf(c)
  IN /\ pc[c] = "l2" /\ l2[k] # None
     /\ \/ /\ l2[k].exp < clock
           /\ Goto(c, "purge")
           /\ UNCHANGED seen
        \/ /\ l2[k].exp >= clock
           /\ Goto(c, "refill")
           /\ seen' = [seen EXCEPT ![c] = l2[k]]
     /\ tainted' = [tainted EXCEPT ![k] = @ \/ Holding(c, k, {"put2"})]
     /\ UNCHANGED <<clock, l1, l2, evictor, req, restarts, answer, latest>>

\* DELETE under the write lock; its failure is ignored.
Purge(c, fails) ==
  /\ pc[c] = "purge"
  /\ l2' = IF fails THEN l2 ELSE [l2 EXCEPT ![KeyOf(c)] = None]
  /\ Missed(c)
  /\ UNCHANGED <<clock, l1, evictor, req, seen, restarts, answer, latest, tainted>>

Refill(c) ==
  /\ pc[c] = "refill"
  /\ l1' = [l1 EXCEPT ![KeyOf(c)] = [val |-> seen[c], at |-> clock]]
  /\ Serve(c, seen[c])
  /\ UNCHANGED <<clock, l2, evictor, req, seen, restarts, latest, tainted>>

----------------------------------------------------------------------------
(* put                                                                     *)

\* The upstream answers: a complete success is written back.
Upstream(c) ==
  /\ pc[c] = "upstream"
  /\ \E p \in {"put1", "done"} : Goto(c, p)
  /\ UNCHANGED <<clock, l1, l2, evictor, req, seen, restarts, answer, latest, tainted>>

Least(a, b) == IF a < b THEN a ELSE b

\* now + ttl.min(i64::MAX) as i64, in a release build: an overflow wraps.
ExpiresAt(now, ttl) ==
  LET sum == now + Least(ttl, I64_MAX)
  IN IF sum <= I64_MAX THEN sum ELSE sum - 2 * (I64_MAX + 1)

\* put: L1 first, with neither the lock nor the row.
PutL1(c) ==
  LET k == KeyOf(c)
      v == [by |-> c, of |-> req[c], exp |-> ExpiresAt(clock, req[c].ttl)]
  IN /\ pc[c] = "put1"
     /\ l1' = [l1 EXCEPT ![k] = [val |-> v, at |-> clock]]
     /\ seen' = [seen EXCEPT ![c] = v]
     /\ tainted' = [tainted EXCEPT ![k] = Holding(c, k, {"purge", "refill", "put2"})]
     /\ Goto(c, "put2")
     /\ UNCHANGED <<clock, l2, evictor, req, restarts, answer, latest>>

\* Mutant: ON CONFLICT DO NOTHING.
InsertIfAbsent(k, v) == IF l2[k] = None THEN [l2 EXCEPT ![k] = v] ELSE l2

\* INSERT ... ON CONFLICT(key) DO UPDATE.
Upsert(k, v) == [l2 EXCEPT ![k] = v]

PutL2(c, fails) ==
  LET k == KeyOf(c)
  IN /\ pc[c] = "put2"
     /\ \/ /\ ~fails
           /\ l2' = Upsert(k, seen[c])
           /\ latest' = [latest EXCEPT ![k] = seen[c]]
           /\ UNCHANGED tainted
        \/ /\ fails
           /\ tainted' = [tainted EXCEPT ![k] = TRUE]
           /\ UNCHANGED <<l2, latest>>
     /\ Goto(c, "done")
     /\ UNCHANGED <<clock, l1, evictor, req, seen, restarts, answer>>

----------------------------------------------------------------------------
(* The evictor, time and restarts.                                         *)

\* Mutant: the evictor is never spawned.
NoEvictor == evictor = None /\ UNCHANGED vars

EvictorTick ==
  /\ evictor = None
  /\ evictor' = clock
  /\ UNCHANGED <<clock, l1, l2, req, pc, seen, restarts, answer, latest, tainted>>

\* Mutant: any row may be deleted.
AnyRow(now) == {k \in Keys : l2[k] # None}

Evictable(now) == {k \in Keys : l2[k] # None /\ l2[k].exp < now}

\* DELETE of at most EVICT_LIMIT rows that had expired at the tick.
EvictDelete ==
  /\ evictor # None
  /\ \E S \in SUBSET Evictable(evictor) :
       /\ Cardinality(S) = Least(EVICT_LIMIT, Cardinality(Evictable(evictor)))
       /\ l2' = [k \in Keys |-> IF k \in S THEN None ELSE l2[k]]
  /\ evictor' = None
  /\ UNCHANGED <<clock, l1, req, pc, seen, restarts, answer, latest, tainted>>

\* The statement fails: a warning, and the loop goes on.
EvictFails ==
  /\ evictor # None
  /\ evictor' = None
  /\ UNCHANGED <<clock, l1, l2, req, pc, seen, restarts, answer, latest, tainted>>

\* moka drops an entry to stay within its capacity.
L1Evict(k) ==
  /\ l1[k] # None
  /\ l1' = [l1 EXCEPT ![k] = None]
  /\ UNCHANGED <<clock, l2, evictor, req, pc, seen, restarts, answer, latest, tainted>>

Tick ==
  /\ clock < MaxClock
  /\ clock' = clock + 1
  /\ UNCHANGED <<l1, l2, evictor, req, pc, seen, restarts, answer, latest, tainted>>

\* The process dies with L1 and every call in flight, and starts again.
Restart ==
  /\ restarts < MaxRestarts
  /\ restarts' = restarts + 1
  /\ l1' = [k \in Keys |-> None]
  /\ evictor' = None
  /\ pc' = [c \in Clients |-> IF pc[c] = "idle" THEN "idle" ELSE "done"]
  /\ tainted' = [k \in Keys |->
                   tainted[k] \/ \E c \in Clients : pc[c] = "put2" /\ KeyOf(c) = k]
  /\ UNCHANGED <<clock, l2, req, seen, answer, latest>>

Get(c) ==
  \/ L1Hit(c) \/ L1Miss(c) \/ L2Miss(c) \/ L2Read(c) \/ Refill(c)
  \/ \E fails \in BOOLEAN : Purge(c, fails)

Put(c) == PutL1(c) \/ \E fails \in BOOLEAN : PutL2(c, fails)

Next ==
  \/ \E c \in Clients :
       Get(c) \/ Upstream(c) \/ Put(c) \/ \E r \in Requests : Arrive(c, r)
  \/ EvictorTick \/ EvictDelete \/ EvictFails
  \/ \E k \in Keys : L1Evict(k)
  \/ Tick \/ Restart

Spec == Init /\ [][Next]_vars

\* The evictor is a task with an interval, and its statement does not fail for
\* ever.  Nothing is assumed of requests.
FairSpec == Spec /\ WF_vars(EvictorTick) /\ SF_vars(EvictDelete)

----------------------------------------------------------------------------
(***************************************************************************)
(* Properties                                                              *)
(***************************************************************************)
\* A cached answer was produced in the same namespace, and for the same JSON body
\* if endpoint and scope read the same: through canonicalisation, both tiers,
\* refills and restarts different bodies are told apart.  If neither request has
\* a bar in its endpoint or scope, those are the same too.
AnswersItsRequest ==
  \A c \in Clients :
    answer[c] # None =>
      LET asked == req[c]
          cached == answer[c].val.of
      IN /\ asked.namespace = cached.namespace
         /\ Target(asked) = Target(cached) => asked.body = cached.body
         /\ (Plain(asked) /\ Plain(cached)) => SameRequest(asked, cached)

\* What the comments and documents say of the key: the path and the scope are part
\* of it, so an answer is given to requests with its own path and scope only.
TargetSeparates ==
  \A c \in Clients : answer[c] # None => SameRequest(req[c], answer[c].val.of)

\* While no put is on its way, a cached answer is the value of the last put of
\* its key, whichever tier it comes from, unless that put overlapped another
\* call on the key that had read or written a tier, or its row was not written.
ServesLatest ==
  [][\A c \in Clients :
       LET k == KeyOf(c)
       IN (answer'[c] # answer[c] /\ ~tainted[k] /\ ~Holding(c, k, {"put2"}))
            => answer'[c].val = latest[k]]_vars

\* A row that has not expired is never deleted, neither by the evictor nor by a
\* get, unless a get that saw the expired row before it overlapped the put.
LiveRowKept ==
  [][\A k \in Keys :
       (l2[k] # None /\ l2[k].exp >= clock /\ l2'[k] = None) => tainted[k]]_vars

\* An expired row is deleted or replaced in the end.
ExpiredRowsGo ==
  \A k \in Keys :
    (l2[k] # None /\ l2[k].exp < clock) ~> (l2[k] = None \/ l2[k].exp >= clock)

(***************************************************************************)
(* What the repository says of the cache and the code does not do.         *)
(***************************************************************************)
\* docs/src/configuration.md gives a route's `ttl` as the seconds its answers
\* are cached: no answer comes from the cache after its ttl.
TtlRespected ==
  \A c \in Clients : answer[c] # None => answer[c].at <= answer[c].val.exp
=============================================================================
