------------------------ MODULE ResponseCacheProofs ------------------------
(***************************************************************************)
(* Proofs about ResponseCache, for any requests in flight, lifetimes,      *)
(* eviction limit, time and number of restarts.                            *)
(***************************************************************************)
EXTENDS ResponseCache, FiniteSums, SequenceTheorems

Places == {"idle", "l1", "l2", "purge", "refill", "upstream", "put1", "put2", "done"}

Entries == [val : Values, at : Nat]

\* The variables keep their types, and what a call works with is there.
Typed ==
  /\ clock \in Nat
  /\ l1 \in [Keys -> Entries \cup {None}]
  /\ l2 \in [Keys -> Values \cup {None}]
  /\ evictor \in Nat \cup {None}
  /\ req \in [Clients -> Requests \cup {None}]
  /\ pc \in [Clients -> Places]
  /\ seen \in [Clients -> Values \cup {None}]
  /\ answer \in [Clients -> Entries \cup {None}]
  /\ latest \in [Keys -> Values \cup {None}]
  /\ tainted \in [Keys -> BOOLEAN]
  /\ \A c \in Clients : pc[c] # "idle" => req[c] \in Requests
  /\ \A c \in Clients : pc[c] \in {"refill", "put2"} => seen[c] \in Values
  /\ evictor = None \/ evictor <= clock

\* A put overlaps no call that has read or written a tier of its key, unless
\* the key is tainted.
Overlaps ==
  \A c, d \in Clients :
    (/\ c # d /\ KeyOf(c) = KeyOf(d)
     /\ pc[c] \in {"purge", "refill", "put2"} /\ pc[d] = "put2")
      => tainted[KeyOf(c)]

\* What a get is about to delete has expired.
Purging ==
  \A c \in Clients : pc[c] = "purge" =>
    \/ tainted[KeyOf(c)]
    \/ l2[KeyOf(c)] = None
    \/ l2[KeyOf(c)].exp < clock

\* The last put of a key is over, and nothing crossed it.
Quiet(k) == ~tainted[k] /\ \A d \in Clients : pc[d] = "put2" => KeyOf(d) # k

TiersAgree ==
  \A k \in Keys : Quiet(k) =>
    /\ l1[k] = None \/ l1[k].val = latest[k]
    /\ l2[k] = None \/ l2[k] = latest[k]

Refilling ==
  \A c \in Clients :
    (pc[c] = "refill" /\ Quiet(KeyOf(c))) => seen[c] = latest[KeyOf(c)]

Putting ==
  \A c \in Clients :
    (pc[c] = "put2" /\ ~tainted[KeyOf(c)]) =>
      l1[KeyOf(c)] = None \/ l1[KeyOf(c)].val = seen[c]

\* Neither property is inductive: what a get or a put has in its hands must be
\* related to both tiers and to the calls it may cross.
TierInv == Overlaps /\ Purging /\ TiersAgree /\ Refilling /\ Putting

CacheInv == Typed /\ TierInv

----------------------------------------------------------------------------
\* The key of a request that has arrived is a key of the tables.
LEMMA KeyType ==
  ASSUME NEW c, req[c] \in Requests
  PROVE  KeyOf(c) \in Keys
BY DEF KeyOf, Keys

\* Timestamps are integers, wrapped or not.
LEMMA ExpiryType ==
  ASSUME NEW now \in Nat, NEW ttl \in Nat
  PROVE  ExpiresAt(now, ttl) \in Int
BY CacheAssumption DEF ExpiresAt, Least

LEMMA RequestTtl ==
  ASSUME NEW r \in Requests
  PROVE  r.ttl \in Nat
BY CacheAssumption DEF RequestType

LEMMA InitTyped == Init => CacheInv
BY CacheAssumption DEF Init, CacheInv, Typed, Places, TierInv, Overlaps, Purging, TiersAgree,
   Refilling, Putting, Quiet

----------------------------------------------------------------------------
(* Types                                                                   *)

LEMMA ArriveTyped ==
  ASSUME Typed, NEW c \in Clients, NEW r \in Requests, Arrive(c, r)
  PROVE  Typed'
BY DEF Typed, Places, Arrive, Goto

LEMMA GetTyped ==
  ASSUME Typed, NEW c \in Clients, Get(c)
  PROVE  Typed'
<1>1. CASE L1Hit(c)
  <2>1. KeyOf(c) \in Keys /\ l1[KeyOf(c)] # None
    BY <1>1, KeyType DEF Typed, L1Hit, L1Live
  <2>2. [val |-> l1[KeyOf(c)].val, at |-> clock] \in Entries
    BY <2>1 DEF Typed, Entries
  <2>3. QED
    BY <1>1, <2>2 DEF Typed, Places, L1Hit, Serve, Goto
<1>2. CASE L1Miss(c)
  BY <1>2 DEF Typed, Places, L1Miss, Goto
<1>3. CASE L2Miss(c)
  BY <1>3 DEF Typed, Places, L2Miss, Missed, Goto
<1>4. CASE L2Read(c)
  <2>1. req[c] \in Requests /\ KeyOf(c) \in Keys
    BY <1>4, KeyType DEF Typed, L2Read
  <2>2. tainted' \in [Keys -> BOOLEAN]
    BY <1>4, <2>1, Zenon DEF Typed, L2Read
  <2>3. QED
    BY <1>4, <2>1, <2>2 DEF Typed, Places, L2Read, Goto
<1>5. CASE Refill(c)
  <2>1. req[c] \in Requests /\ KeyOf(c) \in Keys
    BY <1>5, KeyType DEF Typed, Refill
  <2>2. [val |-> seen[c], at |-> clock] \in Entries
    BY <1>5 DEF Typed, Refill, Entries
  <2>3. QED
    BY <1>5, <2>1, <2>2 DEF Typed, Places, Refill, Serve, Goto
<1>6. ASSUME NEW fails \in BOOLEAN, Purge(c, fails) PROVE Typed'
  BY <1>6 DEF Typed, Places, Purge, Missed, Goto
<1>7. QED
  BY <1>1, <1>2, <1>3, <1>4, <1>5, <1>6 DEF Get

LEMMA PutTyped ==
  ASSUME Typed, NEW c \in Clients, Upstream(c) \/ Put(c)
  PROVE  Typed'
<1>1. CASE Upstream(c)
  BY <1>1 DEF Typed, Places, Upstream, Goto
<1>2. CASE PutL1(c)
  <2> DEFINE v == [by |-> c, of |-> req[c], exp |-> ExpiresAt(clock, req[c].ttl)]
  <2>1. req[c] \in Requests /\ KeyOf(c) \in Keys
    BY <1>2, KeyType DEF Typed, PutL1
  <2>2. v \in Values
    BY <2>1, RequestTtl, ExpiryType DEF Typed, Values
  <2>3. tainted' \in [Keys -> BOOLEAN]
    BY <1>2, <2>1, Zenon DEF Typed, PutL1, Holding
  <2>4. /\ l1' = [l1 EXCEPT ![KeyOf(c)] = [val |-> v, at |-> clock]]
        /\ seen' = [seen EXCEPT ![c] = v]
    BY <1>2 DEF PutL1
  <2> HIDE DEF v
  <2>5. [val |-> v, at |-> clock] \in Entries
    BY <2>2 DEF Entries, Typed
  <2>6. l1' \in [Keys -> Entries \cup {None}] /\ seen' \in [Clients -> Values \cup {None}]
        /\ seen'[c] \in Values
    BY <2>2, <2>4, <2>5 DEF Typed
  <2>7. QED
    BY <1>2, <2>1, <2>3, <2>4, <2>6 DEF Typed, Places, PutL1, Goto
<1>3. ASSUME NEW fails \in BOOLEAN, PutL2(c, fails) PROVE Typed'
  <2>1. req[c] \in Requests /\ KeyOf(c) \in Keys
    BY <1>3, KeyType DEF Typed, PutL2
  <2>2. QED
    BY <1>3, <2>1 DEF Typed, Places, PutL2, Goto, Upsert
<1>4. QED
  BY <1>1, <1>2, <1>3 DEF Put

LEMMA OtherTyped ==
  ASSUME Typed,
         \/ EvictorTick \/ EvictDelete \/ EvictFails
         \/ (\E k \in Keys : L1Evict(k)) \/ Tick \/ Restart
  PROVE  Typed'
<1>1. CASE EvictorTick
  BY <1>1 DEF Typed, EvictorTick
<1>2. CASE EvictDelete
  BY <1>2 DEF Typed, EvictDelete
<1>3. CASE EvictFails
  BY <1>3 DEF Typed, EvictFails
<1>4. CASE \E k \in Keys : L1Evict(k)
  BY <1>4 DEF Typed, L1Evict
<1>5. CASE Tick
  BY <1>5 DEF Typed, Tick
<1>6. CASE Restart
  <2>1. tainted' \in [Keys -> BOOLEAN]
    BY <1>6, Zenon DEF Typed, Restart
  <2>2. QED
    BY <1>6, <2>1 DEF Typed, Restart, Places
<1>7. QED
  BY <1>1, <1>2, <1>3, <1>4, <1>5, <1>6

LEMMA StepTyped == Typed /\ [Next]_vars => Typed'
<1> SUFFICES ASSUME Typed, [Next]_vars PROVE Typed'
  OBVIOUS
<1>1. CASE UNCHANGED vars
  BY <1>1 DEF Typed, vars
<1>2. CASE Next
  BY <1>2, ArriveTyped, GetTyped, PutTyped, OtherTyped DEF Next
<1>3. QED
  BY <1>1, <1>2

----------------------------------------------------------------------------
(* The tiers and the calls                                                 *)

\* A step that puts nothing into the tiers: calls that have nothing in their hands
\* go where they still have nothing, rows and entries may disappear, time passes.
LEMMA OutsideTier ==
  ASSUME Typed, TierInv,
         \A d \in Clients :
           \/ pc'[d] = pc[d] /\ KeyOf(d)' = KeyOf(d)
           \/ pc[d] # "put2" /\ pc'[d] \notin {"purge", "refill", "put2"},
         \A k \in Keys : l1'[k] \in {l1[k], None} /\ l2'[k] \in {l2[k], None},
         clock' \in Nat, clock <= clock',
         UNCHANGED <<seen, latest, tainted>>
  PROVE  TierInv'
<1>1. \A d \in Clients : pc'[d] \in {"purge", "refill", "put2"} =>
        pc'[d] = pc[d] /\ KeyOf(d)' = KeyOf(d)
  OBVIOUS
<1>2. \A d \in Clients : pc[d] = "put2" => pc'[d] = pc[d] /\ KeyOf(d)' = KeyOf(d)
  OBVIOUS
<1>3. \A d \in Clients : pc[d] # "idle" => KeyOf(d) \in Keys
  BY KeyType DEF Typed
<1>4. \A k : Quiet(k)' => Quiet(k)
  BY <1>2 DEF Quiet
<1>5. Overlaps'
  BY <1>1 DEF TierInv, Overlaps
<1>6. Purging'
  <2> SUFFICES ASSUME NEW d \in Clients, pc'[d] = "purge", ~tainted'[KeyOf(d)'],
                      l2'[KeyOf(d)'] # None
               PROVE  l2'[KeyOf(d)'].exp < clock'
    BY DEF Purging
  <2>1. KeyOf(d)' = KeyOf(d) /\ KeyOf(d) \in Keys /\ pc[d] = "purge"
    BY <1>1, <1>3
  <2>2. l2'[KeyOf(d)] = l2[KeyOf(d)] /\ l2[KeyOf(d)].exp < clock
    BY <2>1 DEF TierInv, Purging
  <2>3. l2[KeyOf(d)].exp \in Int
    BY <2>1, <2>2 DEF Typed, Values
  <2>4. QED
    BY <2>1, <2>2, <2>3 DEF Typed
<1>7. TiersAgree'
  BY <1>4 DEF TierInv, TiersAgree
<1>8. Refilling'
  <2> SUFFICES ASSUME NEW d \in Clients, pc'[d] = "refill", Quiet(KeyOf(d))'
               PROVE  seen'[d] = latest'[KeyOf(d)']
    BY DEF Refilling
  <2>1. KeyOf(d)' = KeyOf(d) /\ pc[d] = "refill"
    BY <1>1
  <2>2. Quiet(KeyOf(d))
    BY <2>1, <1>2 DEF Quiet
  <2>3. QED
    BY <2>1, <2>2 DEF TierInv, Refilling
<1>9. Putting'
  BY <1>1, <1>3 DEF TierInv, Putting
<1>10. QED
  BY <1>5, <1>6, <1>7, <1>8, <1>9 DEF TierInv

\* Only Arrive changes a key.
LEMMA SameKeys ==
  ASSUME UNCHANGED req
  PROVE  \A d : KeyOf(d)' = KeyOf(d)
BY DEF KeyOf

LEMMA L2ReadTier ==
  ASSUME Typed, TierInv, NEW c \in Clients, L2Read(c)
  PROVE  TierInv'
<1> DEFINE k == KeyOf(c)
<1>1. /\ pc[c] = "l2" /\ req[c] \in Requests /\ k \in Keys /\ l2[k] # None
      /\ UNCHANGED <<clock, l1, l2, latest>>
  BY KeyType DEF Typed, L2Read
<1>2. \A d \in Clients : KeyOf(d)' = KeyOf(d)
  BY SameKeys DEF L2Read
<1>3. \A d \in Clients \ {c} : pc'[d] = pc[d] /\ seen'[d] = seen[d]
  BY DEF L2Read, Typed, Goto
<1>4. \/ pc'[c] = "purge" /\ l2[k].exp < clock
      \/ pc'[c] = "refill" /\ seen'[c] = l2[k]
  BY DEF L2Read, Typed, Goto
<1>5. \A j \in Keys : tainted[j] => tainted'[j]
  BY <1>1 DEF L2Read, Typed
<1>6. (\E d \in Clients : pc[d] = "put2" /\ KeyOf(d) = k) => tainted'[k]
  BY <1>1 DEF L2Read, Typed, Holding
<1>7. \A d \in Clients : pc[d] # "idle" => KeyOf(d) \in Keys
  BY KeyType DEF Typed
<1>8. \A d \in Clients : pc'[d] = "put2" <=> pc[d] = "put2"
  BY <1>1, <1>3, <1>4
<1> HIDE DEF k
<1>9. \A j \in Keys : Quiet(j)' => Quiet(j)
  BY <1>2, <1>5, <1>8 DEF Quiet
<1>10. Overlaps'
  <2> SUFFICES ASSUME NEW x \in Clients, NEW y \in Clients, x # y,
                      KeyOf(x)' = KeyOf(y)', pc'[x] \in {"purge", "refill", "put2"},
                      pc'[y] = "put2"
               PROVE  tainted'[KeyOf(x)']
    BY DEF Overlaps
  <2>1. KeyOf(x)' = KeyOf(x) /\ KeyOf(y)' = KeyOf(y) /\ pc[y] = "put2" /\ y # c
    BY <1>2, <1>8, <1>1
  <2>2. CASE x = c
    BY <2>1, <2>2, <1>6 DEF k
  <2>3. CASE x # c
    BY <2>1, <2>3, <1>3, <1>5, <1>7 DEF TierInv, Overlaps
  <2>4. QED
    BY <2>2, <2>3
<1>11. Purging'
  BY <1>1, <1>2, <1>3, <1>4, <1>5, <1>7 DEF TierInv, Purging, k
<1>12. TiersAgree'
  BY <1>1, <1>9 DEF TierInv, TiersAgree
<1>13. Refilling'
  <2> SUFFICES ASSUME NEW d \in Clients, pc'[d] = "refill", Quiet(KeyOf(d))'
               PROVE  seen'[d] = latest'[KeyOf(d)']
    BY DEF Refilling
  <2>1. KeyOf(d)' = KeyOf(d) /\ KeyOf(d) \in Keys
    BY <1>1, <1>2, <1>3, <1>7 DEF k
  <2>2. Quiet(KeyOf(d))
    BY <2>1, <1>2, <1>5, <1>8 DEF Quiet
  <2>3. QED
    BY <2>1, <2>2, <1>1, <1>3, <1>4 DEF TierInv, TiersAgree, Refilling, k
<1>14. Putting'
  BY <1>1, <1>2, <1>3, <1>5, <1>7, <1>8 DEF TierInv, Putting
<1>15. QED
  BY <1>10, <1>11, <1>12, <1>13, <1>14 DEF TierInv

\* The entry a refill writes is the row, unless a put is under way.
LEMMA RefillTier ==
  ASSUME Typed, TierInv, NEW c \in Clients, Refill(c)
  PROVE  TierInv'
<1> DEFINE k == KeyOf(c)
<1>1. /\ pc[c] = "refill" /\ req[c] \in Requests /\ k \in Keys
      /\ UNCHANGED <<clock, l2, seen, latest, tainted>>
  BY KeyType DEF Typed, Refill
<1>2. \A d \in Clients : KeyOf(d)' = KeyOf(d)
  BY SameKeys DEF Refill
<1>3. pc'[c] = "done" /\ \A d \in Clients \ {c} : pc'[d] = pc[d]
  BY DEF Refill, Typed, Goto, Serve
<1>4. l1'[k].val = seen[c] /\ \A j \in Keys \ {k} : l1'[j] = l1[j]
  BY <1>1 DEF Refill, Typed
<1>5. \A d \in Clients : pc[d] # "idle" => KeyOf(d) \in Keys
  BY KeyType DEF Typed
<1> HIDE DEF k
<1>6. \A j : Quiet(j)' <=> Quiet(j)
  BY <1>1, <1>2, <1>3 DEF Quiet
<1>7. Overlaps' /\ Purging'
  BY <1>1, <1>2, <1>3 DEF TierInv, Overlaps, Purging
<1>8. TiersAgree'
  BY <1>1, <1>4, <1>6 DEF TierInv, TiersAgree, Refilling, k
<1>9. Refilling'
  BY <1>1, <1>2, <1>3 DEF TierInv, Refilling, Quiet
<1>10. Putting'
  <2> SUFFICES ASSUME NEW d \in Clients, pc'[d] = "put2", ~tainted[KeyOf(d)]
               PROVE  l1'[KeyOf(d)] = None \/ l1'[KeyOf(d)].val = seen[d]
    BY <1>1, <1>2 DEF Putting
  <2>1. d # c /\ pc[d] = "put2" /\ KeyOf(d) \in Keys
    BY <1>3, <1>5
  <2>2. KeyOf(d) # k
    BY <1>1, <2>1 DEF TierInv, Overlaps, k
  <2>3. QED
    BY <1>4, <2>1, <2>2 DEF TierInv, Putting
<1>11. QED
  BY <1>7, <1>8, <1>9, <1>10 DEF TierInv

\* A put writes L1; from then on its key is not quiet.
LEMMA PutL1Tier ==
  ASSUME Typed, TierInv, NEW c \in Clients, PutL1(c)
  PROVE  TierInv'
<1> DEFINE k == KeyOf(c)
<1>1. /\ pc[c] = "put1" /\ req[c] \in Requests /\ k \in Keys
      /\ UNCHANGED <<clock, l2, latest>>
  BY KeyType DEF Typed, PutL1
<1>2. \A d \in Clients : KeyOf(d)' = KeyOf(d)
  BY SameKeys DEF PutL1
<1>3. pc'[c] = "put2" /\ \A d \in Clients \ {c} : pc'[d] = pc[d] /\ seen'[d] = seen[d]
  BY DEF PutL1, Typed, Goto
<1>4. l1'[k].val = seen'[c] /\ \A j \in Keys \ {k} : l1'[j] = l1[j]
  BY <1>1 DEF PutL1, Typed
<1>5. \A d \in Clients : pc[d] # "idle" => KeyOf(d) \in Keys
  BY KeyType DEF Typed
<1>6. \A j \in Keys \ {k} : tainted'[j] = tainted[j]
  BY <1>1 DEF PutL1, Typed
<1>7. \A d \in Clients \ {c} :
        (pc[d] \in {"purge", "refill", "put2"} /\ KeyOf(d) = k) => tainted'[k]
  BY <1>1 DEF PutL1, Typed, Holding
<1> HIDE DEF k
<1>8. \A j \in Keys : Quiet(j)' => Quiet(j) /\ j # k
  BY <1>1, <1>2, <1>3, <1>6 DEF Quiet, k
<1>9. Overlaps'
  <2> SUFFICES ASSUME NEW x \in Clients, NEW y \in Clients, x # y, KeyOf(x) = KeyOf(y),
                      pc'[x] \in {"purge", "refill", "put2"}, pc'[y] = "put2"
               PROVE  tainted'[KeyOf(x)]
    BY <1>2 DEF Overlaps
  <2>1. CASE KeyOf(x) = k
    BY <1>3, <1>7, <2>1
  <2>2. CASE KeyOf(x) # k
    <3>1. x # c /\ y # c
      BY <2>2 DEF k
    <3>2. tainted[KeyOf(x)] /\ KeyOf(x) \in Keys
      BY <3>1, <1>3, <1>5 DEF TierInv, Overlaps
    <3>3. QED
      BY <3>2, <2>2, <1>6
  <2>3. QED
    BY <2>1, <2>2
<1>10. Purging'
  <2> SUFFICES ASSUME NEW d \in Clients, pc'[d] = "purge"
               PROVE  \/ tainted'[KeyOf(d)]
                      \/ l2[KeyOf(d)] = None
                      \/ l2[KeyOf(d)].exp < clock
    BY <1>1, <1>2 DEF Purging
  <2>1. d # c /\ pc[d] = "purge" /\ KeyOf(d) \in Keys
    BY <1>3, <1>5
  <2>2. QED
    BY <2>1, <1>6, <1>7 DEF TierInv, Purging
<1>11. TiersAgree'
  BY <1>1, <1>4, <1>8 DEF TierInv, TiersAgree
<1>12. Refilling'
  <2> SUFFICES ASSUME NEW d \in Clients, pc'[d] = "refill", Quiet(KeyOf(d))'
               PROVE  seen'[d] = latest'[KeyOf(d)']
    BY DEF Refilling
  <2>1. d # c /\ pc[d] = "refill" /\ KeyOf(d) \in Keys /\ KeyOf(d)' = KeyOf(d)
    BY <1>2, <1>3, <1>5
  <2>2. KeyOf(d) # k
    BY <2>1, <1>2, <1>3 DEF Quiet, k
  <2>3. Quiet(KeyOf(d))
    BY <2>1, <2>2, <1>2, <1>3, <1>6 DEF Quiet, k
  <2>4. QED
    BY <2>1, <2>3, <1>1, <1>3 DEF TierInv, Refilling
<1>13. Putting'
  <2> SUFFICES ASSUME NEW d \in Clients, pc'[d] = "put2", ~tainted'[KeyOf(d)]
               PROVE  l1'[KeyOf(d)] = None \/ l1'[KeyOf(d)].val = seen'[d]
    BY <1>2 DEF Putting
  <2>1. CASE d = c
    BY <2>1, <1>4 DEF k
  <2>2. CASE d # c
    <3>1. pc[d] = "put2" /\ KeyOf(d) # k /\ KeyOf(d) \in Keys
      BY <2>2, <1>3, <1>5, <1>7
    <3>2. QED
      BY <3>1, <2>2, <1>3, <1>4, <1>6 DEF TierInv, Putting
  <2>3. QED
    BY <2>1, <2>2
<1>14. QED
  BY <1>9, <1>10, <1>11, <1>12, <1>13 DEF TierInv

\* The row follows, or the key is tainted.
LEMMA PutL2Tier ==
  ASSUME Typed, TierInv, NEW c \in Clients, NEW fails \in BOOLEAN, PutL2(c, fails)
  PROVE  TierInv'
<1> DEFINE k == KeyOf(c)
<1>1. /\ pc[c] = "put2" /\ req[c] \in Requests /\ k \in Keys
      /\ UNCHANGED <<clock, l1, seen>>
  BY KeyType DEF Typed, PutL2
<1>2. \A d \in Clients : KeyOf(d)' = KeyOf(d)
  BY SameKeys DEF PutL2
<1>3. pc'[c] = "done" /\ \A d \in Clients \ {c} : pc'[d] = pc[d]
  BY DEF PutL2, Typed, Goto
<1>4. \A d \in Clients : pc[d] # "idle" => KeyOf(d) \in Keys
  BY KeyType DEF Typed
<1>5. \A j \in Keys \ {k} : l2'[j] = l2[j] /\ latest'[j] = latest[j] /\ tainted'[j] = tainted[j]
  BY <1>1 DEF PutL2, Typed, Upsert
<1>6. \/ tainted'[k]
      \/ l2'[k] = seen[c] /\ latest'[k] = seen[c] /\ tainted'[k] = tainted[k]
  BY <1>1 DEF PutL2, Typed, Upsert
<1>7. \A j \in Keys : tainted[j] => tainted'[j]
  BY <1>1 DEF PutL2, Typed
<1> HIDE DEF k
<1>8. \A d \in Clients : pc'[d] \in {"purge", "refill", "put2"} => pc[d] = pc'[d] /\ d # c
  BY <1>3
<1>9. \A j \in Keys \ {k} : Quiet(j)' => Quiet(j)
  BY <1>2, <1>3, <1>5 DEF Quiet, k
<1>10. Overlaps'
  BY <1>2, <1>4, <1>7, <1>8 DEF TierInv, Overlaps
<1>11. \A d \in Clients :
         (pc'[d] \in {"purge", "refill", "put2"} /\ KeyOf(d) = k) => tainted'[k]
  BY <1>1, <1>7, <1>8 DEF TierInv, Overlaps, k
<1>12. Purging'
  <2> SUFFICES ASSUME NEW d \in Clients, pc'[d] = "purge"
               PROVE  \/ tainted'[KeyOf(d)]
                      \/ l2'[KeyOf(d)] = None
                      \/ l2'[KeyOf(d)].exp < clock
    BY <1>1, <1>2 DEF Purging
  <2>1. pc[d] = "purge" /\ KeyOf(d) \in Keys
    BY <1>4, <1>8
  <2>2. QED
    BY <2>1, <1>5, <1>7, <1>11 DEF TierInv, Purging
<1>13. TiersAgree'
  <2> SUFFICES ASSUME NEW j \in Keys, Quiet(j)'
               PROVE  /\ l1[j] = None \/ l1[j].val = latest'[j]
                      /\ l2'[j] = None \/ l2'[j] = latest'[j]
    BY <1>1 DEF TiersAgree
  <2>1. CASE j = k
    <3>1. ~tainted'[k] /\ ~tainted[k]
      BY <2>1, <1>1, <1>7 DEF Quiet
    <3>2. l2'[k] = seen[c] /\ latest'[k] = seen[c]
      BY <3>1, <1>6
    <3>3. l1[k] = None \/ l1[k].val = seen[c]
      BY <3>1, <1>1 DEF TierInv, Putting, k
    <3>4. QED
      BY <2>1, <3>2, <3>3
  <2>2. CASE j # k
    BY <2>2, <1>5, <1>9 DEF TierInv, TiersAgree
  <2>3. QED
    BY <2>1, <2>2
<1>14. Refilling'
  <2> SUFFICES ASSUME NEW d \in Clients, pc'[d] = "refill", Quiet(KeyOf(d))'
               PROVE  seen[d] = latest'[KeyOf(d)]
    BY <1>1, <1>2 DEF Refilling
  <2>1. pc[d] = "refill" /\ KeyOf(d) \in Keys /\ KeyOf(d)' = KeyOf(d)
    BY <1>2, <1>4, <1>8
  <2>2. KeyOf(d) # k
    BY <2>1, <1>11 DEF Quiet
  <2>3. Quiet(KeyOf(d))
    BY <2>1, <2>2, <1>2, <1>3, <1>5 DEF Quiet, k
  <2>4. QED
    BY <2>1, <2>2, <2>3, <1>5 DEF TierInv, Refilling
<1>15. Putting'
  <2> SUFFICES ASSUME NEW d \in Clients, pc'[d] = "put2", ~tainted'[KeyOf(d)]
               PROVE  l1[KeyOf(d)] = None \/ l1[KeyOf(d)].val = seen[d]
    BY <1>1, <1>2 DEF Putting
  <2>1. QED
    BY <1>4, <1>7, <1>8 DEF TierInv, Putting
<1>16. QED
  BY <1>10, <1>12, <1>13, <1>14, <1>15 DEF TierInv

\* A restart empties L1 and taints the keys of puts it interrupts.
LEMMA RestartTier ==
  ASSUME Typed, TierInv, Restart
  PROVE  TierInv'
<1>1. \A d \in Clients : pc'[d] \in {"idle", "done"}
  BY DEF Restart, Typed
<1>2. \A k \in Keys : Quiet(k)' => Quiet(k)
  BY DEF Restart, Typed, Quiet
<1>3. \A k \in Keys : l1'[k] = None /\ l2'[k] = l2[k] /\ latest'[k] = latest[k]
  BY DEF Restart
<1>4. QED
  BY <1>1, <1>2, <1>3 DEF TierInv, Overlaps, Purging, TiersAgree, Refilling, Putting

LEMMA StepTier == Typed /\ TierInv /\ [Next]_vars => TierInv'
<1> SUFFICES ASSUME Typed, TierInv, [Next]_vars PROVE TierInv'
  OBVIOUS
<1>1. CASE UNCHANGED vars
  BY <1>1 DEF vars, TierInv, Overlaps, Purging, TiersAgree, Refilling, Putting, Quiet, KeyOf
<1> DEFINE Outside ==
      /\ \A d \in Clients :
           \/ pc'[d] = pc[d] /\ KeyOf(d)' = KeyOf(d)
           \/ pc[d] # "put2" /\ pc'[d] \notin {"purge", "refill", "put2"}
      /\ \A k \in Keys : l1'[k] \in {l1[k], None} /\ l2'[k] \in {l2[k], None}
      /\ clock' \in Nat /\ clock <= clock'
      /\ UNCHANGED <<seen, latest, tainted>>
<1>2. ASSUME NEW c \in Clients,
             \/ (\E r \in Requests : Arrive(c, r)) \/ L1Hit(c) \/ L1Miss(c) \/ L2Miss(c)
             \/ Upstream(c)
      PROVE  Outside
  BY <1>2 DEF Typed, Arrive, L1Hit, L1Miss, L2Miss, Upstream, Missed, Serve, Goto, KeyOf
<1>3. ASSUME NEW c \in Clients, NEW fails \in BOOLEAN, Purge(c, fails)
      PROVE  Outside
  BY <1>3 DEF Typed, Purge, Missed, Goto, KeyOf
<1>4. ASSUME \/ EvictorTick \/ EvictDelete \/ EvictFails
             \/ (\E k \in Keys : L1Evict(k)) \/ Tick
      PROVE  Outside
  BY <1>4 DEF Typed, EvictorTick, EvictDelete, EvictFails, L1Evict, Tick, KeyOf
<1>5. Outside => TierInv'
  BY OutsideTier
<1> HIDE DEF Outside
<1>6. CASE Next
  BY <1>2, <1>3, <1>4, <1>5, <1>6, L2ReadTier, RefillTier, PutL1Tier, PutL2Tier, RestartTier
     DEF Next, Get, Put
<1>7. QED
  BY <1>1, <1>6

\* CacheInv holds: the tiers of a key agree with the last put whenever no get or put
\* of it is between its two tiers, and a get about to delete or refill has seen why.
THEOREM CacheInvariant == Spec => []CacheInv
<1>1. Init => CacheInv
  BY InitTyped
<1>2. CacheInv /\ [Next]_vars => CacheInv'
  BY StepTyped, StepTier DEF CacheInv
<1>3. QED
  BY <1>1, <1>2, PTL DEF Spec

----------------------------------------------------------------------------
(* What the cache promises                                                 *)

\* Answers come from L1Hit and Refill only.
LEMMA Answering ==
  ASSUME [Next]_vars, answer' # answer
  PROVE  \E c \in Clients : L1Hit(c) \/ Refill(c)
BY Zenon DEF Next, vars, Get, Put, L1Miss, L2Miss, L2Read, Purge, Upstream, PutL1, PutL2, Arrive,
   EvictorTick, EvictDelete, EvictFails, L1Evict, Tick, Restart

\* A step that answers from the cache while nothing is under way on the key.
LEMMA LatestStep ==
  ASSUME CacheInv, [Next]_vars, NEW c \in Clients, answer'[c] # answer[c],
         ~tainted[KeyOf(c)], ~Holding(c, KeyOf(c), {"put2"})
  PROVE  answer'[c].val = latest[KeyOf(c)]
<1> USE DEF CacheInv
<1>1. \A d \in Clients \ {c} : pc[d] # "put2" \/ KeyOf(d) # KeyOf(c)
  BY DEF Holding
<1>2. L1Hit(c) \/ Refill(c)
  <2>1. PICK d \in Clients : L1Hit(d) \/ Refill(d)
    BY Answering
  <2>2. d = c
    BY <2>1 DEF L1Hit, Refill, Serve, Typed
  <2>3. QED
    BY <2>1, <2>2
<1>3. CASE L1Hit(c)
  <2>1. KeyOf(c) \in Keys /\ pc[c] = "l1" /\ l1[KeyOf(c)] # None
    BY <1>3, KeyType DEF Typed, L1Hit, L1Live
  <2>2. Quiet(KeyOf(c))
    BY <1>1, <2>1 DEF Quiet
  <2>3. l1[KeyOf(c)].val = latest[KeyOf(c)]
    BY <2>1, <2>2 DEF TierInv, TiersAgree
  <2>4. QED
    BY <1>3, <2>3 DEF L1Hit, Serve, Typed
<1>4. CASE Refill(c)
  <2>1. KeyOf(c) \in Keys /\ pc[c] = "refill"
    BY <1>4, KeyType DEF Typed, Refill
  <2>2. Quiet(KeyOf(c))
    BY <1>1, <2>1 DEF Quiet
  <2>3. seen[c] = latest[KeyOf(c)]
    BY <2>1, <2>2 DEF TierInv, Refilling
  <2>4. QED
    BY <1>4, <2>3 DEF Refill, Serve, Typed
<1>5. QED
  BY <1>2, <1>3, <1>4

\* ServesLatest holds: a cached answer is the value of the last put of its key
\* while no put is on its way, whichever of l1.get and the SELECT finds it.
THEOREM CacheServesLatest == Spec => ServesLatest
<1>1. CacheInv /\ [Next]_vars =>
        [\A c \in Clients :
           LET k == KeyOf(c)
           IN (answer'[c] # answer[c] /\ ~tainted[k] /\ ~Holding(c, k, {"put2"}))
                => answer'[c].val = latest[k]]_vars
  BY LatestStep
<1>2. QED
  BY <1>1, CacheInvariant, PTL DEF Spec, ServesLatest

\* A step that deletes a row.
LEMMA KeptStep ==
  ASSUME CacheInv, [Next]_vars, NEW k \in Keys, l2[k] # None, l2[k].exp >= clock,
         l2'[k] = None
  PROVE  tainted[k]
<1> USE DEF CacheInv
<1>1. l2' # l2
  OBVIOUS
<1>2. \/ \E c \in Clients, fails \in BOOLEAN : Purge(c, fails) \/ PutL2(c, fails)
      \/ EvictDelete
  BY <1>1, Zenon DEF Next, vars, Get, Put, L1Hit, L1Miss, L2Miss, L2Read, Refill, Upstream,
     PutL1, Arrive, EvictorTick, EvictFails, L1Evict, Tick, Restart
<1>3. l2[k].exp \in Int
  BY DEF Typed, Values
<1>4. ASSUME NEW c \in Clients, NEW fails \in BOOLEAN, Purge(c, fails)
      PROVE  tainted[k]
  <2>1. KeyOf(c) = k /\ pc[c] = "purge"
    BY <1>4 DEF Purge, Typed
  <2>2. tainted[k] \/ l2[k].exp < clock
    BY <2>1 DEF TierInv, Purging
  <2>3. QED
    BY <2>2, <1>3 DEF Typed
<1>5. ASSUME NEW c \in Clients, NEW fails \in BOOLEAN, PutL2(c, fails)
      PROVE  tainted[k]
  <2>1. seen[c] \in Values /\ l2'[k] = seen[c]
    BY <1>5 DEF PutL2, Upsert, Typed
  <2>2. QED
    BY <2>1, CacheAssumption
<1>6. CASE EvictDelete
  <2>1. k \in Evictable(evictor) /\ evictor # None
    BY <1>6 DEF EvictDelete
  <2>2. l2[k].exp < evictor /\ evictor \in Nat /\ evictor <= clock
    BY <2>1 DEF Evictable, Typed
  <2>3. QED
    BY <2>2, <1>3 DEF Typed
<1>7. QED
  BY <1>2, <1>4, <1>5, <1>6

\* LiveRowKept holds: a row that has not expired is deleted by no DELETE, of the
\* evictor or of a get, unless a get that saw the row before it overlapped the put.
THEOREM CacheKeepsLiveRows == Spec => LiveRowKept
<1>1. CacheInv /\ [Next]_vars =>
        [\A k \in Keys :
           (l2[k] # None /\ l2[k].exp >= clock /\ l2'[k] = None) => tainted[k]]_vars
  BY KeptStep
<1>2. QED
  BY <1>1, CacheInvariant, PTL DEF Spec, LiveRowKept

----------------------------------------------------------------------------
(* Where a cached value comes from                                         *)

\* Everything stored, held or answered under a key was put for a request with
\* that key.
Origins ==
  /\ \A k \in Keys : l1[k] # None => CacheKey(l1[k].val.of) = k
  /\ \A k \in Keys : l2[k] # None => CacheKey(l2[k].of) = k
  /\ \A c \in Clients : pc[c] \in {"refill", "put2"} => CacheKey(seen[c].of) = KeyOf(c)
  /\ \A c \in Clients : answer[c] # None =>
       pc[c] = "done" /\ CacheKey(answer[c].val.of) = KeyOf(c)

LEMMA OriginsGet ==
  ASSUME Typed, Origins, NEW c \in Clients, Get(c)
  PROVE  Origins'
<1>1. CASE L1Hit(c)
  <2>1. KeyOf(c) \in Keys /\ l1[KeyOf(c)] # None
    BY <1>1, KeyType DEF Typed, L1Hit, L1Live
  <2>2. QED
    BY <1>1, <2>1 DEF Typed, Origins, L1Hit, Serve, Goto, KeyOf
<1>2. CASE L1Miss(c)
  BY <1>2 DEF Typed, Origins, L1Miss, Goto, KeyOf
<1>3. CASE L2Miss(c)
  BY <1>3 DEF Typed, Origins, L2Miss, Missed, Goto, KeyOf
<1>4. CASE L2Read(c)
  <2>1. KeyOf(c) \in Keys
    BY <1>4, KeyType DEF Typed, L2Read
  <2>2. QED
    BY <1>4, <2>1 DEF Typed, Origins, L2Read, Goto, KeyOf
<1>5. CASE Refill(c)
  <2>1. KeyOf(c) \in Keys
    BY <1>5, KeyType DEF Typed, Refill
  <2>2. QED
    BY <1>5, <2>1 DEF Typed, Origins, Refill, Serve, Goto, KeyOf
<1>6. ASSUME NEW fails \in BOOLEAN, Purge(c, fails) PROVE Origins'
  BY <1>6 DEF Typed, Origins, Purge, Missed, Goto, KeyOf
<1>7. QED
  BY <1>1, <1>2, <1>3, <1>4, <1>5, <1>6 DEF Get

LEMMA OriginsPut ==
  ASSUME Typed, Origins, NEW c \in Clients, Upstream(c) \/ Put(c)
  PROVE  Origins'
<1>1. CASE Upstream(c)
  BY <1>1 DEF Typed, Origins, Upstream, Goto, KeyOf
<1>2. CASE PutL1(c)
  <2>1. KeyOf(c) \in Keys
    BY <1>2, KeyType DEF Typed, PutL1
  <2>2. QED
    BY <1>2, <2>1 DEF Typed, Origins, PutL1, Goto, KeyOf
<1>3. ASSUME NEW fails \in BOOLEAN, PutL2(c, fails) PROVE Origins'
  <2>1. KeyOf(c) \in Keys
    BY <1>3, KeyType DEF Typed, PutL2
  <2>2. QED
    BY <1>3, <2>1 DEF Typed, Origins, PutL2, Goto, Upsert, KeyOf
<1>4. QED
  BY <1>1, <1>2, <1>3 DEF Put

LEMMA OriginsStep == Typed /\ Origins /\ [Next]_vars => Origins'
<1> SUFFICES ASSUME Typed, Origins, [Next]_vars PROVE Origins'
  OBVIOUS
<1>1. CASE UNCHANGED vars
  BY <1>1 DEF Origins, vars, KeyOf
<1>2. ASSUME NEW c \in Clients, NEW r \in Requests, Arrive(c, r) PROVE Origins'
  BY <1>2 DEF Typed, Origins, Arrive, Goto, KeyOf
<1>3. CASE EvictorTick \/ EvictFails \/ Tick
  BY <1>3 DEF Origins, EvictorTick, EvictFails, Tick, KeyOf
<1>4. CASE EvictDelete \/ \E k \in Keys : L1Evict(k)
  BY <1>4 DEF Typed, Origins, EvictDelete, L1Evict, KeyOf
<1>5. CASE Restart
  BY <1>5 DEF Typed, Origins, Restart, KeyOf
<1>6. CASE Next
  BY <1>2, <1>3, <1>4, <1>5, <1>6, OriginsGet, OriginsPut DEF Next
<1>7. QED
  BY <1>1, <1>6

\* Origins holds: whatever l1, l2, a get or an answer holds under a key was put by a
\* request with that key.
THEOREM CacheOrigins == Spec => []Origins
<1>1. Init => Origins
  BY DEF Init, Origins
<1>2. CacheInv /\ Origins /\ [Next]_vars => Origins'
  BY OriginsStep DEF CacheInv
<1>3. QED
  BY <1>1, <1>2, CacheInvariant, PTL DEF Spec

----------------------------------------------------------------------------
(* Sequences of bytes that can be taken apart                              *)

Bytes == Seq(Byte)

LEMMA Concat ==
  ASSUME NEW s \in Bytes, NEW t \in Bytes
  PROVE  /\ s \o t \in Bytes
         /\ Len(s) \in Nat /\ Len(t) \in Nat /\ Len(s \o t) = Len(s) + Len(t)
         /\ \A i \in 1..Len(s) : (s \o t)[i] = s[i]
         /\ \A i \in 1..Len(t) : (s \o t)[Len(s) + i] = t[i]
<1>1. Len(s) \in Nat /\ Len(t) \in Nat
  BY DEF Bytes
<1>2. /\ s \o t \in Bytes /\ Len(s \o t) = Len(s) + Len(t)
      /\ \A i \in 1..Len(s) + Len(t) :
           (s \o t)[i] = IF i <= Len(s) THEN s[i] ELSE t[i - Len(s)]
  BY ConcatProperties DEF Bytes
<1>3. \A i \in 1..Len(s) : (s \o t)[i] = s[i]
  BY <1>1, <1>2
<1>4. ASSUME NEW i \in 1..Len(t) PROVE (s \o t)[Len(s) + i] = t[i]
  <2>1. Len(s) + i \in 1..Len(s) + Len(t) /\ ~(Len(s) + i <= Len(s)) /\ Len(s) + i - Len(s) = i
    BY <1>1
  <2>2. QED
    BY <1>2, <2>1
<1>5. QED
  BY <1>1, <1>2, <1>3, <1>4

LEMMA SameBytes ==
  ASSUME NEW s \in Bytes, NEW t \in Bytes, Len(s) = Len(t),
         \A i \in 1..Len(s) : s[i] = t[i]
  PROVE  s = t
BY DEF Bytes

Associates(s, t, u) == (s \o t) \o u = s \o (t \o u)

LEMMA ConcatAssoc ==
  ASSUME NEW s \in Bytes, NEW t \in Bytes, NEW u \in Bytes
  PROVE  Associates(s, t, u)
BY ConcatAssociative DEF Bytes, Associates

\* Prefixes of the same length come off.
LEMMA Cancel ==
  ASSUME NEW a \in Bytes, NEW b \in Bytes, NEW u \in Bytes, NEW v \in Bytes,
         Len(a) = Len(b), a \o u = b \o v
  PROVE  a = b /\ u = v
<1> DEFINE w == a \o u
<1>a. /\ Len(a) \in Nat /\ Len(u) \in Nat /\ Len(w) = Len(a) + Len(u)
      /\ \A i \in 1..Len(a) : w[i] = a[i]
      /\ \A i \in 1..Len(u) : w[Len(a) + i] = u[i]
  BY Concat
<1>b. /\ Len(v) \in Nat /\ Len(w) = Len(a) + Len(v)
      /\ \A i \in 1..Len(a) : w[i] = b[i]
      /\ \A i \in 1..Len(v) : w[Len(a) + i] = v[i]
  BY Concat
<1> HIDE DEF w
<1>1. a = b
  <2>1. \A i \in 1..Len(a) : a[i] = b[i]
    BY <1>a, <1>b
  <2>2. QED
    BY <2>1, SameBytes
<1>2. u = v
  <2>1. Len(u) = Len(v)
    BY <1>a, <1>b
  <2>2. \A i \in 1..Len(u) : u[i] = v[i]
    BY <2>1, <1>a, <1>b
  <2>3. QED
    BY <2>1, <2>2, SameBytes
<1>3. QED
  BY <1>1, <1>2

\* So do prefixes that end at the first separator.
LEMMA SplitAtBar ==
  ASSUME NEW a \in Bytes, NEW b \in Bytes, NEW u \in Bytes, NEW v \in Bytes,
         \A i \in 1..Len(a) : a[i] # Bar,
         \A i \in 1..Len(b) : b[i] # Bar,
         (a \o <<Bar>>) \o u = (b \o <<Bar>>) \o v
  PROVE  a = b /\ u = v
<1>1. <<Bar>> \in Bytes /\ Len(<<Bar>>) = 1 /\ <<Bar>>[1] = Bar
  BY DEF Bytes, Bar, Byte
<1>2. ASSUME NEW c \in Bytes, NEW w \in Bytes
      PROVE  /\ c \o <<Bar>> \in Bytes /\ Len(c \o <<Bar>>) = Len(c) + 1
             /\ ((c \o <<Bar>>) \o w)[Len(c) + 1] = Bar
             /\ \A i \in 1..Len(c) : ((c \o <<Bar>>) \o w)[i] = c[i]
  <2>1. /\ c \o <<Bar>> \in Bytes /\ Len(c) \in Nat /\ Len(c \o <<Bar>>) = Len(c) + 1
        /\ \A i \in 1..Len(c) : (c \o <<Bar>>)[i] = c[i]
        /\ (c \o <<Bar>>)[Len(c) + 1] = Bar
    BY <1>1, Concat
  <2>2. \A i \in 1..Len(c) + 1 : ((c \o <<Bar>>) \o w)[i] = (c \o <<Bar>>)[i]
    BY <2>1, Concat
  <2>3. QED
    BY <2>1, <2>2
<1>3. Len(a) \in Nat /\ Len(b) \in Nat
  BY DEF Bytes
<1>4. ~(Len(a) < Len(b))
  <2> SUFFICES ASSUME Len(a) < Len(b) PROVE FALSE
    OBVIOUS
  <2>1. Len(a) + 1 \in 1..Len(b)
    BY <1>3
  <2>2. ((b \o <<Bar>>) \o v)[Len(a) + 1] = b[Len(a) + 1]
    BY <1>2, <2>1
  <2>3. QED
    BY <1>2, <2>1, <2>2
<1>5. ~(Len(b) < Len(a))
  <2> SUFFICES ASSUME Len(b) < Len(a) PROVE FALSE
    OBVIOUS
  <2>1. Len(b) + 1 \in 1..Len(a)
    BY <1>3
  <2>2. ((a \o <<Bar>>) \o u)[Len(b) + 1] = a[Len(b) + 1]
    BY <1>2, <2>1
  <2>3. QED
    BY <1>2, <2>1, <2>2
<1>6. Len(a) = Len(b)
  BY <1>3, <1>4, <1>5
<1>7. a \o <<Bar>> = b \o <<Bar>> /\ u = v
  <2>1. PICK x, y : x = a \o <<Bar>> /\ y = b \o <<Bar>>
    OBVIOUS
  <2>a. x \in Bytes /\ Len(x) = Len(a) + 1
    BY <1>1, <2>1, Concat
  <2>b. y \in Bytes /\ Len(y) = Len(b) + 1
    BY <1>1, <2>1, Concat
  <2>2. Len(x) = Len(y) /\ x \o u = y \o v
    BY <1>6, <2>1, <2>a, <2>b
  <2>3. x = y /\ u = v
    BY <2>2, <2>a, <2>b, Cancel
  <2>4. QED
    BY <2>1, <2>3
<1>8. a = b
  BY <1>1, <1>6, <1>7, Cancel
<1>9. QED
  BY <1>7, <1>8

\* A length is in its eight bytes.
LEMMA LengthBytes ==
  ASSUME NEW m \in Nat, IsUsize(m)
  PROVE  /\ hash_len(m) \in Bytes /\ Len(hash_len(m)) = 8
         /\ \A n \in Nat : (IsUsize(n) /\ hash_len(m) = hash_len(n)) => m = n
<1>1. ASSUME NEW n \in Nat
      PROVE  Shr8(n) \in Nat /\ n % 256 \in Byte /\ n = 256 * Shr8(n) + (n % 256)
  <2>1. n \div 256 \in Nat /\ n % 256 \in 0..255 /\ n = 256 * (n \div 256) + (n % 256)
    BY SMTT(30)
  <2>2. QED
    BY <2>1 DEF Shr8, Byte
<1>2. ASSUME NEW x \in Nat, NEW y \in Nat, Shr8(x) = Shr8(y), x % 256 = y % 256
      PROVE  x = y
  <2>1. x = 256 * Shr8(x) + (x % 256)
    BY <1>1, Zenon
  <2>2. y = 256 * Shr8(y) + (y % 256)
    BY <1>1, Zenon
  <2>3. QED
    BY <1>2, <2>1, <2>2, Zenon
<1>3. \A x \in Nat : x < 256 => x % 256 = x
  OBVIOUS
<1>4. hash_len(m) \in Bytes /\ Len(hash_len(m)) = 8
  <2>1. \A n \in Nat : Shr8(n) \in Nat /\ n % 256 \in Byte
    BY <1>1
  <2>3. PICK n1, n2, n3, n4, n5, n6, n7 \in Nat :
          /\ n1 = Shr8(m) /\ n2 = Shr8(n1) /\ n3 = Shr8(n2) /\ n4 = Shr8(n3)
          /\ n5 = Shr8(n4) /\ n6 = Shr8(n5) /\ n7 = Shr8(n6)
    BY <2>1
  <2>4. hash_len(m) = <<m % 256, n1 % 256, n2 % 256, n3 % 256, n4 % 256, n5 % 256, n6 % 256,
                        n7 % 256>>
    BY <2>3 DEF hash_len
  <2>5. /\ m % 256 \in Byte /\ n1 % 256 \in Byte /\ n2 % 256 \in Byte /\ n3 % 256 \in Byte
        /\ n4 % 256 \in Byte /\ n5 % 256 \in Byte /\ n6 % 256 \in Byte /\ n7 % 256 \in Byte
    BY <2>1
  <2>6. PICK d1, d2, d3, d4, d5, d6, d7, d8 \in Byte :
          /\ d1 = m % 256 /\ d2 = n1 % 256 /\ d3 = n2 % 256 /\ d4 = n3 % 256
          /\ d5 = n4 % 256 /\ d6 = n5 % 256 /\ d7 = n6 % 256 /\ d8 = n7 % 256
    BY <2>5, Zenon
  <2>7. hash_len(m) = <<d1, d2, d3, d4, d5, d6, d7, d8>>
    BY <2>4, <2>6, ZenonT(30)
  <2>8. /\ <<d1, d2, d3, d4, d5, d6, d7, d8>> \in Bytes
        /\ Len(<<d1, d2, d3, d4, d5, d6, d7, d8>>) = 8
    BY DEF Bytes
  <2>9. QED
    BY <2>7, <2>8, Zenon
<1>5. ASSUME NEW n \in Nat, IsUsize(n), hash_len(m) = hash_len(n) PROVE m = n
  <2>1. /\ m % 256 = n % 256
        /\ Shr8(m) % 256 = Shr8(n) % 256
        /\ Shr8(Shr8(m)) % 256 = Shr8(Shr8(n)) % 256
        /\ Shr8(Shr8(Shr8(m))) % 256 = Shr8(Shr8(Shr8(n))) % 256
        /\ Shr8(Shr8(Shr8(Shr8(m)))) % 256 = Shr8(Shr8(Shr8(Shr8(n)))) % 256
        /\ Shr8(Shr8(Shr8(Shr8(Shr8(m))))) % 256 = Shr8(Shr8(Shr8(Shr8(Shr8(n))))) % 256
        /\ Shr8(Shr8(Shr8(Shr8(Shr8(Shr8(m)))))) % 256
             = Shr8(Shr8(Shr8(Shr8(Shr8(Shr8(n)))))) % 256
        /\ Shr8(Shr8(Shr8(Shr8(Shr8(Shr8(Shr8(m))))))) % 256
             = Shr8(Shr8(Shr8(Shr8(Shr8(Shr8(Shr8(n))))))) % 256
    BY <1>5 DEF hash_len
  <2>2. \A x \in Nat : Shr8(x) \in Nat
    BY <1>1
  <2>3. Shr8(Shr8(Shr8(Shr8(Shr8(Shr8(Shr8(m)))))))
          = Shr8(Shr8(Shr8(Shr8(Shr8(Shr8(Shr8(n)))))))
    BY <1>3, <1>5, <2>1, <2>2 DEF IsUsize
  <2>4. Shr8(Shr8(Shr8(Shr8(Shr8(Shr8(m)))))) = Shr8(Shr8(Shr8(Shr8(Shr8(Shr8(n))))))
    BY <1>2, <2>1, <2>2, <2>3
  <2>5. Shr8(Shr8(Shr8(Shr8(Shr8(m))))) = Shr8(Shr8(Shr8(Shr8(Shr8(n)))))
    BY <1>2, <2>1, <2>2, <2>4
  <2>6. Shr8(Shr8(Shr8(Shr8(m)))) = Shr8(Shr8(Shr8(Shr8(n))))
    BY <1>2, <2>1, <2>2, <2>5
  <2>7. Shr8(Shr8(Shr8(m))) = Shr8(Shr8(Shr8(n)))
    BY <1>2, <2>1, <2>2, <2>6
  <2>8. QED
    BY <1>2, <2>1, <2>2, <2>7
<1>6. QED
  BY <1>4, <1>5

----------------------------------------------------------------------------
(* Concatenations                                                          *)

\* a and b, followed by anything, are told apart where they end.
Splits(a, b) ==
  \A u, v \in Bytes : a \o u = b \o v => a = b /\ u = v

\* The sequences FlattenSeq builds up, one piece after the other.
LEMMA Flattening ==
  ASSUME NEW s \in Seq(Bytes), Len(s) > 0
  PROVE  \E f : /\ FlattenSeq(s) = f[Len(s)]
                /\ f[1] = s[1]
                /\ \A i \in 2..Len(s) : f[i] = f[i - 1] \o s[i]
<1> DEFINE L == Len(s)
           Part(f, k) == \A i \in 1..L : i <= k => f[i] = IF i = 1 THEN s[i] ELSE f[i - 1] \o s[i]
           T == {k \in Nat : \E f : Part(f, k)}
           IsFlat(f) == f = [i \in 1..L |-> IF i = 1 THEN s[i] ELSE f[i - 1] \o s[i]]
<1>1. L \in Nat
  OBVIOUS
<1> HIDE DEF L
<1>2. 0 \in T
  <2>1. Part(<<>>, 0)
    BY <1>1
  <2>2. QED
    BY <2>1
<1>3. ASSUME NEW k \in Nat, k \in T PROVE k + 1 \in T
  <2>1. PICK f : Part(f, k)
    BY <1>3
  <2> DEFINE g == [i \in 1..L |-> IF i = k + 1 THEN IF i = 1 THEN s[i] ELSE f[i - 1] \o s[i]
                                  ELSE f[i]]
  <2>2. Part(g, k + 1)
    <3> SUFFICES ASSUME NEW i \in 1..L, i <= k + 1
                 PROVE  g[i] = IF i = 1 THEN s[i] ELSE g[i - 1] \o s[i]
      OBVIOUS
    <3>1. i # 1 => i - 1 \in 1..L /\ i - 1 # k + 1 /\ g[i - 1] = f[i - 1]
      BY <1>1
    <3>2. CASE i = k + 1
      BY <3>1, <3>2
    <3>3. CASE i # k + 1
      <4>1. i <= k /\ g[i] = f[i]
        BY <1>1, <3>3
      <4>2. f[i] = IF i = 1 THEN s[i] ELSE f[i - 1] \o s[i]
        BY <2>1, <4>1
      <4>3. QED
        BY <3>1, <4>1, <4>2
    <3>4. QED
      BY <3>2, <3>3
  <2> HIDE DEF g, Part
  <2>3. QED
    BY <2>2
<1>4. PICK f : Part(f, L)
  <2> HIDE DEF T
  <2>1. L \in T
    BY <1>1, <1>2, <1>3, SetInduction
  <2>2. QED
    BY <2>1 DEF T
<1>5. \E g : IsFlat(g)
  <2> DEFINE g == [i \in 1..L |-> f[i]]
  <2>1. ASSUME NEW i \in 1..L
        PROVE  g[i] = IF i = 1 THEN s[i] ELSE g[i - 1] \o s[i]
    <3>1. i # 1 => i - 1 \in 1..L
      BY <1>1
    <3>2. f[i] = IF i = 1 THEN s[i] ELSE f[i - 1] \o s[i]
      BY <1>1, <1>4
    <3>3. QED
      BY <3>1, <3>2
  <2>2. g = [i \in 1..L |-> g[i]]
    OBVIOUS
  <2> HIDE DEF g
  <2>3. [i \in 1..L |-> g[i]] = [i \in 1..L |-> IF i = 1 THEN s[i] ELSE g[i - 1] \o s[i]]
    BY <2>1, Zenon
  <2>4. IsFlat(g)
    BY <2>2, <2>3, Zenon
  <2>5. QED
    BY <2>4
<1>6. PICK g : IsFlat(g) /\ FlattenSeq(s) = g[L]
  <2> DEFINE g == CHOOSE f1 : IsFlat(f1)
  <2>1. IsFlat(g)
    BY <1>5, Zenon
  <2>2. FlattenSeq(s) = g[L]
    <3>1. Len(s) # 0
      OBVIOUS
    <3>2. QED
      BY <3>1, Zenon DEF FlattenSeq, L
  <2> HIDE DEF IsFlat, g
  <2>3. QED
    BY <2>1, <2>2
<1>7. \A i \in 1..L : g[i] = IF i = 1 THEN s[i] ELSE g[i - 1] \o s[i]
  BY <1>6, Zenon
<1>8. g[1] = s[1]
  BY <1>1, <1>7 DEF L
<1>9. ASSUME NEW i \in 2..L PROVE g[i] = g[i - 1] \o s[i]
  <2>1. i \in 1..L /\ i # 1
    BY <1>1
  <2>2. QED
    BY <1>7, <2>1, Zenon
<1>10. QED
  BY <1>6, <1>8, <1>9 DEF L

\* A concatenation of byte strings is one, and can be taken apart if its pieces
\* can.
LEMMA FlattenType ==
  ASSUME NEW s \in Seq(Bytes)
  PROVE  FlattenSeq(s) \in Bytes
<1>1. CASE Len(s) = 0
  <2>1. s = <<>> /\ <<>> \in Bytes
    BY <1>1 DEF Bytes
  <2>2. FlattenSeq(s) = s
    BY <1>1, Zenon DEF FlattenSeq
  <2>3. QED
    BY <2>1, <2>2
<1>2. CASE Len(s) > 0
  <2>1. PICK f : /\ FlattenSeq(s) = f[Len(s)]
                 /\ f[1] = s[1]
                 /\ \A i \in 2..Len(s) : f[i] = f[i - 1] \o s[i]
    BY <1>2, Flattening
  <2> DEFINE T == {k \in Nat : k \in 1..Len(s) => f[k] \in Bytes}
  <2>2. \A k \in 1..Len(s) : s[k] \in Bytes
    OBVIOUS
  <2>3. ASSUME NEW k \in Nat, k \in T PROVE k + 1 \in T
    <3> SUFFICES ASSUME k + 1 \in 1..Len(s) PROVE f[k + 1] \in Bytes
      OBVIOUS
    <3>1. CASE k = 0
      BY <2>1, <2>2, <3>1
    <3>2. CASE k # 0
      <4>1. k \in 1..Len(s) /\ k + 1 \in 2..Len(s) /\ (k + 1) - 1 = k
        BY <3>2
      <4>2. f[k] \in Bytes /\ f[k + 1] = f[k] \o s[k + 1] /\ s[k + 1] \in Bytes
        BY <2>1, <2>2, <2>3, <4>1
      <4>3. QED
        BY <4>2, Concat
    <3>3. QED
      BY <3>1, <3>2
  <2>4. 0 \in T
    OBVIOUS
  <2>5. Len(s) \in Nat /\ Len(s) \in 1..Len(s)
    BY <1>2
  <2>6. Len(s) \in T
    <3> HIDE DEF T
    <3>1. QED
      BY <2>3, <2>4, <2>5, SetInduction
  <2>7. QED
    BY <2>1, <2>5, <2>6
<1>3. QED
  BY <1>1, <1>2

\* What follows two pairs that split.
Composed(a, b, p, q) ==
  /\ a \o p \in Bytes /\ b \o q \in Bytes
  /\ Splits(a \o p, b \o q)
  /\ a \o p = b \o q => a = b /\ p = q

LEMMA SplitsCompose ==
  ASSUME NEW a \in Bytes, NEW b \in Bytes, NEW p \in Bytes, NEW q \in Bytes,
         Splits(a, b), a = b => Splits(p, q)
  PROVE  Composed(a, b, p, q)
<1>1. a \o p \in Bytes /\ b \o q \in Bytes
  BY Concat
<1>2. ASSUME NEW u \in Bytes, NEW v \in Bytes, (a \o p) \o u = (b \o q) \o v
      PROVE  a = b /\ p = q /\ u = v
  <2>1. p \o u \in Bytes /\ q \o v \in Bytes
    BY Concat
  <2>2. a \o (p \o u) = b \o (q \o v)
    <3>1. Associates(a, p, u) /\ Associates(b, q, v)
      BY ConcatAssoc
    <3>2. QED
      BY <1>2, <3>1, Zenon DEF Associates
  <2>3. a = b /\ p \o u = q \o v
    BY <2>1, <2>2 DEF Splits
  <2>4. QED
    BY <2>3 DEF Splits
<1>3. Splits(a \o p, b \o q)
  BY <1>2 DEF Splits
<1>4. ASSUME a \o p = b \o q PROVE a = b /\ p = q
  <2>1. a = b /\ p = q
    BY <1>4 DEF Splits
  <2>2. QED
    BY <2>1
<1>5. QED
  BY <1>1, <1>3, <1>4 DEF Composed

LEMMA SplitsConcat ==
  ASSUME NEW a \in Bytes, NEW b \in Bytes, NEW p \in Bytes, NEW q \in Bytes,
         Splits(a, b), a = b => Splits(p, q)
  PROVE  /\ a \o p \in Bytes /\ b \o q \in Bytes
         /\ Splits(a \o p, b \o q)
         /\ a \o p = b \o q => a = b /\ p = q
<1>1. Composed(a, b, p, q)
  BY SplitsCompose
<1>2. QED
  BY <1>1, Zenon DEF Composed

\* Sequences of the same length are told apart.
LEMMA SplitsSameLength ==
  ASSUME NEW a \in Bytes, NEW b \in Bytes, Len(a) = Len(b)
  PROVE  Splits(a, b)
BY Cancel DEF Splits

LEMMA FlattenSplits ==
  ASSUME NEW s \in Seq(Bytes), NEW t \in Seq(Bytes), Len(s) = Len(t),
         \A i \in 1..Len(s) : Splits(s[i], t[i])
  PROVE  /\ Splits(FlattenSeq(s), FlattenSeq(t))
         /\ FlattenSeq(s) = FlattenSeq(t) => \A i \in 1..Len(s) : s[i] = t[i]
<1>1. CASE Len(s) = 0
  <2>a. s = <<>> /\ t = <<>>
    BY <1>1, EmptySeq
  <2>b. <<>> \in Bytes
    BY DEF Bytes
  <2>1. s = <<>> /\ t = <<>> /\ <<>> \in Bytes
    BY <2>a, <2>b
  <2>2. FlattenSeq(s) = <<>> /\ FlattenSeq(t) = <<>>
    BY <1>1, <2>1, Zenon DEF FlattenSeq
  <2>3. Splits(<<>>, <<>>)
    BY <2>1, SplitsSameLength
  <2>4. QED
    BY <1>1, <2>2, <2>3
<1>2. CASE Len(s) > 0
  <2>1. PICK L \in Nat : L = Len(s) /\ L = Len(t) /\ L \in 1..L /\ L > 0
    BY <1>2
  <2>a. Len(t) > 0
    BY <1>2
  <2>b. PICK f : /\ FlattenSeq(s) = f[Len(s)]
                 /\ f[1] = s[1]
                 /\ \A i \in 2..Len(s) : f[i] = f[i - 1] \o s[i]
    BY <1>2, Flattening
  <2>c. PICK g : /\ FlattenSeq(t) = g[Len(t)]
                 /\ g[1] = t[1]
                 /\ \A i \in 2..Len(t) : g[i] = g[i - 1] \o t[i]
    BY <2>a, Flattening
  <2>2. /\ FlattenSeq(s) = f[L]
        /\ f[1] = s[1]
        /\ \A i \in 2..L : f[i] = f[i - 1] \o s[i]
    BY <2>1, <2>b
  <2>3. /\ FlattenSeq(t) = g[L]
        /\ g[1] = t[1]
        /\ \A i \in 2..L : g[i] = g[i - 1] \o t[i]
    BY <2>1, <2>c
  <2>4. \A k \in 1..L : s[k] \in Bytes /\ t[k] \in Bytes /\ Splits(s[k], t[k])
    BY <2>1
  <2> DEFINE Good(k) == /\ f[k] \in Bytes /\ g[k] \in Bytes /\ Splits(f[k], g[k])
                        /\ f[k] = g[k] => \A i \in 1..k : s[i] = t[i]
             T == {k \in Nat : k \in 1..L => Good(k)}
  <2>5. 0 \in T
    <3>1. ~(0 \in 1..L)
      BY <2>1
    <3> HIDE DEF Good
    <3>2. QED
      BY <3>1
  <2>6. ASSUME NEW k \in Nat, k \in T, k + 1 \in 1..L PROVE Good(k + 1)
    <3>1. CASE k = 0
      <4>1. 1 \in 1..L /\ f[k + 1] = s[1] /\ g[k + 1] = t[1] /\ \A i \in 1..(k + 1) : i = 1
        BY <2>1, <2>2, <2>3, <3>1
      <4>2. s[1] \in Bytes /\ t[1] \in Bytes /\ Splits(s[1], t[1])
        BY <2>4, <4>1
      <4>3. QED
        BY <4>1, <4>2
    <3>2. CASE k # 0
      <4>1. k \in 1..L /\ k + 1 \in 2..L /\ (k + 1) - 1 = k
        BY <2>1, <2>6, <3>2
      <4>2. Good(k)
        <5> HIDE DEF Good
        <5>1. QED
          BY <2>6, <4>1
      <4>3. f[k + 1] = f[k] \o s[k + 1] /\ g[k + 1] = g[k] \o t[k + 1]
        BY <2>2, <2>3, <4>1
      <4>4. s[k + 1] \in Bytes /\ t[k + 1] \in Bytes /\ Splits(s[k + 1], t[k + 1])
        BY <2>4, <2>6
      <4>5. PICK a, b, p, q \in Bytes : a = f[k] /\ b = g[k] /\ p = s[k + 1] /\ q = t[k + 1]
        BY <4>2, <4>4
      <4>6. Splits(a, b) /\ Splits(p, q)
        BY <4>2, <4>4, <4>5
      <4>7. /\ a \o p \in Bytes /\ b \o q \in Bytes /\ Splits(a \o p, b \o q)
            /\ a \o p = b \o q => a = b /\ p = q
        <5>1. Composed(a, b, p, q)
          BY <4>6, SplitsCompose
        <5>2. QED
          BY <5>1, Zenon DEF Composed
      <4>8. f[k + 1] = a \o p /\ g[k + 1] = b \o q
        BY <4>3, <4>5
      <4>9. a = b => \A i \in 1..k : s[i] = t[i]
        BY <4>2, <4>5
      <4>10. f[k + 1] = g[k + 1] => \A i \in 1..(k + 1) : s[i] = t[i]
        BY <4>5, <4>7, <4>8, <4>9
      <4>11. QED
        BY <4>7, <4>8, <4>10
    <3>3. QED
      BY <3>1, <3>2
  <2>7. L \in T
    <3>1. \A k \in Nat : k \in T => k + 1 \in T
      <4> HIDE DEF Good
      <4>1. QED
        BY <2>6
    <3> HIDE DEF T
    <3>2. QED
      BY <2>1, <2>5, <3>1, SetInduction
  <2>8. Good(L)
    <3> HIDE DEF Good
    <3>1. QED
      BY <2>1, <2>7
  <2>9. QED
    BY <2>1, <2>2, <2>3, <2>8
<1>3. QED
  BY <1>1, <1>2

----------------------------------------------------------------------------
(* The bytes of a JSON value                                               *)

\* What hash_json_value feeds for node n, if f is what it feeds for the children.
Encoded(f, n) ==
  NodeBytes(Json[n], [i \in DOMAIN Json[n].kids |-> f[Json[n].kids[i]]])

LEMMA NodeShape ==
  ASSUME NEW n \in Nodes
  PROVE  /\ n \in Nat
         /\ Json[n].tag \in {"n", "b0", "b1", "d", "s", "a", "o"}
         /\ Json[n].text \in Bytes /\ Len(Json[n].text) \in Nat /\ IsUsize(Len(Json[n].text))
         /\ Json[n].kids \in Seq(Nodes) /\ Len(Json[n].kids) \in Nat
         /\ IsUsize(Len(Json[n].kids)) /\ DOMAIN Json[n].kids = 1..Len(Json[n].kids)
         /\ \A i \in 1..Len(Json[n].kids) : Json[n].kids[i] \in Nodes /\ Json[n].kids[i] < n
         /\ Json[n].keys \in Seq(Bytes)
         /\ \A i \in 1..Len(Json[n].keys) :
              Json[n].keys[i] \in Bytes /\ IsUsize(Len(Json[n].keys[i]))
         /\ WellFormed(Json[n])
         /\ Json[n] = [tag |-> Json[n].tag, text |-> Json[n].text, keys |-> Json[n].keys,
                       kids |-> Json[n].kids]
<1>1. n \in Nat /\ WellFormed(Json[n])
  BY JsonAssumption
<1>2. PICK v : v = Json[n]
  OBVIOUS
<1>3. v \in [tag : {"n", "b0", "b1", "d", "s", "a", "o"}, text : Bytes, keys : Seq(Bytes),
             kids : Seq(Nodes)]
  BY <1>2, JsonAssumption DEF JsonType, Bytes
<1>4. /\ v.tag \in {"n", "b0", "b1", "d", "s", "a", "o"}
      /\ v.text \in Bytes /\ v.keys \in Seq(Bytes) /\ v.kids \in Seq(Nodes)
      /\ v = [tag |-> v.tag, text |-> v.text, keys |-> v.keys, kids |-> v.kids]
  BY <1>3
<1>5. Len(v.text) \in Nat /\ IsUsize(Len(v.text)) /\ IsUsize(Len(v.kids))
  BY <1>1, <1>2, <1>4 DEF WellFormed, Bytes
<1>6. Len(v.kids) \in Nat /\ DOMAIN v.kids = 1..Len(v.kids)
  BY <1>4
<1>7. \A i \in 1..Len(v.kids) : v.kids[i] \in Nodes /\ v.kids[i] < n
  BY <1>2, <1>4, <1>6, JsonAssumption
<1>8. \A i \in 1..Len(v.keys) : v.keys[i] \in Bytes /\ IsUsize(Len(v.keys[i]))
  BY <1>1, <1>2, <1>4 DEF WellFormed
<1>9. QED
  BY <1>1, <1>2, <1>4, <1>5, <1>6, <1>7, <1>8

\* Only the children count.
LEMMA EncodedLocal ==
  ASSUME NEW n \in Nodes, NEW f, NEW g,
         \A i \in 1..Len(Json[n].kids) : f[Json[n].kids[i]] = g[Json[n].kids[i]]
  PROVE  Encoded(f, n) = Encoded(g, n)
<1>1. DOMAIN Json[n].kids = 1..Len(Json[n].kids)
  BY NodeShape
<1>2. [i \in DOMAIN Json[n].kids |-> f[Json[n].kids[i]]]
        = [i \in DOMAIN Json[n].kids |-> g[Json[n].kids[i]]]
  BY <1>1, Zenon
<1>3. QED
  BY <1>2, Zenon DEF Encoded

\* f is what hash_json_value feeds for the nodes below k.
EncodesBelow(f, k) == \A n \in Nodes : n < k => f[n] = Encoded(f, n)

LEMMA EncodingUnique ==
  ASSUME NEW f, NEW g, NEW k \in Nat, EncodesBelow(f, k), EncodesBelow(g, k)
  PROVE  \A n \in Nodes : n < k => f[n] = g[n]
<1> DEFINE T == {j \in Nat : \A n \in Nodes : (n < j /\ n < k) => f[n] = g[n]}
<1>1. \A n \in Nodes : n \in Nat
  BY JsonAssumption
<1>2. 0 \in T
  BY <1>1
<1>3. ASSUME NEW j \in Nat, j \in T PROVE j + 1 \in T
  <2> SUFFICES ASSUME NEW n \in Nodes, n < j + 1, n < k PROVE f[n] = g[n]
    OBVIOUS
  <2>1. n \in Nat
    BY <1>1
  <2>2. \A i \in 1..Len(Json[n].kids) : f[Json[n].kids[i]] = g[Json[n].kids[i]]
    <3> SUFFICES ASSUME NEW i \in 1..Len(Json[n].kids)
                 PROVE  f[Json[n].kids[i]] = g[Json[n].kids[i]]
      OBVIOUS
    <3>1. Json[n].kids[i] \in Nodes /\ Json[n].kids[i] < n
      BY NodeShape
    <3>2. PICK m \in Nodes : m = Json[n].kids[i] /\ m < n
      BY <3>1
    <3>3. m \in Nat /\ m < j /\ m < k
      BY <1>1, <2>1, <3>2
    <3>4. QED
      BY <1>3, <3>2, <3>3
  <2>3. Encoded(f, n) = Encoded(g, n)
    BY <2>2, EncodedLocal
  <2>4. QED
    BY <2>3 DEF EncodesBelow
<1>4. k \in T
  <2> HIDE DEF T
  <2>1. QED
    BY <1>2, <1>3, SetInduction
<1>5. QED
  BY <1>4

LEMMA EncodingBelow ==
  ASSUME NEW k \in Nat
  PROVE  \E f : EncodesBelow(f, k)
<1> DEFINE T == {j \in Nat : \E f : EncodesBelow(f, j)}
<1>1. \A n \in Nodes : n \in Nat
  BY JsonAssumption
<1>2. 0 \in T
  <2>1. EncodesBelow(<<>>, 0)
    BY <1>1 DEF EncodesBelow
  <2>2. QED
    BY <2>1
<1>3. ASSUME NEW j \in Nat, j \in T PROVE j + 1 \in T
  <2>1. PICK f : EncodesBelow(f, j)
    BY <1>3
  <2>2. PICK g : g = [n \in Nodes |-> IF n = j THEN Encoded(f, n) ELSE f[n]]
    OBVIOUS
  <2>3. ASSUME NEW n \in Nodes, n < j + 1 PROVE g[n] = Encoded(g, n)
    <3>1. n \in Nat
      BY <1>1
    <3>2. \A i \in 1..Len(Json[n].kids) : f[Json[n].kids[i]] = g[Json[n].kids[i]]
      <4> SUFFICES ASSUME NEW i \in 1..Len(Json[n].kids)
                   PROVE  f[Json[n].kids[i]] = g[Json[n].kids[i]]
        OBVIOUS
      <4>1. PICK m \in Nodes : m = Json[n].kids[i] /\ m < n
        BY NodeShape
      <4>2. m # j
        BY <1>1, <2>3, <3>1, <4>1
      <4>3. QED
        BY <2>2, <4>1, <4>2
    <3>3. Encoded(f, n) = Encoded(g, n)
      BY <3>2, EncodedLocal
    <3>4. CASE n = j
      BY <2>2, <3>3, <3>4
    <3>5. CASE n # j
      <4>1. n < j
        BY <2>3, <3>1, <3>5
      <4>2. f[n] = Encoded(f, n)
        BY <2>1, <4>1 DEF EncodesBelow
      <4>3. QED
        BY <2>2, <3>3, <3>5, <4>2
    <3>6. QED
      BY <3>4, <3>5
  <2>4. EncodesBelow(g, j + 1)
    BY <2>3 DEF EncodesBelow
  <2>5. QED
    BY <2>4
<1>4. k \in T
  <2> HIDE DEF T
  <2>1. QED
    BY <1>2, <1>3, SetInduction
<1>5. QED
  BY <1>4

\* The recursion of hash_json_value has a solution, since a value's children come
\* before it.
LEMMA HashUnfold ==
  \A n \in Nodes : hash_json_value[n] = Encoded(hash_json_value, n)
<1>1. \A n \in Nodes : n \in Nat
  BY JsonAssumption
<1> DEFINE G(n) == CHOOSE f : EncodesBelow(f, n + 1)
           F == [n \in Nodes |-> G(n)[n]]
           Fixed(f) == f = [n \in Nodes |-> Encoded(f, n)]
<1>2. ASSUME NEW n \in Nodes PROVE EncodesBelow(G(n), n + 1)
  <2>1. n + 1 \in Nat
    BY <1>1
  <2>2. \E f : EncodesBelow(f, n + 1)
    BY <2>1, EncodingBelow
  <2>3. QED
    BY <2>2, Zenon
<1> HIDE DEF G
<1>3. ASSUME NEW n \in Nodes PROVE F[n] = Encoded(F, n)
  <2>1. F[n] = G(n)[n] /\ n \in Nat
    BY <1>1
  <2>2. G(n)[n] = Encoded(G(n), n)
    BY <1>2, <2>1 DEF EncodesBelow
  <2>3. ASSUME NEW i \in 1..Len(Json[n].kids)
        PROVE  G(n)[Json[n].kids[i]] = F[Json[n].kids[i]]
    <3>1. PICK m \in Nodes : m = Json[n].kids[i] /\ m < n
      BY NodeShape
    <3>2. m \in Nat /\ F[m] = G(m)[m] /\ m < m + 1 /\ m + 1 \in Nat
      BY <1>1
    <3>3. EncodesBelow(G(m), m + 1)
      BY <1>2
    <3>4. EncodesBelow(G(n), m + 1)
      <4>1. \A j \in Nodes : j < m + 1 => j < n + 1
        BY <1>1, <2>1, <3>1, <3>2
      <4>2. EncodesBelow(G(n), n + 1)
        BY <1>2
      <4>3. QED
        BY <4>1, <4>2 DEF EncodesBelow
    <3>5. G(n)[m] = G(m)[m]
      BY <3>2, <3>3, <3>4, EncodingUnique
    <3>6. QED
      BY <3>1, <3>2, <3>5
  <2> HIDE DEF F
  <2>4. Encoded(G(n), n) = Encoded(F, n)
    BY <2>3, EncodedLocal
  <2>5. QED
    BY <2>1, <2>2, <2>4
<1>4. Fixed(F)
  <2>1. F = [n \in Nodes |-> F[n]]
    OBVIOUS
  <2> HIDE DEF F
  <2>2. [n \in Nodes |-> F[n]] = [n \in Nodes |-> Encoded(F, n)]
    BY <1>3, Zenon
  <2>3. QED
    BY <2>1, <2>2, Zenon
<1>5. Fixed(hash_json_value)
  <2>1. hash_json_value = CHOOSE f : Fixed(f)
    BY Zenon DEF hash_json_value, Encoded
  <2>2. \E f : Fixed(f)
    BY <1>4, Zenon
  <2> HIDE DEF Fixed
  <2>3. QED
    BY <2>1, <2>2, Zenon
<1>6. QED
  BY <1>5, Zenon

Tags == {"n", "b0", "b1", "d", "s", "a", "o"}

\* The tags are told apart, although those of the booleans start alike.
LEMMA TagsApart ==
  ASSUME NEW p \in Tags, NEW q \in Tags
  PROVE  /\ TagBytes[p] \in Bytes
         /\ Splits(TagBytes[p], TagBytes[q])
         /\ TagBytes[p] = TagBytes[q] => p = q
<1>1. /\ TagBytes["n"] = <<110>> /\ TagBytes["b0"] = <<98, 48>> /\ TagBytes["b1"] = <<98, 49>>
      /\ TagBytes["d"] = <<100>> /\ TagBytes["s"] = <<115>> /\ TagBytes["a"] = <<97>>
      /\ TagBytes["o"] = <<111>>
  BY DEF TagBytes
<1>2. \A x \in Byte : <<x>> \in Bytes /\ Len(<<x>>) = 1 /\ <<x>>[1] = x
  BY DEF Bytes
<1>3. \A x, y \in Byte : /\ <<x, y>> \in Bytes /\ Len(<<x, y>>) = 2
                         /\ <<x, y>>[1] = x /\ <<x, y>>[2] = y
  BY DEF Bytes
<1>4. {110, 98, 48, 49, 100, 115, 97, 111} \subseteq Byte
  BY DEF Byte
<1> DEFINE First(t) == CASE t = "n" -> 110 [] t = "b0" -> 98 [] t = "b1" -> 98 [] t = "d" -> 100
                         [] t = "s" -> 115 [] t = "a" -> 97 [] t = "o" -> 111
<1>5. ASSUME NEW t \in Tags
      PROVE  /\ TagBytes[t] \in Bytes /\ Len(TagBytes[t]) \in {1, 2}
             /\ TagBytes[t][1] = First(t)
             /\ t = "b0" => Len(TagBytes[t]) = 2 /\ TagBytes[t][2] = 48
             /\ t = "b1" => Len(TagBytes[t]) = 2 /\ TagBytes[t][2] = 49
  BY <1>1, <1>2, <1>3, <1>4, SMTT(30) DEF Tags
<1>6. \A t, r \in Tags : First(t) = First(r) =>
        \/ t = r
        \/ t = "b0" /\ r = "b1"
        \/ t = "b1" /\ r = "b0"
  BY DEF Tags
<1> HIDE DEF First
<1>7. CASE p = q
  <2>1. Splits(TagBytes[p], TagBytes[q])
    BY <1>5, <1>7, SplitsSameLength
  <2>2. QED
    BY <1>5, <1>7, <2>1
<1>8. CASE p # q
  <2> SUFFICES ASSUME NEW u \in Bytes, NEW v \in Bytes, TagBytes[p] \o u = TagBytes[q] \o v
               PROVE  FALSE
    <3>1. Splits(TagBytes[p], TagBytes[q])
      BY DEF Splits
    <3>2. <<>> \in Bytes
      BY DEF Bytes
    <3>3. TagBytes[p] # TagBytes[q]
      BY <3>2
    <3>4. QED
      BY <1>5, <3>1, <3>3
  <2>1. PICK a, b \in Bytes : a = TagBytes[p] /\ b = TagBytes[q]
    BY <1>5
  <2>2. Len(a) \in {1, 2} /\ Len(b) \in {1, 2} /\ a[1] = First(p) /\ b[1] = First(q)
    BY <1>5, <2>1
  <2>3. \A i \in 1..Len(a) : (a \o u)[i] = a[i]
    BY Concat
  <2>4. \A i \in 1..Len(b) : (b \o v)[i] = b[i]
    BY Concat
  <2>5. a \o u = b \o v
    BY <2>1
  <2>6. First(p) = First(q)
    BY <2>2, <2>3, <2>4, <2>5
  <2>7. \/ p = "b0" /\ q = "b1"
        \/ p = "b1" /\ q = "b0"
    BY <1>6, <1>8, <2>6
  <2>8. \/ Len(a) = 2 /\ a[2] = 48 /\ Len(b) = 2 /\ b[2] = 49
        \/ Len(a) = 2 /\ a[2] = 49 /\ Len(b) = 2 /\ b[2] = 48
    BY <1>5, <2>1, <2>7
  <2>9. Len(a) = 2 /\ Len(b) = 2 /\ a[2] # b[2]
    BY <2>8
  <2>10. (a \o u)[2] = a[2] /\ (b \o v)[2] = b[2]
    <3>1. 2 \in 1..Len(a) /\ 2 \in 1..Len(b)
      BY <2>9
    <3>2. QED
      BY <2>3, <2>4, <3>1, Zenon
  <2>11. QED
    BY <2>5, <2>9, <2>10, Zenon
<1>9. QED
  BY <1>7, <1>8

\* The members of an object: each key with its length, then its value.
Members(v, children) ==
  [i \in DOMAIN v.kids |-> hash_len(Len(v.keys[i])) \o v.keys[i] \o children[i]]

\* The cases of NodeBytes.
LEMMA NodeBytesCases ==
  ASSUME NEW v, NEW children
  PROVE  /\ v.tag \in {"n", "b0", "b1"} => NodeBytes(v, children) = TagBytes[v.tag]
         /\ v.tag \in {"d", "s"} =>
              NodeBytes(v, children) = (TagBytes[v.tag] \o hash_len(Len(v.text))) \o v.text
         /\ v.tag = "a" =>
              NodeBytes(v, children)
                = (TagBytes[v.tag] \o hash_len(Len(v.kids))) \o FlattenSeq(children)
         /\ v.tag = "o" =>
              NodeBytes(v, children)
                = (TagBytes[v.tag] \o hash_len(Len(v.kids))) \o FlattenSeq(Members(v, children))
<1>1. ASSUME v.tag \in {"n", "b0", "b1"} PROVE NodeBytes(v, children) = TagBytes[v.tag]
  BY <1>1 DEF NodeBytes
<1>2. ASSUME v.tag \in {"d", "s"}
      PROVE  NodeBytes(v, children) = (TagBytes[v.tag] \o hash_len(Len(v.text))) \o v.text
  BY <1>2 DEF NodeBytes
<1>3. ASSUME v.tag = "a"
      PROVE  NodeBytes(v, children)
               = (TagBytes[v.tag] \o hash_len(Len(v.kids))) \o FlattenSeq(children)
  BY <1>3 DEF NodeBytes
<1>4. ASSUME v.tag = "o"
      PROVE  NodeBytes(v, children)
               = (TagBytes[v.tag] \o hash_len(Len(v.kids))) \o FlattenSeq(Members(v, children))
  BY <1>4 DEF NodeBytes, Members
<1>5. QED
  BY <1>1, <1>2, <1>3, <1>4

LEMMA MembersType ==
  ASSUME NEW n \in Nodes, Json[n].tag = "o",
         NEW children \in Seq(Bytes), Len(children) = Len(Json[n].kids)
  PROVE  /\ Members(Json[n], children) \in Seq(Bytes)
         /\ Len(Members(Json[n], children)) = Len(Json[n].kids)
         /\ \A i \in 1..Len(Json[n].kids) :
              /\ Json[n].keys[i] \in Bytes /\ children[i] \in Bytes
              /\ Len(Json[n].keys[i]) \in Nat /\ IsUsize(Len(Json[n].keys[i]))
              /\ hash_len(Len(Json[n].keys[i])) \in Bytes
              /\ Members(Json[n], children)[i]
                   = (hash_len(Len(Json[n].keys[i])) \o Json[n].keys[i]) \o children[i]
<1>1. PICK L \in Nat : L = Len(Json[n].kids) /\ DOMAIN Json[n].kids = 1..L
  BY NodeShape
<1>2. Len(Json[n].keys) = L
  <2>1. WellFormed(Json[n])
    BY NodeShape
  <2>2. QED
    BY <1>1, <2>1 DEF WellFormed
<1>3. ASSUME NEW i \in 1..L
      PROVE  /\ Json[n].keys[i] \in Bytes /\ children[i] \in Bytes
             /\ Len(Json[n].keys[i]) \in Nat /\ IsUsize(Len(Json[n].keys[i]))
             /\ hash_len(Len(Json[n].keys[i])) \in Bytes
             /\ (hash_len(Len(Json[n].keys[i])) \o Json[n].keys[i]) \o children[i] \in Bytes
  <2>1. Json[n].keys[i] \in Bytes /\ IsUsize(Len(Json[n].keys[i]))
    BY <1>2, NodeShape
  <2>2. PICK k \in Bytes : k = Json[n].keys[i]
    BY <2>1
  <2>3. PICK c \in Bytes : c = children[i]
    BY <1>1
  <2>4. Len(k) \in Nat /\ IsUsize(Len(k))
    BY <2>1, <2>2 DEF Bytes
  <2>5. hash_len(Len(k)) \in Bytes
    BY <2>4, LengthBytes
  <2>6. hash_len(Len(k)) \o k \in Bytes
    BY <2>5, Concat
  <2>7. (hash_len(Len(k)) \o k) \o c \in Bytes
    BY <2>6, Concat
  <2>8. QED
    BY <2>2, <2>3, <2>4, <2>5, <2>7
<1>4. Members(Json[n], children)
        = [i \in 1..L |-> (hash_len(Len(Json[n].keys[i])) \o Json[n].keys[i]) \o children[i]]
  BY <1>1, Zenon DEF Members
<1>5. PICK s : s = Members(Json[n], children)
  OBVIOUS
<1>6. /\ s \in [1..L -> Bytes]
      /\ \A i \in 1..L :
           s[i] = (hash_len(Len(Json[n].keys[i])) \o Json[n].keys[i]) \o children[i]
  BY <1>3, <1>4, <1>5, Zenon
<1>7. s \in Seq(Bytes) /\ Len(s) = L
  <2>1. s \in [1..L -> Bytes]
    BY <1>6
  <2>2. QED
    BY <2>1
<1>8. QED
  BY <1>1, <1>3, <1>5, <1>6, <1>7

\* The bytes of a value start with its tag.
LEMMA NodeBytesType ==
  ASSUME NEW n \in Nodes,
         NEW children \in Seq(Bytes), Len(children) = Len(Json[n].kids)
  PROVE  /\ NodeBytes(Json[n], children) \in Bytes
         /\ \E rest \in Bytes : NodeBytes(Json[n], children) = TagBytes[Json[n].tag] \o rest
<1>1. PICK t \in Bytes : t = TagBytes[Json[n].tag]
  BY NodeShape, TagsApart DEF Tags
<1>2. ASSUME NEW len \in Nat, IsUsize(len), NEW x \in Bytes,
             NodeBytes(Json[n], children) = (t \o hash_len(len)) \o x
      PROVE  /\ NodeBytes(Json[n], children) \in Bytes
             /\ \E rest \in Bytes : NodeBytes(Json[n], children) = t \o rest
  <2>1. PICK l \in Bytes : l = hash_len(len)
    BY <1>2, LengthBytes
  <2>2. l \o x \in Bytes
    BY Concat
  <2>3. t \o (l \o x) \in Bytes
    BY <2>2, Concat
  <2>4. (t \o l) \o x = t \o (l \o x)
    <3>1. Associates(t, l, x)
      BY ConcatAssoc
    <3>2. QED
      BY <3>1, Zenon DEF Associates
  <2>5. QED
    BY <1>2, <2>1, <2>2, <2>3, <2>4
<1>3. CASE Json[n].tag \in {"n", "b0", "b1"}
  <2>1. NodeBytes(Json[n], children) = t
    BY <1>1, <1>3, NodeBytesCases
  <2>2. <<>> \in Bytes /\ t \o <<>> = t
    BY ConcatEmptySeq DEF Bytes
  <2>3. QED
    BY <1>1, <2>1, <2>2
<1>4. CASE Json[n].tag \in {"d", "s"}
  <2>1. /\ Json[n].text \in Bytes /\ Len(Json[n].text) \in Nat /\ IsUsize(Len(Json[n].text))
        /\ NodeBytes(Json[n], children) = (t \o hash_len(Len(Json[n].text))) \o Json[n].text
    BY <1>1, <1>4, NodeBytesCases, NodeShape
  <2>2. QED
    BY <1>1, <1>2, <2>1
<1>5. CASE Json[n].tag = "a"
  <2>1. /\ FlattenSeq(children) \in Bytes
        /\ Len(Json[n].kids) \in Nat /\ IsUsize(Len(Json[n].kids))
    BY NodeShape, FlattenType
  <2>2. NodeBytes(Json[n], children) = (t \o hash_len(Len(Json[n].kids))) \o FlattenSeq(children)
    BY <1>1, <1>5, NodeBytesCases
  <2>3. QED
    BY <1>1, <1>2, <2>1, <2>2
<1>6. CASE Json[n].tag = "o"
  <2>1. PICK x : x = Members(Json[n], children)
    OBVIOUS
  <2>2. x \in Seq(Bytes)
    BY <1>6, <2>1, MembersType
  <2>3. /\ FlattenSeq(x) \in Bytes
        /\ Len(Json[n].kids) \in Nat /\ IsUsize(Len(Json[n].kids))
    BY <2>2, NodeShape, FlattenType
  <2>4. NodeBytes(Json[n], children) = (t \o hash_len(Len(Json[n].kids))) \o FlattenSeq(x)
    BY <1>1, <1>6, <2>1, NodeBytesCases
  <2>5. QED
    BY <1>1, <1>2, <2>3, <2>4
<1>7. QED
  BY <1>3, <1>4, <1>5, <1>6, NodeShape

\* What hash_json_value feeds is a sequence of bytes.
LEMMA HashType == \A n \in Nodes : hash_json_value[n] \in Bytes
<1> DEFINE T == {j \in Nat : \A n \in Nodes : n < j => hash_json_value[n] \in Bytes}
<1>1. \A n \in Nodes : n \in Nat
  BY JsonAssumption
<1>2. 0 \in T
  BY <1>1
<1>3. ASSUME NEW j \in Nat, j \in T PROVE j + 1 \in T
  <2> SUFFICES ASSUME NEW n \in Nodes, n < j + 1 PROVE hash_json_value[n] \in Bytes
    OBVIOUS
  <2>1. PICK L \in Nat : L = Len(Json[n].kids) /\ DOMAIN Json[n].kids = 1..L
    BY NodeShape
  <2>2. PICK children : children = [i \in 1..L |-> hash_json_value[Json[n].kids[i]]]
    OBVIOUS
  <2>3. \A i \in 1..L : hash_json_value[Json[n].kids[i]] \in Bytes
    <3> SUFFICES ASSUME NEW i \in 1..L PROVE hash_json_value[Json[n].kids[i]] \in Bytes
      OBVIOUS
    <3>1. PICK m \in Nodes : m = Json[n].kids[i] /\ m < n
      BY <2>1, NodeShape
    <3>2. m < j
      BY <1>1, <3>1
    <3>3. QED
      BY <1>3, <3>1, <3>2
  <2>4. children \in [1..L -> Bytes]
    BY <2>2, <2>3, Zenon
  <2>5. children \in Seq(Bytes) /\ Len(children) = L
    BY <2>4
  <2>6. hash_json_value[n] = NodeBytes(Json[n], children)
    BY <2>1, <2>2, HashUnfold DEF Encoded
  <2>7. QED
    BY <2>1, <2>5, <2>6, NodeBytesType
<1>4. Nat \subseteq T
  <2> HIDE DEF T
  <2>1. QED
    BY <1>2, <1>3, SetInduction
<1>5. ASSUME NEW n \in Nodes PROVE hash_json_value[n] \in Bytes
  <2>1. n + 1 \in T /\ n < n + 1
    BY <1>1, <1>4
  <2>2. QED
    BY <2>1
<1>6. QED
  BY <1>5

\* What it feeds for a value, from what it feeds for its children.
LEMMA HashChildren ==
  ASSUME NEW n \in Nodes
  PROVE  \E c \in Seq(Bytes) : /\ Len(c) = Len(Json[n].kids)
                               /\ \A i \in 1..Len(c) : c[i] = hash_json_value[Json[n].kids[i]]
                               /\ hash_json_value[n] = NodeBytes(Json[n], c)
<1>1. PICK L \in Nat : L = Len(Json[n].kids) /\ DOMAIN Json[n].kids = 1..L
  BY NodeShape
<1>2. PICK c : c = [i \in 1..L |-> hash_json_value[Json[n].kids[i]]]
  OBVIOUS
<1>3. \A i \in 1..L : hash_json_value[Json[n].kids[i]] \in Bytes
  BY <1>1, NodeShape, HashType
<1>4. c \in [1..L -> Bytes]
  BY <1>2, <1>3, Zenon
<1>5. c \in Seq(Bytes) /\ Len(c) = L
  BY <1>4
<1>6. hash_json_value[n] = NodeBytes(Json[n], c)
  BY <1>1, <1>2, HashUnfold DEF Encoded
<1>7. \A i \in 1..Len(c) : c[i] = hash_json_value[Json[n].kids[i]]
  BY <1>2, <1>5
<1>8. QED
  BY <1>1, <1>5, <1>6, <1>7

\* A string with its length before it.
LEMMA PrefixedSplits ==
  ASSUME NEW a \in Bytes, NEW b \in Bytes, Len(a) \in Nat, Len(b) \in Nat,
         IsUsize(Len(a)), IsUsize(Len(b))
  PROVE  /\ hash_len(Len(a)) \o a \in Bytes /\ hash_len(Len(b)) \o b \in Bytes
         /\ Splits(hash_len(Len(a)) \o a, hash_len(Len(b)) \o b)
         /\ hash_len(Len(a)) \o a = hash_len(Len(b)) \o b => a = b
<1>1. PICK p, q \in Bytes : p = hash_len(Len(a)) /\ q = hash_len(Len(b))
  BY LengthBytes
<1>2. Len(p) = Len(q)
  BY <1>1, LengthBytes
<1>3. Splits(p, q)
  BY <1>2, SplitsSameLength
<1>4. p = q => Splits(a, b)
  BY <1>1, LengthBytes, SplitsSameLength
<1>5. /\ p \o a \in Bytes /\ q \o b \in Bytes
      /\ Splits(p \o a, q \o b) /\ (p \o a = q \o b => p = q /\ a = b)
  BY <1>3, <1>4, SplitsConcat
<1>6. QED
  BY <1>1, <1>5

\* A tag, followed by a length.
LEMMA HeadSplits ==
  ASSUME NEW t \in Bytes, NEW j \in Nat, NEW k \in Nat, IsUsize(j), IsUsize(k)
  PROVE  /\ t \o hash_len(j) \in Bytes /\ t \o hash_len(k) \in Bytes
         /\ Splits(t \o hash_len(j), t \o hash_len(k))
         /\ t \o hash_len(j) = t \o hash_len(k) => j = k
<1>1. PICK p, q \in Bytes : p = hash_len(j) /\ q = hash_len(k) /\ Len(p) = Len(q)
  BY LengthBytes
<1>2. p = q => j = k
  BY <1>1, LengthBytes
<1>3. Splits(t, t) /\ Splits(p, q)
  BY <1>1, SplitsSameLength
<1>4. /\ t \o p \in Bytes /\ t \o q \in Bytes
      /\ Splits(t \o p, t \o q) /\ (t \o p = t \o q => t = t /\ p = q)
  BY <1>3, SplitsConcat
<1>5. QED
  BY <1>1, <1>2, <1>4, Zenon

\* Members of objects are told apart if their values are.
LEMMA MembersSplit ==
  ASSUME NEW m \in Nodes, NEW n \in Nodes, Json[m].tag = "o", Json[n].tag = "o",
         NEW c \in Seq(Bytes), Len(c) = Len(Json[m].kids),
         NEW d \in Seq(Bytes), Len(d) = Len(Json[n].kids),
         Len(c) = Len(d), \A i \in 1..Len(c) : Splits(c[i], d[i])
  PROVE  /\ Splits(FlattenSeq(Members(Json[m], c)), FlattenSeq(Members(Json[n], d)))
         /\ FlattenSeq(Members(Json[m], c)) = FlattenSeq(Members(Json[n], d)) =>
              \A i \in 1..Len(c) : c[i] = d[i] /\ Json[m].keys[i] = Json[n].keys[i]
<1>1. PICK s, t : s = Members(Json[m], c) /\ t = Members(Json[n], d)
  OBVIOUS
<1>2. s \in Seq(Bytes) /\ t \in Seq(Bytes) /\ Len(s) = Len(c) /\ Len(t) = Len(d)
  BY <1>1, MembersType
<1>3. ASSUME NEW i \in 1..Len(c)
      PROVE  /\ Splits(s[i], t[i])
             /\ s[i] = t[i] => c[i] = d[i] /\ Json[m].keys[i] = Json[n].keys[i]
  <2>a. /\ Json[m].keys[i] \in Bytes /\ c[i] \in Bytes
        /\ Len(Json[m].keys[i]) \in Nat /\ IsUsize(Len(Json[m].keys[i]))
        /\ s[i] = (hash_len(Len(Json[m].keys[i])) \o Json[m].keys[i]) \o c[i]
    BY <1>1, MembersType
  <2>b. /\ Json[n].keys[i] \in Bytes /\ d[i] \in Bytes
        /\ Len(Json[n].keys[i]) \in Nat /\ IsUsize(Len(Json[n].keys[i]))
        /\ t[i] = (hash_len(Len(Json[n].keys[i])) \o Json[n].keys[i]) \o d[i]
    <3>1. i \in 1..Len(Json[n].kids)
      OBVIOUS
    <3>2. QED
      BY <1>1, <3>1, MembersType
  <2>1. PICK a, p \in Bytes : /\ a = Json[m].keys[i] /\ p = c[i]
                              /\ Len(a) \in Nat /\ IsUsize(Len(a))
                              /\ s[i] = (hash_len(Len(a)) \o a) \o p
    BY <2>a, Zenon
  <2>2. PICK b, q \in Bytes : /\ b = Json[n].keys[i] /\ q = d[i]
                              /\ Len(b) \in Nat /\ IsUsize(Len(b))
                              /\ t[i] = (hash_len(Len(b)) \o b) \o q
    BY <2>b, Zenon
  <2>c. /\ hash_len(Len(a)) \o a \in Bytes /\ hash_len(Len(b)) \o b \in Bytes
        /\ Splits(hash_len(Len(a)) \o a, hash_len(Len(b)) \o b)
        /\ hash_len(Len(a)) \o a = hash_len(Len(b)) \o b => a = b
    BY <2>1, <2>2, PrefixedSplits
  <2>3. PICK x, y \in Bytes : /\ x = hash_len(Len(a)) \o a /\ y = hash_len(Len(b)) \o b
                              /\ Splits(x, y) /\ (x = y => a = b)
    BY <2>c, Zenon
  <2>4. Splits(p, q)
    BY <2>1, <2>2
  <2>5. /\ x \o p \in Bytes /\ y \o q \in Bytes
        /\ Splits(x \o p, y \o q) /\ (x \o p = y \o q => x = y /\ p = q)
    <3>1. Splits(x, y) /\ (x = y => Splits(p, q))
      BY <2>3, <2>4
    <3>2. QED
      BY <3>1, SplitsConcat
  <2>6. QED
    BY <2>1, <2>2, <2>3, <2>5
<1>4. /\ Splits(FlattenSeq(s), FlattenSeq(t))
      /\ FlattenSeq(s) = FlattenSeq(t) => \A i \in 1..Len(s) : s[i] = t[i]
  <2>1. Len(s) = Len(t) /\ \A i \in 1..Len(s) : Splits(s[i], t[i])
    BY <1>2, <1>3
  <2>2. QED
    BY <1>2, <2>1, FlattenSplits
<1>5. QED
  BY <1>1, <1>2, <1>3, <1>4

\* The bytes of two values are told apart if those of their children are.  First,
\* values of different kinds.
LEMMA KindSplits ==
  ASSUME NEW t \in Bytes, NEW r \in Bytes, NEW e \in Bytes, NEW f \in Bytes,
         Splits(t, r), t # r
  PROVE  Splits(t \o e, r \o f) /\ t \o e # r \o f
<1>1. t = r => Splits(e, f)
  OBVIOUS
<1>2. /\ t \o e \in Bytes /\ r \o f \in Bytes
      /\ Splits(t \o e, r \o f) /\ (t \o e = r \o f => t = r /\ e = f)
  BY <1>1, SplitsConcat
<1>3. QED
  BY <1>2

LEMMA TextSplits ==
  ASSUME NEW m \in Nodes, NEW n \in Nodes, Json[m].tag = Json[n].tag,
         Json[m].tag \in {"d", "s"}, NEW c, NEW d
  PROVE  /\ Splits(NodeBytes(Json[m], c), NodeBytes(Json[n], d))
         /\ NodeBytes(Json[m], c) = NodeBytes(Json[n], d) => Json[m].text = Json[n].text
<1>1. PICK t \in Bytes : t = TagBytes[Json[m].tag]
  BY NodeShape, TagsApart DEF Tags
<1>2. PICK a \in Bytes : a = Json[m].text /\ Len(a) \in Nat /\ IsUsize(Len(a))
  BY NodeShape
<1>3. PICK b \in Bytes : b = Json[n].text /\ Len(b) \in Nat /\ IsUsize(Len(b))
  BY NodeShape
<1>4. NodeBytes(Json[m], c) = (TagBytes[Json[m].tag] \o hash_len(Len(Json[m].text))) \o Json[m].text
  BY NodeBytesCases
<1>5. NodeBytes(Json[n], d) = (TagBytes[Json[n].tag] \o hash_len(Len(Json[n].text))) \o Json[n].text
  BY NodeBytesCases
<1>6. Len(a) = Len(b) => Splits(a, b)
  BY SplitsSameLength
<1>7. PICK j, k \in Nat : j = Len(a) /\ k = Len(b) /\ IsUsize(j) /\ IsUsize(k)
  BY <1>2, <1>3, Zenon
<1>8. j = k => Splits(a, b)
  BY <1>6, <1>7
<1>g. IsUsize(j) /\ IsUsize(k)
  BY <1>7
<1>k. /\ t \o hash_len(j) \in Bytes /\ t \o hash_len(k) \in Bytes
      /\ Splits(t \o hash_len(j), t \o hash_len(k))
      /\ t \o hash_len(j) = t \o hash_len(k) => j = k
  BY <1>g, HeadSplits
<1>h. PICK u, v \in Bytes : u = t \o hash_len(j) /\ v = t \o hash_len(k)
  BY <1>k
<1>s. Splits(u, v) /\ (u = v => Splits(a, b))
  BY <1>8, <1>h, <1>k
<1>9. /\ u \o a \in Bytes /\ v \o b \in Bytes
      /\ Splits(u \o a, v \o b) /\ (u \o a = v \o b => u = v /\ a = b)
  BY <1>s, SplitsConcat
<1>10. NodeBytes(Json[m], c) = u \o a /\ NodeBytes(Json[n], d) = v \o b
  BY <1>1, <1>2, <1>3, <1>4, <1>5, <1>7, <1>h, Zenon
<1>11. QED
  BY <1>2, <1>3, <1>9, <1>10, Zenon

LEMMA ArraySplits ==
  ASSUME NEW m \in Nodes, NEW n \in Nodes, Json[m].tag = "a", Json[n].tag = "a",
         NEW c \in Seq(Bytes), Len(c) = Len(Json[m].kids),
         NEW d \in Seq(Bytes), Len(d) = Len(Json[n].kids),
         Len(c) = Len(d) => \A i \in 1..Len(c) : Splits(c[i], d[i])
  PROVE  /\ Splits(NodeBytes(Json[m], c), NodeBytes(Json[n], d))
         /\ NodeBytes(Json[m], c) = NodeBytes(Json[n], d) =>
              Len(c) = Len(d) /\ \A i \in 1..Len(c) : c[i] = d[i]
<1>1. PICK t \in Bytes : t = TagBytes["a"]
  BY TagsApart DEF Tags
<1>2. PICK j \in Nat : j = Len(c) /\ IsUsize(j)
  BY NodeShape
<1>3. PICK k \in Nat : k = Len(d) /\ IsUsize(k)
  BY NodeShape
<1>4. PICK a, b \in Bytes : a = FlattenSeq(c) /\ b = FlattenSeq(d)
  BY FlattenType
<1>5. ASSUME j = k PROVE Splits(a, b) /\ (a = b => \A i \in 1..j : c[i] = d[i])
  <2>1. Len(c) = Len(d) /\ \A i \in 1..Len(c) : Splits(c[i], d[i])
    BY <1>2, <1>3, <1>5
  <2>2. /\ Splits(FlattenSeq(c), FlattenSeq(d))
        /\ FlattenSeq(c) = FlattenSeq(d) => \A i \in 1..Len(c) : c[i] = d[i]
    BY <2>1, FlattenSplits
  <2>3. QED
    BY <1>2, <1>4, <2>2
<1>6. NodeBytes(Json[m], c)
        = (TagBytes[Json[m].tag] \o hash_len(Len(Json[m].kids))) \o FlattenSeq(c)
  BY NodeBytesCases
<1>7. NodeBytes(Json[n], d)
        = (TagBytes[Json[n].tag] \o hash_len(Len(Json[n].kids))) \o FlattenSeq(d)
  BY NodeBytesCases
<1>8. j = k => Splits(a, b)
  BY <1>5
<1>g. IsUsize(j) /\ IsUsize(k)
  BY <1>2, <1>3
<1>k. /\ t \o hash_len(j) \in Bytes /\ t \o hash_len(k) \in Bytes
      /\ Splits(t \o hash_len(j), t \o hash_len(k))
      /\ t \o hash_len(j) = t \o hash_len(k) => j = k
  BY <1>g, HeadSplits
<1>h. PICK u, v \in Bytes : u = t \o hash_len(j) /\ v = t \o hash_len(k)
  BY <1>k
<1>s. Splits(u, v) /\ (u = v => Splits(a, b))
  BY <1>8, <1>h, <1>k
<1>9. /\ u \o a \in Bytes /\ v \o b \in Bytes
      /\ Splits(u \o a, v \o b) /\ (u \o a = v \o b => u = v /\ a = b)
  BY <1>s, SplitsConcat
<1>10. NodeBytes(Json[m], c) = u \o a /\ NodeBytes(Json[n], d) = v \o b
  BY <1>1, <1>2, <1>3, <1>4, <1>6, <1>7, <1>h, Zenon
<1>11. QED
  BY <1>2, <1>3, <1>5, <1>9, <1>10, <1>h, <1>k, Zenon

LEMMA ObjectSplits ==
  ASSUME NEW m \in Nodes, NEW n \in Nodes, Json[m].tag = "o", Json[n].tag = "o",
         NEW c \in Seq(Bytes), Len(c) = Len(Json[m].kids),
         NEW d \in Seq(Bytes), Len(d) = Len(Json[n].kids),
         Len(c) = Len(d) => \A i \in 1..Len(c) : Splits(c[i], d[i])
  PROVE  /\ Splits(NodeBytes(Json[m], c), NodeBytes(Json[n], d))
         /\ NodeBytes(Json[m], c) = NodeBytes(Json[n], d) =>
              /\ Len(c) = Len(d)
              /\ \A i \in 1..Len(c) : c[i] = d[i] /\ Json[m].keys[i] = Json[n].keys[i]
<1>1. PICK t \in Bytes : t = TagBytes["o"]
  BY TagsApart DEF Tags
<1>2. PICK j \in Nat : j = Len(c) /\ IsUsize(j)
  BY NodeShape
<1>3. PICK k \in Nat : k = Len(d) /\ IsUsize(k)
  BY NodeShape
<1>a. Members(Json[m], c) \in Seq(Bytes) /\ Members(Json[n], d) \in Seq(Bytes)
  BY MembersType
<1>b. FlattenSeq(Members(Json[m], c)) \in Bytes
  BY <1>a, FlattenType
<1>c. FlattenSeq(Members(Json[n], d)) \in Bytes
  BY <1>a, FlattenType
<1>4. PICK a, b \in Bytes :
        a = FlattenSeq(Members(Json[m], c)) /\ b = FlattenSeq(Members(Json[n], d))
  BY <1>b, <1>c
<1>5. ASSUME j = k
      PROVE  /\ Splits(a, b)
             /\ a = b => \A i \in 1..j : c[i] = d[i] /\ Json[m].keys[i] = Json[n].keys[i]
  <2>1. Len(c) = Len(d) /\ \A i \in 1..Len(c) : Splits(c[i], d[i])
    BY <1>2, <1>3, <1>5
  <2>2. /\ Splits(FlattenSeq(Members(Json[m], c)), FlattenSeq(Members(Json[n], d)))
        /\ FlattenSeq(Members(Json[m], c)) = FlattenSeq(Members(Json[n], d)) =>
             \A i \in 1..Len(c) : c[i] = d[i] /\ Json[m].keys[i] = Json[n].keys[i]
    BY <2>1, MembersSplit
  <2>3. QED
    BY <1>2, <1>4, <2>2, Zenon
<1>6. NodeBytes(Json[m], c) = (TagBytes[Json[m].tag] \o hash_len(Len(Json[m].kids)))
                                \o FlattenSeq(Members(Json[m], c))
  BY NodeBytesCases
<1>7. NodeBytes(Json[n], d) = (TagBytes[Json[n].tag] \o hash_len(Len(Json[n].kids)))
                                \o FlattenSeq(Members(Json[n], d))
  BY NodeBytesCases
<1>8. j = k => Splits(a, b)
  BY <1>5
<1>g. IsUsize(j) /\ IsUsize(k)
  BY <1>2, <1>3
<1>k. /\ t \o hash_len(j) \in Bytes /\ t \o hash_len(k) \in Bytes
      /\ Splits(t \o hash_len(j), t \o hash_len(k))
      /\ t \o hash_len(j) = t \o hash_len(k) => j = k
  BY <1>g, HeadSplits
<1>h. PICK u, v \in Bytes : u = t \o hash_len(j) /\ v = t \o hash_len(k)
  BY <1>k
<1>s. Splits(u, v) /\ (u = v => Splits(a, b))
  BY <1>8, <1>h, <1>k
<1>9. /\ u \o a \in Bytes /\ v \o b \in Bytes
      /\ Splits(u \o a, v \o b) /\ (u \o a = v \o b => u = v /\ a = b)
  BY <1>s, SplitsConcat
<1>10. NodeBytes(Json[m], c) = u \o a /\ NodeBytes(Json[n], d) = v \o b
  BY <1>1, <1>2, <1>3, <1>4, <1>6, <1>7, <1>h, Zenon
<1>11. QED
  BY <1>2, <1>3, <1>5, <1>9, <1>10, <1>h, <1>k, Zenon

LEMMA NodeSplits ==
  ASSUME NEW m \in Nodes, NEW n \in Nodes,
         NEW c \in Seq(Bytes), Len(c) = Len(Json[m].kids),
         NEW d \in Seq(Bytes), Len(d) = Len(Json[n].kids),
         Len(c) = Len(d) => \A i \in 1..Len(c) : Splits(c[i], d[i])
  PROVE  /\ Splits(NodeBytes(Json[m], c), NodeBytes(Json[n], d))
         /\ NodeBytes(Json[m], c) = NodeBytes(Json[n], d) =>
              /\ Json[m].tag = Json[n].tag
              /\ Json[m].tag \in {"d", "s"} => Json[m].text = Json[n].text
              /\ Json[m].tag \in {"a", "o"} =>
                   Len(c) = Len(d) /\ \A i \in 1..Len(c) : c[i] = d[i]
              /\ Json[m].tag = "o" => \A i \in 1..Len(c) : Json[m].keys[i] = Json[n].keys[i]
<1>1. Json[m].tag \in Tags /\ Json[n].tag \in Tags
  BY NodeShape DEF Tags
<1>2. CASE Json[m].tag # Json[n].tag
  <2>1. PICK t, r \in Bytes : t = TagBytes[Json[m].tag] /\ r = TagBytes[Json[n].tag]
    BY <1>1, TagsApart
  <2>2. Splits(t, r) /\ t # r
    BY <1>1, <1>2, <2>1, TagsApart
  <2>3. PICK e \in Bytes : NodeBytes(Json[m], c) = t \o e
    BY <2>1, NodeBytesType
  <2>4. PICK f \in Bytes : NodeBytes(Json[n], d) = r \o f
    BY <2>1, NodeBytesType
  <2>5. Splits(t \o e, r \o f) /\ t \o e # r \o f
    BY <2>2, KindSplits
  <2>6. QED
    BY <2>3, <2>4, <2>5, Zenon
<1>3. CASE Json[m].tag = Json[n].tag /\ Json[m].tag \in {"n", "b0", "b1"}
  <2>1. PICK t \in Bytes : t = TagBytes[Json[m].tag]
    BY <1>1, TagsApart
  <2>2. NodeBytes(Json[m], c) = TagBytes[Json[m].tag]
    BY <1>3, NodeBytesCases
  <2>3. NodeBytes(Json[n], d) = TagBytes[Json[n].tag]
    BY <1>3, NodeBytesCases
  <2>4. Splits(t, t)
    BY SplitsSameLength
  <2>5. Json[m].tag \notin {"d", "s", "a", "o"}
    BY <1>3
  <2>6. Splits(NodeBytes(Json[m], c), NodeBytes(Json[n], d))
    BY <1>3, <2>1, <2>2, <2>3, <2>4, Zenon
  <2>7. QED
    BY <1>3, <2>5, <2>6
<1>4. CASE Json[m].tag = Json[n].tag /\ Json[m].tag \in {"d", "s"}
  <2>1. /\ Splits(NodeBytes(Json[m], c), NodeBytes(Json[n], d))
        /\ NodeBytes(Json[m], c) = NodeBytes(Json[n], d) => Json[m].text = Json[n].text
    BY <1>4, TextSplits
  <2>2. Json[m].tag \notin {"a", "o"} /\ Json[m].tag # "o"
    BY <1>4
  <2>3. QED
    BY <1>4, <2>1, <2>2
<1>5. CASE Json[m].tag = "a" /\ Json[n].tag = "a"
  <2>1. /\ Splits(NodeBytes(Json[m], c), NodeBytes(Json[n], d))
        /\ NodeBytes(Json[m], c) = NodeBytes(Json[n], d) =>
             Len(c) = Len(d) /\ \A i \in 1..Len(c) : c[i] = d[i]
    BY <1>5, ArraySplits
  <2>2. Json[m].tag \notin {"d", "s"} /\ Json[m].tag # "o"
    BY <1>5
  <2>3. QED
    BY <1>5, <2>1, <2>2
<1>6. CASE Json[m].tag = "o" /\ Json[n].tag = "o"
  <2>1. /\ Splits(NodeBytes(Json[m], c), NodeBytes(Json[n], d))
        /\ NodeBytes(Json[m], c) = NodeBytes(Json[n], d) =>
             /\ Len(c) = Len(d)
             /\ \A i \in 1..Len(c) : c[i] = d[i] /\ Json[m].keys[i] = Json[n].keys[i]
    BY <1>6, ObjectSplits
  <2>2. Json[m].tag \notin {"d", "s"}
    BY <1>6
  <2>3. QED
    BY <1>6, <2>1, <2>2
<1>7. QED
  BY <1>1, <1>2, <1>3, <1>4, <1>5, <1>6 DEF Tags

\* Two values that agree on all of this are the same.
LEMMA SameNode ==
  ASSUME NEW m \in Nodes, NEW n \in Nodes, Json[m].tag = Json[n].tag,
         Json[m].tag \in {"d", "s"} => Json[m].text = Json[n].text,
         Json[m].tag \in {"a", "o"} =>
           /\ Len(Json[m].kids) = Len(Json[n].kids)
           /\ \A i \in 1..Len(Json[m].kids) : Json[m].kids[i] = Json[n].kids[i],
         Json[m].tag = "o" =>
           \A i \in 1..Len(Json[m].kids) : Json[m].keys[i] = Json[n].keys[i]
  PROVE  m = n
<1>1. WellFormed(Json[m]) /\ WellFormed(Json[n])
  BY NodeShape
<1>2. PICK t, u : t = Json[m].text /\ u = Json[n].text
  OBVIOUS
<1>3. t = u
  BY <1>1, <1>2 DEF WellFormed
<1>4. PICK c, d \in Seq(Nodes) : c = Json[m].kids /\ d = Json[n].kids
  BY NodeShape
<1>5. c = d
  <2>1. CASE Json[m].tag \in {"a", "o"}
    <3>1. Len(c) = Len(d) /\ \A i \in 1..Len(c) : c[i] = d[i]
      BY <1>4, <2>1
    <3>2. QED
      BY <3>1
  <2>2. CASE Json[m].tag \notin {"a", "o"}
    BY <1>1, <1>4, <2>2 DEF WellFormed
  <2>3. QED
    BY <2>1, <2>2
<1>6. PICK e, f \in Seq(Bytes) : e = Json[m].keys /\ f = Json[n].keys
  BY NodeShape
<1>7. e = f
  <2>1. CASE Json[m].tag = "o"
    <3>1. Len(e) = Len(c) /\ Len(f) = Len(d) /\ \A i \in 1..Len(c) : e[i] = f[i]
      BY <1>1, <1>4, <1>6, <2>1 DEF WellFormed
    <3>2. QED
      BY <1>5, <3>1
  <2>2. CASE Json[m].tag # "o"
    <3>1. Len(e) = 0 /\ Len(f) = 0
      BY <1>1, <1>6, <2>2 DEF WellFormed
    <3>2. QED
      BY <3>1, EmptySeq
  <2>3. QED
    BY <2>1, <2>2
<1>8. /\ Json[m] = [tag |-> Json[m].tag, text |-> t, keys |-> e, kids |-> c]
      /\ Json[n] = [tag |-> Json[n].tag, text |-> u, keys |-> f, kids |-> d]
  BY <1>2, <1>4, <1>6, NodeShape
<1>9. Json[m] = Json[n]
  BY <1>3, <1>5, <1>7, <1>8
<1>10. QED
  BY <1>9, JsonAssumption

\* hash_json_value is a prefix code: from the bytes of a value, whatever follows
\* them, the value can be told.
LEMMA BodiesApart ==
  \A m, n \in Nodes : /\ Splits(hash_json_value[m], hash_json_value[n])
                      /\ hash_json_value[m] = hash_json_value[n] => m = n
<1> DEFINE Apart(m, n) == /\ Splits(hash_json_value[m], hash_json_value[n])
                          /\ hash_json_value[m] = hash_json_value[n] => m = n
           T == {j \in Nat : \A m, n \in Nodes : m < j => Apart(m, n)}
<1>1. \A n \in Nodes : n \in Nat
  BY JsonAssumption
<1>2. 0 \in T
  <2> HIDE DEF Apart
  <2>1. QED
    BY <1>1
<1>3. ASSUME NEW j \in Nat, j \in T PROVE j + 1 \in T
  <2>1. ASSUME NEW m \in Nodes, NEW n \in Nodes, m < j + 1 PROVE Apart(m, n)
    <3>1. PICK c \in Seq(Bytes) : /\ Len(c) = Len(Json[m].kids)
                                  /\ \A i \in 1..Len(c) : c[i] = hash_json_value[Json[m].kids[i]]
                                  /\ hash_json_value[m] = NodeBytes(Json[m], c)
      BY HashChildren
    <3>2. PICK d \in Seq(Bytes) : /\ Len(d) = Len(Json[n].kids)
                                  /\ \A i \in 1..Len(d) : d[i] = hash_json_value[Json[n].kids[i]]
                                  /\ hash_json_value[n] = NodeBytes(Json[n], d)
      BY HashChildren
    <3>3. ASSUME Len(c) = Len(d), NEW i \in 1..Len(c)
          PROVE  Splits(c[i], d[i]) /\ (c[i] = d[i] => Json[m].kids[i] = Json[n].kids[i])
      <4>1. PICK p \in Nodes : p = Json[m].kids[i] /\ p < m
        BY <3>1, NodeShape
      <4>2. PICK q \in Nodes : q = Json[n].kids[i]
        BY <3>2, <3>3, NodeShape
      <4>3. p < j
        BY <1>1, <2>1, <4>1
      <4>4. Apart(p, q)
        <5> HIDE DEF Apart
        <5>1. QED
          BY <1>3, <4>3
      <4>5. c[i] = hash_json_value[p] /\ d[i] = hash_json_value[q]
        BY <3>1, <3>2, <3>3, <4>1, <4>2
      <4>6. QED
        BY <4>1, <4>2, <4>4, <4>5, Zenon
    <3>4. Len(c) = Len(d) => \A i \in 1..Len(c) : Splits(c[i], d[i])
      BY <3>3
    <3>5. /\ Splits(NodeBytes(Json[m], c), NodeBytes(Json[n], d))
          /\ NodeBytes(Json[m], c) = NodeBytes(Json[n], d) =>
               /\ Json[m].tag = Json[n].tag
               /\ Json[m].tag \in {"d", "s"} => Json[m].text = Json[n].text
               /\ Json[m].tag \in {"a", "o"} =>
                    Len(c) = Len(d) /\ \A i \in 1..Len(c) : c[i] = d[i]
               /\ Json[m].tag = "o" => \A i \in 1..Len(c) : Json[m].keys[i] = Json[n].keys[i]
      BY <3>1, <3>2, <3>4, NodeSplits
    <3>6. ASSUME hash_json_value[m] = hash_json_value[n] PROVE m = n
      <4>1. /\ Json[m].tag = Json[n].tag
            /\ Json[m].tag \in {"d", "s"} => Json[m].text = Json[n].text
            /\ Json[m].tag \in {"a", "o"} =>
                 Len(c) = Len(d) /\ \A i \in 1..Len(c) : c[i] = d[i]
            /\ Json[m].tag = "o" => \A i \in 1..Len(c) : Json[m].keys[i] = Json[n].keys[i]
        BY <3>1, <3>2, <3>5, <3>6, Zenon
      <4>2. Json[m].tag \in {"a", "o"} =>
              /\ Len(Json[m].kids) = Len(Json[n].kids)
              /\ \A i \in 1..Len(Json[m].kids) : Json[m].kids[i] = Json[n].kids[i]
        BY <3>1, <3>2, <3>3, <4>1
      <4>3. Json[m].tag = "o" =>
              \A i \in 1..Len(Json[m].kids) : Json[m].keys[i] = Json[n].keys[i]
        BY <3>1, <4>1
      <4>4. QED
        BY <4>1, <4>2, <4>3, SameNode
    <3>7. QED
      BY <3>1, <3>2, <3>5, <3>6, Zenon
  <2> HIDE DEF Apart
  <2>2. QED
    BY <2>1
<1>4. Nat \subseteq T
  <2> HIDE DEF T
  <2>1. QED
    BY <1>2, <1>3, SetInduction
<1>5. ASSUME NEW m \in Nodes, NEW n \in Nodes PROVE Apart(m, n)
  <2>1. m + 1 \in T /\ m < m + 1
    BY <1>1, <1>4
  <2> HIDE DEF Apart
  <2>2. QED
    BY <2>1
<1>6. QED
  BY <1>5

----------------------------------------------------------------------------
(* The key                                                                 *)

LEMMA SeparatorBytes == <<Bar>> \in Bytes
<1>1. Bar \in Byte
  BY DEF Bar, Byte
<1>2. QED
  BY <1>1 DEF Bytes

Regrouped(f, a, b, c) == ((f \o a) \o b) \o c = f \o ((a \o b) \o c)

LEMMA Regroup ==
  ASSUME NEW f \in Bytes, NEW a \in Bytes, NEW b \in Bytes, NEW c \in Bytes
  PROVE  Regrouped(f, a, b, c) /\ (a \o b) \o c \in Bytes
<1>1. (f \o a) \o b = f \o (a \o b)
  <2>1. Associates(f, a, b)
    BY ConcatAssoc
  <2>2. QED
    BY <2>1, Zenon DEF Associates
<1>2. a \o b \in Bytes
  BY Concat
<1>3. PICK d \in Bytes : d = a \o b
  BY <1>2
<1>4. (f \o d) \o c = f \o (d \o c)
  <2>1. Associates(f, d, c)
    BY ConcatAssoc
  <2>2. QED
    BY <2>1, Zenon DEF Associates
<1>5. d \o c \in Bytes
  BY Concat
<1>6. QED
  BY <1>1, <1>3, <1>4, <1>5, Zenon DEF Regrouped

NoBar(s) == \A i \in 1..Len(s) : s[i] # Bar

Barred(s, t) == (s \o <<Bar>>) \o t

\* What the hasher is fed, as fingerprint joins it.
Fed(ns, ep, sc, body) ==
  (((((ns \o <<Bar>>) \o ep) \o <<Bar>>) \o sc) \o <<Bar>>) \o body

\* The feed taken apart: the namespace, then the endpoint, the scope and the body,
\* or the target and the body.
LEMMA FedShape ==
  ASSUME NEW ns \in Bytes, NEW ep \in Bytes, NEW sc \in Bytes, NEW body \in Bytes
  PROVE  /\ Barred(sc, body) \in Bytes /\ Barred(ep, Barred(sc, body)) \in Bytes
         /\ Barred(ep, sc) \in Bytes
         /\ Fed(ns, ep, sc, body) = Barred(ns, Barred(ep, Barred(sc, body)))
         /\ Barred(ep, Barred(sc, body)) = Barred(Barred(ep, sc), body)
<1>1. PICK b \in Bytes : b = <<Bar>>
  BY SeparatorBytes
<1>2. (sc \o b) \o body \in Bytes
  BY Regroup
<1>3. PICK z \in Bytes : z = (sc \o b) \o body
  BY <1>2
<1>4. (ep \o b) \o z \in Bytes
  BY Regroup
<1>5. PICK y \in Bytes : y = (ep \o b) \o z
  BY <1>4
<1>6. (ep \o b) \o sc \in Bytes
  BY Regroup
<1>7. PICK g \in Bytes : g = ns \o b
  BY Concat
<1>8. g \o ep \in Bytes
  BY Concat
<1>9. PICK e \in Bytes : e = g \o ep
  BY <1>8
<1>10. e \o b \in Bytes
  BY Concat
<1>11. PICK f \in Bytes : f = e \o b
  BY <1>10
<1>12. ((f \o sc) \o b) \o body = f \o z
  <2>1. Regrouped(f, sc, b, body)
    BY Regroup
  <2>2. QED
    BY <1>3, <2>1, Zenon DEF Regrouped
<1>13. f \o z = g \o y
  <2>1. Regrouped(g, ep, b, z)
    BY Regroup
  <2>2. QED
    BY <1>5, <1>9, <1>11, <2>1, Zenon DEF Regrouped
<1>14. PICK h \in Bytes : h = ep \o b
  BY Concat
<1>15. ((h \o sc) \o b) \o body = h \o z
  <2>1. Regrouped(h, sc, b, body)
    BY Regroup
  <2>2. QED
    BY <1>3, <2>1, Zenon DEF Regrouped
<1>16. (((((ns \o b) \o ep) \o b) \o sc) \o b) \o body = (ns \o b) \o y
  BY <1>7, <1>9, <1>11, <1>12, <1>13, Zenon
<1>17. (ep \o b) \o z = (((ep \o b) \o sc) \o b) \o body
  BY <1>14, <1>15, Zenon
<1>18. QED
  BY <1>1, <1>3, <1>5, <1>6, <1>16, <1>17, Zenon DEF Fed, Barred

LEMMA BarredApart ==
  ASSUME NEW a \in Bytes, NEW b \in Bytes, NEW u \in Bytes, NEW v \in Bytes,
         NoBar(a), NoBar(b), Barred(a, u) = Barred(b, v)
  PROVE  a = b /\ u = v
BY SplitAtBar DEF NoBar, Barred

\* What precedes the separator is known: what follows it is the same.
LEMMA BarredSame ==
  ASSUME NEW a \in Bytes, NEW u \in Bytes, NEW v \in Bytes, Barred(a, u) = Barred(a, v)
  PROVE  u = v
<1>1. a \o <<Bar>> \in Bytes
  BY SeparatorBytes, Concat
<1>2. PICK p \in Bytes : p = a \o <<Bar>>
  BY <1>1
<1>3. p \o u = p \o v
  BY <1>2 DEF Barred
<1>4. QED
  BY <1>3, Cancel

LEMMA RequestShape ==
  ASSUME NEW r \in Requests
  PROVE  /\ r.namespace \in Bytes /\ r.endpoint \in Bytes /\ r.cache_scope \in Bytes
         /\ r.body \in Nodes /\ hash_json_value[r.body] \in Bytes
         /\ Plain(r) => NoBar(r.endpoint) /\ NoBar(r.cache_scope)
         /\ Target(r) = Barred(r.endpoint, r.cache_scope)
         /\ CacheKey(r)
              = <<r.namespace, Fed(r.namespace, r.endpoint, r.cache_scope, hash_json_value[r.body])>>
<1>1. r \in RequestType
  BY CacheAssumption
<1>2. PICK ns, ep, sc \in Bytes : ns = r.namespace /\ ep = r.endpoint /\ sc = r.cache_scope
  BY <1>1 DEF RequestType, Bytes
<1>3. r.body \in Nodes /\ hash_json_value[r.body] \in Bytes
  BY <1>1, HashType DEF RequestType
<1>4. Plain(r) => (\A i \in DOMAIN ep : ep[i] # Bar) /\ (\A i \in DOMAIN sc : sc[i] # Bar)
  BY <1>2, Zenon DEF Plain
<1>5. DOMAIN ep = 1..Len(ep) /\ DOMAIN sc = 1..Len(sc)
  BY DEF Bytes
<1>6. Plain(r) => NoBar(ep) /\ NoBar(sc)
  BY <1>4, <1>5, Zenon DEF NoBar
<1>7. CacheKey(r) = <<ns, Fed(ns, ep, sc, hash_json_value[r.body])>>
  BY <1>2, Zenon DEF CacheKey, fingerprint, Fed
<1>8. Target(r) = Barred(ep, sc)
  BY <1>2, Zenon DEF Target, Barred
<1>9. QED
  BY <1>2, <1>3, <1>6, <1>7, <1>8, Zenon

\* What requests with one key have in common.
LEMMA KeysApart ==
  ASSUME NEW p \in Requests, NEW q \in Requests, CacheKey(p) = CacheKey(q)
  PROVE  /\ p.namespace = q.namespace
         /\ Target(p) = Target(q) => p.body = q.body
         /\ (Plain(p) /\ Plain(q)) => SameRequest(p, q)
<1>1. PICK ns, e1, s1, b1 \in Bytes :
        /\ ns = p.namespace /\ e1 = p.endpoint /\ s1 = p.cache_scope
        /\ b1 = hash_json_value[p.body]
  BY RequestShape
<1>2. PICK n2, e2, s2, b2 \in Bytes :
        /\ n2 = q.namespace /\ e2 = q.endpoint /\ s2 = q.cache_scope
        /\ b2 = hash_json_value[q.body]
  BY RequestShape
<1>3. ns = n2 /\ Fed(ns, e1, s1, b1) = Fed(ns, e2, s2, b2)
  <2>1. CacheKey(p) = <<ns, Fed(ns, e1, s1, b1)>>
    BY <1>1, RequestShape, Zenon
  <2>2. CacheKey(q) = <<n2, Fed(n2, e2, s2, b2)>>
    BY <1>2, RequestShape, Zenon
  <2>3. <<ns, Fed(ns, e1, s1, b1)>> = <<n2, Fed(n2, e2, s2, b2)>>
    BY <2>1, <2>2, Zenon
  <2>4. ns = n2 /\ Fed(ns, e1, s1, b1) = Fed(n2, e2, s2, b2)
    BY <2>3
  <2>5. QED
    BY <2>4
<1>4. /\ Barred(s1, b1) \in Bytes /\ Barred(e1, Barred(s1, b1)) \in Bytes
      /\ Barred(e1, s1) \in Bytes
      /\ Fed(ns, e1, s1, b1) = Barred(ns, Barred(e1, Barred(s1, b1)))
      /\ Barred(e1, Barred(s1, b1)) = Barred(Barred(e1, s1), b1)
  BY FedShape
<1>5. /\ Barred(s2, b2) \in Bytes /\ Barred(e2, Barred(s2, b2)) \in Bytes
      /\ Barred(e2, s2) \in Bytes
      /\ Fed(ns, e2, s2, b2) = Barred(ns, Barred(e2, Barred(s2, b2)))
      /\ Barred(e2, Barred(s2, b2)) = Barred(Barred(e2, s2), b2)
  BY FedShape
<1>6. Barred(e1, Barred(s1, b1)) = Barred(e2, Barred(s2, b2))
  <2>1. Barred(ns, Barred(e1, Barred(s1, b1))) = Barred(ns, Barred(e2, Barred(s2, b2)))
    BY <1>3, <1>4, <1>5, Zenon
  <2>2. QED
    BY <1>4, <1>5, <2>1, BarredSame
<1>7. p.body \in Nodes /\ q.body \in Nodes
  BY RequestShape
<1>8. b1 = b2 => p.body = q.body
  BY <1>1, <1>2, <1>7, BodiesApart, Zenon
<1>9. ASSUME Target(p) = Target(q) PROVE p.body = q.body
  <2>1. Target(p) = Barred(e1, s1)
    BY <1>1, RequestShape, Zenon
  <2>2. Target(q) = Barred(e2, s2)
    BY <1>2, RequestShape, Zenon
  <2>3. PICK t \in Bytes : t = Barred(e1, s1) /\ t = Barred(e2, s2)
    BY <1>4, <1>9, <2>1, <2>2, Zenon
  <2>4. Barred(t, b1) = Barred(t, b2)
    BY <1>4, <1>5, <1>6, <2>3, Zenon
  <2>5. b1 = b2
    BY <2>4, BarredSame
  <2>6. QED
    BY <1>8, <2>5
<1>10. ASSUME Plain(p), Plain(q) PROVE SameRequest(p, q)
  <2>1. NoBar(e1) /\ NoBar(s1)
    BY <1>1, <1>10, RequestShape
  <2>2. NoBar(e2) /\ NoBar(s2)
    BY <1>2, <1>10, RequestShape
  <2>3. e1 = e2 /\ Barred(s1, b1) = Barred(s2, b2)
    BY <1>4, <1>5, <1>6, <2>1, <2>2, BarredApart
  <2>4. s1 = s2 /\ b1 = b2
    BY <2>1, <2>2, <2>3, BarredApart
  <2>5. QED
    BY <1>1, <1>2, <1>3, <1>8, <2>3, <2>4 DEF SameRequest
<1>11. QED
  BY <1>1, <1>2, <1>3, <1>9, <1>10

\* AnswersItsRequest holds: a cached answer comes from the same namespace, from the
\* same body if endpoint and scope read the same, and from the very same request
\* if no bar is in either's endpoint or scope; whatever clients put there.
THEOREM CacheAnswersItsRequest == Spec => []AnswersItsRequest
<1>1. CacheInv /\ Origins => AnswersItsRequest
  <2> SUFFICES ASSUME CacheInv, Origins, NEW c \in Clients, answer[c] # None
               PROVE  LET asked == req[c]
                          cached == answer[c].val.of
                      IN /\ asked.namespace = cached.namespace
                         /\ Target(asked) = Target(cached) => asked.body = cached.body
                         /\ (Plain(asked) /\ Plain(cached)) => SameRequest(asked, cached)
    BY DEF AnswersItsRequest
  <2>1. CacheKey(answer[c].val.of) = CacheKey(req[c]) /\ pc[c] = "done"
    BY DEF Origins, KeyOf
  <2>2. req[c] \in Requests /\ answer[c].val.of \in Requests
    BY <2>1 DEF CacheInv, Typed, Entries, Values
  <2>3. QED
    BY <2>1, <2>2, KeysApart
<1>2. QED
  BY <1>1, CacheInvariant, CacheOrigins, PTL
=============================================================================
