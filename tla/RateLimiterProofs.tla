------------------------- MODULE RateLimiterProofs -------------------------
(***************************************************************************)
(* Theorems about RateLimiter for every set of requests, every list of     *)
(* rules and every sequence of reloads.                                    *)
(*                                                                         *)
(* The argument: Shape says which checks a request can still have pending  *)
(* or hold; from it every step either leaves the outstanding permits and   *)
(* the slot counters alone, or grants exactly one new permit below its     *)
(* cap, or gives exactly one back (PermitSteps).  Counting then follows    *)
(* from the cardinality of a set with one element added or removed.        *)
(***************************************************************************)
EXTENDS RateLimiter, FiniteSums

\* A check that is pending has no permit yet, and a request that has not
\* started has nothing at all.
Shape ==
  /\ TypeOK
  /\ \A r \in Requests :
       /\ held[r] \cap pending[r] = {}
       /\ pc[r] = "idle" => pending[r] = {} /\ held[r] = {} /\ reserved[r] = {}

\* The scope of an applicable check is a scope the store knows, and its cap is
\* a number.
LEMMA CheckFacts ==
  ASSUME NEW v \in Versions, NEW r \in Requests, NEW c \in ChecksOf(v, r)
  PROVE  /\ ScopeOf(Limits[v][c[1]], r) \in Scope
         /\ Limits[v][c[1]].cap[c[2]] \in Nat
         /\ c[2] \in Metric
         /\ <<r, v, c>> \in Permits
<1>1. Limits[v][c[1]] \in LimitConfig
  BY ConstantsAssumption DEF ChecksOf
<1>2. ScopeOf(Limits[v][c[1]], r) \in Scope
  BY <1>1, ConstantsAssumption DEF ScopeOf, Scope, LimitConfig, Range
<1>3. Limits[v][c[1]].cap[c[2]] \in Nat /\ c[2] \in Metric
  BY <1>1, ConstantsAssumption DEF ChecksOf, LimitConfig
<1>4. <<r, v, c>> \in Permits
  <2>1. <<r, v, c>> \in {<<r, v, d>> : d \in ChecksOf(v, r)}
    OBVIOUS
  <2>2. <<r, v, c>> \in UNION {{<<r, w, d>> : d \in ChecksOf(w, r)} : w \in Versions}
    BY <2>1
  <2>3. QED
    BY <2>2 DEF Permits
<1>5. QED BY <1>2, <1>3, <1>4

LEMMA ShapeInit == Init => Shape
BY ConstantsAssumption DEF Init, Shape, TypeOK, Window, Phase

LEMMA ShapeStep == Shape /\ [Next]_vars => Shape'
<1> SUFFICES ASSUME Shape, [Next]_vars PROVE Shape'
  OBVIOUS
<1> USE ConstantsAssumption DEF Shape, TypeOK, Phase
<1>1. ASSUME NEW r \in Requests, Start(r) PROVE Shape'
  BY <1>1 DEF Start, store, history
<1>2. ASSUME NEW r \in Requests, NEW c \in pending[r], CheckRpm(r, c)
      PROVE Shape'
  <2>1. ScopeFor(r, c) \in Scope
    BY CheckFacts DEF ScopeFor
  <2>2. windows' \in [WindowKey -> Int]
    BY <1>2, <2>1 DEF CheckRpm, IncrWindow, WindowKey
  <2>3. CASE OverCap(Counter("rpm", ScopeFor(r, c)) + 1, CapFor(r, c))
    BY <1>2, <2>2, <2>3 DEF CheckRpm, Reject
  <2>4. CASE ~OverCap(Counter("rpm", ScopeFor(r, c)) + 1, CapFor(r, c))
    <3>1. passed' \subseteq counted'
      BY <1>2, <2>4 DEF CheckRpm
    <3>2. /\ pending' = [pending EXCEPT ![r] = @ \ {c}]
          /\ UNCHANGED <<config, window, concurrency, pc, snapshot, held,
                         reserved, usage>>
      BY <1>2, <2>4 DEF CheckRpm, Proceed
    <3>3. QED
      BY <2>2, <3>1, <3>2
  <2>5. QED
    BY <2>3, <2>4
<1>3. ASSUME NEW r \in Requests, NEW c \in pending[r], CheckTpm(r, c)
      PROVE Shape'
  <2>1. ScopeFor(r, c) \in Scope
    BY CheckFacts DEF ScopeFor
  <2>2. windows' \in [WindowKey -> Int]
    BY <1>3, <2>1 DEF CheckTpm, IncrWindow, WindowKey
  <2>3. CASE pc'[r] = "rollback"
    BY <1>3, <2>2, <2>3 DEF CheckTpm, Reject, Proceed
  <2>4. CASE pc'[r] # "rollback"
    <3>1. Proceed(r, c) /\ reserved' = [reserved EXCEPT ![r] = @ \cup {c}]
      BY <1>3, <2>4 DEF CheckTpm, Reject
    <3>2. QED
      BY <1>3, <2>2, <3>1 DEF CheckTpm, Proceed
  <2>5. QED
    BY <2>3, <2>4
<1>4. ASSUME NEW r \in Requests, NEW c \in pending[r], RollBackTpm(r, c)
      PROVE Shape'
  <2>1. ScopeFor(r, c) \in Scope
    BY CheckFacts DEF ScopeFor
  <2>2. windows' \in [WindowKey -> Int]
    BY <1>4, <2>1 DEF RollBackTpm, IncrWindow, WindowKey
  <2>3. QED
    BY <1>4, <2>2 DEF RollBackTpm, history
<1>5. ASSUME NEW r \in Requests, NEW c \in pending[r], TryAcquire(r, c)
      PROVE Shape'
  <2>1. ScopeFor(r, c) \in Scope
    BY CheckFacts DEF ScopeFor
  <2>2. CASE Full(concurrency[ScopeFor(r, c)], CapFor(r, c))
    BY <1>5, <2>2 DEF TryAcquire, Reject
  <2>3. CASE ~Full(concurrency[ScopeFor(r, c)], CapFor(r, c))
    <3>1. concurrency' = [concurrency EXCEPT ![ScopeFor(r, c)] = @ + 1]
      BY <1>5, <2>3 DEF TryAcquire
    <3>2. concurrency' \in [Scope -> Nat]
      BY <2>1, <3>1
    <3>3. /\ pc[r] = "checking"
          /\ pending' = [pending EXCEPT ![r] = @ \ {c}]
          /\ held' = [held EXCEPT ![r] = @ \cup {c}]
          /\ UNCHANGED <<config, window, windows, pc, snapshot, reserved, usage,
                         counted, passed>>
      BY <1>5, <2>3 DEF TryAcquire, Proceed
    <3>4. QED
      BY <3>2, <3>3
  <2>4. QED
    BY <2>2, <2>3
<1>6. ASSUME NEW r \in Requests, NEW c \in reserved[r], Reconcile(r, c)
      PROVE Shape'
  <2>1. ScopeFor(r, c) \in Scope
    BY CheckFacts DEF ScopeFor
  <2>2. windows' \in [WindowKey -> Int]
    BY <1>6, <2>1 DEF Reconcile, IncrWindow, WindowKey, Delta
  <2>3. QED
    BY <1>6, <2>2 DEF Reconcile
<1>7. ASSUME NEW r \in Requests, NEW c \in held[r], Release(r, c)
      PROVE Shape'
  <2>1. ScopeFor(r, c) \in Scope
    BY CheckFacts DEF ScopeFor
  <2>2. concurrency' \in [Scope -> Nat]
    BY <1>7, <2>1 DEF Release, SlotReleased
  <2>3. QED
    BY <1>7, <2>2 DEF Release, history
<1>8. ASSUME NEW r \in Requests, Admit(r) \/ Reconciled(r) \/ Released(r) \/ Abandon(r)
      PROVE Shape'
  BY <1>8 DEF Admit, Reconciled, Released, Abandon, store, history
<1>9. ASSUME NEW r \in Requests, NEW tokens \in TokenUsages, Complete(r, tokens)
      PROVE Shape'
  BY <1>9 DEF Complete, store, history
<1>10. ASSUME NextMinute PROVE Shape'
  BY <1>10 DEF NextMinute, Window, store, history
<1>11. ASSUME NEW v \in Versions, Reload(v) PROVE Shape'
  BY <1>11 DEF Reload, store, history
<1>12. ASSUME UNCHANGED vars PROVE Shape'
  BY <1>12 DEF vars, store, history
<1>13. QED
  BY <1>1, <1>2, <1>3, <1>4, <1>5, <1>6, <1>7, <1>8, <1>9, <1>10, <1>11, <1>12
  DEF Next, Work, Idle

\* The limiter's state keeps its types, in particular a request's pending
\* checks, permits and reservations always belong to the configuration
\* snapshot it started with, whatever is reloaded meanwhile.
THEOREM TypeCorrect == Spec => []TypeOK
<1>1. Shape => TypeOK
  BY DEF Shape
<1>2. QED
  BY <1>1, ShapeInit, ShapeStep, PTL DEF Spec
----------------------------------------------------------------------------
(***************************************************************************)
(* Concurrency slots                                                       *)
(***************************************************************************)
\* A permit granted: it was not outstanding, and a slot was free.
Granted(p) ==
  /\ p \in Permits /\ p \notin Outstanding
  /\ Outstanding' = Outstanding \cup {p}
  /\ concurrency[PermitScope(p)] < PermitCap(p)
  /\ concurrency' = [concurrency EXCEPT ![PermitScope(p)] = @ + 1]

\* A permit given back.
Returned(p) ==
  /\ p \in Permits /\ p \in Outstanding
  /\ Outstanding' = Outstanding \ {p}
  /\ concurrency' = [concurrency EXCEPT ![PermitScope(p)] = SlotReleased(@)]

\* Every member of Permits is a request, a version and one of its checks.
LEMMA PermitFacts ==
  ASSUME NEW p \in Permits
  PROVE  /\ p[1] \in Requests /\ p[2] \in Versions
         /\ p[3] \in ChecksOf(p[2], p[1])
         /\ p = <<p[1], p[2], p[3]>>
         /\ PermitScope(p) \in Scope
         /\ PermitCap(p) \in Nat
<1>1. PICK r \in Requests :
        p \in UNION {{<<r, v, c>> : c \in ChecksOf(v, r)} : v \in Versions}
  BY DEF Permits
<1>2. PICK v \in Versions : p \in {<<r, v, c>> : c \in ChecksOf(v, r)}
  BY <1>1
<1>3. PICK c \in ChecksOf(v, r) : p = <<r, v, c>>
  BY <1>2
<1>4. QED
  BY <1>3, CheckFacts DEF PermitScope, PermitCap

\* Every step grants one permit, gives one back, or touches no slot.
LEMMA PermitSteps ==
  ASSUME Shape, [Next]_vars
  PROVE  \/ Outstanding' = Outstanding /\ concurrency' = concurrency
         \/ \E p \in Permits : Granted(p)
         \/ \E p \in Permits : Returned(p)
<1> DEFINE Still == Outstanding' = Outstanding /\ concurrency' = concurrency
<1>1. ASSUME UNCHANGED <<held, snapshot, concurrency>> PROVE Still
  BY <1>1 DEF Outstanding
<1>2. ASSUME NEW r \in Requests, Start(r) PROVE Still
  <2>1. \A p \in Permits : p[1] = r => p[3] \notin held[p[1]]
    BY <1>2 DEF Start, Shape
  <2>2. \A p \in Permits : p[1] # r => snapshot'[p[1]] = snapshot[p[1]]
    BY <1>2, PermitFacts DEF Start, Shape, TypeOK
  <2>3. held' = held /\ concurrency' = concurrency
    BY <1>2 DEF Start, store
  <2>4. \A p \in Permits : (p \in Outstanding') <=> (p \in Outstanding)
    BY <2>1, <2>2, <2>3 DEF Outstanding
  <2>5. Outstanding' \subseteq Permits /\ Outstanding \subseteq Permits
    BY DEF Outstanding
  <2>6. QED
    BY <2>3, <2>4, <2>5
<1>3. ASSUME NEW r \in Requests, NEW c \in pending[r], TryAcquire(r, c)
      PROVE Still \/ \E p \in Permits : Granted(p)
  <2>1. CASE Full(concurrency[ScopeFor(r, c)], CapFor(r, c))
    BY <1>1, <1>3, <2>1 DEF TryAcquire
  <2>2. CASE ~Full(concurrency[ScopeFor(r, c)], CapFor(r, c))
    <3> DEFINE p == <<r, snapshot[r], c>>
    <3>1. c \in ChecksOf(snapshot[r], r) /\ snapshot[r] \in Versions
      BY DEF Shape, TypeOK
    <3>2. p \in Permits
      BY <3>1, CheckFacts
    <3>3. PermitScope(p) = ScopeFor(r, c) /\ PermitCap(p) = CapFor(r, c)
      BY DEF PermitScope, PermitCap, ScopeFor, CapFor
    <3>4. p \notin Outstanding
      BY DEF Outstanding, Shape
    <3>5. /\ held' = [held EXCEPT ![r] = @ \cup {c}]
          /\ snapshot' = snapshot
          /\ concurrency' = [concurrency EXCEPT ![ScopeFor(r, c)] = @ + 1]
      BY <1>3, <2>2 DEF TryAcquire
    <3>6. \A q \in Permits : q[3] \in held'[q[1]] /\ q[2] = snapshot'[q[1]]
                              <=> q \in Outstanding \/ q = p
      BY <3>5, PermitFacts DEF Outstanding, Shape, TypeOK
    <3>7. Outstanding' = Outstanding \cup {p}
      BY <3>2, <3>6 DEF Outstanding
    <3>8. concurrency[PermitScope(p)] < PermitCap(p)
      <4>1. concurrency[PermitScope(p)] \in Nat /\ PermitCap(p) \in Nat
        BY <3>2, PermitFacts DEF Shape, TypeOK
      <4>2. QED
        BY <2>2, <3>3, <4>1 DEF Full
    <3>9. QED
      BY <3>2, <3>3, <3>4, <3>5, <3>7, <3>8 DEF Granted
  <2>3. QED
    BY <2>1, <2>2
<1>4. ASSUME NEW r \in Requests, NEW c \in held[r], Release(r, c)
      PROVE \E p \in Permits : Returned(p)
  <2> DEFINE p == <<r, snapshot[r], c>>
  <2>1. c \in ChecksOf(snapshot[r], r) /\ snapshot[r] \in Versions
    BY DEF Shape, TypeOK
  <2>2. p \in Permits /\ PermitScope(p) = ScopeFor(r, c)
    BY <2>1, CheckFacts DEF PermitScope, ScopeFor
  <2>3. p \in Outstanding
    BY <2>2 DEF Outstanding
  <2>4. /\ held' = [held EXCEPT ![r] = @ \ {c}]
        /\ snapshot' = snapshot
        /\ concurrency' = [concurrency EXCEPT ![ScopeFor(r, c)] = SlotReleased(@)]
    BY <1>4 DEF Release
  <2>5. \A q \in Permits : q[3] \in held'[q[1]] /\ q[2] = snapshot'[q[1]]
                            <=> q \in Outstanding /\ q # p
    BY <2>4, PermitFacts DEF Outstanding, Shape, TypeOK
  <2>6. Outstanding' = Outstanding \ {p}
    BY <2>5 DEF Outstanding
  <2>7. QED
    BY <2>2, <2>3, <2>4, <2>6 DEF Returned
<1>5. ASSUME NEW r \in Requests, NEW c,
             CheckRpm(r, c) \/ CheckTpm(r, c) \/ RollBackTpm(r, c) \/ Reconcile(r, c)
      PROVE Still
  BY <1>1, <1>5 DEF CheckRpm, CheckTpm, RollBackTpm, Reconcile
<1>6. ASSUME NEW r \in Requests, Admit(r) \/ Reconciled(r) \/ Released(r) \/ Abandon(r)
      PROVE Still
  BY <1>1, <1>6 DEF Admit, Reconciled, Released, Abandon, store
<1>7. ASSUME NEW r \in Requests, NEW tokens, Complete(r, tokens) PROVE Still
  BY <1>1, <1>7 DEF Complete, store
<1>8. ASSUME NextMinute \/ (\E v \in Versions : Reload(v)) \/ UNCHANGED vars
      PROVE Still
  BY <1>1, <1>8 DEF NextMinute, Reload, vars, store
<1>9. QED
  BY <1>2, <1>3, <1>4, <1>5, <1>6, <1>7, <1>8 DEF Next, Work, Idle

\* The inductive invariant of the slots.
SlotsInv ==
  /\ Shape
  /\ IsFiniteSet(Outstanding)
  /\ SlotsMatchPermits
  /\ ConcurrencyRespected

LEMMA SlotsInit == Init => SlotsInv
<1> SUFFICES ASSUME Init PROVE SlotsInv
  OBVIOUS
<1>1. Outstanding = {}
  BY PermitFacts DEF Init, Outstanding
<1>2. \A s \in Scope : Occupying(s) = {}
  BY <1>1 DEF Occupying
<1>3. QED
  BY <1>1, <1>2, FS_EmptySet, ShapeInit
  DEF SlotsInv, SlotsMatchPermits, ConcurrencyRespected, Init

LEMMA SlotsStep == SlotsInv /\ [Next]_vars => SlotsInv'
<1> SUFFICES ASSUME SlotsInv, [Next]_vars PROVE SlotsInv'
  OBVIOUS
<1>0. Shape /\ Shape'
  BY ShapeStep DEF SlotsInv
<1>1. CASE Outstanding' = Outstanding /\ concurrency' = concurrency
  BY <1>0, <1>1
  DEF SlotsInv, SlotsMatchPermits, ConcurrencyRespected, Occupying, SameRule
<1>2. ASSUME NEW p \in Permits, Granted(p) PROVE SlotsInv'
  <2> DEFINE s0 == PermitScope(p)
  <2>1. s0 \in Scope /\ concurrency \in [Scope -> Nat] /\ PermitCap(p) \in Nat
    BY <1>0, PermitFacts DEF Shape, TypeOK
  <2>2. IsFiniteSet(Outstanding')
    BY <1>2, FS_AddElement DEF Granted, SlotsInv
  <2>3. \A s : IsFiniteSet(Occupying(s))
    BY FS_Subset DEF SlotsInv, Occupying
  <2>4. Occupying(s0)' = Occupying(s0) \cup {p} /\ p \notin Occupying(s0)
    BY <1>2 DEF Granted, Occupying
  <2>5. \A s : s # s0 => Occupying(s)' = Occupying(s)
    BY <1>2 DEF Granted, Occupying
  <2>6. Cardinality(Occupying(s0)') = Cardinality(Occupying(s0)) + 1
    BY <2>3, <2>4, FS_AddElement
  <2>7. SlotsMatchPermits'
    BY <1>2, <2>1, <2>5, <2>6 DEF SlotsInv, SlotsMatchPermits, Granted
  <2>8. ASSUME NEW q \in Outstanding'
        PROVE  Cardinality(SameRule(q)') <= PermitCap(q)
    <3>1. q \in Permits
      BY <1>2 DEF Granted, Outstanding
    <3>2. CASE PermitScope(q) = s0 /\ q[2] = p[2] /\ q[3] = p[3]
      <4>1. SameRule(q)' \subseteq Occupying(s0)'
        BY <3>2 DEF SameRule
      <4>2. IsFiniteSet(Occupying(s0)')
        BY <2>3, <2>4, FS_AddElement
      <4>3. Cardinality(SameRule(q)') <= Cardinality(Occupying(s0)')
        BY <4>1, <4>2, FS_Subset
      <4>4. Cardinality(Occupying(s0)) < PermitCap(p)
        BY <1>2, <2>1 DEF Granted, SlotsInv, SlotsMatchPermits
      <4>5. PermitCap(q) = PermitCap(p)
        BY <3>2 DEF PermitCap
      <4>6. Cardinality(SameRule(q)') \in Nat /\ Cardinality(Occupying(s0)) \in Nat
        BY <2>3, <4>1, <4>2, FS_Subset, FS_CardinalityType
      <4>7. QED
        BY <2>1, <2>6, <4>3, <4>4, <4>5, <4>6
    <3>3. CASE ~(PermitScope(q) = s0 /\ q[2] = p[2] /\ q[3] = p[3])
      <4>1. q \in Outstanding
        BY <1>2, <3>3 DEF Granted
      <4>2. SameRule(q)' = SameRule(q)
        BY <2>4, <2>5, <3>3 DEF SameRule
      <4>3. QED
        BY <4>1, <4>2 DEF SlotsInv, ConcurrencyRespected
    <3>4. QED
      BY <3>2, <3>3
  <2>9. QED
    BY <1>0, <2>2, <2>7, <2>8 DEF SlotsInv, ConcurrencyRespected
<1>3. ASSUME NEW p \in Permits, Returned(p) PROVE SlotsInv'
  <2> DEFINE s0 == PermitScope(p)
  <2>1. s0 \in Scope /\ concurrency \in [Scope -> Nat]
    BY <1>0, PermitFacts DEF Shape, TypeOK
  <2>2. IsFiniteSet(Outstanding')
    BY <1>3, FS_RemoveElement DEF Returned, SlotsInv
  <2>3. \A s : IsFiniteSet(Occupying(s))
    BY FS_Subset DEF SlotsInv, Occupying
  <2>4. Occupying(s0)' = Occupying(s0) \ {p} /\ p \in Occupying(s0)
    BY <1>3 DEF Returned, Occupying
  <2>5. \A s : s # s0 => Occupying(s)' = Occupying(s)
    BY <1>3 DEF Returned, Occupying
  <2>6. Cardinality(Occupying(s0)') = Cardinality(Occupying(s0)) - 1
    BY <2>3, <2>4, FS_RemoveElement
  <2>7. Cardinality(Occupying(s0)) # 0 /\ Cardinality(Occupying(s0)) \in Nat
    BY <2>3, <2>4, FS_EmptySet, FS_CardinalityType
  <2>8. concurrency'[s0] = concurrency[s0] - 1
    BY <1>3, <2>1, <2>7 DEF Returned, SlotReleased, SlotsInv, SlotsMatchPermits
  <2>9. \A s \in Scope : s # s0 => concurrency'[s] = concurrency[s]
    BY <1>3, <2>1 DEF Returned
  <2>10. SlotsMatchPermits'
    <3>1. \A s \in Scope : s # s0 => concurrency'[s] = Cardinality(Occupying(s)')
      BY <2>5, <2>9 DEF SlotsInv, SlotsMatchPermits
    <3>2. concurrency'[s0] = Cardinality(Occupying(s0)')
      BY <2>1, <2>6, <2>8 DEF SlotsInv, SlotsMatchPermits
    <3>3. QED
      BY <3>1, <3>2 DEF SlotsMatchPermits
  <2>11. ASSUME NEW q \in Outstanding'
         PROVE  Cardinality(SameRule(q)') <= PermitCap(q)
    <3>1. q \in Outstanding /\ q \in Permits
      BY <1>3 DEF Returned, Outstanding
    <3>2. SameRule(q)' \subseteq SameRule(q)
      BY <2>4, <2>5 DEF SameRule
    <3>3. IsFiniteSet(SameRule(q))
      BY <2>3, FS_Subset DEF SameRule
    <3>4. Cardinality(SameRule(q)') <= Cardinality(SameRule(q))
      BY <3>2, <3>3, FS_Subset
    <3>5. Cardinality(SameRule(q)) <= PermitCap(q)
      BY <3>1 DEF SlotsInv, ConcurrencyRespected
    <3>6. /\ Cardinality(SameRule(q)') \in Nat /\ Cardinality(SameRule(q)) \in Nat
          /\ PermitCap(q) \in Nat
      BY <3>1, <3>2, <3>3, FS_Subset, FS_CardinalityType, PermitFacts
    <3>7. QED
      BY <3>4, <3>5, <3>6
  <2>12. QED
    BY <1>0, <2>2, <2>10, <2>11 DEF SlotsInv, ConcurrencyRespected
<1>4. QED
  BY <1>0, <1>1, <1>2, <1>3, PermitSteps

LEMMA SlotsInvariant == Spec => []SlotsInv
BY SlotsInit, SlotsStep, PTL DEF Spec

\* The in-use counter of every scope is exactly the number of permits that are
\* held, for any number of requests, rules and reloads: no slot leaks on an
\* early return of check_limits and none is returned twice.
THEOREM SlotAccounting == Spec => []SlotsMatchPermits
<1>1. SlotsInv => SlotsMatchPermits
  BY DEF SlotsInv
<1>2. QED
  BY <1>1, SlotsInvariant, PTL

\* Under every rule, the requests of a scope that hold a permit never exceed
\* the concurrency the rule allows.
THEOREM ConcurrencyBound == Spec => []ConcurrencyRespected
<1>1. SlotsInv => ConcurrencyRespected
  BY DEF SlotsInv
<1>2. QED
  BY <1>1, SlotsInvariant, PTL

\* The slot counters and the Drop of the permits implement the semaphore.
THEOREM SemaphoreRefinement == Spec => ImplementsSemaphore
<1>1. Init => Sem!Init
  BY PermitFacts DEF Init, Sem!Init, Outstanding
<1>2. SlotsInv /\ [Next]_vars => [Sem!Next]_Outstanding
  <2> SUFFICES ASSUME SlotsInv, [Next]_vars, Outstanding' # Outstanding
               PROVE  Sem!Next
    OBVIOUS
  <2>1. ASSUME NEW p \in Permits, Granted(p) PROVE Sem!Grant(p)
    <3>1. PermitScope(p) \in Scope
      BY PermitFacts
    <3>2. Cardinality(Occupying(PermitScope(p))) < PermitCap(p)
      BY <2>1, <3>1 DEF Granted, SlotsInv, SlotsMatchPermits
    <3>3. Sem!InScope(PermitScope(p)) = Occupying(PermitScope(p))
      BY DEF Sem!InScope, Occupying
    <3>4. \A S : Sem!Cardinality(S) = Cardinality(S)
      BY DEF Sem!Cardinality, Cardinality, Sem!IsFiniteSet, IsFiniteSet
    <3>5. QED
      BY <2>1, <3>2, <3>3, <3>4 DEF Granted, Sem!Grant
  <2>2. ASSUME NEW p \in Permits, Returned(p) PROVE Sem!GiveBack(p)
    BY <2>2 DEF Returned, Sem!GiveBack
  <2>3. QED
    BY <2>1, <2>2, PermitSteps DEF SlotsInv, Sem!Next
<1>3. QED
  BY <1>1, <1>2, SlotsInvariant, PTL DEF Spec, ImplementsSemaphore, Sem!Spec

----------------------------------------------------------------------------
(***************************************************************************)
(* Requests per minute                                                     *)
(***************************************************************************)
CountedIn(s, w) ==
  {x \in counted : x[3] = w /\ ScopeFor(x[1], x[2]) = s}

\* What the history of increments can contain: each check of a request is
\* counted at most once, because it is no longer pending afterwards.
CountedOK ==
  \A x \in counted :
    /\ x[1] \in Requests
    /\ x[2] \in ChecksOf(snapshot[x[1]], x[1])
    /\ x[3] \in Window
    /\ pc[x[1]] # "idle"
    /\ pc[x[1]] = "checking" => x[2] \notin pending[x[1]]

\* An rpm counter is the number of increments made in its window.
CountersExact ==
  \A s \in Scope, w \in Window :
    windows[<<"rpm", s, w>>] = Cardinality(CountedIn(s, w))

RpmInv ==
  /\ Shape
  /\ IsFiniteSet(counted)
  /\ CountedOK
  /\ CountersExact
  /\ RpmRespected

LEMMA RpmInit == Init => RpmInv
<1> SUFFICES ASSUME Init PROVE RpmInv
  OBVIOUS
<1>1. \A s, w : CountedIn(s, w) = {}
  BY DEF Init, CountedIn
<1>2. CountersExact
  BY <1>1, FS_EmptySet DEF Init, CountersExact, WindowKey
<1>3. QED
  BY <1>2, ShapeInit, FS_EmptySet DEF Init, RpmInv, CountedOK, RpmRespected

\* Steps other than an rpm check leave the history and the rpm counters alone,
\* and never make a check pending again or change the snapshot of a request
\* that was counted.
QuietStep ==
  /\ UNCHANGED <<counted, passed>>
  /\ \A s \in Scope, w \in Window :
       windows'[<<"rpm", s, w>>] = windows[<<"rpm", s, w>>]
  /\ \A r \in Requests :
       pc[r] # "idle" => /\ snapshot'[r] = snapshot[r]
                         /\ pc'[r] # "idle"
                         /\ pc'[r] = "checking" => pc[r] = "checking"
                         /\ pending'[r] \subseteq pending[r]

LEMMA RpmSteps ==
  ASSUME Shape, [Next]_vars
  PROVE  \/ QuietStep
         \/ \E r \in Requests : \E c \in pending[r] : CheckRpm(r, c)
<1> USE DEF Shape, TypeOK, QuietStep
<1>1. ASSUME NEW r \in Requests, Start(r) PROVE QuietStep
  BY <1>1 DEF Start, store, history
<1>2. ASSUME NEW r \in Requests, NEW c \in pending[r], CheckTpm(r, c)
      PROVE QuietStep
  <2>1. ScopeFor(r, c) \in Scope
    BY CheckFacts DEF ScopeFor
  <2>2. \A s \in Scope, w \in Window :
          windows'[<<"rpm", s, w>>] = windows[<<"rpm", s, w>>]
    BY <1>2, <2>1 DEF CheckTpm, IncrWindow, WindowKey
  <2>3. /\ UNCHANGED <<counted, passed, snapshot>>
        /\ pending' = [pending EXCEPT ![r] = @ \ {c}] \/ pending' = pending
        /\ pc' = pc \/ pc' = [pc EXCEPT ![r] = "rollback"]
    BY <1>2 DEF CheckTpm, Reject, Proceed
  <2>4. QED
    BY <2>2, <2>3
<1>3. ASSUME NEW r \in Requests, NEW c \in pending[r], RollBackTpm(r, c)
      PROVE QuietStep
  <2>1. ScopeFor(r, c) \in Scope
    BY CheckFacts DEF ScopeFor
  <2>2. \A s \in Scope, w \in Window :
          windows'[<<"rpm", s, w>>] = windows[<<"rpm", s, w>>]
    BY <1>3, <2>1 DEF RollBackTpm, IncrWindow, WindowKey
  <2>3. QED
    BY <1>3, <2>2 DEF RollBackTpm, history
<1>4. ASSUME NEW r \in Requests, NEW c \in pending[r], TryAcquire(r, c)
      PROVE QuietStep
  <2>1. /\ UNCHANGED <<counted, passed, snapshot, windows>>
        /\ pending' = [pending EXCEPT ![r] = @ \ {c}] \/ pending' = pending
        /\ pc' = pc \/ pc' = [pc EXCEPT ![r] = "releasing"]
    BY <1>4 DEF TryAcquire, Reject, Proceed
  <2>2. QED
    BY <2>1
<1>5. ASSUME NEW r \in Requests, NEW c \in reserved[r], Reconcile(r, c)
      PROVE QuietStep
  <2>1. ScopeFor(r, c) \in Scope
    BY CheckFacts DEF ScopeFor
  <2>2. \A s \in Scope, w \in Window :
          windows'[<<"rpm", s, w>>] = windows[<<"rpm", s, w>>]
    BY <1>5, <2>1 DEF Reconcile, IncrWindow, WindowKey
  <2>3. QED
    BY <1>5, <2>2 DEF Reconcile
<1>6. ASSUME NEW r \in Requests, NEW c \in held[r], Release(r, c)
      PROVE QuietStep
  BY <1>6 DEF Release, history
<1>7. ASSUME NEW r \in Requests, Admit(r) \/ Reconciled(r) \/ Released(r) \/ Abandon(r)
      PROVE QuietStep
  BY <1>7 DEF Admit, Reconciled, Released, Abandon, store, history
<1>8. ASSUME NEW r \in Requests, NEW tokens, Complete(r, tokens) PROVE QuietStep
  BY <1>8 DEF Complete, store, history
<1>9. ASSUME NextMinute \/ (\E v \in Versions : Reload(v)) \/ UNCHANGED vars
      PROVE QuietStep
  BY <1>9 DEF NextMinute, Reload, vars, store, history
<1>10. QED
  BY <1>1, <1>2, <1>3, <1>4, <1>5, <1>6, <1>7, <1>8, <1>9 DEF Next, Work, Idle

LEMMA RpmStep == RpmInv /\ [Next]_vars => RpmInv'
<1> SUFFICES ASSUME RpmInv, [Next]_vars PROVE RpmInv'
  OBVIOUS
<1>0. Shape /\ Shape' /\ passed \subseteq counted
  BY ShapeStep DEF RpmInv, Shape, TypeOK
<1>1. CASE QuietStep
  <2>1. \A x \in counted : snapshot'[x[1]] = snapshot[x[1]]
    BY <1>1 DEF RpmInv, CountedOK, QuietStep
  <2>2. CountedOK'
    BY <1>1, <2>1 DEF RpmInv, CountedOK, QuietStep
  <2>3. \A x \in counted : /\ ScopeFor(x[1], x[2])' = ScopeFor(x[1], x[2])
                           /\ CapFor(x[1], x[2])' = CapFor(x[1], x[2])
    BY <2>1 DEF ScopeFor, CapFor
  <2>4. \A s, w : CountedIn(s, w)' = CountedIn(s, w)
    BY <1>1, <2>3 DEF CountedIn, QuietStep
  <2>5. CountersExact'
    BY <1>1, <2>4 DEF CountersExact, QuietStep, RpmInv
  <2>6. \A y \in passed :
          AcceptedBy(y[1], y[2], y[3])' = AcceptedBy(y[1], y[2], y[3])
    <3> SUFFICES ASSUME NEW y \in passed
                 PROVE AcceptedBy(y[1], y[2], y[3])' = AcceptedBy(y[1], y[2], y[3])
      OBVIOUS
    <3>1. \A x \in passed : x[2] = y[2] =>
            ScopeFor(x[1], y[2])' = ScopeFor(x[1], y[2])
      BY <1>0, <2>3
    <3>2. \A x \in passed : snapshot'[x[1]] = snapshot[x[1]]
      BY <1>0, <2>1
    <3>3. passed' = passed
      BY <1>1 DEF QuietStep
    <3>4. QED
      BY <3>1, <3>2, <3>3 DEF AcceptedBy
  <2>7. RpmRespected'
    BY <1>0, <1>1, <2>3, <2>6 DEF RpmRespected, QuietStep, RpmInv
  <2>8. QED
    BY <1>0, <1>1, <2>2, <2>5, <2>7 DEF RpmInv, QuietStep
<1>2. ASSUME NEW r \in Requests, NEW c \in pending[r], CheckRpm(r, c)
      PROVE RpmInv'
  <2> DEFINE s0 == ScopeFor(r, c)
             new == <<r, c, window>>
  <2>1. s0 \in Scope /\ c \in ChecksOf(snapshot[r], r) /\ CapFor(r, c) \in Nat
    BY <1>0, CheckFacts DEF ScopeFor, CapFor, Shape, TypeOK
  <2>2. window \in Window /\ windows \in [WindowKey -> Int]
    BY <1>0 DEF Shape, TypeOK
  <2>3. /\ snapshot' = snapshot /\ window' = window /\ counted' = counted \cup {new}
        /\ windows' = [windows EXCEPT ![<<"rpm", s0, window>>] = @ + 1]
        /\ pc[r] = "checking"
    BY <1>2 DEF CheckRpm, IncrWindow
  <2>4. new \notin counted
    BY <2>3 DEF RpmInv, CountedOK
  <2>5. IsFiniteSet(counted')
    BY <2>3, FS_AddElement DEF RpmInv
  <2>6. \/ pc' = [pc EXCEPT ![r] = "releasing"] /\ UNCHANGED <<pending, passed>>
        \/ /\ pending' = [pending EXCEPT ![r] = @ \ {c}] /\ pc' = pc
           /\ passed' = passed \cup {new}
           /\ ~OverCap(windows[<<"rpm", s0, window>>] + 1, CapFor(r, c))
    BY <1>2 DEF CheckRpm, Reject, Proceed, Counter
  <2>7. CountedOK'
    BY <1>0, <2>1, <2>2, <2>3, <2>6 DEF CountedOK, RpmInv, Shape, TypeOK
  <2>8. \A x1, x2 : ScopeFor(x1, x2)' = ScopeFor(x1, x2) /\ CapFor(x1, x2)' = CapFor(x1, x2)
    BY <2>3 DEF ScopeFor, CapFor
  <2>9. CountedIn(s0, window)' = CountedIn(s0, window) \cup {new}
    <3>1. s0' = s0 /\ new' = new
      BY <2>3, <2>8
    <3>2. \A x \in counted' : ScopeFor(x[1], x[2])' = ScopeFor(x[1], x[2])
      BY <2>8
    <3>3. new[1] = r /\ new[2] = c /\ new[3] = window
      OBVIOUS
    <3> HIDE DEF s0, new
    <3>4. CountedIn(s0, window)' =
            {x \in counted' : x[3] = window /\ ScopeFor(x[1], x[2]) = s0}
      BY <2>3, <3>1, <3>2 DEF CountedIn
    <3>5. ScopeFor(r, c) = s0
      BY DEF s0
    <3>6. QED
      BY <2>3, <3>3, <3>4, <3>5 DEF CountedIn
  <2>10. \A s, w : s # s0 \/ w # window => CountedIn(s, w)' = CountedIn(s, w)
    BY <2>3, <2>8 DEF CountedIn
  <2>11. \A s, w : IsFiniteSet(CountedIn(s, w))
    BY FS_Subset DEF CountedIn, RpmInv
  <2>12. /\ Cardinality(CountedIn(s0, window)') = Cardinality(CountedIn(s0, window)) + 1
         /\ IsFiniteSet(CountedIn(s0, window)')
    <3>1. new \notin CountedIn(s0, window)
      BY <2>4 DEF CountedIn
    <3>2. QED
      BY <2>9, <2>11, <3>1, FS_AddElement
  <2>13. CountersExact'
    <3>1. ASSUME NEW s \in Scope, NEW w \in Window
          PROVE windows'[<<"rpm", s, w>>] = Cardinality(CountedIn(s, w)')
      <4>1. CASE s = s0 /\ w = window
        <5>1. windows'[<<"rpm", s0, window>>] = windows[<<"rpm", s0, window>>] + 1
          BY <2>1, <2>2, <2>3 DEF WindowKey
        <5>2. CountedIn(s, w)' = CountedIn(s0, window)'
          BY <2>3, <2>8, <4>1 DEF CountedIn
        <5>3. windows[<<"rpm", s0, window>>] = Cardinality(CountedIn(s0, window))
          BY <2>1, <2>2 DEF CountersExact, RpmInv
        <5>4. QED
          BY <2>12, <4>1, <5>1, <5>2, <5>3
      <4>2. CASE ~(s = s0 /\ w = window)
        BY <2>1, <2>2, <2>3, <2>10, <4>2 DEF CountersExact, RpmInv, WindowKey
      <4>3. QED BY <4>1, <4>2
    <3>2. QED BY <3>1 DEF CountersExact
  <2>14. CASE passed' = passed
    <3>1. \A y \in passed :
            AcceptedBy(y[1], y[2], y[3])' = AcceptedBy(y[1], y[2], y[3])
      BY <2>3, <2>8, <2>14 DEF AcceptedBy
    <3>2. RpmRespected'
      BY <2>8, <2>14, <3>1 DEF RpmRespected, RpmInv
    <3>3. QED
      BY <1>0, <2>5, <2>7, <2>13, <3>2 DEF RpmInv
  <2>15. CASE /\ passed' = passed \cup {new}
              /\ ~OverCap(windows[<<"rpm", s0, window>>] + 1, CapFor(r, c))
    <3>1. Cardinality(CountedIn(s0, window)') <= CapFor(r, c)
      <4>1. windows[<<"rpm", s0, window>>] = Cardinality(CountedIn(s0, window))
        BY <2>1, <2>2 DEF CountersExact, RpmInv
      <4>2. Cardinality(CountedIn(s0, window)) \in Nat
        BY <2>11, FS_CardinalityType
      <4>3. QED
        BY <2>1, <2>12, <2>15, <4>1, <4>2 DEF OverCap, AsU64
    <3>2. ASSUME NEW y \in passed'
          PROVE  Cardinality(AcceptedBy(y[1], y[2], y[3])') <= CapFor(y[1], y[2])'
      <4> DEFINE acc == AcceptedBy(y[1], y[2], y[3])
      <4>1. CASE /\ y[2] = c /\ y[3] = window /\ snapshot[y[1]] = snapshot[r]
                 /\ ScopeFor(y[1], c) = s0
        <5>1. acc' \subseteq CountedIn(s0, window)'
          <6>1. passed' \subseteq counted'
            BY <1>0, <2>3, <2>15
          <6>2. \A x \in acc' : /\ x \in counted' /\ x[2] = c /\ x[3] = window
                                /\ ScopeFor(x[1], c) = s0
            BY <2>8, <4>1, <6>1 DEF AcceptedBy
          <6>3. QED
            BY <2>3, <2>8, <6>2 DEF CountedIn
        <5>2. Cardinality(acc') <= Cardinality(CountedIn(s0, window)')
          BY <2>12, <5>1, FS_Subset
        <5>3. CapFor(y[1], y[2])' = CapFor(r, c)
          BY <2>8, <4>1 DEF CapFor
        <5>4. Cardinality(acc') \in Nat /\ Cardinality(CountedIn(s0, window)') \in Nat
          BY <2>12, <5>1, FS_Subset, FS_CardinalityType
        <5>5. QED
          BY <2>1, <3>1, <5>2, <5>3, <5>4
      <4>2. CASE ~(/\ y[2] = c /\ y[3] = window /\ snapshot[y[1]] = snapshot[r]
                   /\ ScopeFor(y[1], c) = s0)
        <5>1. y \in passed
          BY <2>15, <4>2
        <5>2. acc' = acc
          BY <2>3, <2>8, <2>15, <4>2 DEF AcceptedBy
        <5>3. QED
          BY <2>8, <5>1, <5>2 DEF RpmRespected, RpmInv
      <4>3. QED
        BY <4>1, <4>2
    <3>3. RpmRespected'
      BY <3>2 DEF RpmRespected
    <3>4. QED
      BY <1>0, <2>5, <2>7, <2>13, <3>3 DEF RpmInv
  <2>16. QED
    BY <2>6, <2>14, <2>15
<1>3. QED
  BY <1>0, <1>1, <1>2, RpmSteps

\* Within one minute window every rpm rule lets at most rpm requests of a scope
\* pass, for any number of concurrent requests and any interleaving of their
\* increments and comparisons.
THEOREM RpmBound == Spec => []RpmRespected
<1>1. RpmInv => RpmRespected
  BY DEF RpmInv
<1>2. QED
  BY <1>1, RpmInit, RpmStep, PTL DEF Spec
(***************************************************************************)
(* Tokens per minute                                                       *)
(***************************************************************************)
\* What a request was charged for and what of it was settled.
TpmOf(r) ==
  /\ charged[r] \subseteq ChecksOf(snapshot[r], r)
  /\ settled[r] \subseteq charged[r]
  /\ reserved[r] \subseteq charged[r] \ settled[r]
  /\ pc[r] \in {"idle", "checking", "rollback", "serving"} => settled[r] = {}
  /\ pc[r] = "idle" => charged[r] = {}
  /\ pc[r] = "checking" => charged[r] \cap pending[r] = {}

TpmShape ==
  /\ DOMAIN charged = Requests /\ DOMAIN settled = Requests
  /\ \A r \in Requests : TpmOf(r)

LedgerTotal(s) == SumOf(Ledger(s), Window)
OwedTotal(s) == SumOf(Owed(s), Charges(s))

Balance ==
  \A s \in Scope :
    LedgerTotal(s) = OwedTotal(s) + DEFAULT_TOKEN_PREDEDUCT * Cardinality(RollingBack(s))

TpmInv ==
  /\ Shape
  /\ TpmShape
  /\ Balance

LEMMA LedgerType ==
  ASSUME Shape, NEW s \in Scope
  PROVE  /\ IsFiniteSet(Window) /\ \A w \in Window : Ledger(s)[w] \in Int
         /\ LedgerTotal(s) \in Int
<1>1. IsFiniteSet(Window)
  BY ConstantsAssumption, FS_Interval DEF Window
<1>2. \A w \in Window : Ledger(s)[w] \in Int
  BY DEF Shape, TypeOK, Ledger, WindowKey
<1>3. QED
  BY <1>1, <1>2, SumOfType DEF LedgerTotal

LEMMA ChargesFinite ==
  ASSUME Shape, TpmShape, NEW s
  PROVE  IsFiniteSet(Charges(s))
<1>1. ASSUME NEW r \in Requests PROVE IsFiniteSet({r} \X charged[r])
  <2>1. IsFiniteSet(1..Len(Limits[snapshot[r]])) /\ IsFiniteSet(Metric)
    <3>1. Len(Limits[snapshot[r]]) \in Nat
      BY ConstantsAssumption DEF Shape, TypeOK
    <3>2. IsFiniteSet(1..Len(Limits[snapshot[r]]))
      BY <3>1, FS_Interval
    <3>3. IsFiniteSet(Metric)
      <4>1. IsFiniteSet({"rpm"} \cup {"tpm"} \cup {"concurrency"})
        BY FS_Singleton, FS_Union
      <4>2. Metric = {"rpm"} \cup {"tpm"} \cup {"concurrency"}
        BY DEF Metric
      <4>3. QED
        BY <4>1, <4>2
    <3>4. QED
      BY <3>2, <3>3
  <2>2. IsFiniteSet((1..Len(Limits[snapshot[r]])) \X Metric)
    BY <2>1, FS_Product
  <2>3. IsFiniteSet(charged[r])
    <3>1. charged[r] \subseteq (1..Len(Limits[snapshot[r]])) \X Metric
      BY DEF TpmShape, TpmOf, ChecksOf
    <3>2. QED
      BY <2>2, <3>1, FS_Subset
  <2>4. QED
    BY <2>3, FS_Singleton, FS_Product
<1> DEFINE Parts == {{r} \X charged[r] : r \in Requests}
<1>2. IsFiniteSet(Parts)
  <2> DEFINE part == [r \in Requests |-> {r} \X charged[r]]
  <2>1. part \in Surjection(Requests, Parts)
    BY DEF Surjection
  <2>2. PICK f, T : f = part /\ T = Parts
    OBVIOUS
  <2>3. IsFiniteSet(T)
    BY <2>1, <2>2, FS_Surjection, ConstantsAssumption
  <2>4. QED
    BY <2>2, <2>3
<1>3. IsFiniteSet(UNION Parts)
  <2>1. \A X \in Parts : IsFiniteSet(X)
    BY <1>1
  <2> HIDE DEF Parts
  <2>2. QED
    BY <1>2, <2>1, FS_UNION
<1>4. QED
  BY <1>3, FS_Subset DEF Charges

\* An increment of the counter of the current window.
LEMMA LedgerGrows ==
  ASSUME Shape, NEW s0 \in Scope, NEW d \in Int,
         windows' = [windows EXCEPT ![<<"tpm", s0, window>>] = @ + d], NEW s \in Scope
  PROVE  LedgerTotal(s)' = IF s = s0 THEN LedgerTotal(s) + d ELSE LedgerTotal(s)
<1>1. window \in Window /\ windows \in [WindowKey -> Int]
  BY DEF Shape, TypeOK
<1>2. PICK f, g, a : f = Ledger(s) /\ g = Ledger(s)' /\ a = window
  OBVIOUS
<1>3. IsFiniteSet(Window) /\ \A w \in Window : f[w] \in Int
  BY <1>2, LedgerType
<1>4. \A w \in Window : g[w] = windows'[<<"tpm", s, w>>] /\ f[w] = windows[<<"tpm", s, w>>]
  BY <1>2 DEF Ledger
<1>5. CASE s = s0
  <2>1. ASSUME NEW w \in Window PROVE g[w] = IF w = a THEN f[w] + d ELSE f[w]
    <3>1. windows'[<<"tpm", s, w>>] =
            IF w = window THEN windows[<<"tpm", s, w>>] + d ELSE windows[<<"tpm", s, w>>]
      BY <1>1, <1>5 DEF WindowKey
    <3>2. QED
      BY <1>2, <1>4, <3>1
  <2>2. SumOf(g, Window) = SumOf(f, Window) + d
    BY <1>1, <1>2, <1>3, <2>1, SumOfUpdate
  <2>3. QED
    BY <1>2, <1>5, <2>2 DEF LedgerTotal
<1>6. CASE s # s0
  <2>1. \A w \in Window : g[w] = f[w]
    BY <1>1, <1>4, <1>6 DEF WindowKey
  <2>2. SumOf(g, Window) = SumOf(f, Window)
    BY <1>3, <2>1, SumOfSame
  <2>3. QED
    BY <1>2, <1>6, <2>2 DEF LedgerTotal
<1>7. QED
  BY <1>5, <1>6
LEMMA TpmShapeStep ==
  ASSUME Shape, TpmShape, [Next]_vars
  PROVE  TpmShape'
<1> USE DEF TpmShape, Shape, TypeOK, TpmOf
<1>1. ASSUME NEW r \in Requests, Start(r)
      PROVE  TpmShape'
  BY <1>1 DEF Start, store, history
<1>2. ASSUME NEW r \in Requests, NEW c \in pending[r], CheckRpm(r, c)
      PROVE  TpmShape'
  BY <1>2 DEF CheckRpm, Reject, Proceed
<1>3. ASSUME NEW r \in Requests, NEW c \in pending[r], CheckTpm(r, c)
      PROVE  TpmShape'
  BY <1>3 DEF CheckTpm, Reject, Proceed
<1>4. ASSUME NEW r \in Requests, NEW c \in pending[r], RollBackTpm(r, c)
      PROVE  TpmShape'
  BY <1>4 DEF RollBackTpm, history
<1>5. ASSUME NEW r \in Requests, NEW c \in pending[r], TryAcquire(r, c)
      PROVE  TpmShape'
  BY <1>5 DEF TryAcquire, Reject, Proceed
<1>6. ASSUME NEW r \in Requests, NEW c \in reserved[r], Reconcile(r, c)
      PROVE  TpmShape'
  BY <1>6 DEF Reconcile
<1>7. ASSUME NEW r \in Requests, NEW c \in held[r], Release(r, c)
      PROVE  TpmShape'
  BY <1>7 DEF Release, history
<1>8. ASSUME NEW r \in Requests, Admit(r) \/ Reconciled(r) \/ Released(r) \/ Abandon(r)
      PROVE  TpmShape'
  BY <1>8 DEF Admit, Reconciled, Released, Abandon, history
<1>9. ASSUME NEW r \in Requests, NEW tokens, Complete(r, tokens)
      PROVE  TpmShape'
  BY <1>9 DEF Complete, history
<1>10. ASSUME NextMinute \/ (\E v \in Versions : Reload(v)) \/ UNCHANGED vars
      PROVE  TpmShape'
  BY <1>10 DEF NextMinute, Reload, vars, history
<1>11. QED
  BY <1>1, <1>2, <1>3, <1>4, <1>5, <1>6, <1>7, <1>8, <1>9, <1>10 DEF Next, Work, Idle
\* The requests that roll back, and with which check, are the same.
SameRollbacks ==
  \A q \in Requests :
    /\ pc'[q] = "rollback" <=> pc[q] = "rollback"
    /\ pc[q] = "rollback" => pending'[q] = pending[q] /\ snapshot'[q] = snapshot[q]

\* Steps that touch neither a tpm counter nor what it is made up of.
TpmQuiet ==
  /\ \A s \in Scope, w \in Window : windows'[<<"tpm", s, w>>] = windows[<<"tpm", s, w>>]
  /\ UNCHANGED <<charged, settled>>
  /\ \A q \in Requests : settled[q] # {} => usage'[q] = usage[q]
  /\ \A q \in Requests : charged[q] # {} => snapshot'[q] = snapshot[q]
  /\ SameRollbacks

LEMMA TpmSteps ==
  ASSUME Shape, TpmShape, [Next]_vars
  PROVE  \/ TpmQuiet
         \/ \E r \in Requests : \E c \in pending[r] : CheckTpm(r, c) \/ RollBackTpm(r, c)
         \/ \E r \in Requests : \E c \in reserved[r] : Reconcile(r, c)
<1> USE DEF Shape, TypeOK, TpmQuiet, TpmShape, TpmOf, SameRollbacks
<1>1. ASSUME NEW r \in Requests, Start(r) PROVE TpmQuiet
  BY <1>1 DEF Start, store, history
<1>2. ASSUME NEW r \in Requests, NEW c \in pending[r], CheckRpm(r, c) PROVE TpmQuiet
  <2>1. ScopeFor(r, c) \in Scope
    BY CheckFacts DEF ScopeFor
  <2>2. \A s \in Scope, w \in Window :
          windows'[<<"tpm", s, w>>] = windows[<<"tpm", s, w>>]
    BY <1>2, <2>1 DEF CheckRpm, IncrWindow, WindowKey
  <2>3. /\ UNCHANGED <<charged, settled, usage, snapshot>> /\ pc[r] = "checking"
        /\ pending' = [pending EXCEPT ![r] = @ \ {c}] \/ pending' = pending
        /\ pc' = pc \/ pc' = [pc EXCEPT ![r] = "releasing"]
    BY <1>2 DEF CheckRpm, Reject, Proceed
  <2>4. QED
    BY <2>2, <2>3
<1>3. ASSUME NEW r \in Requests, NEW c \in pending[r], TryAcquire(r, c) PROVE TpmQuiet
  <2>1. /\ UNCHANGED <<windows, charged, settled, usage, snapshot>> /\ pc[r] = "checking"
        /\ pending' = [pending EXCEPT ![r] = @ \ {c}] \/ pending' = pending
        /\ pc' = pc \/ pc' = [pc EXCEPT ![r] = "releasing"]
    BY <1>3 DEF TryAcquire, Reject, Proceed
  <2>2. QED
    BY <2>1
<1>4. ASSUME NEW r \in Requests, NEW c \in held[r], Release(r, c) PROVE TpmQuiet
  BY <1>4 DEF Release, history
<1>5. ASSUME NEW r \in Requests, Admit(r) \/ Reconciled(r) \/ Released(r) \/ Abandon(r)
      PROVE TpmQuiet
  BY <1>5 DEF Admit, Reconciled, Released, Abandon, store, history
<1>6. ASSUME NEW r \in Requests, NEW tokens, Complete(r, tokens) PROVE TpmQuiet
  BY <1>6 DEF Complete, store, history
<1>7. ASSUME NextMinute \/ (\E v \in Versions : Reload(v)) \/ UNCHANGED vars
      PROVE TpmQuiet
  BY <1>7 DEF NextMinute, Reload, vars, store, history
<1>8. QED
  BY <1>1, <1>2, <1>3, <1>4, <1>5, <1>6, <1>7 DEF Next, Work, Idle

LEMMA RollbacksKept ==
  ASSUME SameRollbacks, NEW s
  PROVE  RollingBack(s)' = RollingBack(s)
BY DEF SameRollbacks, RollingBack, Current, ScopeFor

LEMMA TpmQuietStep ==
  ASSUME TpmInv, TpmQuiet
  PROVE  Balance'
<1> SUFFICES ASSUME NEW s \in Scope
             PROVE  (LedgerTotal(s) = OwedTotal(s)
                       + DEFAULT_TOKEN_PREDEDUCT * Cardinality(RollingBack(s)))'
  BY DEF Balance
<1>1. LedgerTotal(s)' = LedgerTotal(s)
  <2>1. Ledger(s)' = Ledger(s)
    BY DEF TpmQuiet, Ledger
  <2>2. QED
    BY <2>1 DEF LedgerTotal
<1>2. \A x \in UNION {{r} \X charged[r] : r \in Requests} :
        /\ ScopeFor(x[1], x[2])' = ScopeFor(x[1], x[2])
        /\ x[2] \in settled[x[1]] => usage'[x[1]] = usage[x[1]]
  BY DEF TpmQuiet, ScopeFor
<1>3. Charges(s)' = Charges(s)
  BY <1>2 DEF Charges, TpmQuiet
<1>4. Owed(s)' = Owed(s)
  <2>1. \A x \in Charges(s) : /\ settled'[x[1]] = settled[x[1]]
                              /\ x[2] \in settled[x[1]] => usage'[x[1]] = usage[x[1]]
    BY <1>2 DEF Charges, TpmQuiet
  <2>2. QED
    BY <1>3, <2>1 DEF Owed
<1>5. RollingBack(s)' = RollingBack(s)
  BY RollbacksKept DEF TpmQuiet
<1>6. QED
  BY <1>1, <1>3, <1>4, <1>5 DEF TpmInv, Balance, OwedTotal
LEMMA OwedType ==
  ASSUME Shape, TpmShape, NEW s
  PROVE  /\ IsFiniteSet(Charges(s)) /\ \A x \in Charges(s) : Owed(s)[x] \in Int
         /\ OwedTotal(s) \in Int
         /\ IsFiniteSet(RollingBack(s)) /\ Cardinality(RollingBack(s)) \in Nat
<1>1. IsFiniteSet(Charges(s))
  BY ChargesFinite
<1>2. \A x \in Charges(s) : Owed(s)[x] \in Int
  BY ConstantsAssumption DEF Owed, Charges, Shape, TypeOK
<1>3. OwedTotal(s) \in Int
  BY <1>1, <1>2, SumOfType DEF OwedTotal
<1>4. IsFiniteSet(RollingBack(s))
  BY ConstantsAssumption, FS_Subset DEF RollingBack
<1>5. QED
  BY <1>1, <1>2, <1>3, <1>4, FS_CardinalityType

\* The walk is at one check at a time.
LEMMA OneCurrent ==
  ASSUME Shape, NEW r \in Requests, NEW c, NEW d, Current(r, c), Current(r, d)
  PROVE  c = d
<1>1. c \in ChecksOf(snapshot[r], r) /\ d \in ChecksOf(snapshot[r], r)
  BY DEF Current, Shape, TypeOK
<1>2. c[1] \in Int /\ d[1] \in Int /\ c[2] \in Metric /\ d[2] \in Metric
  BY <1>1 DEF ChecksOf
<1>3. Rank[c[2]] \in Int /\ Rank[d[2]] \in Int
  BY <1>2 DEF Rank, Metric
<1>4. ~(Precedes(c, d) /\ Precedes(d, c))
  BY <1>2, <1>3 DEF Precedes
<1>5. QED
  BY <1>4 DEF Current

\* A rejected tpm check is rolled back, in its scope.
LEMMA RollbackBegins ==
  ASSUME Shape, NEW r \in Requests, NEW c, Current(r, c), pc[r] # "rollback",
         pc' = [pc EXCEPT ![r] = "rollback"], UNCHANGED <<pending, snapshot>>, NEW s
  PROVE  /\ r \notin RollingBack(s)
         /\ RollingBack(s)' = IF s = ScopeFor(r, c) THEN RollingBack(s) \cup {r}
                              ELSE RollingBack(s)
<1>1. \A q, d : Current(q, d)' <=> Current(q, d)
  BY DEF Current
<1>2. \A q, d : ScopeFor(q, d)' = ScopeFor(q, d)
  BY DEF ScopeFor
<1>3. pc \in [Requests -> Phase]
  BY DEF Shape, TypeOK
<1>4. c \in pending[r] /\ \A d : Current(r, d) => d = c
  BY OneCurrent DEF Current
<1>5. RollingBack(s)' = {q \in Requests : /\ pc'[q] = "rollback"
                                          /\ \E d \in pending[q] : Current(q, d) /\ ScopeFor(q, d) = s}
  BY <1>1, <1>2 DEF RollingBack
<1>6. QED
  BY <1>3, <1>4, <1>5 DEF RollingBack

\* And the rollback ends.
LEMMA RollbackEnds ==
  ASSUME Shape, NEW r \in Requests, NEW c, Current(r, c), pc[r] = "rollback",
         pc' = [pc EXCEPT ![r] = "releasing"], UNCHANGED <<pending, snapshot>>, NEW s
  PROVE  /\ RollingBack(s)' = RollingBack(s) \ {r}
         /\ r \in RollingBack(s) <=> s = ScopeFor(r, c)
<1>1. \A q, d : Current(q, d)' <=> Current(q, d)
  BY DEF Current
<1>2. \A q, d : ScopeFor(q, d)' = ScopeFor(q, d)
  BY DEF ScopeFor
<1>3. pc \in [Requests -> Phase]
  BY DEF Shape, TypeOK
<1>4. c \in pending[r] /\ \A d : Current(r, d) => d = c
  BY OneCurrent DEF Current
<1>5. RollingBack(s)' = {q \in Requests : /\ pc'[q] = "rollback"
                                          /\ \E d \in pending[q] : Current(q, d) /\ ScopeFor(q, d) = s}
  BY <1>1, <1>2 DEF RollingBack
<1>6. QED
  BY <1>3, <1>4, <1>5 DEF RollingBack

\* While nothing is charged or settled, what is owed stays.
LEMMA OwedKept ==
  ASSUME UNCHANGED <<charged, settled, usage, snapshot>>, NEW s
  PROVE  OwedTotal(s)' = OwedTotal(s)
<1>1. Charges(s)' = Charges(s)
  BY DEF Charges, ScopeFor
<1>2. Owed(s)' = Owed(s)
  BY <1>1 DEF Owed
<1>3. QED
  BY <1>1, <1>2 DEF OwedTotal
\* A tpm check that passes charges the estimate.
LEMMA OwedGrows ==
  ASSUME Shape, TpmShape, NEW r \in Requests, NEW c \in pending[r], pc[r] = "checking",
         charged' = [charged EXCEPT ![r] = @ \cup {c}],
         UNCHANGED <<settled, usage, snapshot>>, NEW s
  PROVE  OwedTotal(s)' = IF s = ScopeFor(r, c) THEN OwedTotal(s) + DEFAULT_TOKEN_PREDEDUCT
                         ELSE OwedTotal(s)
<1>0. PICK a : a = <<r, c>>
  OBVIOUS
<1>1. c \notin charged[r] /\ settled[r] = {} /\ DOMAIN charged = Requests
  BY DEF TpmShape, TpmOf
<1>2. \A q, d : ScopeFor(q, d)' = ScopeFor(q, d)
  BY DEF ScopeFor
<1>3. /\ \A x : x \in Charges(s) <=>
             \E q \in Requests : \E d \in charged[q] : x = <<q, d>> /\ ScopeFor(q, d) = s
      /\ \A x : x \in Charges(s)' <=>
             \E q \in Requests : \E d \in charged'[q] : x = <<q, d>> /\ ScopeFor(q, d) = s
  <2>1. \A x : x \in Charges(s) <=>
          \E q \in Requests : \E d \in charged[q] : x = <<q, d>> /\ ScopeFor(q, d) = s
    BY DEF Charges
  <2>2. \A x : x \in Charges(s)' <=>
          \E q \in Requests : \E d \in charged'[q] : x = <<q, d>> /\ ScopeFor(q, d)' = s
    BY DEF Charges
  <2>3. QED
    BY <1>2, <2>1, <2>2
<1>4. a \notin Charges(s) /\ a[1] = r /\ a[2] = c
  BY <1>0, <1>1, <1>3
<1>5. Charges(s)' = IF s = ScopeFor(r, c) THEN Charges(s) \cup {a} ELSE Charges(s)
  <2>1. \A q \in Requests : \A d :
          d \in charged'[q] <=> d \in charged[q] \/ (q = r /\ d = c)
    BY <1>1
  <2>2. \A x : x \in Charges(s)' <=> x \in Charges(s) \/ (x = a /\ s = ScopeFor(r, c))
    BY <1>0, <1>3, <2>1
  <2>3. PICK C, D : C = Charges(s) /\ D = Charges(s)'
    OBVIOUS
  <2>4. \A x : x \in D <=> x \in C \/ (x = a /\ s = ScopeFor(r, c))
    BY <2>2, <2>3
  <2>5. D = IF s = ScopeFor(r, c) THEN C \cup {a} ELSE C
    BY <2>4
  <2>6. QED
    BY <2>3, <2>5
<1>6. PICK f, g, C : f = Owed(s) /\ g = Owed(s)' /\ C = Charges(s)
  OBVIOUS
<1>7. /\ IsFiniteSet(C) /\ \A x \in C : f[x] \in Int
      /\ OwedTotal(s) = SumOf(f, C)
  BY <1>6, OwedType DEF OwedTotal
<1>8. \A x \in C : x \in Charges(s)' /\ g[x] = f[x]
  BY <1>5, <1>6 DEF Owed
<1>9. SumOf(g, C) = SumOf(f, C)
  BY <1>7, <1>8, SumOfSame
<1>10. CASE s = ScopeFor(r, c)
  <2>1. g[a] = DEFAULT_TOKEN_PREDEDUCT
    BY <1>1, <1>4, <1>5, <1>6, <1>10 DEF Owed
  <2>2. \A x \in C \cup {a} : g[x] \in Int
    BY <1>7, <1>8, <2>1, ConstantsAssumption
  <2>3. SumOf(g, C \cup {a}) = SumOf(g, C) + g[a]
    <3>1. IsFiniteSet(C) /\ a \notin C
      BY <1>4, <1>6, <1>7
    <3>2. QED
      BY <2>2, <3>1, SumOfAdd
  <2>4. OwedTotal(s)' = SumOf(g, C \cup {a})
    BY <1>5, <1>6, <1>10 DEF OwedTotal
  <2>5. QED
    BY <1>7, <1>9, <1>10, <2>1, <2>3, <2>4
<1>11. CASE s # ScopeFor(r, c)
  BY <1>5, <1>6, <1>7, <1>9, <1>11 DEF OwedTotal
<1>12. QED
  BY <1>10, <1>11

\* Reconciling a reservation replaces its estimate by the real usage.
LEMMA OwedSettles ==
  ASSUME Shape, TpmShape, NEW r \in Requests, NEW c \in reserved[r],
         settled' = [settled EXCEPT ![r] = @ \cup {c}],
         UNCHANGED <<charged, usage, snapshot>>, NEW s
  PROVE  OwedTotal(s)' = IF s = ScopeFor(r, c) THEN OwedTotal(s) + Delta(r) ELSE OwedTotal(s)
<1> DEFINE a == <<r, c>>
<1>1. c \in charged[r] /\ c \notin settled[r] /\ DOMAIN settled = Requests
  BY DEF TpmShape, TpmOf
<1>2. Charges(s)' = Charges(s)
  BY DEF Charges, ScopeFor
<1>3. a \in Charges(s) <=> s = ScopeFor(r, c)
  <2>1. a \in UNION {{q} \X charged[q] : q \in Requests}
    BY <1>1
  <2>2. QED
    BY <2>1 DEF Charges
<1>4. usage[r] \in Int /\ DEFAULT_TOKEN_PREDEDUCT \in Int
  BY ConstantsAssumption DEF Shape, TypeOK
<1>5. PICK f, g, C, d : f = Owed(s) /\ g = Owed(s)' /\ C = Charges(s) /\ d = Delta(r)
  OBVIOUS
<1>6. /\ IsFiniteSet(C) /\ \A x \in C : f[x] \in Int
      /\ OwedTotal(s) = SumOf(f, C) /\ OwedTotal(s)' = SumOf(g, C)
  BY <1>2, <1>5, OwedType DEF OwedTotal
<1>7. \A x \in C : g[x] = IF x = a THEN f[x] + d ELSE f[x]
  <2>1. ASSUME NEW x \in C PROVE g[x] = IF x = a THEN f[x] + d ELSE f[x]
    <3>1. /\ x[1] \in Requests /\ x = <<x[1], x[2]>>
          /\ f[x] = IF x[2] \in settled[x[1]] THEN usage[x[1]] ELSE DEFAULT_TOKEN_PREDEDUCT
          /\ g[x] = IF x[2] \in settled'[x[1]] THEN usage[x[1]] ELSE DEFAULT_TOKEN_PREDEDUCT
      BY <1>2, <1>5 DEF Owed, Charges
    <3>2. CASE x = a
      <4>1. f[x] = DEFAULT_TOKEN_PREDEDUCT /\ g[x] = usage[r]
        BY <1>1, <3>1, <3>2
      <4>2. QED
        BY <1>4, <1>5, <3>2, <4>1 DEF Delta
    <3>3. CASE x # a
      BY <1>1, <3>1, <3>3
    <3>4. QED
      BY <3>2, <3>3
  <2>2. QED
    BY <2>1
<1>8. CASE s = ScopeFor(r, c)
  <2>1. a \in C /\ d \in Int
    BY <1>3, <1>4, <1>5, <1>8 DEF Delta
  <2>2. SumOf(g, C) = SumOf(f, C) + d
    <3> HIDE DEF a
    <3>1. QED
      BY <1>6, <1>7, <2>1, SumOfUpdate
  <2>3. QED
    BY <1>5, <1>6, <1>8, <2>2
<1>9. CASE s # ScopeFor(r, c)
  <2>1. \A x \in C : g[x] = f[x]
    BY <1>3, <1>5, <1>7, <1>9
  <2>2. QED
    BY <1>6, <1>9, <2>1, SumOfSame
<1>10. QED
  BY <1>8, <1>9
\* The three steps that touch a tpm counter.
LEMMA TpmActiveStep ==
  ASSUME TpmInv, NEW r \in Requests, NEW c,
         \/ c \in pending[r] /\ (CheckTpm(r, c) \/ RollBackTpm(r, c))
         \/ c \in reserved[r] /\ Reconcile(r, c)
  PROVE  Balance'
<1> DEFINE P == DEFAULT_TOKEN_PREDEDUCT
           s0 == ScopeFor(r, c)
<1>1. Shape /\ TpmShape /\ P \in Int
  BY ConstantsAssumption DEF TpmInv
<1>2. s0 \in Scope /\ Delta(r) \in Int
  <2>1. c \in ChecksOf(snapshot[r], r) /\ snapshot[r] \in Versions /\ usage[r] \in Nat
    BY <1>1 DEF Shape, TypeOK
  <2>2. PICK v : v = snapshot[r]
    OBVIOUS
  <2>3. ScopeOf(Limits[v][c[1]], r) \in Scope
    BY <2>1, <2>2, CheckFacts
  <2>4. Delta(r) \in Int
    BY <1>1, <2>1 DEF Delta
  <2>5. QED
    BY <2>2, <2>3, <2>4 DEF ScopeFor
<1> SUFFICES ASSUME NEW s \in Scope
             PROVE  LedgerTotal(s)' = OwedTotal(s)' + P * Cardinality(RollingBack(s)')
  BY DEF Balance
<1>3. /\ LedgerTotal(s) \in Int /\ OwedTotal(s) \in Int /\ IsFiniteSet(RollingBack(s))
      /\ Cardinality(RollingBack(s)) \in Nat
      /\ LedgerTotal(s) = OwedTotal(s) + P * Cardinality(RollingBack(s))
  BY <1>1, LedgerType, OwedType DEF TpmInv, Balance
<1>4. CASE CheckTpm(r, c) /\ pc' = [pc EXCEPT ![r] = "rollback"]
  <2>1. /\ windows' = [windows EXCEPT ![<<"tpm", s0, window>>] = @ + P]
        /\ UNCHANGED <<charged, settled, usage, snapshot, pending>>
        /\ Current(r, c) /\ pc[r] = "checking"
    <3>1. UNCHANGED <<settled, usage, snapshot>> /\ Current(r, c) /\ pc[r] = "checking"
      BY <1>4 DEF CheckTpm
    <3>2. UNCHANGED <<pending, charged>>
      <4>1. pc' # pc
        BY <1>1, <1>4, <3>1 DEF Shape, TypeOK
      <4>2. QED
        BY <1>4, <4>1 DEF CheckTpm, Proceed
    <3>3. QED
      BY <1>4, <3>1, <3>2 DEF CheckTpm, IncrWindow
  <2>2. LedgerTotal(s)' = IF s = s0 THEN LedgerTotal(s) + P ELSE LedgerTotal(s)
    BY <1>1, <1>2, <2>1, LedgerGrows
  <2>3. OwedTotal(s)' = OwedTotal(s)
    BY <2>1, OwedKept
  <2>4. Cardinality(RollingBack(s)') = IF s = s0 THEN Cardinality(RollingBack(s)) + 1
                                       ELSE Cardinality(RollingBack(s))
    <3>1. /\ r \notin RollingBack(s)
          /\ RollingBack(s)' = IF s = s0 THEN RollingBack(s) \cup {r} ELSE RollingBack(s)
      BY <1>1, <1>4, <2>1, RollbackBegins
    <3>2. QED
      BY <1>3, <3>1, FS_AddElement
  <2>5. QED
    <3> HIDE DEF P
    <3>1. P * (Cardinality(RollingBack(s)) + 1) = P * Cardinality(RollingBack(s)) + P
      BY <1>1, <1>3
    <3>2. QED
      BY <1>1, <1>3, <2>2, <2>3, <2>4, <3>1
<1>5. CASE CheckTpm(r, c) /\ pc' = pc
  <2>1. /\ windows' = [windows EXCEPT ![<<"tpm", s0, window>>] = @ + P]
        /\ charged' = [charged EXCEPT ![r] = @ \cup {c}]
        /\ UNCHANGED <<settled, usage, snapshot>> /\ pc[r] = "checking"
        /\ pending' = [pending EXCEPT ![r] = @ \ {c}]
    <3>1. UNCHANGED <<settled, usage, snapshot>> /\ pc[r] = "checking" /\ c[2] = "tpm"
      BY <1>5 DEF CheckTpm
    <3>2. pc # [pc EXCEPT ![r] = "rollback"]
      BY <1>1, <3>1 DEF Shape, TypeOK
    <3>3. QED
      BY <1>5, <3>1, <3>2 DEF CheckTpm, IncrWindow, Reject, Proceed
  <2>2. LedgerTotal(s)' = IF s = s0 THEN LedgerTotal(s) + P ELSE LedgerTotal(s)
    BY <1>1, <1>2, <2>1, LedgerGrows
  <2>3. OwedTotal(s)' = IF s = s0 THEN OwedTotal(s) + P ELSE OwedTotal(s)
    <3>1. c \in pending[r]
      BY <1>5 DEF CheckTpm, Current
    <3>2. QED
      BY <1>1, <2>1, <3>1, OwedGrows
  <2>4. RollingBack(s)' = RollingBack(s)
    <3>1. SameRollbacks
      BY <1>1, <1>5, <2>1 DEF SameRollbacks, Shape, TypeOK
    <3>2. QED
      BY <3>1, RollbacksKept
  <2>5. QED
    <3> HIDE DEF P
    <3>1. P * Cardinality(RollingBack(s)) \in Int
      BY <1>1, <1>3
    <3>2. QED
      BY <1>1, <1>3, <2>2, <2>3, <2>4, <3>1
<1>6. CASE RollBackTpm(r, c)
  <2>1. /\ windows' = [windows EXCEPT ![<<"tpm", s0, window>>] = @ + (-P)]
        /\ UNCHANGED <<charged, settled, usage, snapshot, pending>>
        /\ Current(r, c) /\ pc[r] = "rollback" /\ pc' = [pc EXCEPT ![r] = "releasing"]
    BY <1>6 DEF RollBackTpm, IncrWindow, history
  <2>2. LedgerTotal(s)' = IF s = s0 THEN LedgerTotal(s) + (-P) ELSE LedgerTotal(s)
    <3>1. -P \in Int
      BY <1>1
    <3>2. QED
      BY <1>1, <1>2, <2>1, <3>1, LedgerGrows
  <2>3. OwedTotal(s)' = OwedTotal(s)
    BY <2>1, OwedKept
  <2>4. Cardinality(RollingBack(s)') = IF s = s0 THEN Cardinality(RollingBack(s)) - 1
                                       ELSE Cardinality(RollingBack(s))
    <3>1. RollingBack(s)' = RollingBack(s) \ {r} /\ (r \in RollingBack(s) <=> s = s0)
      BY <1>1, <2>1, RollbackEnds
    <3>2. QED
      BY <1>3, <3>1, FS_RemoveElement
  <2>5. QED
    <3> HIDE DEF P
    <3>1. P * (Cardinality(RollingBack(s)) - 1) = P * Cardinality(RollingBack(s)) - P
      BY <1>1, <1>3
    <3>2. QED
      BY <1>1, <1>3, <2>2, <2>3, <2>4, <3>1
<1>7. CASE c \in reserved[r] /\ Reconcile(r, c)
  <2>1. /\ windows' = [windows EXCEPT ![<<"tpm", s0, window>>] = @ + Delta(r)]
        /\ settled' = [settled EXCEPT ![r] = @ \cup {c}]
        /\ UNCHANGED <<charged, usage, snapshot, pending, pc>>
    BY <1>7 DEF Reconcile, IncrWindow
  <2>2. LedgerTotal(s)' = IF s = s0 THEN LedgerTotal(s) + Delta(r) ELSE LedgerTotal(s)
    <3>1. PICK d : d = Delta(r)
      OBVIOUS
    <3>2. QED
      BY <1>1, <1>2, <2>1, <3>1, LedgerGrows
  <2>3. OwedTotal(s)' = IF s = s0 THEN OwedTotal(s) + Delta(r) ELSE OwedTotal(s)
    BY <1>1, <1>7, <2>1, OwedSettles
  <2>4. RollingBack(s)' = RollingBack(s)
    BY <2>1, RollbacksKept DEF SameRollbacks
  <2>5. QED
    <3> HIDE DEF P
    <3>1. P * Cardinality(RollingBack(s)) \in Int
      BY <1>1, <1>3
    <3>2. QED
      BY <1>1, <1>2, <1>3, <2>2, <2>3, <2>4, <3>1
<1>8. QED
  <2>1. CheckTpm(r, c) => pc' = pc \/ pc' = [pc EXCEPT ![r] = "rollback"]
    BY DEF CheckTpm, Reject, Proceed
  <2>2. QED
    BY <1>4, <1>5, <1>6, <1>7, <2>1

\* The tpm counters of a scope add up, over all windows, to the real usage of the
\* reconciled requests and the estimate of every other charged one: check_limits
\* and reconcile_tokens neither lose nor double a token, in whichever window
\* their increments land.
THEOREM TpmAccounting == Spec => []TpmLedgerBalances
<1>1. Init => TpmInv
  <2> SUFFICES ASSUME Init PROVE TpmInv
    OBVIOUS
  <2>1. Shape /\ TpmShape
    BY ShapeInit DEF Init, TpmShape, TpmOf
  <2>2. ASSUME NEW s \in Scope
        PROVE  LedgerTotal(s) = OwedTotal(s)
                 + DEFAULT_TOKEN_PREDEDUCT * Cardinality(RollingBack(s))
    <3>1. \A w \in Window : Ledger(s)[w] = 0
      BY DEF Init, Ledger, WindowKey
    <3>2. IsFiniteSet(Window)
      BY <2>1, <2>2, LedgerType
    <3>3. LedgerTotal(s) = 0
      BY <3>1, <3>2, SumOfZeros DEF LedgerTotal
    <3>4. Charges(s) = {} /\ RollingBack(s) = {}
      BY DEF Init, Charges, RollingBack
    <3>5. OwedTotal(s) = 0 /\ Cardinality(RollingBack(s)) = 0
      BY <3>4, SumOfEmpty, FS_EmptySet DEF OwedTotal
    <3>6. QED
      BY <3>3, <3>5, ConstantsAssumption
  <2>3. QED
    BY <2>1, <2>2 DEF TpmInv, Balance
<1>2. TpmInv /\ [Next]_vars => TpmInv'
  <2> SUFFICES ASSUME TpmInv, [Next]_vars PROVE TpmInv'
    OBVIOUS
  <2>1. Shape' /\ TpmShape'
    BY ShapeStep, TpmShapeStep DEF TpmInv
  <2>2. Balance'
    BY TpmSteps, TpmQuietStep, TpmActiveStep DEF TpmInv
  <2>3. QED
    BY <2>1, <2>2 DEF TpmInv
<1>3. TpmInv => TpmLedgerBalances
  BY DEF TpmInv, Balance, TpmLedgerBalances, LedgerTotal, OwedTotal, SumOf
<1>4. QED
  BY <1>1, <1>2, <1>3, PTL DEF Spec
=============================================================================
