------------------------ MODULE ProxyPipelineProofs ------------------------
(***************************************************************************)
(* Proofs about ProxyPipeline, for any requests, inputs, responses, cache  *)
(* keys and bounds.  Each invariant relates the phase of a request to what *)
(* it holds: a slot, a log record, a body kept for the cache.              *)
(***************************************************************************)
EXTENDS ProxyPipeline, FiniteSums

\* The phases in which a request holds a permit.
Holding == {"route", "lookup", "chain", "stream", "send", "send_error", "write_back",
            "reconcile"}

AllPhases == {"new", "done"} \cup HandlerPhases \cup TaskPhases

----------------------------------------------------------------------------
(* The slots.  UpstreamBounded needs that a request has a slot exactly     *)
(* while it is in one of the phases Holding.                               *)

SlotInv ==
  /\ phase \in [Requests -> AllPhases]
  /\ slots = {r \in Requests : phase[r] \in Holding}
  /\ Cardinality(slots) <= MaxInFlight

\* One request moves, with its slot or without one.
Moves(r, p) ==
  /\ phase' = [phase EXCEPT ![r] = p]
  /\ \/ slots' = slots /\ (phase[r] \in Holding <=> p \in Holding)
     \/ slots' = slots \ {r} /\ p \notin Holding
     \/ /\ slots' = slots \cup {r} /\ p \in Holding
        /\ r \notin slots /\ Cardinality(slots) < MaxInFlight

LEMMA MoveKeeps ==
  ASSUME SlotInv, NEW r \in Requests, NEW p \in AllPhases, Moves(r, p)
  PROVE  SlotInv'
<1>1. IsFiniteSet(slots) /\ Cardinality(slots) \in Nat /\ MaxInFlight \in Nat
  BY PipelineAssumption, FS_Subset, FS_CardinalityType DEF SlotInv
<1>2. phase' \in [Requests -> AllPhases]
  BY DEF SlotInv, Moves
<1>3. slots' = {q \in Requests : phase'[q] \in Holding}
  BY DEF SlotInv, Moves
<1>4. Cardinality(slots') <= MaxInFlight
  <2>1. Cardinality(slots \ {r}) <= Cardinality(slots) /\ Cardinality(slots \ {r}) \in Nat
    BY <1>1, FS_RemoveElement, FS_CardinalityType, FS_Subset
  <2>2. r \notin slots => Cardinality(slots \cup {r}) = Cardinality(slots) + 1
    BY <1>1, FS_AddElement
  <2>3. CASE slots' = slots
    BY <2>3 DEF SlotInv
  <2>4. CASE slots' = slots \ {r}
    BY <2>4, <2>1, <1>1 DEF SlotInv
  <2>5. CASE slots' = slots \cup {r} /\ r \notin slots /\ Cardinality(slots) < MaxInFlight
    BY <2>5, <2>2, <1>1
  <2>6. QED
    BY <2>3, <2>4, <2>5 DEF Moves
<1>5. QED
  BY <1>2, <1>3, <1>4 DEF SlotInv

\* The permit of check_limits: the semaphore had room.
LEMMA GrantFacts ==
  ASSUME NEW r, Limiter!Grant(r)
  PROVE  /\ r \notin slots /\ slots' = slots \cup {r}
         /\ Cardinality(slots) < MaxInFlight
<1>1. Limiter!InScope("rule") = slots
  BY DEF Limiter!InScope
<1>2. Limiter!Cardinality(slots) = Cardinality(slots)
  BY DEF Limiter!Cardinality, Cardinality, Limiter!IsFiniteSet, IsFiniteSet
<1>3. QED
  BY <1>1, <1>2 DEF Limiter!Grant

\* What a step of a request is for its slot.
LEMMA StepMoves ==
  ASSUME SlotInv, NEW r \in Requests,
         \/ \E q \in Inputs : Arrive(r, q)
         \/ GatewayStep(r) \/ UpstreamStep(r) \/ ClientLeaves(r)
  PROVE  \E p \in AllPhases : Moves(r, p)
<1> USE DEF AllPhases, HandlerPhases, TaskPhases, Holding, Moves, Goto, SlotInv
<1>1. CASE \E q \in Inputs : Arrive(r, q)
  BY <1>1 DEF Arrive
<1>2. CASE ReadBody(r)
  BY <1>2 DEF ReadBody
<1>3. CASE CheckBlock(r)
  BY <1>3 DEF CheckBlock, LogAndReturn
<1>4. CASE CheckLimits(r)
  BY <1>4, GrantFacts DEF CheckLimits, LogAndReturn
<1>5. CASE ResolveRoute(r)
  BY <1>5 DEF ResolveRoute, NoRoute, PastCache, LogAndReturn
<1>6. CASE Hit(r) \/ HitPanics(r) \/ Miss(r)
  BY <1>6 DEF Hit, HitPanics, Miss, PastCache, LogAndReturn
<1>7. CASE UpstreamStep(r)
  BY <1>7 DEF UpstreamStep, ChainFails, Chunk, Break, EndOfStream, ChainAnswers, LogAndReturn
<1>8. CASE Send(r) \/ SendError(r)
  BY <1>8 DEF Send, SendError, LogAndReturn
<1>9. CASE WriteBack(r) \/ Reconcile(r) \/ RecordCost(r) \/ SubmitAndEnd(r)
  BY <1>9 DEF WriteBack, Reconcile, RecordCost, SubmitAndEnd, LogAndReturn
<1>10. CASE ClientLeaves(r)
  BY <1>10 DEF ClientLeaves
<1>11. QED
  BY <1>1, <1>2, <1>3, <1>4, <1>5, <1>6, <1>7, <1>8, <1>9, <1>10 DEF GatewayStep

LEMMA SlotStep == SlotInv /\ [Next]_vars => SlotInv'
<1> SUFFICES ASSUME SlotInv, [Next]_vars PROVE SlotInv'
  OBVIOUS
<1>1. ASSUME NEW r \in Requests,
             \/ \E q \in Inputs : Arrive(r, q)
             \/ GatewayStep(r) \/ UpstreamStep(r) \/ ClientLeaves(r)
      PROVE  SlotInv'
  BY <1>1, StepMoves, MoveKeeps
<1>2. CASE UNCHANGED <<phase, slots>>
  BY <1>2 DEF SlotInv
<1>3. QED
  BY <1>1, <1>2 DEF Next, ClientReads, Expire, Finished, vars

LEMMA SlotInvariant == Spec => []SlotInv
<1>1. Init => SlotInv
  BY PipelineAssumption, FS_EmptySet DEF Init, SlotInv, AllPhases, Holding
<1>2. QED
  BY <1>1, SlotStep, PTL DEF Spec

\* Never more upstream calls are open than the concurrency rule allows, and a
\* request that is over has given its slot back, whatever the clients do
\* (proxy.rs; RatePermit moves into the spawned task).
THEOREM UpstreamsAreBounded == Spec => []UpstreamBounded
<1>1. SlotInv => UpstreamBounded
  <2> SUFFICES ASSUME SlotInv PROVE UpstreamBounded
    OBVIOUS
  <2>1. IsFiniteSet(slots) /\ Upstreaming \subseteq slots
    BY PipelineAssumption, FS_Subset DEF SlotInv, Upstreaming, Holding
  <2>2. /\ Cardinality(Upstreaming) <= Cardinality(slots)
        /\ Cardinality(Upstreaming) \in Nat /\ Cardinality(slots) \in Nat
    BY <2>1, FS_Subset, FS_CardinalityType
  <2>3. Cardinality(Upstreaming) <= MaxInFlight
    BY <2>2, PipelineAssumption DEF SlotInv
  <2>4. QED
    BY <2>3 DEF SlotInv, UpstreamBounded, Holding
<1>2. QED
  BY <1>1, SlotInvariant, PTL
----------------------------------------------------------------------------
(* The log.  LoggedOnce counts records; the invariant ties the records to  *)
(* the phase: none before the request is over, and a request that is over  *)
(* without one never had a response of an upstream.                        *)

Idle == {"new"} \cup HandlerPhases

LogOf(r) ==
  /\ phase[r] # "done" => logs[r] = <<>>
  /\ phase[r] = "done" => logs[r] = <<>> \/ Len(logs[r]) = 1
  /\ (phase[r] = "done" /\ upstream[r] # None) => Len(logs[r]) = 1
  /\ phase[r] \in Idle => upstream[r] = None

LogInv ==
  /\ phase \in [Requests -> AllPhases]
  /\ DOMAIN logs = Requests /\ DOMAIN upstream = Requests
  /\ \A r \in Requests : LogOf(r)

\* What a step does to the log: it leaves it alone, or it appends the record
\* of a request that then is over.
LogMoves(r) ==
  /\ \E p \in AllPhases : phase' = [phase EXCEPT ![r] = p]
  /\ \/ /\ logs' = logs
        /\ \/ /\ upstream' = upstream /\ phase[r] \in Idle
              /\ phase'[r] \in {"done", "body", "budget", "limit", "route", "lookup", "chain"}
           \/ /\ phase[r] \in {"chain"} \cup TaskPhases /\ phase'[r] \in TaskPhases
              /\ upstream' = upstream \/ \E a : upstream' = [upstream EXCEPT ![r] = a]
     \/ /\ \E rec : logs' = [logs EXCEPT ![r] = Append(@, rec)]
        /\ phase[r] # "done" /\ phase'[r] = "done" /\ upstream' = upstream

LEMMA LogMoveKeeps ==
  ASSUME LogInv, NEW r \in Requests, LogMoves(r)
  PROVE  LogInv'
<1> USE DEF AllPhases, Idle, HandlerPhases, TaskPhases
<1>1. /\ phase' \in [Requests -> AllPhases]
      /\ DOMAIN logs' = Requests /\ DOMAIN upstream' = Requests
  BY DEF LogInv, LogMoves
<1>2. ASSUME NEW q \in Requests, q # r PROVE LogOf(q)'
  <2>1. phase'[q] = phase[q] /\ logs'[q] = logs[q] /\ upstream'[q] = upstream[q]
    BY <1>2 DEF LogInv, LogMoves
  <2>2. QED
    BY <2>1 DEF LogInv, LogOf
<1>3. LogOf(r)'
  <2>1. LogOf(r)
    BY DEF LogInv
  <2>2. CASE logs' = logs
    BY <2>1, <2>2 DEF LogInv, LogOf, LogMoves
  <2>3. ASSUME NEW rec, logs' = [logs EXCEPT ![r] = Append(@, rec)],
               phase[r] # "done", phase'[r] = "done"
        PROVE  LogOf(r)'
    <3>1. logs[r] = <<>> /\ logs'[r] = Append(<<>>, rec)
      BY <2>1, <2>3 DEF LogInv, LogOf
    <3>2. Len(Append(<<>>, rec)) = 1
      <4>1. <<>> \in Seq({rec}) /\ Len(<<>>) = 0
        OBVIOUS
      <4>2. QED
        BY <4>1
    <3>3. QED
      BY <2>3, <3>1, <3>2 DEF LogOf
  <2>4. QED
    BY <2>2, <2>3 DEF LogMoves
<1>4. QED
  BY <1>1, <1>2, <1>3 DEF LogInv

LEMMA StepLogs ==
  ASSUME LogInv, NEW r \in Requests,
         \/ \E q \in Inputs : Arrive(r, q)
         \/ GatewayStep(r) \/ UpstreamStep(r) \/ ClientLeaves(r)
  PROVE  LogMoves(r) \/ UNCHANGED <<phase, logs, upstream>>
<1> USE DEF AllPhases, HandlerPhases, TaskPhases, Idle, LogMoves, Goto, LogInv
<1>1. CASE \E q \in Inputs : Arrive(r, q)
  BY <1>1 DEF Arrive
<1>2. CASE ReadBody(r)
  BY <1>2 DEF ReadBody
<1>3. CASE CheckBlock(r)
  BY <1>3 DEF CheckBlock, LogAndReturn
<1>4. CASE CheckLimits(r)
  BY <1>4 DEF CheckLimits, LogAndReturn
<1>5. CASE ResolveRoute(r)
  BY <1>5 DEF ResolveRoute, NoRoute, PastCache, LogAndReturn
<1>6. CASE Hit(r) \/ HitPanics(r) \/ Miss(r)
  BY <1>6 DEF Hit, HitPanics, Miss, PastCache, LogAndReturn
<1>7. CASE UpstreamStep(r)
  BY <1>7 DEF UpstreamStep, ChainFails, Chunk, Break, EndOfStream, ChainAnswers, LogAndReturn
<1>8. CASE Send(r) \/ SendError(r)
  BY <1>8 DEF Send, SendError, LogAndReturn
<1>9. CASE WriteBack(r) \/ Reconcile(r) \/ RecordCost(r) \/ SubmitAndEnd(r)
  BY <1>9 DEF WriteBack, Reconcile, RecordCost, SubmitAndEnd, LogAndReturn
<1>10. CASE ClientLeaves(r)
  BY <1>10 DEF ClientLeaves
<1>11. QED
  BY <1>1, <1>2, <1>3, <1>4, <1>5, <1>6, <1>7, <1>8, <1>9, <1>10 DEF GatewayStep

LEMMA LogStep == LogInv /\ [Next]_vars => LogInv'
<1> SUFFICES ASSUME LogInv, [Next]_vars PROVE LogInv'
  OBVIOUS
<1>1. CASE UNCHANGED <<phase, logs, upstream>>
  BY <1>1 DEF LogInv, LogOf
<1>2. ASSUME NEW r \in Requests,
             \/ \E q \in Inputs : Arrive(r, q)
             \/ GatewayStep(r) \/ UpstreamStep(r) \/ ClientLeaves(r)
      PROVE  LogInv'
  BY <1>1, <1>2, StepLogs, LogMoveKeeps
<1>3. QED
  BY <1>1, <1>2 DEF Next, ClientReads, Expire, Finished, vars

\* Every request leaves at most one log record, and one that an upstream
\* answered leaves exactly one, whenever its client goes (proxy.rs; log.submit
\* at each return of proxy_inner and at both ends of the spawned task).
THEOREM LoggedExactlyOnce == Spec => []LoggedOnce
<1>1. Init => LogInv
  BY DEF Init, LogInv, LogOf, AllPhases, Idle
<1>2. LogInv => LoggedOnce
  <2>1. Len(<<>>) = 0
    OBVIOUS
  <2>2. ASSUME NEW r \in Requests, LogOf(r)
        PROVE  /\ Len(logs[r]) <= 1
               /\ (phase[r] = "done" /\ upstream[r] # None) => Len(logs[r]) = 1
    <3>1. \E n \in {0, 1} : Len(logs[r]) = n
      BY <2>1, <2>2 DEF LogOf
    <3>2. Len(logs[r]) <= 1
      BY <3>1
    <3>3. QED
      BY <2>2, <3>2, Zenon DEF LogOf
  <2>3. QED
    BY <2>2 DEF LogInv, LoggedOnce
<1>3. QED
  BY <1>1, <1>2, LogStep, PTL DEF Spec
----------------------------------------------------------------------------
(* The cache.  An entry names its writer, so CacheComplete speaks of what  *)
(* the writer held when it wrote.  CacheInv follows the body a task keeps  *)
(* from the first chunk to the write-back, and says that a writer is past  *)
(* the point where its request or its response could change.               *)

\* Past the write-back.
Settled == {"reconcile", "cost", "task_log", "done"}

BodyOf(r) ==
  /\ phase[r] # "new" => input[r] \in InputType
  /\ phase[r] = "lookup" => LooksUp(input[r])
  /\ phase[r] \in {"chain"} \cup TaskPhases =>
       /\ status[r] = "Miss" => input[r].directive = "Default"
       /\ status[r] = "Refresh" => input[r].directive = "Refresh"
  /\ phase[r] \in Idle => received[r] = 0 /\ kept[r] = 0 /\ oversize[r] = FALSE
  /\ phase[r] \in {"stream", "send"} =>
       /\ received[r] \in Nat
       /\ CacheShouldWrite(r) /\ ~oversize[r]
            => kept[r] = received[r] /\ received[r] <= MAX_CACHEABLE_BODY_BYTES
  /\ phase[r] = "write_back" =>
       /\ CacheShouldWrite(r)
       /\ kept[r] = upstream[r].len /\ kept[r] <= MAX_CACHEABLE_BODY_BYTES

\* An entry and its writer.
Written(entry, k) ==
  entry.writer \in Requests /\ phase[entry.writer] \in Settled /\ CompleteEntry(entry, k)

Shape ==
  /\ phase \in [Requests -> AllPhases]
  /\ DOMAIN input = Requests /\ DOMAIN status = Requests /\ DOMAIN upstream = Requests
  /\ DOMAIN received = Requests /\ DOMAIN kept = Requests /\ DOMAIN oversize = Requests
  /\ DOMAIN replayed = Requests /\ DOMAIN cache = Keys

CacheInv ==
  /\ Shape
  /\ \A r \in Requests : BodyOf(r)
  /\ \A k \in Keys : cache[k] # None => Written(cache[k], k)
  /\ \A r \in Requests : replayed[r] # None =>
       phase[r] = "done" /\ Written(replayed[r], input[r].key)

\* A step of one request, as far as the others are concerned.
OthersStay(r) ==
  \A q \in Requests \ {r} :
    /\ input'[q] = input[q] /\ phase'[q] = phase[q] /\ status'[q] = status[q]
    /\ upstream'[q] = upstream[q] /\ received'[q] = received[q]
    /\ kept'[q] = kept[q] /\ oversize'[q] = oversize[q] /\ replayed'[q] = replayed[q]

RequestStep(r) ==
  \/ \E q \in Inputs : Arrive(r, q)
  \/ GatewayStep(r) \/ UpstreamStep(r) \/ ClientReads(r) \/ ClientLeaves(r)

\* A request that is settled keeps its input and its response.
SettledStays(r) ==
  phase[r] \in Settled =>
    /\ phase'[r] \in Settled /\ input'[r] = input[r] /\ upstream'[r] = upstream[r]

LEMMA StepShape ==
  ASSUME Shape, NEW r \in Requests, RequestStep(r)
  PROVE  Shape' /\ OthersStay(r) /\ SettledStays(r)
<1> USE DEF AllPhases, HandlerPhases, TaskPhases, Settled, Shape, OthersStay, SettledStays,
            Goto, LogAndReturn, task
<1>1. CASE \E q \in Inputs : Arrive(r, q)
  BY <1>1 DEF Arrive
<1>2. CASE ReadBody(r)
  BY <1>2 DEF ReadBody
<1>3. CASE CheckBlock(r)
  BY <1>3 DEF CheckBlock
<1>4. CASE CheckLimits(r)
  BY <1>4 DEF CheckLimits
<1>5. CASE ResolveRoute(r)
  BY <1>5 DEF ResolveRoute, NoRoute, PastCache
<1>6. CASE Hit(r) \/ HitPanics(r) \/ Miss(r)
  BY <1>6 DEF Hit, HitPanics, Miss, PastCache
<1>7. CASE ChainFails(r) \/ \E response \in Responses : ChainAnswers(r, response)
  BY <1>7 DEF ChainFails, ChainAnswers
<1>8. CASE Chunk(r)
  BY <1>8 DEF Chunk
<1>9. CASE Break(r) \/ EndOfStream(r)
  BY <1>9 DEF Break, EndOfStream
<1>10. CASE Send(r) \/ SendError(r)
  BY <1>10 DEF Send, SendError
<1>11. CASE WriteBack(r)
  BY <1>11 DEF WriteBack
<1>12. CASE Reconcile(r) \/ RecordCost(r) \/ SubmitAndEnd(r)
  BY <1>12 DEF Reconcile, RecordCost, SubmitAndEnd
<1>13. CASE ClientReads(r) \/ ClientLeaves(r)
  BY <1>13 DEF ClientReads, ClientLeaves
<1>14. QED
  BY <1>1, <1>2, <1>3, <1>4, <1>5, <1>6, <1>7, <1>8, <1>9, <1>10, <1>11, <1>12, <1>13
     DEF RequestStep, GatewayStep, UpstreamStep
\* The body of another request is as it was.
LEMMA OthersBody ==
  ASSUME NEW r, OthersStay(r), NEW q \in Requests \ {r}, BodyOf(q)
  PROVE  BodyOf(q)'
BY DEF OthersStay, BodyOf, CacheShouldWrite

\* What from_headers and body_is_cacheable make of a request.
LEMMA PolicyType ==
  ASSUME NEW q \in RequestType
  PROVE  WithPolicy(q) \in InputType
<1>1. directive(q) \in {"Default", "Bypass", "Refresh", "OnlyIfCached", None}
  BY DEF directive, RequestType
<1>2. body_is_cacheable(q) \in BOOLEAN
  BY DEF body_is_cacheable
<1>3. q.routed \in BOOLEAN /\ q.priced \in BOOLEAN /\ q.enabled \in BOOLEAN /\ q.key \in Keys
  BY DEF RequestType
<1> QED
  BY <1>1, <1>2, <1>3 DEF WithPolicy, InputType

\* The body of the request that moves: until the response is there.
LEMMA HandlerBody ==
  ASSUME Shape, NEW r \in Requests, BodyOf(r),
         \/ \E q \in Inputs : Arrive(r, q)
         \/ ReadBody(r) \/ CheckBlock(r) \/ CheckLimits(r) \/ ResolveRoute(r)
         \/ Hit(r) \/ HitPanics(r) \/ Miss(r) \/ ChainFails(r)
         \/ \E response \in Responses : ChainAnswers(r, response)
  PROVE  BodyOf(r)'
<1> USE DEF HandlerPhases, TaskPhases, Idle, Shape, BodyOf, Goto, LogAndReturn, task
<1>1. CASE \E q \in Inputs : Arrive(r, q)
  BY <1>1, PolicyType, PipelineAssumption DEF Arrive
<1>2. CASE ReadBody(r)
  BY <1>2 DEF ReadBody
<1>3. CASE CheckBlock(r)
  BY <1>3 DEF CheckBlock
<1>4. CASE CheckLimits(r)
  BY <1>4 DEF CheckLimits
<1>5. CASE ResolveRoute(r)
  <2>1. ASSUME input[r] \in InputType
        PROVE  /\ StatusWithoutLookup(input[r]) # "Miss"
               /\ StatusWithoutLookup(input[r]) = "Refresh" => input[r].directive = "Refresh"
    BY <2>1 DEF StatusWithoutLookup, InputType
  <2>2. input[r] \in InputType
    BY <1>5 DEF ResolveRoute, NoRoute
  <2>3. QED
    BY <1>5, <2>1, <2>2 DEF ResolveRoute, NoRoute, PastCache
<1>6. CASE Hit(r) \/ HitPanics(r)
  BY <1>6 DEF Hit, HitPanics
<1>7. CASE Miss(r)
  BY <1>7 DEF Miss, PastCache, LooksUp
<1>8. CASE ChainFails(r)
  BY <1>8 DEF ChainFails
<1>9. CASE \E response \in Responses : ChainAnswers(r, response)
  BY <1>9, PipelineAssumption DEF ChainAnswers
<1>10. QED
  BY <1>1, <1>2, <1>3, <1>4, <1>5, <1>6, <1>7, <1>8, <1>9

\* And in the spawned task.
LEMMA TaskBody ==
  ASSUME Shape, NEW r \in Requests, BodyOf(r),
         \/ Chunk(r) \/ Break(r) \/ EndOfStream(r) \/ Send(r) \/ SendError(r)
         \/ WriteBack(r) \/ Reconcile(r) \/ RecordCost(r) \/ SubmitAndEnd(r)
         \/ ClientReads(r) \/ ClientLeaves(r)
  PROVE  BodyOf(r)'
<1> USE DEF HandlerPhases, TaskPhases, Idle, Shape, BodyOf, Goto, LogAndReturn, task
<1>1. CASE Chunk(r)
  <2> DEFINE total == received[r] + 1
  <2>1. /\ phase[r] = "stream" /\ phase'[r] = "send" /\ received'[r] = total
        /\ received[r] \in Nat /\ UNCHANGED <<input, status, upstream>>
    BY <1>1 DEF Chunk
  <2>2. CacheShouldWrite(r)' <=> CacheShouldWrite(r)
    BY <2>1 DEF CacheShouldWrite
  <2>3. CASE CacheShouldWrite(r) /\ ~oversize[r] /\ total <= MAX_CACHEABLE_BODY_BYTES
    BY <1>1, <2>1, <2>3 DEF Chunk
  <2>4. CASE CacheShouldWrite(r) /\ ~oversize[r] /\ ~(total <= MAX_CACHEABLE_BODY_BYTES)
    <3>1. oversize' = [oversize EXCEPT ![r] = TRUE]
      BY <1>1, <2>4 DEF Chunk
    <3>2. oversize'[r]
      BY <3>1
    <3>3. QED
      BY <2>1, <3>2
  <2>5. CASE ~(CacheShouldWrite(r) /\ ~oversize[r])
    BY <1>1, <2>1, <2>2, <2>5 DEF Chunk
  <2>6. QED
    BY <2>3, <2>4, <2>5
<1>2. CASE Break(r)
  BY <1>2 DEF Break
<1>3. CASE EndOfStream(r)
  BY <1>3 DEF EndOfStream, Writes, CacheShouldWrite
<1>4. CASE Send(r)
  BY <1>4 DEF Send, CacheShouldWrite
<1>5. CASE SendError(r)
  BY <1>5 DEF SendError
<1>6. CASE WriteBack(r)
  BY <1>6 DEF WriteBack
<1>7. CASE Reconcile(r) \/ RecordCost(r) \/ SubmitAndEnd(r)
  BY <1>7 DEF Reconcile, RecordCost, SubmitAndEnd
<1>8. CASE ClientReads(r)
  BY <1>8 DEF ClientReads, CacheShouldWrite
<1>9. CASE ClientLeaves(r)
  BY <1>9 DEF ClientLeaves, CacheShouldWrite
<1>10. QED
  BY <1>1, <1>2, <1>3, <1>4, <1>5, <1>6, <1>7, <1>8, <1>9

\* What is written stays written.
LEMMA WrittenStays ==
  ASSUME NEW r \in Requests, OthersStay(r), SettledStays(r), NEW e, NEW k, Written(e, k)
  PROVE  /\ e.writer \in Requests /\ phase'[e.writer] \in Settled
         /\ input'[e.writer] = input[e.writer] /\ upstream'[e.writer] = upstream[e.writer]
BY DEF OthersStay, SettledStays, Written

\* A put: the entry holds the whole body of the request that writes it.
LEMMA PutComplete ==
  ASSUME CacheInv, NEW r \in Requests, WriteBack(r)
  PROVE  \A k \in Keys : (cache[k] # None => Written(cache[k], k))'
<1> DEFINE entry == [writer |-> r, chunks |-> kept[r]]
<1>1. SettledStays(r) /\ OthersStay(r) /\ Shape'
  BY StepShape DEF CacheInv, RequestStep, GatewayStep
<1>2. BodyOf(r) /\ phase'[r] = "reconcile" /\ UNCHANGED <<input, upstream, status, kept>>
  BY DEF CacheInv, Shape, WriteBack, Goto, task
<1>3. /\ CacheShouldWrite(r) /\ input[r] \in InputType
      /\ kept[r] = upstream[r].len /\ kept[r] <= MAX_CACHEABLE_BODY_BYTES
      /\ input[r].directive \in {"Default", "Refresh"}
  BY <1>2 DEF WriteBack, BodyOf, CacheShouldWrite, TaskPhases
<1>4. Written(entry, input[r].key)'
  BY <1>2, <1>3 DEF Written, CompleteEntry, CacheShouldWrite, Settled
<1>5. ASSUME NEW k \in Keys, cache'[k] # None PROVE Written(cache[k], k)'
  <2>1. CASE cache'[k] = cache[k]
    BY <1>1, <1>2, <1>5, <2>1, WrittenStays DEF CacheInv, Written, CompleteEntry
  <2>2. CASE k = input[r].key /\ cache'[k] = entry
    BY <1>4, <1>2, <2>2
  <2>3. QED
    BY <2>1, <2>2 DEF WriteBack, CacheInv, Shape
<1>6. QED
  BY <1>5
\* Every other step of a request leaves the cache alone.
LEMMA CacheStays ==
  ASSUME NEW r \in Requests, RequestStep(r)
  PROVE  WriteBack(r) \/ cache' = cache
BY DEF RequestStep, GatewayStep, UpstreamStep, Arrive, ReadBody, CheckBlock, CheckLimits,
       ResolveRoute, NoRoute, Hit, HitPanics, Miss, ChainFails, ChainAnswers, Chunk, Break,
       EndOfStream, Send, SendError, Reconcile, RecordCost, SubmitAndEnd, ClientReads,
       ClientLeaves

\* What a request replays changes only when it hits.
LEMMA ReplayStays ==
  ASSUME NEW r \in Requests, RequestStep(r)
  PROVE  Hit(r) \/ replayed' = replayed
BY DEF RequestStep, GatewayStep, UpstreamStep, Arrive, ReadBody, CheckBlock, CheckLimits,
       ResolveRoute, NoRoute, HitPanics, Miss, ChainFails, ChainAnswers, Chunk, Break,
       EndOfStream, Send, SendError, WriteBack, Reconcile, RecordCost, SubmitAndEnd,
       ClientReads, ClientLeaves

\* A request that is over takes no step but those of its client.
LEMMA DoneStays ==
  ASSUME Shape, NEW r \in Requests, RequestStep(r), phase[r] = "done"
  PROVE  phase'[r] = "done" /\ input' = input /\ ~Hit(r)
BY DEF RequestStep, GatewayStep, UpstreamStep, Arrive, ReadBody, CheckBlock, CheckLimits,
       ResolveRoute, NoRoute, Hit, HitPanics, Miss, ChainFails, ChainAnswers, Chunk, Break,
       EndOfStream, Send, SendError, WriteBack, Reconcile, RecordCost, SubmitAndEnd,
       ClientReads, ClientLeaves, HandlerPhases, TaskPhases

LEMMA RequestKeepsCache ==
  ASSUME CacheInv, NEW r \in Requests, RequestStep(r)
  PROVE  CacheInv'
<1>1. Shape' /\ OthersStay(r) /\ SettledStays(r)
  BY StepShape DEF CacheInv
<1>2. \A q \in Requests : BodyOf(q)'
  <2>1. BodyOf(r)'
    BY HandlerBody, TaskBody DEF CacheInv, RequestStep, GatewayStep, UpstreamStep
  <2>2. QED
    BY <1>1, <2>1, OthersBody DEF CacheInv
<1>3. \A e, k : Written(e, k) => Written(e, k)'
  BY <1>1, WrittenStays DEF Written, CompleteEntry
<1>4. \A k \in Keys : (cache[k] # None => Written(cache[k], k))'
  <2>1. CASE WriteBack(r)
    BY <2>1, PutComplete
  <2>2. CASE cache' = cache
    BY <1>3, <2>2 DEF CacheInv
  <2>3. QED
    BY <2>1, <2>2, CacheStays
<1>5. ASSUME NEW q \in Requests, replayed'[q] # None
      PROVE  phase'[q] = "done" /\ Written(replayed[q], input[q].key)'
  <2>1. CASE replayed'[q] = replayed[q]
    <3>1. phase[q] = "done" /\ Written(replayed[q], input[q].key)
      BY <1>5, <2>1 DEF CacheInv
    <3>2. phase'[q] = "done" /\ input'[q] = input[q]
      BY <3>1, <1>1, DoneStays DEF CacheInv, OthersStay
    <3>3. QED
      BY <1>3, <2>1, <3>1, <3>2
  <2>2. CASE q = r /\ Hit(r)
    <3>1. /\ phase'[q] = "done" /\ input'[q] = input[q]
          /\ cache[input[q].key] # None /\ replayed'[q] = cache[input[q].key]
      BY <2>2 DEF Hit, LogAndReturn, Goto, CacheInv, Shape
    <3>2. input[q].key \in Keys
      BY <2>2 DEF Hit, CacheInv, BodyOf, InputType
    <3>3. QED
      BY <1>3, <3>1, <3>2 DEF CacheInv
  <2>3. QED
    BY <1>1, <2>1, <2>2, ReplayStays DEF OthersStay
<1>6. QED
  BY <1>1, <1>2, <1>4, <1>5 DEF CacheInv

LEMMA CacheStep == CacheInv /\ [Next]_vars => CacheInv'
<1> SUFFICES ASSUME CacheInv, [Next]_vars PROVE CacheInv'
  OBVIOUS
<1>1. ASSUME NEW r \in Requests, RequestStep(r) PROVE CacheInv'
  BY <1>1, RequestKeepsCache
<1>2. CASE \E k \in Keys : Expire(k)
  <2> USE DEF CacheInv, Expire, task
  <2>1. Shape' /\ \A r \in Requests : BodyOf(r)'
    BY <1>2 DEF Shape, BodyOf, CacheShouldWrite
  <2>2. \A e, k : Written(e, k) => Written(e, k)'
    BY <1>2 DEF Written, CompleteEntry
  <2>3. \A k \in Keys : cache'[k] # None => cache'[k] = cache[k]
    BY <1>2 DEF Shape
  <2>4. UNCHANGED <<phase, input, replayed>>
    BY <1>2
  <2>5. QED
    BY <2>1, <2>2, <2>3, <2>4
<1>3. CASE UNCHANGED vars
  BY <1>3 DEF CacheInv, Shape, BodyOf, CacheShouldWrite, Written, CompleteEntry, vars
<1>4. QED
  BY <1>1, <1>2, <1>3 DEF Next, Finished, RequestStep

\* The cache holds, and a hit replays, only complete bodies of successful
\* responses to requests with that fingerprint that were allowed to write, never
\* over the cap: no interleaving of broken, oversized and abandoned streams puts
\* anything else there (proxy.rs, the spawned task's write-back).
THEOREM CacheIsComplete == Spec => []CacheComplete
<1>1. Init => CacheInv
  BY DEF Init, CacheInv, Shape, BodyOf, AllPhases, TaskPhases
<1>2. CacheInv => CacheComplete
  BY DEF CacheInv, CacheComplete, Written
<1>3. QED
  BY <1>1, <1>2, CacheStep, PTL DEF Spec
----------------------------------------------------------------------------
(* The budget.  The counter is the sum of what the requests past the cost  *)
(* step owe; a request that ended another way owes nothing.                *)

Complete == {"write_back", "reconcile", "cost", "task_log"}

ChargeOf(r) ==
  /\ upstream[r] # None => upstream[r] \in Responses
  /\ phase[r] \in TaskPhases => upstream[r] # None
  /\ phase[r] = "send_error" => received[r] # upstream[r].len
  /\ phase[r] \in Complete => received[r] = upstream[r].len
  /\ phase[r] = "done" => LoggedCost[r] = DueFrom[r]

\* What has been charged to the budget for each request.
Billed == [r \in Requests |-> IF phase[r] \in {"task_log", "done"} THEN DueFrom[r] ELSE 0]

ChargeInv ==
  /\ \A r \in Requests : ChargeOf(r)
  /\ spent = SumOf(Billed, Requests)

\* What the capture of a whole response costs is a count.
SeenCost(response) == CostOf(UsageOf[response][Room(response.len)])

LEMMA SeenIsCount ==
  ASSUME NEW response \in Responses
  PROVE  response.len \in Nat /\ SeenCost(response) \in Nat
<1>1. IsResponse(response) /\ MAX_LOG_BODY_BYTES \in Nat
  BY PipelineAssumption
<1>2. response.len \in Nat
  BY <1>1 DEF IsResponse
<1>3. Room(response.len) \in 0..response.len
  BY <1>1, <1>2 DEF Room
<1>4. \A n \in 0..response.len : CostOf(UsageOf[response][n]) \in Nat
  BY <1>1 DEF IsResponse
<1>5. QED
  BY <1>2, <1>3, <1>4 DEF SeenCost

\* compute_cost of a response that arrived whole is what is due.
LEMMA CostIsDue ==
  ASSUME NEW r \in Requests, ChargeOf(r), phase[r] \in {"cost", "task_log"}
  PROVE  (IF Cost(r) = None THEN 0 ELSE Cost(r)) = DueFrom[r]
<1>1. upstream[r] # None /\ received[r] = upstream[r].len /\ upstream[r] \in Responses
  BY DEF ChargeOf, Complete, TaskPhases
<1>2. SeenCost(upstream[r]) # None
  BY <1>1, SeenIsCount, PipelineAssumption
<1>3. DueFrom[r] = IF upstream[r].success /\ input[r].priced THEN SeenCost(upstream[r])
                   ELSE 0
  BY <1>1 DEF DueFrom, SeenCost
<1>4. Cost(r) = IF upstream[r].success /\ input[r].priced THEN SeenCost(upstream[r])
                ELSE None
  BY <1>1 DEF Cost, Usage, SeenCost
<1>5. QED
  BY <1>2, <1>3, <1>4

\* A request that ends keeps what it owes, and its record says so.
LEMMA EndsDue ==
  ASSUME NEW r \in Requests, NEW rec, logs[r] = <<>>, DOMAIN logs = Requests,
         logs' = [logs EXCEPT ![r] = Append(@, rec)]
  PROVE  LoggedCost'[r] = IF rec.cost = None THEN 0 ELSE rec.cost
<1>1. logs'[r] = Append(<<>>, rec)
  OBVIOUS
<1>2. Append(<<>>, rec) # <<>> /\ Append(<<>>, rec)[1] = rec
  <2>1. <<>> \in Seq({rec}) /\ Len(<<>>) = 0
    OBVIOUS
  <2>2. QED
    BY <2>1
<1>3. QED
  BY <1>1, <1>2 DEF LoggedCost

LEMMA DueIsCount ==
  ASSUME \A r \in Requests : ChargeOf(r)
  PROVE  \A r \in Requests : DueFrom[r] \in Int /\ Billed[r] \in Int
<1>1. ASSUME NEW r \in Requests PROVE DueFrom[r] \in Int
  <2>1. DueFrom[r] \in {0, SeenCost(upstream[r])}
    BY DEF DueFrom, SeenCost
  <2>2. DueFrom[r] # 0 => upstream[r] \in Responses
    BY DEF DueFrom, ChargeOf
  <2>3. QED
    BY <2>1, <2>2, SeenIsCount
<1>2. QED
  BY <1>1 DEF Billed

\* A step of a request: its charge stays as it is, or it is recorded now.
Charges(r) ==
  /\ ChargeOf(r)'
  /\ \/ spent' = spent /\ Billed'[r] = Billed[r]
     \/ spent' = spent + DueFrom[r] /\ Billed[r] = 0 /\ Billed'[r] = DueFrom[r]

\* The handler goes on, or ends without a response: nothing is due.
LEMMA HandlerCharges ==
  ASSUME CacheInv, LogInv, NEW r \in Requests, ChargeOf(r), phase[r] \in Idle,
         UNCHANGED <<upstream, spent>>,
         \/ phase'[r] \in Idle
         \/ phase'[r] = "done" /\ logs' = logs
         \/ /\ phase'[r] = "done"
            /\ \E id, tokens, cost : /\ cost \in {None, 0}
                                     /\ logs' = [logs EXCEPT ![r] = Append(@, Rec(id, tokens, cost))]
  PROVE  Charges(r)
<1>1. upstream[r] = None /\ logs[r] = <<>> /\ DOMAIN logs = Requests /\ phase[r] # "done"
  BY DEF LogInv, LogOf, Idle, HandlerPhases
<1>2. DueFrom'[r] = 0 /\ Billed[r] = 0 /\ Billed'[r] = 0
  <2>1. DueFrom'[r] = 0
    BY <1>1 DEF DueFrom
  <2>2. QED
    BY <1>1, <2>1 DEF Billed, Idle, HandlerPhases
<1>3. phase'[r] = "done" => LoggedCost'[r] = 0
  <2>1. CASE phase'[r] = "done" /\ logs' = logs
    BY <1>1, <2>1 DEF LoggedCost
  <2>2. ASSUME NEW id, NEW tokens, NEW cost \in {None, 0},
               logs' = [logs EXCEPT ![r] = Append(@, Rec(id, tokens, cost))]
        PROVE  LoggedCost'[r] = 0
    <3>1. LoggedCost'[r] = IF Rec(id, tokens, cost).cost = None THEN 0
                           ELSE Rec(id, tokens, cost).cost
      BY <1>1, <2>2, EndsDue
    <3>2. QED
      BY <3>1 DEF Rec
  <2>3. QED
    BY <2>1, <2>2 DEF Idle, HandlerPhases
<1>4. ChargeOf(r)'
  BY <1>1, <1>2, <1>3 DEF ChargeOf, Idle, HandlerPhases, TaskPhases, Complete
<1>5. QED
  BY <1>2, <1>4 DEF Charges

LEMMA ChargeMove ==
  ASSUME CacheInv, LogInv, NEW r \in Requests, RequestStep(r), ChargeOf(r)
  PROVE  Charges(r)
<1> USE DEF CacheInv, Shape, Goto, LogAndReturn, task
<1>1. CASE \/ \E q \in Inputs : Arrive(r, q)
           \/ ReadBody(r) \/ CheckBlock(r) \/ CheckLimits(r) \/ ResolveRoute(r)
  <2> USE DEF Idle, HandlerPhases, Refusal
  <2>1. CASE \E q \in Inputs : Arrive(r, q)
    BY <2>1, HandlerCharges DEF Arrive
  <2>2. CASE ReadBody(r)
    BY <2>2, HandlerCharges DEF ReadBody
  <2>3. CASE CheckBlock(r)
    BY <2>3, HandlerCharges DEF CheckBlock
  <2>4. CASE CheckLimits(r)
    BY <2>4, HandlerCharges DEF CheckLimits
  <2>5. CASE ResolveRoute(r)
    BY <2>5, HandlerCharges DEF ResolveRoute, NoRoute, PastCache
  <2>6. QED
    BY <1>1, <2>1, <2>2, <2>3, <2>4, <2>5
<1>2. CASE Hit(r) \/ HitPanics(r) \/ Miss(r) \/ ChainFails(r)
  <2> USE DEF Idle, HandlerPhases, Refusal
  <2>1. CASE Hit(r)
    BY <2>1, HandlerCharges DEF Hit
  <2>2. CASE HitPanics(r)
    BY <2>2, HandlerCharges DEF HitPanics
  <2>3. CASE Miss(r)
    BY <2>3, HandlerCharges DEF Miss, PastCache
  <2>4. CASE ChainFails(r)
    BY <2>4, HandlerCharges DEF ChainFails
  <2>5. QED
    BY <1>2, <2>1, <2>2, <2>3, <2>4
<1>3. CASE \E response \in Responses : ChainAnswers(r, response)
  BY <1>3, PipelineAssumption DEF ChainAnswers, Charges, ChargeOf, Billed, TaskPhases, Complete
<1>4. CASE \/ Chunk(r) \/ Break(r) \/ EndOfStream(r) \/ Send(r) \/ WriteBack(r)
           \/ Reconcile(r)
  <2> USE DEF Charges, ChargeOf, Billed, TaskPhases, Complete
  <2>1. CASE Chunk(r) \/ EndOfStream(r) \/ Send(r) \/ WriteBack(r) \/ Reconcile(r)
    BY <2>1 DEF Chunk, EndOfStream, Send, WriteBack, Reconcile
  <2>2. CASE Break(r)
    <3>1. received[r] # upstream[r].len
      BY <2>2, SeenIsCount DEF Break, BodyOf
    <3>2. QED
      BY <2>2, <3>1 DEF Break
  <2>3. QED
    BY <1>4, <2>1, <2>2
<1>5. CASE SendError(r) \/ SubmitAndEnd(r)
  <2>1. PICK id, tokens, cost :
          /\ logs' = [logs EXCEPT ![r] = Append(@, Rec(id, tokens, cost))]
          /\ IF phase[r] = "task_log" THEN cost = Cost(r) ELSE cost = None
    BY <1>5 DEF SendError, SubmitAndEnd
  <2>2. /\ phase[r] \in {"send_error", "task_log"} /\ phase'[r] = "done"
        /\ UNCHANGED <<input, upstream, received, spent>>
    BY <1>5 DEF SendError, SubmitAndEnd
  <2>3. logs[r] = <<>> /\ DOMAIN logs = Requests
    BY <2>2 DEF LogInv, LogOf
  <2>4. LoggedCost'[r] = IF cost = None THEN 0 ELSE cost
    <3>1. LoggedCost'[r] = IF Rec(id, tokens, cost).cost = None THEN 0
                           ELSE Rec(id, tokens, cost).cost
      BY <2>1, <2>3, EndsDue
    <3>2. QED
      BY <3>1 DEF Rec
  <2>5. DueFrom' = DueFrom
    BY <2>2 DEF DueFrom
  <2>6. LoggedCost'[r] = DueFrom[r]
    <3>1. CASE phase[r] = "task_log"
      BY <2>1, <2>4, <3>1, CostIsDue
    <3>2. CASE phase[r] = "send_error"
      BY <2>1, <2>4, <3>2 DEF ChargeOf, DueFrom
    <3>3. QED
      BY <2>2, <3>1, <3>2
  <2>7. Billed'[r] = Billed[r]
    <3>1. phase[r] = "send_error" => DueFrom[r] = 0
      BY DEF ChargeOf, DueFrom
    <3>2. QED
      BY <2>2, <2>5, <3>1 DEF Billed
  <2>8. QED
    BY <2>2, <2>5, <2>6, <2>7 DEF Charges, ChargeOf, TaskPhases, Complete
<1>6. CASE RecordCost(r)
  <2>1. /\ phase[r] = "cost" /\ phase'[r] = "task_log"
        /\ UNCHANGED <<input, upstream, received>>
    BY <1>6 DEF RecordCost
  <2>2. spent' = spent + DueFrom[r]
    BY <1>6, <2>1, CostIsDue DEF RecordCost
  <2>3. DueFrom' = DueFrom
    BY <2>1 DEF DueFrom
  <2>4. QED
    BY <2>1, <2>2, <2>3 DEF Charges, ChargeOf, Billed, TaskPhases, Complete
<1>7. CASE ClientReads(r) \/ ClientLeaves(r)
  <2>1. CASE phase[r] \in HandlerPhases /\ ClientLeaves(r)
    BY <2>1, HandlerCharges DEF ClientLeaves, Idle
  <2>2. CASE UNCHANGED <<phase, input, upstream, received, logs, spent>>
    BY <2>2 DEF Charges, ChargeOf, Billed, DueFrom, LoggedCost
  <2>3. QED
    BY <1>7, <2>1, <2>2 DEF ClientReads, ClientLeaves
<1>8. QED
  BY <1>1, <1>2, <1>3, <1>4, <1>5, <1>6, <1>7 DEF RequestStep, GatewayStep, UpstreamStep
LEMMA ChargeStep == CacheInv /\ LogInv /\ ChargeInv /\ [Next]_vars => ChargeInv'
<1> SUFFICES ASSUME CacheInv, LogInv, ChargeInv, [Next]_vars PROVE ChargeInv'
  OBVIOUS
<1>1. ASSUME NEW r \in Requests, RequestStep(r) PROVE ChargeInv'
  <2>1. OthersStay(r) /\ Charges(r)
    BY <1>1, StepShape, ChargeMove DEF CacheInv, ChargeInv
  <2>2. \A q \in Requests \ {r} : logs'[q] = logs[q]
    <3>1. LogMoves(r) \/ logs' = logs
      BY <1>1, StepLogs DEF RequestStep, ClientReads
    <3>2. QED
      BY <3>1 DEF LogMoves, LogInv
  <2>3. \A q \in Requests \ {r} : ChargeOf(q)' /\ Billed'[q] = Billed[q]
    <3>1. ASSUME NEW q \in Requests \ {r}
          PROVE  DueFrom'[q] = DueFrom[q] /\ LoggedCost'[q] = LoggedCost[q]
      BY <2>1, <2>2 DEF OthersStay, DueFrom, LoggedCost
    <3>2. QED
      BY <2>1, <3>1 DEF OthersStay, ChargeOf, ChargeInv, Billed
  <2>4. \A q \in Requests : ChargeOf(q)'
    BY <2>1, <2>3 DEF Charges
  <2>5. \A q \in Requests : DueFrom[q] \in Int /\ Billed[q] \in Int
    BY DueIsCount DEF ChargeInv
  <2>6. PICK f, g, due : f = Billed /\ g = Billed' /\ due = DueFrom[r]
    OBVIOUS
  <2>7. IsFiniteSet(Requests) /\ \A q \in Requests : f[q] \in Int
    BY <2>5, <2>6, PipelineAssumption
  <2>8. CASE spent' = spent /\ Billed'[r] = Billed[r]
    <3>1. \A q \in Requests : g[q] = f[q]
      BY <2>3, <2>6, <2>8
    <3>2. SumOf(g, Requests) = SumOf(f, Requests)
      BY <2>7, <3>1, SumOfSame
    <3>3. QED
      BY <2>4, <2>6, <2>8, <3>2 DEF ChargeInv
  <2>9. CASE spent' = spent + DueFrom[r] /\ Billed[r] = 0 /\ Billed'[r] = DueFrom[r]
    <3>1. due \in Int /\ \A q \in Requests : g[q] = IF q = r THEN f[q] + due ELSE f[q]
      BY <2>3, <2>5, <2>6, <2>9
    <3>2. SumOf(g, Requests) = SumOf(f, Requests) + due
      BY <2>7, <3>1, SumOfUpdate
    <3>3. QED
      BY <2>4, <2>6, <2>9, <3>2 DEF ChargeInv
  <2>10. QED
    BY <2>1, <2>8, <2>9 DEF Charges
<1>2. CASE UNCHANGED <<input, phase, upstream, received, logs, spent>>
  <2>1. Billed' = Billed /\ DueFrom' = DueFrom /\ LoggedCost' = LoggedCost
    BY <1>2 DEF Billed, DueFrom, LoggedCost
  <2>2. QED
    BY <1>2, <2>1 DEF ChargeInv, ChargeOf
<1>3. QED
  BY <1>1, <1>2 DEF Next, Finished, Expire, RequestStep, vars, task

\* When all requests are over, the budget counter is the sum of the costs in the
\* log and of what the whole, successful, priced responses cost: no charge is
\* lost or made twice, in any interleaving and whenever clients leave (proxy.rs;
\* compute_cost and record_cost in the spawned task).
THEOREM EveryChargeOnce == Spec => []ChargedOnce
<1>1. Init => CacheInv /\ LogInv
  BY DEF Init, CacheInv, Shape, BodyOf, AllPhases, TaskPhases, LogInv, LogOf, Idle
<1>2. Init => ChargeInv
  <2> SUFFICES ASSUME Init PROVE ChargeInv
    OBVIOUS
  <2>1. \A r \in Requests : ChargeOf(r) /\ Billed[r] = 0
    BY DEF Init, ChargeOf, Billed, TaskPhases, Complete
  <2>2. SumOf(Billed, Requests) = 0
    BY <2>1, SumOfZeros, PipelineAssumption
  <2>3. QED
    BY <2>1, <2>2 DEF Init, ChargeInv
<1>3. ChargeInv => ChargedOnce
  <2> SUFFICES ASSUME ChargeInv, \A r \in Requests : phase[r] = "done"
               PROVE  spent = SumOf(LoggedCost, Requests) /\ spent = SumOf(DueFrom, Requests)
    BY DEF ChargedOnce, SumOf
  <2>1. \A r \in Requests : Billed[r] \in Int /\ LoggedCost[r] = Billed[r] /\ DueFrom[r] = Billed[r]
    BY DueIsCount DEF ChargeInv, ChargeOf, Billed
  <2>2. QED
    BY <2>1, SumOfSame, PipelineAssumption DEF ChargeInv
<1>4. QED
  BY <1>1, <1>2, <1>3, CacheStep, LogStep, ChargeStep, PTL DEF Spec
=============================================================================
