--------------------------- MODULE ProxyPipeline ---------------------------
(***************************************************************************)
(* proxy_inner and the task it spawns (gateway-api/src/routes/proxy.rs):   *)
(* several requests share the concurrency limit, the response cache, the   *)
(* budget and the log.  Up to the spawn a request runs in the connection's *)
(* future, which is dropped at its current await when the client leaves;   *)
(* the spawned task drains the upstream to the end whatever the client     *)
(* does.  A body is a number of equal chunks; its size caps are in chunks, *)
(* and the chunk a line of it ends in is in ResponseUsage.                 *)
(*                                                                         *)
(* check_limits is its abstract specification, Semaphore, for one rule     *)
(* (RateLimiter refines it), execute_chain is its result (ProviderChain),  *)
(* and log.submit is the record handed to the log store.                   *)
(***************************************************************************)
EXTENDS Integers, Sequences, FiniteSetsExt, ResponseUsage

CONSTANTS
  Requests,     \* request identities, each used once
  Inputs,       \* what may arrive: a set of records, see RequestType
  Keys,         \* cache keys
  Responses,    \* what execute_chain may return: see IsResponse
  MaxInFlight,  \* the concurrency cap of the rule
  BudgetAmount, \* spend at which the block threshold is crossed
  MAX_LOG_BODY_BYTES, MAX_CACHEABLE_BODY_BYTES, PROXY_BODY_CHANNEL

\* What arrives: whether find_route finds a route; the cache settings of that
\* route; the header X-Gateway-Cache, and whether X-Gateway-Cache-Force is set; a
\* body that is not JSON, asks for one answer, or for sampling; its fingerprint;
\* whether the catalog prices its model.
RequestType ==
  [routed : BOOLEAN, enabled : BOOLEAN, allow_nondeterministic : BOOLEAN,
   header : {"bypass", "refresh", "only", "only-if-cached", "other", None},
   force : BOOLEAN, body : {"not_json", "deterministic", "sampled"}, key : Keys,
   priced : BOOLEAN]

\* A request as proxy_inner keeps it, with the directive of its cache policy
\* (None: the route does not cache) and whether its body may be cached.
InputType ==
  [routed : BOOLEAN,
   directive : {"Default", "Bypass", "Refresh", "OnlyIfCached", None},
   cacheable : BOOLEAN, key : Keys, priced : BOOLEAN]

\* CachePolicy::from_headers, but for the ttl and the scope.
directive(q) ==
  CASE ~q.enabled -> None
    [] q.enabled /\ q.header = "bypass" -> "Bypass"
    [] q.enabled /\ q.header = "refresh" -> "Refresh"
    [] q.enabled /\ q.header \in {"only", "only-if-cached"} -> "OnlyIfCached"
    [] q.enabled /\ q.header \in {"other", None} -> "Default"

body_is_cacheable(q) ==
  \/ q.body = "deterministic"
  \/ q.body = "sampled" /\ (q.allow_nondeterministic \/ q.force)

WithPolicy(q) ==
  [routed |-> q.routed, directive |-> directive(q),
   cacheable |-> q.enabled /\ body_is_cacheable(q), key |-> q.key, priced |-> q.priced]

\* What a response, of which a number of chunks is at hand, shows of its usage and
\* of its id.
UsageOf ==
  [response \in Responses |->
     [n \in 0..response.len |-> extract_token_usage(Held(response.lines, n))]]
IdOf ==
  [response \in Responses |->
     [n \in 0..response.len |-> extract_response_id(Held(response.lines, n))]]

\* compute_cost at one unit per token; a count that is unknown is 0.
CostOf(usage) == FirstOf(<<usage.prompt, 0>>) + FirstOf(<<usage.completion, 0>>)

\* An upstream response: 2xx or not, its length, its lines.  The counts it
\* reports, wherever it is cut, are naturals.
IsResponse(response) ==
  /\ response.success \in BOOLEAN /\ response.len \in Nat \ {0}
  /\ \A n \in 0..response.len : CostOf(UsageOf[response][n]) \in Nat

ASSUME PipelineAssumption ==
  /\ IsFiniteSet(Requests)
  /\ Inputs \subseteq RequestType
  /\ \A response \in Responses : IsResponse(response)
  /\ MaxInFlight \in Nat
  /\ BudgetAmount \in Nat
  /\ MAX_LOG_BODY_BYTES \in Nat
  /\ MAX_CACHEABLE_BODY_BYTES \in Nat
  /\ PROXY_BODY_CHANNEL \in Nat \ {0}
  /\ None \notin Nat \cup Responses

VARIABLES
  input,     \* the request, None until it arrives
  phase,     \* where its handler or its task is
  client,    \* "here" or "gone"
  slots,     \* the requests that hold a RatePermit
  status,    \* cache_status
  upstream,  \* the response of execute_chain
  received,  \* chunks the task took from the upstream
  kept,      \* cache_chunks, as a count
  oversize,  \* cache_oversize
  queued,    \* chunks in the body channel
  logs,      \* records submitted for the request
  cache,     \* the response cache, by key
  replayed,  \* the entry a hit is answered with
  spent      \* the budget's counter

vars == <<input, phase, client, slots, status, upstream, received, kept, oversize,
          queued, logs, cache, replayed, spent>>

\* The spawned task owns these; a handler step leaves them alone.
task == <<received, kept, oversize, queued>>

\* check_limits for one rule, as RateLimiter implements it.
Limiter == INSTANCE Semaphore
             WITH Permits <- Requests, granted <- slots,
                  ScopeOf <- LAMBDA r : "rule", CapOf <- LAMBDA r : MaxInFlight

HandlerPhases == {"body", "budget", "limit", "route", "lookup", "chain"}
TaskPhases == {"stream", "send", "send_error", "write_back", "reconcile", "cost",
               "task_log"}

\* A log record: its id, and the tokens and the cost it reports.
Rec(id, usage, cost) ==
  [id |-> id, tokens |-> usage, total |-> total_tokens(usage), cost |-> cost]

\* The record of a request that ended without an upstream response.
Refusal == Rec("request_id", NoUsage, None)

Goto(r, p) == phase' = [phase EXCEPT ![r] = p]

\* Mutant: the permit is leaked on early returns.
ReturnKeepsPermit(r, rec) ==
  /\ logs' = [logs EXCEPT ![r] = Append(@, rec)]
  /\ Goto(r, "done")
  /\ UNCHANGED slots

\* log.submit, which never waits, and the return, which drops the permit.
LogAndReturn(r, rec) ==
  /\ logs' = [logs EXCEPT ![r] = Append(@, rec)]
  /\ slots' = slots \ {r}
  /\ Goto(r, "done")

----------------------------------------------------------------------------
Init ==
  /\ input = [r \in Requests |-> None]
  /\ phase = [r \in Requests |-> "new"]
  /\ client = [r \in Requests |-> "here"]
  /\ slots = {}
  /\ status = [r \in Requests |-> None]
  /\ upstream = [r \in Requests |-> None]
  /\ received = [r \in Requests |-> 0]
  /\ kept = [r \in Requests |-> 0]
  /\ oversize = [r \in Requests |-> FALSE]
  /\ queued = [r \in Requests |-> 0]
  /\ logs = [r \in Requests |-> <<>>]
  /\ cache = [k \in Keys |-> None]
  /\ replayed = [r \in Requests |-> None]
  /\ spent = 0

\* The router calls proxy_handler, which waits for the body.
Arrive(r, q) ==
  /\ phase[r] = "new"
  /\ input' = [input EXCEPT ![r] = WithPolicy(q)]
  /\ Goto(r, "body")
  /\ UNCHANGED <<client, slots, status, upstream, task, logs, cache,
                 replayed, spent>>

\* read_body; a body that cannot be read ends the request before there is a
\* LogBuilder.
ReadBody(r) ==
  /\ phase[r] = "body"
  /\ \E p \in {"budget", "done"} : Goto(r, p)
  /\ UNCHANGED <<input, client, slots, status, upstream, task, logs, cache,
                 replayed, spent>>

Blocked == spent >= BudgetAmount

CheckBlock(r) ==
  /\ phase[r] = "budget"
  /\ \/ /\ Blocked
        /\ LogAndReturn(r, Refusal)
     \/ /\ ~Blocked
        /\ Goto(r, "limit")
        /\ UNCHANGED <<slots, logs>>
  /\ UNCHANGED <<input, client, status, upstream, task, cache,
                 replayed, spent>>

\* check_limits: a permit, or the 429 return.
CheckLimits(r) ==
  /\ phase[r] = "limit"
  /\ \/ /\ Limiter!Grant(r)
        /\ Goto(r, "route")
        /\ UNCHANGED logs
     \/ /\ Cardinality(slots) >= MaxInFlight
        /\ LogAndReturn(r, Refusal)
  /\ UNCHANGED <<input, client, status, upstream, task, cache, replayed,
                 spent>>

\* The cache status when no lookup is needed.
StatusWithoutLookup(i) ==
  IF i.directive = None \/ ~i.cacheable THEN "Disabled" ELSE i.directive

LooksUp(i) == i.cacheable /\ i.directive \in {"Default", "OnlyIfCached"}

\* Past the cache: only-if-cached ends here, whatever made it a miss.
PastCache(r) ==
  \/ /\ input[r].directive = "OnlyIfCached"
     /\ LogAndReturn(r, Refusal)
  \/ /\ input[r].directive # "OnlyIfCached"
     /\ Goto(r, "chain")
     /\ UNCHANGED <<slots, logs>>

\* The 404 return: an unknown namespace is refused, with the permit in hand.
NoRoute(r) ==
  /\ ~input[r].routed
  /\ LogAndReturn(r, Refusal)
  /\ UNCHANGED status

\* find_route, the cache policy, and the arms that do not read the cache.
ResolveRoute(r) ==
  LET i == input[r]
  IN /\ phase[r] = "route"
     /\ \/ NoRoute(r)
        \/ /\ i.routed /\ LooksUp(i)
           /\ Goto(r, "lookup")
           /\ UNCHANGED <<slots, logs, status>>
        \/ /\ i.routed /\ ~LooksUp(i)
           /\ status' = [status EXCEPT ![r] = StatusWithoutLookup(i)]
           /\ PastCache(r)
     /\ UNCHANGED <<input, client, upstream, task, cache, replayed,
                    spent>>

\* kv.get: a hit is logged, with the usage of the whole cached body, and replayed;
\* an absent or unreadable entry, or a failing store, is a miss.
Hit(r) ==
  LET entry == cache[input[r].key]
      usage == UsageOf[upstream[entry.writer]][entry.chunks]
  IN /\ phase[r] = "lookup"
     /\ entry # None
     /\ status' = [status EXCEPT ![r] = "Hit"]
     /\ replayed' = [replayed EXCEPT ![r] = entry]
     /\ LogAndReturn(r, Rec("request_id", usage, 0))
     /\ UNCHANGED <<input, client, upstream, task, cache, spent>>

\* A hit whose preview for the log would be cut: the cut may fall inside a
\* character, and then the handler panics before it logs.  The connection ends
\* and the permit is dropped as the stack unwinds.
HitPanics(r) ==
  LET entry == cache[input[r].key]
  IN /\ phase[r] = "lookup"
     /\ entry # None /\ entry.chunks > MAX_LOG_BODY_BYTES
     /\ status' = [status EXCEPT ![r] = "Hit"]
     /\ client' = [client EXCEPT ![r] = "gone"]
     /\ slots' = slots \ {r}
     /\ Goto(r, "done")
     /\ UNCHANGED <<input, upstream, task, logs, cache, replayed, spent>>

Miss(r) ==
  /\ phase[r] = "lookup"
  /\ status' = [status EXCEPT ![r] = "Miss"]
  /\ PastCache(r)
  /\ UNCHANGED <<input, client, upstream, task, cache, replayed, spent>>

\* execute_chain failed.
ChainFails(r) ==
  /\ phase[r] = "chain"
  /\ LogAndReturn(r, Refusal)
  /\ UNCHANGED <<input, client, status, upstream, task, cache,
                 replayed, spent>>

\* execute_chain returned a response: spawn the task and answer the client.
ChainAnswers(r, response) ==
  /\ phase[r] = "chain"
  /\ upstream' = [upstream EXCEPT ![r] = response]
  /\ Goto(r, "stream")
  /\ UNCHANGED <<input, client, slots, status, task, logs, cache, replayed,
                 spent>>

----------------------------------------------------------------------------
(* The spawned task.                                                       *)

CacheShouldWrite(r) ==
  /\ status[r] \in {"Miss", "Refresh"}
  /\ upstream[r].success
  /\ input[r].cacheable

\* The next chunk arrived: capture it, keep it for the cache, send it on.
Chunk(r) ==
  LET total == received[r] + 1
      fits == total <= MAX_CACHEABLE_BODY_BYTES
  IN /\ phase[r] = "stream"
     /\ received[r] < upstream[r].len
     /\ received' = [received EXCEPT ![r] = total]
     /\ \/ /\ CacheShouldWrite(r) /\ ~oversize[r]
           /\ oversize' = [oversize EXCEPT ![r] = ~fits]
           /\ kept' = [kept EXCEPT ![r] = IF fits THEN @ + 1 ELSE 0]
        \/ /\ ~(CacheShouldWrite(r) /\ ~oversize[r])
           /\ UNCHANGED <<oversize, kept>>
     /\ Goto(r, "send")
     /\ UNCHANGED <<input, client, slots, status, upstream, queued, logs,
                    cache, replayed, spent>>

\* tx.send: waits for room while the client is there, fails at once when it is
\* gone; the loop goes on in both cases.
Send(r) ==
  /\ phase[r] = "send"
  /\ \/ /\ client[r] = "here" /\ queued[r] < PROXY_BODY_CHANNEL
        /\ queued' = [queued EXCEPT ![r] = @ + 1]
     \/ client[r] = "gone" /\ UNCHANGED queued
  /\ Goto(r, "stream")
  /\ UNCHANGED <<input, client, slots, status, upstream, received, kept, oversize,
                 logs, cache, replayed, spent>>

\* The upstream stream failed.
Break(r) ==
  /\ phase[r] = "stream"
  /\ received[r] < upstream[r].len
  /\ Goto(r, "send_error")
  /\ UNCHANGED <<input, client, slots, status, upstream, task, logs,
                 cache, replayed, spent>>

\* What there is room for of the first n chunks.
Room(n) == IF n <= MAX_LOG_BODY_BYTES THEN n ELSE MAX_LOG_BODY_BYTES

\* The id in the stored record: the response's own if the capture shows one.
LogId(r) == FirstOf(<<IdOf[upstream[r]][Room(received[r])], "request_id">>)

\* The error goes down the channel too, then the task logs and returns: no
\* write-back, no reconciliation, no cost.
SendError(r) ==
  /\ phase[r] = "send_error"
  /\ \/ /\ client[r] = "here" /\ queued[r] < PROXY_BODY_CHANNEL
        /\ queued' = [queued EXCEPT ![r] = @ + 1]
     \/ client[r] = "gone" /\ UNCHANGED queued
  /\ LogAndReturn(r, Rec(LogId(r), NoUsage, None))
  /\ UNCHANGED <<input, client, status, upstream, received, kept, oversize, cache,
                 replayed, spent>>

\* Mutant: write-back does not look at cache_oversize.
WritesAnyway(r) == CacheShouldWrite(r)

Writes(r) == CacheShouldWrite(r) /\ ~oversize[r]

EndOfStream(r) ==
  /\ phase[r] = "stream"
  /\ received[r] = upstream[r].len
  /\ Goto(r, IF Writes(r) THEN "write_back" ELSE "reconcile")
  /\ UNCHANGED <<input, client, slots, status, upstream, task, logs, cache,
                 replayed, spent>>

\* kv.put, which may fail.
WriteBack(r) ==
  LET entry == [writer |-> r, chunks |-> kept[r]]
  IN /\ phase[r] = "write_back"
     /\ \E put \in {cache, [cache EXCEPT ![input[r].key] = entry]} : cache' = put
     /\ Goto(r, "reconcile")
     /\ UNCHANGED <<input, client, slots, status, upstream, task, logs,
                    replayed, spent>>

\* The usage the capture shows.
Usage(r) == UsageOf[upstream[r]][Room(received[r])]

\* reconcile_tokens consumes the permit.
Reconcile(r) ==
  /\ phase[r] = "reconcile"
  /\ slots' = slots \ {r}
  /\ Goto(r, "cost")
  /\ UNCHANGED <<input, client, status, upstream, task, logs, cache,
                 replayed, spent>>

\* Mutant: error responses are charged too.
CostOfAny(r) == IF input[r].priced THEN CostOf(Usage(r)) ELSE None

\* compute_cost, for a success of a priced model.
Cost(r) == IF upstream[r].success /\ input[r].priced THEN CostOf(Usage(r)) ELSE None

RecordCost(r) ==
  /\ phase[r] = "cost"
  /\ spent' = spent + (IF Cost(r) = None THEN 0 ELSE Cost(r))
  /\ Goto(r, "task_log")
  /\ UNCHANGED <<input, client, slots, status, upstream, task, logs, cache,
                 replayed>>

\* The task submits the record and ends.
SubmitAndEnd(r) ==
  /\ phase[r] = "task_log"
  /\ LogAndReturn(r, Rec(LogId(r), Usage(r), Cost(r)))
  /\ UNCHANGED <<input, client, status, upstream, task, cache, replayed, spent>>

----------------------------------------------------------------------------
(* The environment.                                                        *)

\* The client takes a chunk.
ClientReads(r) ==
  /\ client[r] = "here" /\ queued[r] > 0
  /\ queued' = [queued EXCEPT ![r] = @ - 1]
  /\ UNCHANGED <<input, phase, client, slots, status, upstream, received, kept,
                 oversize, logs, cache, replayed, spent>>

\* Mutant: the permit belongs to the handler, so it goes with the connection.
LeavesWithPermit(r) ==
  /\ client[r] = "here" /\ phase[r] \in HandlerPhases \cup TaskPhases
  /\ client' = [client EXCEPT ![r] = "gone"]
  /\ queued' = [queued EXCEPT ![r] = 0]
  /\ slots' = slots \ {r}
  /\ Goto(r, IF phase[r] \in HandlerPhases THEN "done" ELSE phase[r])
  /\ UNCHANGED <<input, status, upstream, received, kept, oversize, logs,
                 cache, replayed, spent>>

\* Mutant: the task stops when the client is gone.
LeavesWithTask(r) ==
  /\ client[r] = "here" /\ phase[r] \in HandlerPhases \cup TaskPhases
  /\ client' = [client EXCEPT ![r] = "gone"]
  /\ queued' = [queued EXCEPT ![r] = 0]
  /\ slots' = slots \ {r}
  /\ Goto(r, "done")
  /\ UNCHANGED <<input, status, upstream, received, kept, oversize, logs,
                 cache, replayed, spent>>

\* The client disconnects.  A handler is dropped where it waits, with its permit
\* and its record; a spawned task only loses its receiver.
ClientLeaves(r) ==
  /\ client[r] = "here" /\ phase[r] \in HandlerPhases \cup TaskPhases
  /\ client' = [client EXCEPT ![r] = "gone"]
  /\ queued' = [queued EXCEPT ![r] = 0]
  /\ \/ /\ phase[r] \in HandlerPhases
        /\ Goto(r, "done")
        /\ slots' = slots \ {r}
     \/ /\ phase[r] \in TaskPhases
        /\ UNCHANGED <<phase, slots>>
  /\ UNCHANGED <<input, status, upstream, received, kept, oversize, logs,
                 cache, replayed, spent>>

\* The ttl of an entry ran out, or it was evicted.
Expire(k) ==
  /\ cache[k] # None
  /\ cache' = [cache EXCEPT ![k] = None]
  /\ UNCHANGED <<input, phase, client, slots, status, upstream, task, logs,
                 replayed, spent>>

Finished == (\A r \in Requests : phase[r] = "done") /\ UNCHANGED vars

\* Steps that need only the gateway; Send waits for the client.
GatewayStep(r) ==
  \/ ReadBody(r) \/ CheckBlock(r) \/ CheckLimits(r) \/ ResolveRoute(r)
  \/ Hit(r) \/ HitPanics(r) \/ Miss(r) \/ Send(r) \/ SendError(r)
  \/ WriteBack(r) \/ Reconcile(r) \/ RecordCost(r) \/ SubmitAndEnd(r)

\* Steps the upstream decides.
UpstreamStep(r) ==
  \/ ChainFails(r) \/ Chunk(r) \/ Break(r) \/ EndOfStream(r)
  \/ \E response \in Responses : ChainAnswers(r, response)

Next ==
  \/ \E r \in Requests :
       \/ \E q \in Inputs : Arrive(r, q)
       \/ GatewayStep(r) \/ UpstreamStep(r) \/ ClientReads(r) \/ ClientLeaves(r)
  \/ \E k \in Keys : Expire(k)
  \/ Finished

Spec == Init /\ [][Next]_vars

\* Tasks that can run are polled, upstreams answer, deliver and end or fail, and
\* a client reads what is there for it or goes away.
FairSpec ==
  /\ Spec
  /\ \A r \in Requests :
       /\ WF_vars(GatewayStep(r))
       /\ WF_vars(UpstreamStep(r))
       /\ WF_vars(ClientReads(r))

----------------------------------------------------------------------------
(***************************************************************************)
(* Properties                                                              *)
(***************************************************************************)
\* Requests with an upstream call open: never more than the concurrency rule
\* allows, although a client may be long gone while its task drains the
\* upstream; and once a request is over its slot is free.
Upstreaming == {r \in Requests : phase[r] \in {"chain", "stream", "send"}}
UpstreamBounded ==
  /\ Cardinality(Upstreaming) <= MaxInFlight
  /\ \A r \in slots : phase[r] # "done"

\* What the cache holds, and what a hit replays, is the complete body of a
\* successful response to a request with the same fingerprint that was allowed
\* to write, and no larger than the cap; never the part of a broken stream.
CompleteEntry(entry, k) ==
  LET w == entry.writer
  IN /\ input[w].key = k
     /\ input[w].cacheable /\ input[w].directive \in {"Default", "Refresh"}
     /\ upstream[w].success
     /\ entry.chunks = upstream[w].len
     /\ entry.chunks <= MAX_CACHEABLE_BODY_BYTES
CacheComplete ==
  /\ \A k \in Keys : cache[k] # None => CompleteEntry(cache[k], k)
  /\ \A r \in Requests :
       replayed[r] # None => CompleteEntry(replayed[r], input[r].key)

\* A request leaves at most one log record; one that got a response from an
\* upstream leaves exactly one, even if its client left in the middle.
LoggedOnce ==
  \A r \in Requests :
    /\ Len(logs[r]) <= 1
    /\ (phase[r] = "done" /\ upstream[r] # None) => Len(logs[r]) = 1

\* Once all requests are over, the budget counter is the sum of the costs in the
\* log, and it is what the complete, successful, priced responses cost as far
\* as their usage was seen: nothing is charged twice, or for a broken or failed
\* response, and no client escapes a charge by leaving.
LoggedCost ==
  [r \in Requests |-> IF logs[r] = <<>> \/ logs[r][1].cost = None THEN 0
                      ELSE logs[r][1].cost]
DueFrom ==
  [r \in Requests |->
     IF /\ upstream[r] # None /\ upstream[r].success /\ input[r].priced
        /\ received[r] = upstream[r].len
     THEN CostOf(UsageOf[upstream[r]][Room(upstream[r].len)]) ELSE 0]
ChargedOnce ==
  (\A r \in Requests : phase[r] = "done") =>
    /\ spent = MapThenSumSet(LAMBDA r : LoggedCost[r], Requests)
    /\ spent = MapThenSumSet(LAMBDA r : DueFrom[r], Requests)

\* The response a record speaks of: the request's own, or the one a hit replays.
Source(r) == IF replayed[r] = None THEN upstream[r] ELSE upstream[replayed[r].writer]

\* What an upstream reported of each field: the latest line that names it counts.
Reported ==
  [response \in Responses |->
     [f \in DOMAIN NoUsage |->
        LET report == [i \in DOMAIN response.lines |-> from_value(response.lines[i].json)[f]]
            says == {i \in DOMAIN report : report[i] # None}
        IN IF says = {} THEN None ELSE report[Max(says)]]]

\* A response that arrived whole and fits the capture is logged with what the
\* upstream reported last of each field, however its reports are spread over
\* events; and a hit is logged with that of the whole body, even if the record of
\* the response itself was cut (extract_token_usage).
UsageReported ==
  \A r \in Requests : \A i \in DOMAIN logs[r] :
    (\/ replayed[r] # None
     \/ /\ upstream[r] # None /\ received[r] = upstream[r].len
        /\ upstream[r].len <= MAX_LOG_BODY_BYTES) =>
      logs[r][i].tokens = Reported[Source(r)]

\* The counts an upstream reports never go down in a response; then no record has
\* more tokens, of a kind or in all, than its upstream reported, also if the
\* capture ends between two reports or the stream breaks.
NotOverstated ==
  LET within(n, most) == n # None => most # None /\ n <= most
  IN \A r \in Requests : \A i \in DOMAIN logs[r] :
       Source(r) # None =>
         LET reported == Reported[Source(r)]
         IN /\ \A f \in DOMAIN NoUsage : within(logs[r][i].tokens[f], reported[f])
            /\ within(logs[r][i].total, total_tokens(reported))

\* A response is known by one id: the record of one that was cut or that broke has
\* the id the whole response has, or the request's own if the capture shows none.
OneId ==
  \A r \in Requests : \A i \in DOMAIN logs[r] :
    upstream[r] # None =>
      logs[r][i].id \in {IdOf[upstream[r]][upstream[r].len], "request_id"}

\* A slot that was taken is given back, if upstreams end and clients read or
\* leave.
SlotsFreed == \A r \in Requests : r \in slots ~> r \notin slots
=============================================================================
