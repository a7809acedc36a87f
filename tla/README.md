# Verification of sag, the AI API gateway

TLA+ models of the gateway's core, TLC runs that check them on small instances,
and TLAPS proofs of the most important safety properties for every instance.
Paths below are relative to `src/crates/`. `PROJECT.json` maps every definition
to the lines it models and lists runs, mutants, findings, hazards and theorems.

## The system

A client calls `/v1/:namespace/*tail` with a gateway key. The handler blocks it
if a budget is spent, applies the rate limits, finds a route, answers from the
cache or tries the route's provider chain, and spawns a task that streams the
upstream's body to the client while it captures it for the log, the cache, the
token reconciliation and the cost. A file watcher reloads the configuration and
keeps the seeded keys of the database in line with it; an admin API manages
keys, prices and accounts.

| component | state | operations | what is hard | what makes it correct |
|---|---|---|---|---|
| rate limiter: `gateway-api/src/ratelimit.rs`, counters in `gateway-storage/src/memory/mod.rs` | window counters, slot counters, the permit of each request | `check_limits`, `reconcile_tokens`, drop | concurrent counter operations, early returns in the middle of the rules, minute rollover, reload | slots counted exactly, caps kept, charges balanced, slots returned |
| provider chain: `gateway-core/src/proxy/{executor,retry,fallback,engine}.rs` | entry, attempt, last outcome / response / error | forward, retry, fall back, answer | many outcome classes, limits at 0, several places to keep the last result | fallbacks justified, a final result ends its entry, retry limit, right answer and provider name |
| proxy pipeline: `gateway-api/src/routes/proxy.rs`, `logging.rs`, `tokens.rs` | handler or task position, permit, chunks kept and queued, cache, budget, log | one step per await | client disconnects at every await, back-pressure, broken streams, concurrent writers of one cache key, a capture cut anywhere | concurrency bounded, cache holds complete bodies, logged and charged once, usage and id read off the capture as the upstream sent them |
| budgets: `gateway-api/src/budget.rs` | spend per budget and period, dedupe set | `check_block`, `record_cost` | concurrent crossings, failing store, period rollover, truncated percentages | each match charged, each threshold fires once and only when reached, block holds |
| log store: `gateway-storage/src/sqlite/logs.rs` (Postgres is the same) | channel, buffer, table | `append`, `flush`, batch worker | full channel, failing insert, biased select, shutdown | nothing lost but in the known ways, flush is durable, everything settles |
| gateway keys and reload: `gateway-api/src/{reload,seed_keys}.rs`, `routes/admin/keys.rs`, `sqlite/metadata.rs` | file, published configuration, key table, watcher | edit, reload, apply, publish, create, revoke, restart | partial apply, crash in the middle, check-then-act, events during a reload | admin keys untouched, table follows file, edits published |
| response cache: `gateway-storage/src/sqlite/kv.rs`, `gateway-core/src/cache/` | L1 in memory, L2 in a table, the evictor's tick | `get`, `put`, evict, fingerprint | tiers touched one after the other, refill against refresh, expired-row deletion by key, failing statements, restarts | a hit answers the same request with the last value put, live rows stay, expired rows go |
| Redis slots: `gateway-storage/src/redis/counter.rs` | one key with a value and a time to live | INCR, EXPIRE, compare, DECR, release in a detached task | commands of several gateways interleave, fail or vanish with their gateway; the key expires under permits | counter exact, cap kept, denials justified |
| pricing and log costs: `gateway-core/src/pricing/`, `gateway-api/src/routes/admin/{pricing,logs}.rs`, `sqlite/logs.rs` | feed, file, override table, catalog in force, costs of the log | price edit, refresh, recompute sweep, paged query, restart | overlapping names, refresh of concurrent edits, a sweep among new records and edits, late rows while paging | catalog follows the edits, names resolve to their model, sweeps settle, pages complete |
| admin accounts, provider adapters, queries, metrics, UI | none of their own, or plain rows | | single-request computations, I/O | not modelled |

The pipeline calls the limiter, the chain, the budgets and the log store; it
shares the cache with all requests. The reload task replaces the configuration
the limiter and the budgets read. Price edits replace the catalog the pipeline
prices with, and the sweep rewrites costs the pipeline logged.

## Modules

- `Semaphore`: what a concurrency limit promises, as a set of granted permits.
- `RateLimiter`: `check_limits` rule by rule. One action per counter operation
  (`CheckRpm`, `CheckTpm`, `RollBackTpm`, `TryAcquire`, `Reconcile`, `Release`);
  a check is a pair of rule index and metric, and `pending`, `held` and
  `reserved` are what the loop has left and what `RatePermit` holds. The `i64 as
  u64` casts are kept (`AsU64`). `counted`, `passed`, `charged`, `settled` and
  `rejection` are history. It implements `Semaphore` with the outstanding
  permits as `granted` (`ImplementsSemaphore`).
- `ProviderChain`: `execute_chain` of one request; `Answered(result)` is one
  `engine.forward` with everything that follows it up to the next await.
- `ProxyPipeline`: `proxy_inner` and its task for several requests. It composes
  `Semaphore` for `check_limits`; the result of the chain is a choice from
  `Responses`, and the log store is the sequence of submitted records. A body is
  a number of chunks, and the size caps are in chunks. `log.submit` never waits,
  so submitting, dropping the permit and returning are one step. A hit may panic
  while its preview is cut (`HitPanics`): the release profile unwinds, so the permit
  is dropped and no record is left. A request arrives as its header, its body and
  the settings of its route; `directive` and `body_is_cacheable` make its cache policy.
- `ResponseUsage`: what `tokens.rs` reads off a captured body, as operators. A body is a
  sequence of lines with their ends, an event holds a JSON object as a function of its
  fields, and a line that is cut is not read. `ProxyPipeline` logs and charges by it:
  the task what it captured (`Room`), a hit the whole cached body.
- `Budget`: `check_block` and `record_cost` with one action per counter
  operation, threshold and webhook. Amounts are integers and thresholds
  percentages; `Bucket` is what `(at * 100.0) as u32` does to a percentage. Names of
  budgets are unique, so its index stands for the name of a budget. In Redis a recording
  is INCRBYFLOAT and then EXPIRE, so it may fail with the cost counted or not
  (`RecordFails`); `told` is history, the last total a recording was answered with.
- `LogBatch`: channel, worker, table and the process around them.
- `GatewayKeys`: the file, the watcher's `apply` key by key, publication, admin
  calls and restarts. An apply ends at the first key or project that fails
  (`Upsert`, `StoreFails`) and keeps what it has written.
- `Fingerprint`: the cache key as the sequence of the bytes `fingerprint` hashes,
  tags and 8-byte lengths included; BLAKE3 is taken to be free of collisions. A JSON
  value is a number, larger than those of its members; `Json` gives its parts, and
  distinct values have distinct numbers. Namespace, endpoint and scope are followed
  by separators and not by lengths. Nothing is assumed of their bytes: the scope is
  a header of the client and the endpoint a decoded path, and either may hold a `|`.
  `Target` is what the hasher sees of the two, and `Plain` says that no `|` is in them.
- `ResponseCache`: `SqliteKvStore` under the requests that use it, one action per
  tier and statement, failures included; a client is one request. `latest` and
  `tainted` are history: the last value put, and whether that put overlapped a
  call that had already read or written a tier. Time is `clock`, and an L1 entry
  lives `L1_TTL` whatever its ttl. An expiry time past `I64_MAX` wraps.
- `RedisCounter`: one slot key, one action per Redis command, and each command's
  failure with and without effect. `drifted` is history: a lost command, or an
  expiry under a slot, since the key last expired with nothing in flight.
- `PriceCatalog`: `parse_openrouter`, `with_overrides`, `lookup`, `apply` as operators.
  What the code asks of a name's text (last segment, date suffix, variant) is a
  constant function on names.
- `CostLedger`: price edits, requests that are logged at the price of the moment,
  the recompute sweep, the page walk and restarts over `PriceCatalog`. The sweep
  prices with the expression of its UPDATE (`sql_cost`) and requests with the
  calculator's (`apply`); the proofs show that they agree. Rates and
  costs are exact integers where the code has f64. An edit that stored its row may
  fail or be dropped before it has refreshed the catalog (`failed`). That `flush` leaves nothing of
  before in transit is `LogBatch!FlushDurable`; here `SweepLoad` waits for it. One
  sweep and one walk run at a time. A page is the rows by their rank in the order
  of the query (`Rank`, `Page`), at most `Limit` of them.
- `Option`: `Option<T>`, shared by the modules that run side by side.
- `MC*`: the constants of the runs. `MCCounters` and `MCLimiterAndLog` put two
  components that share no state side by side in one run: `subject` says which one a
  behaviour is of, and the other one rests in its initial state, where no step that
  fairness is about is enabled. `*Proofs`: the theorems; those of `LogBatch`,
  `RedisCounter` and `CostLedger` are in `StorageProofs`. `FiniteSums`: the sum
  of a function over a finite set, and the lemmas the proofs need of it.

In every module the definitions commented "Mutant" are variants with a plausible
bug; `PROJECT.json` names the property each one breaks.

## Runs

Passing runs, with the bounds that matter:

| run | instance | shows |
|---|---|---|
| `limiter_and_log` | limiter: 2 requests, 2 keys, per-key, project and global rules in 2 configurations swapped by reloads, 2 windows; log: 3 records with a repeated id, 2 flushes, channel 2, batch 2, inserts that may fail | slots exact, concurrency and rpm caps kept, semaphore implemented, tpm ledger balances, every permit comes back; loss, durability and settling of the log |
| `provider_chain` | 21 chains of 1 to 3 entries, `max_attempts` 0 to 2, 7 statuses, timeouts, network errors, an unknown provider | fallback, retry and answer properties; every chain can go on until it has answered |
| `proxy_pipeline` | 2 requests, 8 kinds of request, 4 responses (documents and streams of three providers' shapes, usage at once or spread, several ids), log cap 1, cache cap 2, channel 1, 1 slot, budget 1 | slot bound, cache contents, log records and charging under disconnects; usage is the last captured report of each field, nothing overstated by a cut, one id; slots are freed |
| `counters` | budgets: 3 recordings, 1 check, 2 overlapping budgets (one without a target and with two thresholds in one bucket, one for a key without an amount and with a threshold at 0), 2 periods, a store that may fail before or after it counts; slots: 3 requests for 2 slots, any number of times each, 1 fault, life of 2 ticks, 2^32 as 8 | thresholds, charges, block; counter, cap and denials |
| `gateway_keys` | 6 files, 3 ids, 2 projects, 1 revoking admin, restarts anywhere, a database that may fail, under fairness | sync, admin rows, edits are published |
| `response_cache` | 3 requests over 2 keys, with `\|` in paths and scopes, ttl 0 and beyond the i64 range, 1 tick, 1 restart, eviction of 1 row at a time | an answer is for its body, last put wins, live rows stay, expired rows go |
| `cost_ledger` | 3 records of 2 cost keys, one served from the cache with more cached tokens than prompt, inserts that may fail, 2 windows, 1 restart, any 2 of two edits, a sweep and a walk; 8 feed models (variant, repeated id, missing id, unusable prices, shared short names, an id with a name of its own), 2 providers, edits of ids, slugs and short names | catalog follows the edits, names resolve to their model, sweep and paging |

The bounds are small but reach every branch: a cap of 1 or 2 with more requests
than slots; bodies below, at and above each size cap; a window and a period that
roll over once, which is all a charge and its reconciliation can straddle (a
second rollover repeats the first); a channel and a batch that fill up; a file
for each way an apply can end. Requests, records and calls act once each (except
for the slots of `counters`, where requests return), so their number bounds every history
variable. In `cost_ledger` `MaxCalls` lets any two of the admin calls overlap; the
third adds no new pair. In `counters` `MaxDebt` bounds how far an expired
counter may go below zero.

These runs are expected to fail; each shows one place where the code does not do
what a comment or a document says, which its finding quotes:

| run | property | what happens |
|---|---|---|
| `rate_limiter_locked` | `BucketNotLocked` | a refund that lands in a fresh window makes its count negative, and the cast then rejects requests under the cap |
| `provider_chain_fallback` | `FallbackTaken` | a non-retryable failure ends the request, although the next entry's trigger list is empty or names it |
| `response_cache_scope` | `TargetSeparates` | path `/e\|x` with scope `y` and path `/e` with scope `x\|y` share an entry |
| `response_cache_ttl` | `TtlRespected` | an L1 hit is not checked against its expiry and L1 keeps entries for a day |
| `redis_counter_lockout` | `DeniedOnlyAtCap` | the key expires under held permits, their releases make it negative, and `v as u32` then denies requests with nothing in flight |

Other disagreements met while modelling, which the models reproduce and no run
singles out. First those of a document's or a comment's words with the code:

- `gateway-storage/src/traits.rs:82` says of flush "Called on shutdown"; `main`
  returns without it (`gateway-bin/src/main.rs:149`), with records in transit
  (`Exit`, `Close`).
- `routes/admin/keys.rs:91` and `docs/src/configuration.md:151` leave config keys to the
  file; a revoke that looked before a key was seeded (`keys.rs:133`) revokes it
  (`RevokeCheck`, `Revoke`).
- `docs/src/configuration.md:152` says that keys taken out of the file go; only
  projects the file still mentions, and the default one, are pruned (`seed_keys.rs:85`),
  so the last key of another project stays active (`ToPrune`).
- `docs/src/configuration.md:342` gives each threshold its webhook; of those at 28
  and 29 percent one is never called, since `(0.29 * 100.0) as u32` is 28
  (`budget.rs:118`, `Bucket`).
- `docs/src/configuration.md:360` says that a budget without a target does nothing;
  it counts every request (`budget.rs:50`, `Matches`).
- `docs/src/architecture.md:28` has usage read from the response; past the captured
  64 KB it is not seen and the request costs nothing (`proxy.rs:372`, `:452`, `Room`).
- `docs/src/configuration.md:389` and `admin-api.md:263` have a price edit take effect
  at once; of two overlapping edits the older snapshot may be stored last and stay in
  force (`routes/admin/pricing.rs:34`, `Store`).

And, in short: the token estimate of a dropped permit stays charged
(`TpmLedgerBalances` counts it); rules of one kind share a counter (`ScopeOf`); a
target's model goes to the trace and not upstream; `request_timeout_ms` is not
enforced; a namespace without a route is refused with 404 (`ResolveRoute`) where the
architecture document uses it as a provider; a body that cannot be read, and a
client that leaves before the upstream answers, leave no log record (`ReadBody`,
`ClientLeaves`); one repeated id fails the insert of a whole batch (`Conflicts`); a
configuration is published although its keys could not be written (`ApplyFails`); an
edit during start-up raises no event (`Edit`); the stored record takes the provider's
response id instead of the id of the response header (`LogId`); a slot leaked in
Redis does not expire while other requests keep renewing the key (`Expire`), though
the comment says it would; edits reach no other replica before its restart; the
provider of a cost key is `COALESCE(fallback_used, last attempt, namespace)`
(`resolve_provider`, as the SQL and the request itself have it) where the comment at
`traits.rs:58` leaves the last attempt out; the sweep gives a cost to failed responses
that reported usage (`recompute_costs`); a page holds up to 500 records (`Limit`) where
the document says 200; the PostgreSQL query ignores its cursor, and the in-process
store returns none; an aggregate over more than 500 groups understates its total;
the preview of a cached body may be cut inside a character, which panics
(`HitPanics`).

Some faults the models have and no document speaks of, so that no run singles them
out: a refill of L1 that crosses a put, a delete by key that crosses a put, and puts
that overlap (`tainted` in `ResponseCache` marks their keys, and the properties show
that nothing else goes wrong); in Redis a threshold that only an increment without an
answer has reached, which fires with the next recording or never (`told` in
`FiredIffCrossed`); a request whose upstream is silent for ever, or whose
client neither reads nor leaves, keeps its slot (`SlotsFreed` assumes it away).

## Fairness

Liveness runs assume only what the scheduling gives: weak fairness of the steps
of a task that waits for nobody (Tokio polls a woken task), and of the log worker
and the watcher as tasks. `ProxyPipeline!FairSpec` adds that upstreams answer, deliver
and end or fail and that a client reads or leaves: without it the code gives no guarantee, since the HTTP client
has no timeout but that of the connection. `GatewayKeys` takes strong
fairness for the load after the debounce (its deadline is fixed, so more
events cannot put it off). `RateLimiter!FairSpec` assumes nothing of the upstream.
`ResponseCache!FairSpec` takes weak fairness for the evictor's interval and strong
fairness for its DELETE: the loop outlives an error, and the statement is taken
not to fail for ever. Nothing is assumed there of requests.

## Proofs

`RateLimiterProofs`, for any finite set of requests, any configurations and any
reloads, from the named assumption `ConstantsAssumption`:

- `TypeCorrect`, `SlotAccounting` (counter = outstanding permits),
  `ConcurrencyBound` (no rule above its cap), `SemaphoreRefinement` (implements
  `Semaphore`), `RpmBound` (at most rpm acceptances per rule, scope and window),
  `TpmAccounting` (each token counter is the sum of what is owed to it).

`SlotsMatchPermits` is not inductive alone: a step that grants or drops a permit
must know that the check was not held before, or was. `Shape` adds that pending
and held checks are disjoint and that an idle request has none. From it the
lemma on permit steps says that each step changes the outstanding permits and
the counters not at all, by one grant below its cap, or by one return; the rest
is the cardinality of a set with one element more or less. For `RpmBound` the
count of acceptances is bounded by the counter of the window. `TpmShape` adds for
`TpmAccounting` that what a permit still has to reconcile was charged and not
settled, so that each counter operation changes exactly one summand.

`ProviderChainProofs`, for any chains and statuses, from `ChainsAssumption` and
`NoneAssumption` (no result is `None`): `TypeCorrect`, `FallbacksAreJustified`,
`FinalsAreNotRepeated`, `AttemptsAreBounded`, `AnswerIsFromTrace`. Fallbacks and final
results speak of neighbouring attempts, a step sees only `idx` and `last_outcome`;
`ChainInv` adds which attempt the trace ends with in each phase, and that nothing
settled the request before the chain is finished. `CountInv` adds that the
attempts of the entry at hand are the number the retry loop has counted, those of
an entry left behind all it had, and those of the later entries none; `AnswerInv`
that the kept response is the one the latest entry to end with a response left,
and the kept error that of the last attempt.

`GatewayKeysProofs`, for any files, ids, projects and admins, from
`KeysAssumption`: `TypeCorrect`, `AdminKeysKept` (the action property
`AdminRowsKept`) and `TableInSync` (`InSync`). The types are not inductive alone: the projects left to prune are
those of the file being applied, so `KeysInv` adds that none is left outside the
prune loop, which a failing apply leaves too. `SyncInv` follows the apply through its two loops: what is written
already agrees with the file and what is left is still listed, since no admin
call changes the origin, project or secret of a seeded key.

`StorageProofs` on `RedisCounter` (`SlotSpec`), for any number of requests, any cap, life and number of
faults, from `RedisAssumption` (fewer than 2^32 requests): `RedisSlotsExact` and
`RedisDeniedAtCap`. `SlotsExact` is not inductive: a request that has incremented
and not compared yet is decided already. `Winners` adds to the held slots those
that will pass the comparison, and `Exact` bounds them by the cap: an INCR that
returns a value within the cap shows that all that is counted is within it, and
one that returns more adds no winner.

`StorageProofs` on `LogBatch` (`LogSpec`), for any records, ids, flushes, channel capacity and batch size,
whether or not inserts fail, from `LogBatchAssumption`: `NoOtherLoss` and
`FlushIsDurable`. Neither property is inductive. `Once` adds that a command is in
the channel once and a record in one place only, so that a batch that fails holds
nothing that is elsewhere; `Queued` and `Taken` add that nothing behind a flush in
the channel is something it waits for, and that a flush the worker took waits for
the buffer only, which is empty when it is answered.

`ProxyPipelineProofs`, for any requests, responses, caps and channel, from
`PipelineAssumption`: `UpstreamsAreBounded`, `CacheIsComplete`, `LoggedExactlyOnce`,
`EveryChargeOnce`. `SlotInv` says in which phases a request holds a permit.
`LogInv` ties the records of a request to its phase: none before the step that
submits, one after it, none for the exits that leave none. `CacheInv` says that
what the task has captured is a prefix of what the upstream sent, whole once the
stream has ended, so that what it writes is complete whoever wrote the key
before. `ChargeInv` says that the budget is the sum over the requests of what each
has been billed so far, which the logged and the due costs equal at the end.

`BudgetProofs`, for any list of budgets, callers and costs, with a store that may
fail at every operation, from `BudgetAssumption`:

- `BlocksOnceCrossed`, `MatchesAreCharged`, `FiresIffCrossed`: all three properties
  of the run.

All rest on `WalkInv`: a call in its loop is at a budget that matches it, and
moving on skips none that does. `KnownInv` says that a budget that blocked when a
check began has not been passed by it, unless its period ended or the store did
not answer; a counter never shrinks, so the check meets it as it was or above.
`PaidInv` says that the counters of a budget, over all periods, are the sum of the
costs of the calls past it. `FireInv` has three parts: the dedupe set is the set
of points fired, one firing for each; what a spender saw is at most the counter;
and a threshold that the counter has crossed has fired, or the very spender whose
increment made the counter what it is has yet to come to it. The last part is why
a threshold cannot be lost between two concurrent recordings; it is about totals a
recording was told (`told`), since nobody acts on an increment whose answer was lost.

`StorageProofs` on `CostLedger` (`Spec`), for any feed, price file, edits, traffic,
windows, filters, page size and numbers of calls and restarts, from
`CatalogAssumption` and `LedgerAssumption`:

- `CatalogFollowsTable` (`CatalogCurrent`), `SweepSettlesCosts` (`RecomputeSettles`),
  `CostsOnlyRepriced` (the action property `OnlyRepriced`), `WalksAreComplete`
  (`PagesComplete`).

`CatalogInv` adds to `CatalogCurrent` that edits run one at a time and that an edit
about to store has listed what the table holds, unless something crossed: an edit
that overlapped, failed after its write or was dropped there. `SqlAgrees` shows that the
UPDATE of the sweep, which lacks the `max` of the calculator, computes the same cost for
the token counts a record can have. `LedgerInv` adds what a sweep relies on: every record was answered by the
provider it was priced with, so that `resolve_provider` finds the provider of the
request; the costs of a success are those at its entry; what was logged when the
sweep was called is stored once flush has returned; and a row of the window is at
the price the sweep finds or its key is still to come. That a lookup yields a
price of the feed, the file or an edit (`PricesFound`) holds whatever the feed
leaves in the catalog. `WalkInv` says that what is listed is sorted and stored, and
that what was there at first and is not listed comes after the cursor. Rows are
added and repriced between pages, never moved: a step keeps the request of every
row. `RankOrder` shows that ranks number a finite set of rows without a gap and in
order, an injection into as many numbers, and so that a page leaves out only rows
after its last.

`ResponseCacheProofs`, for any clients, requests, lifetimes, times and restarts,
from `CacheAssumption` and `JsonAssumption`:

- `CacheServesLatest` (`ServesLatest`) and `CacheKeepsLiveRows` (`LiveRowKept`), action
  properties, from `CacheInvariant`; `CacheAnswersItsRequest` (`AnswersItsRequest`),
  from `CacheOrigins`.

`ServesLatest` speaks of one read; `CacheInv` adds that in a key nobody is writing
and nothing has tainted both tiers agree with the last put or are empty, that a
get about to refill or delete has seen the row of that put, and that a put under
way is the last one. `Origins` says that all that is stored or held under a key was
put by a request with that key. It remains that equal keys come from equal
requests (`KeysApart`). The recursion over JSON values has a solution because a
value's number is above those of its members, shown by induction on a bound on
the numbers (`SetInduction`). `BodiesApart` shows that the encoding is a prefix
code, by the same induction: the tag and the length prefixes say where each part
ends, and lengths below 2^64 are told apart by their eight bytes. Before the body
nothing has a length, but the namespace is also in the clear in the key: so two
requests with one key have one namespace, one body if endpoint and scope read the
same when joined, and are the same altogether if no `|` is in endpoint and scope.
`AnswersItsRequest` says no more than that, for whatever bytes a client puts in path
and header; `response_cache_scope` shows what it leaves open. The proof rests on
two facts about the world outside the model: BLAKE3 has no collisions, and lengths fit
64 bits.

`FiniteSums` makes the results on sums possible. The provers cannot
instantiate an induction theorem with a formula, so `SetInduction` states
induction over the numbers for a set, from the existence of least elements
(`WFMin`), and each lemma is an induction on cardinality in that form: a sum has
its type, changes by d when one summand does, splits at one element, and does
not depend on summands that are 0.

Only model-checked: the liveness properties (fairness is out of the prover's
reach), `UsageReported`, `NotOverstated`, `OneId` and `LookupSound`. The first three are
about a fold over the events of a body, and the last depends on what a fold over the feed leaves in the
catalog: inductions over a sequence with an operator as its step, which the
provers lack. `LookupSound` is a statement about the feed of the run, chosen to have every
kind of overlap between names. All other properties of the passing runs are
theorems.

## Not modelled

Header filtering, provider adapters, the compressed encoding of
cache entries, hashing, encryption and tokens of admin accounts: computations
over one request. Aggregations, cost reports, metrics and the UI: they only
read. The Postgres stores are taken to be their SQLite twins, except where noted
above. The Redis and in-process cache stores have one tier and no evictor of
their own; of Redis' window counters only what the in-process ones do is modelled.
`purge_older_than` and the cache's `delete` have no caller. Floating-point costs are
integers.

## Plan

1. (done) RateLimiter and Semaphore, ProviderChain, ProxyPipeline, Budget,
   LogBatch, GatewayKeys, ResponseCache with Fingerprint, RedisCounter,
   CostLedger with PriceCatalog, ResponseUsage.
2. (done) The safety properties of all components for every instance, but for
   `LookupSound` and those about usage and ids.
3. `ProxyPipeline` over `ResponseCache` instead of one map.
