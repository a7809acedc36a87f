---------------------------- MODULE RateLimiter ----------------------------
(***************************************************************************)
(* check_limits, RatePermit and the in-process counter store they run on   *)
(* (gateway-api/src/ratelimit.rs, gateway-storage/src/memory/mod.rs).      *)
(*                                                                         *)
(* Several requests run check_limits concurrently.  A request walks the    *)
(* checks of the configuration it took a snapshot of, in configuration     *)
(* order and within one rule in the order rpm, tpm, concurrency.  Each     *)
(* counter operation is one step (it is one critical section of the store) *)
(* and other requests, the minute rollover and a configuration reload may  *)
(* happen between two of them.                                             *)
(***************************************************************************)
EXTENDS Integers, Sequences, FiniteSetsExt, Folds, Functions, Option

CONSTANTS
  Requests,                 \* request identities, each used for one request
  KeyOf, ProjectOf,         \* the gateway key and the project of a request
  Versions,                 \* configurations that reload may switch between
  InitialVersion,
  Limits,                   \* Limits[v]: the limits[] array of version v
  DEFAULT_TOKEN_PREDEDUCT,  \* tokens charged up-front
  TokenUsages,              \* total token counts an upstream may report
  WordSize,                 \* 2^64, the span of the `as u64` cast
  MaxWindow                 \* bound: minute windows 0..MaxWindow

Metric == {"rpm", "tpm", "concurrency"}

Scope == ({"key"} \X Range(KeyOf)) \cup ({"project"} \X Range(ProjectOf))
           \cup {<<"global", "*">>}

LimitConfig ==
  [kind : {"key", "project", "global", "metadata"},
   id   : Range(KeyOf) \cup Range(ProjectOf) \cup {"*"},
   cap  : [Metric -> Nat \cup {None}]]

ASSUME ConstantsAssumption ==
  /\ IsFiniteSet(Requests)
  /\ DOMAIN KeyOf = Requests /\ DOMAIN ProjectOf = Requests
  /\ InitialVersion \in Versions
  /\ Limits \in [Versions -> Seq(LimitConfig)]
  /\ None \notin Nat
  /\ DEFAULT_TOKEN_PREDEDUCT \in Nat
  /\ TokenUsages \subseteq Nat
  /\ WordSize \in Nat
  /\ MaxWindow \in Nat

Window == 0..MaxWindow

(***************************************************************************)
(* A check is one counter operation a rule asks for: <<rule, metric>>.     *)
(***************************************************************************)
Check == (Nat \ {0}) \X Metric

Rank == [m \in Metric |-> CASE m = "rpm" -> 1 [] m = "tpm" -> 2 [] OTHER -> 3]

\* Checks run rule by rule, and within a rule rpm, then tpm, then concurrency.
Precedes(c, d) == c[1] < d[1] \/ (c[1] = d[1] /\ Rank[c[2]] < Rank[d[2]])

\* The rule's target covers the request; a missing id is the pattern "*", and
\* a kind other than key, project and global matches nothing.
Applies(limit, r) ==
  \/ limit.kind = "key" /\ limit.id \in {"*", KeyOf[r]}
  \/ limit.kind = "project" /\ limit.id \in {"*", ProjectOf[r]}
  \/ limit.kind = "global"

\* The counter a rule uses is named by the kind and the REQUEST's key or
\* project, not by the rule: rules of one kind share their counters.
ScopeOf(limit, r) ==
  CASE limit.kind = "key"     -> <<"key", KeyOf[r]>>
    [] limit.kind = "project" -> <<"project", ProjectOf[r]>>
    [] OTHER                  -> <<"global", "*">>

ChecksOf(v, r) ==
  {c \in (1..Len(Limits[v])) \X Metric :
     /\ Applies(Limits[v][c[1]], r)
     /\ Limits[v][c[1]].cap[c[2]] # None}

----------------------------------------------------------------------------
VARIABLES
  config,       \* version in the ArcSwap<Config>
  window,       \* now / WINDOW_MS
  windows,      \* MemoryCounterStore.windows, by metric, scope and window
  concurrency,  \* MemoryCounterStore.concurrency, by scope
  pc,           \* where each request is
  snapshot,     \* the version it works with
  pending,      \* checks it still has to run
  held,         \* concurrency permits it holds, by check
  reserved,     \* RatePermit.tpm_reservations, by check
  usage,        \* total tokens its response reported
  counted,      \* history: rpm increments <<request, check, window>>
  passed,       \* history: those increments the rpm check accepted
  charged,      \* history: tpm checks that reserved tokens
  settled,      \* history: reservations reconciled with the real usage
  rejection     \* history: the check that rejected the request, and its count

store == <<windows, concurrency>>
history == <<counted, passed, charged, settled, rejection>>
vars == <<config, window, store, pc, snapshot, pending, held, reserved, usage,
          history>>

WindowKey == {"rpm", "tpm"} \X Scope \X Window

ScopeFor(r, c) == ScopeOf(Limits[snapshot[r]][c[1]], r)
CapFor(r, c) == Limits[snapshot[r]][c[1]].cap[c[2]]

\* i64 as u64: negative counts become huge.
AsU64(n) == IF n < 0 THEN n + WordSize ELSE n

\* Mutant: compares the count from before the increment.
OverCapBefore(count, cap) == AsU64(count - 1) > cap

OverCap(count, cap) == AsU64(count) > cap

\* Mutant: one slot too many.
FullBeyond(inUse, cap) == inUse > cap

\* No slot is left for try_acquire_concurrency.
Full(inUse, cap) == inUse >= cap

\* Mutant: the permit is released both explicitly and by Drop.
ReleasedTwice(inUse) == IF inUse < 2 THEN 0 ELSE inUse - 2

\* saturating_sub(1) in the Drop closure of a permit.
SlotReleased(inUse) == IF inUse = 0 THEN 0 ELSE inUse - 1

\* incr_window: the counter of the window that is current NOW.
Counter(metric, scope) == windows[<<metric, scope, window>>]
IncrWindow(metric, scope, by) ==
  windows' = [windows EXCEPT ![<<metric, scope, window>>] = @ + by]

\* The next check of the walk.
Current(r, c) ==
  /\ c \in pending[r]
  /\ \A d \in pending[r] \ {c} : Precedes(c, d)

----------------------------------------------------------------------------
Init ==
  /\ config = InitialVersion
  /\ window = 0
  /\ windows = [k \in WindowKey |-> 0]
  /\ concurrency = [s \in Scope |-> 0]
  /\ pc = [r \in Requests |-> "idle"]
  /\ snapshot = [r \in Requests |-> InitialVersion]
  /\ pending = [r \in Requests |-> {}]
  /\ held = [r \in Requests |-> {}]
  /\ reserved = [r \in Requests |-> {}]
  /\ usage = [r \in Requests |-> 0]
  /\ counted = {}
  /\ passed = {}
  /\ charged = [r \in Requests |-> {}]
  /\ settled = [r \in Requests |-> {}]
  /\ rejection = [r \in Requests |-> None]

\* Mutant: later steps read the live configuration of an earlier time.
StartNoSnapshot(r) ==
  /\ pc[r] = "idle"
  /\ pc' = [pc EXCEPT ![r] = "checking"]
  /\ pending' = [pending EXCEPT ![r] = ChecksOf(config, r)]
  /\ UNCHANGED <<config, window, store, snapshot, held, reserved, usage, history>>

\* proxy_inner takes its configuration snapshot and calls check_limits.
Start(r) ==
  /\ pc[r] = "idle"
  /\ pc' = [pc EXCEPT ![r] = "checking"]
  /\ snapshot' = [snapshot EXCEPT ![r] = config]
  /\ pending' = [pending EXCEPT ![r] = ChecksOf(config, r)]
  /\ UNCHANGED <<config, window, store, held, reserved, usage, history>>

Reject(r, c, count) ==
  /\ pc' = [pc EXCEPT ![r] = IF c[2] = "tpm" THEN "rollback" ELSE "releasing"]
  /\ rejection' = [rejection EXCEPT ![r] =
                     [check |-> c, count |-> count, window |-> window]]

Proceed(r, c) ==
  /\ pending' = [pending EXCEPT ![r] = @ \ {c}]
  /\ UNCHANGED <<pc, rejection>>

\* The rpm check: count the request, then compare.  A rejected request stays
\* counted.
CheckRpm(r, c) ==
  LET s == ScopeFor(r, c)
      count == Counter("rpm", s) + 1
  IN /\ pc[r] = "checking" /\ Current(r, c) /\ c[2] = "rpm"
     /\ IncrWindow("rpm", s, 1)
     /\ counted' = counted \cup {<<r, c, window>>}
     /\ \/ /\ OverCap(count, CapFor(r, c))
           /\ Reject(r, c, count)
           /\ UNCHANGED <<pending, passed>>
        \/ /\ ~OverCap(count, CapFor(r, c))
           /\ Proceed(r, c)
           /\ passed' = passed \cup {<<r, c, window>>}
     /\ UNCHANGED <<config, window, concurrency, snapshot, held, reserved,
                    usage, charged, settled>>

\* The tpm check: charge the estimate, then compare; over the cap the charge
\* is rolled back in a second counter operation.
CheckTpm(r, c) ==
  LET s == ScopeFor(r, c)
      count == Counter("tpm", s) + DEFAULT_TOKEN_PREDEDUCT
  IN /\ pc[r] = "checking" /\ Current(r, c) /\ c[2] = "tpm"
     /\ IncrWindow("tpm", s, DEFAULT_TOKEN_PREDEDUCT)
     /\ \/ /\ OverCap(count, CapFor(r, c))
           /\ Reject(r, c, count)
           /\ UNCHANGED <<pending, reserved, charged>>
        \/ /\ ~OverCap(count, CapFor(r, c))
           /\ Proceed(r, c)
           /\ reserved' = [reserved EXCEPT ![r] = @ \cup {c}]
           /\ charged' = [charged EXCEPT ![r] = @ \cup {c}]
     /\ UNCHANGED <<config, window, concurrency, snapshot, held, usage,
                    counted, passed, settled>>

RollBackTpm(r, c) ==
  /\ pc[r] = "rollback" /\ Current(r, c)
  /\ IncrWindow("tpm", ScopeFor(r, c), -DEFAULT_TOKEN_PREDEDUCT)
  /\ pc' = [pc EXCEPT ![r] = "releasing"]
  /\ UNCHANGED <<config, window, concurrency, snapshot, pending, held, reserved,
                 usage, history>>

\* try_acquire_concurrency: compare and increment under one lock.
TryAcquire(r, c) ==
  LET s == ScopeFor(r, c)
  IN /\ pc[r] = "checking" /\ Current(r, c) /\ c[2] = "concurrency"
     /\ \/ /\ Full(concurrency[s], CapFor(r, c))
           /\ Reject(r, c, concurrency[s])
           /\ UNCHANGED <<concurrency, pending, held>>
        \/ /\ ~Full(concurrency[s], CapFor(r, c))
           /\ Proceed(r, c)
           /\ concurrency' = [concurrency EXCEPT ![s] = @ + 1]
           /\ held' = [held EXCEPT ![r] = @ \cup {c}]
     /\ UNCHANGED <<config, window, windows, snapshot, reserved, usage, counted,
                    passed, charged, settled>>

\* Every rule passed: Ok(RatePermit), and the request is served.
Admit(r) ==
  /\ pc[r] = "checking" /\ pending[r] = {}
  /\ pc' = [pc EXCEPT ![r] = "serving"]
  /\ UNCHANGED <<config, window, store, snapshot, pending, held, reserved,
                 usage, history>>

\* The stream ended: reconcile_tokens(usage.total or 0).
Complete(r, tokens) ==
  /\ pc[r] = "serving"
  /\ pc' = [pc EXCEPT ![r] = "reconciling"]
  /\ usage' = [usage EXCEPT ![r] = tokens]
  /\ UNCHANGED <<config, window, store, snapshot, pending, held, reserved,
                 history>>

\* The permit is dropped without reconcile_tokens: cache hit, no route,
\* only-if-cached miss, chain error, broken stream, client gone.
Abandon(r) ==
  /\ pc[r] = "serving"
  /\ pc' = [pc EXCEPT ![r] = "releasing"]
  /\ UNCHANGED <<config, window, store, snapshot, pending, held, reserved,
                 usage, history>>

\* Mutant: adds the usage on top of the estimate.
UsageInFull(r) == usage[r]

Delta(r) == usage[r] - DEFAULT_TOKEN_PREDEDUCT

\* One round of the loop of reconcile_tokens: the difference goes to the window
\* that is current now, which need not be the one that was charged.
Reconcile(r, c) ==
  /\ pc[r] = "reconciling"
  /\ c \in reserved[r]
  /\ \A d \in reserved[r] \ {c} : Precedes(c, d)
  /\ IncrWindow("tpm", ScopeFor(r, c), Delta(r))
  /\ reserved' = [reserved EXCEPT ![r] = @ \ {c}]
  /\ settled' = [settled EXCEPT ![r] = @ \cup {c}]
  /\ UNCHANGED <<config, window, concurrency, pc, snapshot, pending, held,
                 usage, counted, passed, charged, rejection>>

\* Mutant: the permit outlives reconcile_tokens and is forgotten.
ReconciledForgets(r) ==
  /\ pc[r] = "reconciling" /\ reserved[r] = {}
  /\ pc' = [pc EXCEPT ![r] = "done"]
  /\ UNCHANGED <<config, window, store, snapshot, pending, held, reserved,
                 usage, history>>

\* reconcile_tokens returns: the rest of the permit is dropped.
Reconciled(r) ==
  /\ pc[r] = "reconciling" /\ reserved[r] = {}
  /\ pc' = [pc EXCEPT ![r] = "releasing"]
  /\ UNCHANGED <<config, window, store, snapshot, pending, held, reserved,
                 usage, history>>

\* Dropping the Vec<ConcurrencyPermit>: each permit's closure in turn.
Release(r, c) ==
  LET s == ScopeFor(r, c)
  IN /\ pc[r] = "releasing"
     /\ c \in held[r]
     /\ \A d \in held[r] \ {c} : Precedes(c, d)
     /\ concurrency' = [concurrency EXCEPT ![s] = SlotReleased(@)]
     /\ held' = [held EXCEPT ![r] = @ \ {c}]
     /\ UNCHANGED <<config, window, windows, pc, snapshot, pending, reserved,
                    usage, history>>

Released(r) ==
  /\ pc[r] = "releasing" /\ held[r] = {}
  /\ pc' = [pc EXCEPT ![r] = "done"]
  /\ UNCHANGED <<config, window, store, snapshot, pending, held, reserved,
                 usage, history>>

\* The clock enters the next minute.
NextMinute ==
  /\ window < MaxWindow
  /\ window' = window + 1
  /\ UNCHANGED <<config, store, pc, snapshot, pending, held, reserved, usage,
                 history>>

\* try_reload stores another configuration; requests keep their snapshot.
Reload(v) ==
  /\ v # config
  /\ config' = v
  /\ UNCHANGED <<window, store, pc, snapshot, pending, held, reserved, usage,
                 history>>

\* All requests are over and no clock tick is left within the bound.
Idle ==
  /\ \A r \in Requests : pc[r] = "done"
  /\ UNCHANGED vars

\* What a request does on its own; serving ends when the upstream lets it.
Work(r) ==
  \/ \E c \in pending[r] :
       CheckRpm(r, c) \/ CheckTpm(r, c) \/ RollBackTpm(r, c) \/ TryAcquire(r, c)
  \/ \E c \in reserved[r] : Reconcile(r, c)
  \/ \E c \in held[r] : Release(r, c)
  \/ Admit(r) \/ Reconciled(r) \/ Released(r)

Next ==
  \/ \E r \in Requests :
       \/ Start(r) \/ Work(r) \/ Abandon(r)
       \/ \E tokens \in TokenUsages : Complete(r, tokens)
  \/ NextMinute
  \/ \E v \in Versions : Reload(v)
  \/ Idle

Spec == Init /\ [][Next]_vars

\* The runtime polls a task that is not waiting for anyone: none of the steps
\* of Work waits (the store's locks are held for a few instructions).  Nothing
\* is assumed of the upstream, the client, the clock or the operator.
LimiterFairness == \A r \in Requests : WF_vars(Work(r))

FairSpec == Spec /\ LimiterFairness

----------------------------------------------------------------------------
(***************************************************************************)
(* Properties                                                              *)
(***************************************************************************)
Phase == {"idle", "checking", "rollback", "serving", "reconciling",
          "releasing", "done"}

\* Every variable of the limiter has the type of its Rust counterpart.
TypeOK ==
  /\ config \in Versions
  /\ window \in Window
  /\ windows \in [WindowKey -> Int]
  /\ concurrency \in [Scope -> Nat]
  /\ pc \in [Requests -> Phase]
  /\ snapshot \in [Requests -> Versions]
  /\ \A r \in Requests :
       /\ pending[r] \subseteq ChecksOf(snapshot[r], r)
       /\ held[r] \subseteq ChecksOf(snapshot[r], r)
       /\ reserved[r] \subseteq ChecksOf(snapshot[r], r)
  /\ DOMAIN pending = Requests /\ DOMAIN held = Requests
  /\ DOMAIN reserved = Requests
  /\ usage \in [Requests -> Nat]
  /\ passed \subseteq counted

\* A concurrency permit: the request, the configuration and the check that
\* acquired it.
Permits ==
  UNION {UNION {{<<r, v, c>> : c \in ChecksOf(v, r)} : v \in Versions} :
           r \in Requests}
PermitScope(p) == ScopeOf(Limits[p[2]][p[3][1]], p[1])
PermitCap(p) == Limits[p[2]][p[3][1]].cap[p[3][2]]

Outstanding == {p \in Permits : p[2] = snapshot[p[1]] /\ p[3] \in held[p[1]]}
Occupying(s) == {p \in Outstanding : PermitScope(p) = s}

\* The u32 of try_acquire_concurrency is exactly the number of permits that
\* requests hold: no early return of check_limits leaks a slot, and no Drop
\* gives one back twice (where saturating_sub would hide it).
SlotsMatchPermits ==
  \A s \in Scope : concurrency[s] = Cardinality(Occupying(s))

\* Under one rule, never more requests of a scope hold a permit than the rule
\* allows, whatever other rules share the counter, and across reloads.
SameRule(p) ==
  {q \in Occupying(PermitScope(p)) : q[2] = p[2] /\ q[3] = p[3]}
ConcurrencyRespected ==
  \A p \in Outstanding : Cardinality(SameRule(p)) <= PermitCap(p)

\* The rpm check of one rule accepts at most rpm requests of a scope in one
\* minute window, however the increments of concurrent requests interleave.
AcceptedBy(r, c, w) ==
  {x \in passed : /\ x[2] = c /\ x[3] = w
                  /\ snapshot[x[1]] = snapshot[r]
                  /\ ScopeFor(x[1], c) = ScopeFor(r, c)}
RpmRespected ==
  \A x \in passed :
    Cardinality(AcceptedBy(x[1], x[2], x[3])) <= CapFor(x[1], x[2])

\* The tpm counters of a scope, summed over all windows, are the real usage of
\* the requests that were reconciled plus the estimate of every other one that
\* was charged and not rolled back: the counter operations of check_limits and
\* reconcile_tokens lose or double nothing, in whichever window they land.
Charges(s) ==
  {x \in UNION {{r} \X charged[r] : r \in Requests} : ScopeFor(x[1], x[2]) = s}
RollingBack(s) ==
  {r \in Requests : /\ pc[r] = "rollback"
                    /\ \E c \in pending[r] : Current(r, c) /\ ScopeFor(r, c) = s}
Ledger(s) == [w \in Window |-> windows[<<"tpm", s, w>>]]
Owed(s) ==
  [x \in Charges(s) |->
     IF x[2] \in settled[x[1]] THEN usage[x[1]] ELSE DEFAULT_TOKEN_PREDEDUCT]
TpmLedgerBalances ==
  \A s \in Scope :
    MapThenSumSet(LAMBDA w : Ledger(s)[w], Window)
      = MapThenSumSet(LAMBDA x : Owed(s)[x], Charges(s))
        + DEFAULT_TOKEN_PREDEDUCT * Cardinality(RollingBack(s))

Sem == INSTANCE Semaphore WITH granted <- Outstanding, ScopeOf <- PermitScope,
                               CapOf <- PermitCap

\* try_acquire_concurrency and the Drop of its permits implement a counting
\* semaphore per scope.
ImplementsSemaphore == Sem!Spec

\* A request that was rejected, dropped or completed gives every slot back.
PermitsReturned ==
  \A r \in Requests : pc[r] \in {"rollback", "reconciling", "releasing"}
                        ~> pc[r] = "done" /\ held[r] = {}

(***************************************************************************)
(* What the repository says of the limiter and the code does not do.       *)
(***************************************************************************)
\* "roll back the prededuct so we don't lock the bucket": the tpm check rejects
\* a request only when the window's count is really over the cap.
BucketNotLocked ==
  \A r \in Requests :
    (rejection[r] # None /\ rejection[r].check[2] = "tpm")
      => rejection[r].count > CapFor(r, rejection[r].check)
=============================================================================
