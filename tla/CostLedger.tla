----------------------------- MODULE CostLedger -----------------------------
(***************************************************************************)
(* Prices, the costs in the request log, and who changes them: requests    *)
(* that end and are logged at the price of the moment, admins that edit    *)
(* prices (gateway-api/src/routes/admin/pricing.rs), the sweep that        *)
(* re-derives costs from stored tokens, restarts, and an admin that reads  *)
(* the log page by page (sqlite/logs.rs).  Every await is a place where    *)
(* the others run.                                                         *)
(*                                                                         *)
(* A logged record waits for the batch worker; flush writes all that was   *)
(* appended before it, which LogBatch shows (FlushDurable).                *)
(***************************************************************************)
EXTENDS PriceCatalog

CONSTANTS
  Admins,      \* price edits, each made once
  Edits,       \* what an admin may ask for: see EditType
  Ids,         \* ids of log records, numbered in the order of their text
  Traffic,     \* what a request may end with: see TrafficType
  Namespace,   \* the namespace of every request
  Windows,     \* windows of a sweep: see WindowType
  Filters,     \* filters of a page walk: see FilterType
  PageSize,    \* the limit an admin asks for
  MaxCalls,    \* bound on edits, sweeps and walks
  MaxRestarts  \* bound on restarts

EditType ==
  [op : {"upsert", "delete"}, provider : Scopes, model : Names,
   input_per_1k : Nat \cup {-1}, output_per_1k : Nat \cup {-1},
   cached_input_per_1k : Opt(Nat \cup {-1})]

\* The route's primary, the fallback that answered, the model; whether the answer
\* was a success and came from the cache; its usage, None if none was reported.
\* Some providers leave the cached tokens out of the prompt, so that there may be
\* more of them; no count is negative.
TrafficType ==
  [primary : Providers, fallback_used : Opt(Providers), model : Names,
   success : BOOLEAN, cached : BOOLEAN, request_ts : Nat,
   usage : Opt([prompt : Nat, cached : Nat, completion : Nat])]

WindowType == [from : Opt(Nat), to : Opt(Nat)]

FilterType == [model : Opt(Names), from : Opt(Nat), to : Opt(Nat)]

RowOf(e) ==
  [provider |-> e.provider, model |-> e.model, input_per_1k |-> e.input_per_1k,
   output_per_1k |-> e.output_per_1k, cached_input_per_1k |-> e.cached_input_per_1k]

\* Every price that a lookup may find, and what requests may cost at it.
Prices ==
  {OnlineBase.openrouter[id] : id \in DOMAIN OnlineBase.openrouter}
    \cup FilePrices \cup {RowOf(e) : e \in Edits}

NoTokens == [prompt |-> 0, cached |-> 0, completion |-> 0]

Costs ==
  {apply(p, u) : p \in Prices, u \in ({t.usage : t \in Traffic} \cup {NoTokens}) \ {None}}

\* A record of the log.  (entry is history: the price of its costs.)
LogRecord ==
  [request : Traffic, last_attempt : Providers, namespace : {Namespace},
   entry : Opt(Prices), cost_usd : Opt(Costs \cup {0}), would_have_cost_usd : Opt(Costs)]

ASSUME LedgerAssumption ==
  /\ Edits \subseteq EditType
  /\ Traffic \subseteq TrafficType
  /\ \A t \in Traffic : t.cached => t.success /\ t.fallback_used = None
  /\ Windows \subseteq WindowType
  /\ Filters \subseteq FilterType
  /\ Ids \subseteq Nat
  /\ {PageSize, MaxCalls, MaxRestarts} \subseteq Nat
  /\ None \notin Ids
  /\ None \notin {NoTokens} \cup LogRecord

VARIABLES
  overrides, \* the pricing table
  fetched,   \* OpenRouter's feed was fetched at the last start
  pricing,   \* state.pricing, as the set of overrides it was merged from
  admin,     \* per admin: where the edit is, what it asks for, what it listed
  crossed,   \* history: the last edits overlapped, or the refresh of one failed
  pending,   \* ids of records that wait for the batch worker or are being inserted
  log,       \* per id: the record, None until it is appended
  sweep,     \* the recompute call
  walk,      \* the page walk
  restarts

vars == <<overrides, fetched, pricing, admin, crossed, pending, log, sweep, walk,
          restarts>>

prices == <<overrides, fetched, pricing, admin, crossed>>

merged_catalog(rows) == with_overrides(BaseCatalog(fetched), rows)

\* The catalog in force.
Catalog == merged_catalog(pricing)

IdleAdmin == [pc |-> "idle", edit |-> None, listed |-> {}]
IdleSweep == [pc |-> "idle", window |-> None, pricing |-> {}, keys |-> {}, covered |-> {}]
IdleWalk == [pc |-> "idle", filter |-> None, cursor |-> None, listed |-> <<>>, present |-> {}]

Init ==
  /\ overrides = {}
  /\ fetched \in BOOLEAN
  /\ pricing = overrides
  /\ admin = [a \in Admins |-> IdleAdmin]
  /\ crossed = FALSE
  /\ pending = {}
  /\ log = [id \in Ids |-> None]
  /\ sweep = IdleSweep
  /\ walk = IdleWalk
  /\ restarts = 0

At(a, pc) == admin[a].pc = pc

\* The bound on calls.
MayCall ==
  Cardinality({a \in Admins : ~At(a, "idle")}) + Cardinality({sweep.pc} \ {"idle"})
    + Cardinality({walk.pc} \ {"idle"}) < MaxCalls

----------------------------------------------------------------------------
(* Requests                                                                *)

\* The provider a request is priced with when it ends.
PricedWith(t) == FirstOf(<<t.fallback_used, t.primary>>)

\* The record of a request, with the price the catalog gives it now.  A cached
\* answer costs nothing and would have cost its price; an error has no cost.
\* The last attempt of the trace is the provider that answered.
Record(t) ==
  LET usage == FirstOf(<<t.usage, NoTokens>>)
      cost == compute_cost(Catalog, PricedWith(t), t.model, usage)
  IN [request |-> t, last_attempt |-> PricedWith(t), namespace |-> Namespace,
      entry |-> lookup(Catalog, PricedWith(t), t.model),
      cost_usd |-> IF ~t.success THEN None ELSE IF t.cached THEN 0 ELSE cost,
      would_have_cost_usd |-> IF t.success THEN cost ELSE None]

\* A request ends: log.submit.
Submit(id, t) ==
  /\ log[id] = None
  /\ log' = [log EXCEPT ![id] = Record(t)]
  /\ pending' = pending \cup {id}
  /\ UNCHANGED <<prices, sweep, walk, restarts>>

\* The batch worker writes what has waited long enough.
Persist ==
  /\ pending # {}
  /\ pending' = {}
  /\ UNCHANGED <<prices, log, sweep, walk, restarts>>

Unlogged(ids) == [id \in Ids |-> IF id \in ids THEN None ELSE log[id]]

\* The insert fails: its records are dropped.
PersistFails ==
  /\ pending # {}
  /\ log' = Unlogged(pending)
  /\ pending' = {}
  /\ sweep' = [sweep EXCEPT !.covered = @ \ pending]
  /\ UNCHANGED <<prices, walk, restarts>>

\* The rows of request_logs.
Table == {id \in Ids : log[id] # None /\ id \notin pending}

----------------------------------------------------------------------------
(* Price edits                                                             *)

InEdit == {a \in Admins : admin[a].pc \notin {"idle", "done", "failed"}}

\* Prices must be non-negative numbers, and a delete has none.
Valid(e) ==
  e.op = "delete" \/ -1 \notin {e.input_per_1k, e.output_per_1k, e.cached_input_per_1k}

\* upsert_pricing or delete_pricing is called.
Ask(a, e) ==
  /\ At(a, "idle") /\ MayCall
  /\ admin' = [admin EXCEPT ![a].pc = IF Valid(e) THEN "write" ELSE "done",
                            ![a].edit = e]
  /\ crossed' = IF Valid(e) THEN InEdit # {} ELSE crossed
  /\ UNCHANGED <<overrides, fetched, pricing, pending, log, sweep, walk, restarts>>

Others(e) == {r \in overrides : KeyOf(r) # KeyOf(e)}

\* The statement; if it fails the call returns, and a catalog that was not current
\* is not refreshed.
Write(a) ==
  LET e == admin[a].edit
  IN /\ At(a, "write")
     /\ \/ /\ overrides' = Others(e) \cup (IF e.op = "upsert" THEN {RowOf(e)} ELSE {})
           /\ admin' = [admin EXCEPT ![a].pc = "list"]
           /\ UNCHANGED crossed
        \/ /\ admin' = [admin EXCEPT ![a].pc = "failed"]
           /\ crossed' = (crossed \/ pricing # overrides)
           /\ UNCHANGED overrides
     /\ UNCHANGED <<fetched, pricing, pending, log, sweep, walk, restarts>>

\* refresh_pricing reads the table.  An error, or a client that leaves while the
\* handler waits here, ends the call with the old catalog in force.
List(a) ==
  /\ At(a, "list")
  /\ \/ /\ admin' = [admin EXCEPT ![a].pc = "store", ![a].listed = overrides]
        /\ UNCHANGED crossed
     \/ /\ admin' = [admin EXCEPT ![a].pc = "failed"]
        /\ crossed' = TRUE
  /\ UNCHANGED <<overrides, fetched, pricing, pending, log, sweep, walk, restarts>>

\* Mutant: the edit is stored for the next start only.
StoreNothing(a) ==
  /\ At(a, "store")
  /\ admin' = [admin EXCEPT ![a].pc = "done", ![a].listed = {}]
  /\ UNCHANGED <<overrides, fetched, pricing, crossed, pending, log, sweep, walk, restarts>>

\* The merged catalog is swapped in.
Store(a) ==
  /\ At(a, "store")
  /\ pricing' = admin[a].listed
  /\ admin' = [admin EXCEPT ![a].pc = "done", ![a].listed = {}]
  /\ UNCHANGED <<overrides, fetched, crossed, pending, log, sweep, walk, restarts>>

----------------------------------------------------------------------------
(* The sweep                                                               *)

Within(ts, w) == (w.from = None \/ ts >= w.from) /\ (w.to = None \/ ts <= w.to)

\* Mutant: the namespace is taken for the provider.
ProviderIsNamespace(r) == r.namespace

\* COALESCE(fallback_used, last attempt, namespace).
resolve_provider(r) ==
  FirstOf(<<r.request.fallback_used, r.last_attempt, r.namespace>>)

CostKey(r) == <<resolve_provider(r), r.request.model>>

\* The rows a sweep of window w is about.
Swept(w) ==
  {id \in Table : log[id].request.usage # None /\ Within(log[id].request.request_ts, w)}

\* recompute_costs is called, and calls flush.
SweepFlush(w) ==
  /\ sweep.pc = "idle" /\ MayCall
  /\ sweep' = [sweep EXCEPT !.pc = "load", !.window = w,
                            !.covered = {id \in Ids : log[id] # None}]
  /\ UNCHANGED <<prices, pending, log, walk, restarts>>

\* flush has returned; the catalog is loaded, once for the whole sweep.
SweepLoad ==
  /\ sweep.pc = "load" /\ sweep.covered \cap pending = {}
  /\ sweep' = [sweep EXCEPT !.pc = "keys", !.pricing = pricing]
  /\ UNCHANGED <<prices, pending, log, walk, restarts>>

distinct_cost_keys(w) == {CostKey(log[id]) : id \in Swept(w)}

SweepKeys ==
  /\ sweep.pc = "keys"
  /\ sweep' = [sweep EXCEPT !.pc = "rows", !.keys = distinct_cost_keys(sweep.window)]
  /\ UNCHANGED <<prices, pending, log, walk, restarts>>

\* What the UPDATE computes: like apply, but only the difference is kept from being
\* negative.
sql_cost(entry, u) ==
  LET cached_rate == FirstOf(<<entry.cached_input_per_1k, entry.input_per_1k>>)
  IN round6(Positive(u.prompt - u.cached) * entry.input_per_1k
              + u.cached * cached_rate
              + u.completion * entry.output_per_1k)

\* The row at another price; an answer from the cache keeps its cost of 0.
Repriced(r, entry) ==
  LET cost == sql_cost(entry, r.request.usage)
  IN [r EXCEPT !.entry = entry, !.would_have_cost_usd = cost,
               !.cost_usd = IF r.request.cached THEN 0 ELSE cost]

\* Mutant: the window is only applied when the keys are listed.
RecomputeAll(key, entry, w) ==
  [id \in Ids |-> IF id \in Table /\ log[id].request.usage # None
                       /\ CostKey(log[id])[2] = key[2]
                  THEN Repriced(log[id], entry) ELSE log[id]]

\* UPDATE of the rows of a key, in the window.
recompute_costs(key, entry, w) ==
  [id \in Ids |-> IF id \in Swept(w) /\ CostKey(log[id]) = key
                  THEN Repriced(log[id], entry) ELSE log[id]]

\* One key; a key without a price is reported and its rows are left alone.
SweepKey(key) ==
  LET entry == lookup(merged_catalog(sweep.pricing), key[1], key[2])
  IN /\ sweep.pc = "rows" /\ key \in sweep.keys
     /\ log' = IF entry = None THEN log ELSE recompute_costs(key, entry, sweep.window)
     /\ sweep' = [sweep EXCEPT !.keys = @ \ {key}]
     /\ UNCHANGED <<prices, pending, walk, restarts>>

SweepEnds ==
  /\ sweep.pc = "rows" /\ sweep.keys = {}
  /\ sweep' = [sweep EXCEPT !.pc = "done"]
  /\ UNCHANGED <<prices, pending, log, walk, restarts>>

\* A statement fails: the call returns, what was updated stays updated.
SweepFails ==
  /\ sweep.pc \in {"keys", "rows"}
  /\ sweep' = [IdleSweep EXCEPT !.pc = "failed"]
  /\ UNCHANGED <<prices, pending, log, walk, restarts>>

----------------------------------------------------------------------------
(* Reading the log page by page                                            *)

Ts(id) == log[id].request.request_ts

\* ORDER BY request_ts DESC, id DESC: id comes after other.
After(id, other) ==
  Ts(id) < Ts(other) \/ (Ts(id) = Ts(other) /\ id < other)

\* Mutant: the cursor holds the time only.
PastTime(id, cursor) == cursor = None \/ Ts(id) < Ts(cursor)

\* The cursor is the time and id of the last row of the page before.
PastCursor(id, cursor) == cursor = None \/ After(id, cursor)

Matches(id, f) ==
  /\ f.model = None \/ log[id].request.model = f.model
  /\ Within(Ts(id), f)

Limit == IF PageSize = 0 THEN 50 ELSE IF PageSize < 500 THEN PageSize ELSE 500

Remaining(f, cursor) == {id \in Table : Matches(id, f) /\ PastCursor(id, cursor)}

HasMore(f, cursor) == Cardinality(Remaining(f, cursor)) > Limit

\* How many of the rows come before id.
Rank(id, rows) == Cardinality({r \in rows : After(id, r)})

\* The rows of the next page, in order.
Page(f, cursor) ==
  LET rows == Remaining(f, cursor)
  IN [i \in 1..(IF HasMore(f, cursor) THEN Limit ELSE Cardinality(rows)) |->
        CHOOSE id \in rows : Rank(id, rows) = i - 1]

\* list_logs without a cursor.
WalkStart(f) ==
  /\ walk.pc = "idle" /\ MayCall
  /\ walk' = [pc |-> IF HasMore(f, None) THEN "more" ELSE "done", filter |-> f,
              cursor |-> IF HasMore(f, None) THEN Last(Page(f, None)) ELSE None,
              listed |-> Page(f, None), present |-> {id \in Table : Matches(id, f)}]
  /\ UNCHANGED <<prices, pending, log, sweep, restarts>>

\* list_logs with the next_cursor of the page before.
WalkOn ==
  LET page == Page(walk.filter, walk.cursor)
      more == HasMore(walk.filter, walk.cursor)
  IN /\ walk.pc = "more"
     /\ walk' = [walk EXCEPT !.pc = IF more THEN "more" ELSE "done",
                             !.cursor = IF more THEN Last(page) ELSE None,
                             !.listed = @ \o page]
     /\ UNCHANGED <<prices, pending, log, sweep, restarts>>

----------------------------------------------------------------------------
\* The process stops with everything in flight and starts again: the feed is
\* fetched or not, and the overrides are layered on top.
Restart ==
  /\ restarts < MaxRestarts
  /\ restarts' = restarts + 1
  /\ fetched' \in BOOLEAN
  /\ pricing' = overrides
  /\ admin' = [a \in Admins |-> IF At(a, "idle") THEN admin[a]
                                ELSE [admin[a] EXCEPT !.pc = "done", !.listed = {}]]
  /\ crossed' = FALSE
  /\ log' = Unlogged(pending)
  /\ pending' = {}
  /\ sweep' = IdleSweep
  /\ walk' = IdleWalk
  /\ UNCHANGED overrides

Edit(a) == Write(a) \/ List(a) \/ Store(a) \/ \E e \in Edits : Ask(a, e)

Sweep ==
  \/ \E w \in Windows : SweepFlush(w)
  \/ SweepLoad \/ SweepKeys \/ SweepEnds \/ SweepFails
  \/ \E key \in sweep.keys : SweepKey(key)

Next ==
  \/ \E id \in Ids, t \in Traffic : Submit(id, t)
  \/ Persist \/ PersistFails
  \/ \E a \in Admins : Edit(a)
  \/ Sweep
  \/ \E f \in Filters : WalkStart(f)
  \/ WalkOn
  \/ Restart

Spec == Init /\ [][Next]_vars

----------------------------------------------------------------------------
(***************************************************************************)
(* Properties                                                              *)
(***************************************************************************)
\* The catalog in force is the base with the stored overrides whenever no edit
\* is under way, after restarts too, unless the last edits overlapped or the last
\* one stored its row and could not refresh: then a catalog of older rows may be
\* in force, until an edit that runs alone or a restart.
CatalogCurrent == (InEdit = {} /\ ~crossed) => pricing = overrides

NamesOf(c, id) == {id, c.slugs[id], LastSegment[id], LastSegment[c.slugs[id]]}

\* Whatever was overridden: an override for all providers of a model's API id
\* is the price under every name that is the model's alone; a slug that several
\* models share means one that is no variant; and a short name that several
\* models share as the end of their slugs and of their ids has no price.
LookupSound ==
  LET c == Catalog
      keys == DOMAIN c.by_key
      remote == DOMAIN c.openrouter
      slugEnds(name) == {c.by_slug[s] : s \in {t \in DOMAIN c.by_slug :
                                                  LastSegment[t] = name}}
      idEnds(name) == {id \in remote : LastSegment[id] = name}
      plain(p, name) == <<"*", name>> \notin keys /\ \A k \in keys : k[1] # p
  IN \A p \in Providers, name \in Names :
       plain(p, name) =>
         LET named == {id \in remote : name \in NamesOf(c, id)}
             price == lookup(c, p, name)
         IN /\ \A id \in named :
                 (named = {id} /\ <<"*", id>> \in keys) => price = c.by_key[<<"*", id>>]
            /\ (\E id \in named \ Variants : c.slugs[id] = name)
                 => price.model \notin Variants
            /\ (/\ name \notin remote \cup DOMAIN c.by_slug
                /\ Cardinality(slugEnds(name)) > 1 /\ Cardinality(idEnds(name)) > 1)
                 => price = None

\* After a sweep, if the prices it used are still in force, every record of its
\* window that had been logged when it was called, and not lost, costs what its tokens cost at
\* the current price of the provider that answered it, and a cached answer
\* nothing; records of models without a price keep what they had.
RecomputeSettles ==
  (sweep.pc = "done" /\ sweep.pricing = pricing) =>
    \A id \in sweep.covered \cap Swept(sweep.window) :
      LET r == log[id]
          cost == compute_cost(Catalog, PricedWith(r.request), r.request.model,
                               r.request.usage)
      IN cost # None =>
           /\ r.would_have_cost_usd = cost
           /\ r.cost_usd = IF r.request.cached THEN 0 ELSE cost

\* A stored cost changes only in a sweep, only within its window, and never for
\* a successful request whose cost is from the very entry that prices it now:
\* provider resolution and arithmetic mirror those of request time.
OnlyRepriced ==
  [][\A id \in Ids :
       (log[id] # None /\ log'[id] # None /\ log'[id] # log[id]) =>
         LET t == log[id].request
         IN /\ sweep.pc = "rows" /\ id \in Swept(sweep.window)
            /\ log'[id].request = t
            /\ t.success =>
                 lookup(merged_catalog(sweep.pricing), PricedWith(t), t.model)
                   # log[id].entry]_vars

\* A walk from page to page lists every record that was stored when it began and
\* passes the filter, newest first and none twice, although records, late ones
\* with earlier times included, are stored in the meantime.
PagesComplete ==
  walk.pc = "done" =>
    /\ walk.present \subseteq ToSet(walk.listed)
    /\ \A id \in ToSet(walk.listed) : Matches(id, walk.filter)
    /\ \A i, j \in DOMAIN walk.listed : i < j => After(walk.listed[j], walk.listed[i])
=============================================================================
