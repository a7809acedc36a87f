---------------------------- MODULE PriceCatalog ----------------------------
(***************************************************************************)
(* Prices (gateway-core/src/pricing): the catalog read from OpenRouter's   *)
(* feed, the overrides layered on it, lookup and the cost of a request.    *)
(* A name is opaque; what the code asks of its text is given by functions. *)
(* Rates are in nano-dollars per 1000 tokens, costs in micro-dollars, and  *)
(* arithmetic is exact where the code's is floating point.                 *)
(***************************************************************************)
EXTENDS Integers, Sequences, SequencesExt, FiniteSets, Option

CONSTANTS
  Providers,      \* upstream providers
  Names,          \* model names: API ids, canonical slugs, last segments
  Undated,        \* Undated[n]: n without its date suffix, None if it has none
  LastSegment,    \* LastSegment[n]: what follows the last '/' of n
  Variants,       \* the names with a ':'
  TrailingSlash,  \* the names that end in '/'
  Feed,           \* the models of the feed, in order: see FeedType
  FilePrices      \* the price overrides file

\* A model of the feed: its id and slug (None: empty), and its prices in
\* nano-dollars per token; -1 is any text that is not a price.
FeedType ==
  Seq([id : Names \cup {None}, slug : Names \cup {None},
       prompt : Nat \cup {-1}, completion : Nat \cup {-1},
       input_cache_read : Nat \cup {-1, None}])

Scopes == Providers \cup {"*"}

EntryType ==
  [provider : Scopes, model : Names, input_per_1k : Nat, output_per_1k : Nat,
   cached_input_per_1k : Nat \cup {None}]

ASSUME CatalogAssumption ==
  /\ Undated \in [Names -> Names \cup {None}]
  /\ LastSegment \in [Names -> Names]
  /\ Variants \subseteq Names
  /\ TrailingSlash \subseteq Names
  /\ Feed \in FeedType
  /\ FilePrices \subseteq EntryType
  /\ {"*", None} \cap Providers = {}

\* f, and g where f has nothing.
Over(f, g) ==
  [k \in DOMAIN f \cup DOMAIN g |-> IF k \in DOMAIN f THEN f[k] ELSE g[k]]

----------------------------------------------------------------------------
(* The catalog                                                             *)

EmptyCatalog ==
  [by_key |-> <<>>, openrouter |-> <<>>, by_slug |-> <<>>, slugs |-> <<>>,
   by_slug_model |-> <<>>, by_id_model |-> <<>>]

per_1k(value) == IF value = -1 THEN None ELSE value * 1000

\* The short names that stand for one id only.
unique_last_segments(names) ==
  LET ids(s) == {names[n] : n \in {m \in DOMAIN names : LastSegment[m] = s}}
      shorts == {LastSegment[n] : n \in DOMAIN names}
  IN [s \in {t \in shorts : Cardinality(ids(t)) = 1} |-> CHOOSE i \in ids(s) : TRUE]

\* One model of the feed is added, if it is well-formed and its id is new.
AddModel(catalog, m) ==
  LET id == FirstOf(<<m.id, m.slug>>)
      cached == IF m.input_cache_read = None THEN None ELSE per_1k(m.input_cache_read)
      usable ==
        /\ m.slug # None /\ m.slug \notin TrailingSlash
        /\ id \notin TrailingSlash \cup DOMAIN catalog.openrouter
        /\ per_1k(m.prompt) # None /\ per_1k(m.completion) # None
        /\ m.input_cache_read # None => cached # None
      entry == [provider |-> "*", model |-> id, input_per_1k |-> per_1k(m.prompt),
                output_per_1k |-> per_1k(m.completion), cached_input_per_1k |-> cached]
  IN IF ~usable THEN catalog
     ELSE [catalog EXCEPT !.by_slug = Over(@, [s \in {m.slug} |-> id]),
                          !.slugs = Over([i \in {id} |-> m.slug], @),
                          !.openrouter = Over([i \in {id} |-> entry], @)]

\* Models whose id names a variant come last, so that a slug means the plain one.
parse_openrouter(data) ==
  LET plain(m) == m.id \notin Variants
      variant(m) == m.id \in Variants
      c == FoldLeft(AddModel, EmptyCatalog,
                    SelectSeq(data, plain) \o SelectSeq(data, variant))
      ids == DOMAIN c.openrouter
  IN [by_key |-> <<>>, openrouter |-> c.openrouter, by_slug |-> c.by_slug,
      slugs |-> c.slugs, by_slug_model |-> unique_last_segments(c.by_slug),
      by_id_model |-> unique_last_segments([id \in ids |-> id])]

KeyOf(e) == <<e.provider, e.model>>

\* entries is a set with at most one entry for a key.
with_overrides(catalog, entries) ==
  LET keys == {KeyOf(e) : e \in entries}
      overrides == [k \in keys |-> CHOOSE e \in entries : KeyOf(e) = k]
  IN [catalog EXCEPT !.by_key = Over(overrides, @)]

\* The base of the running catalog: the feed, if it could be fetched and has a
\* usable price, under the file.
OnlineBase == with_overrides(parse_openrouter(Feed), FilePrices)
OfflineBase == with_overrides(EmptyCatalog, FilePrices)
BaseCatalog(fetched) == IF fetched THEN OnlineBase ELSE OfflineBase

----------------------------------------------------------------------------
(* Prices                                                                  *)

\* Mutant: overrides of the id and the slug are not looked for.
LookupExact(c, provider, model) ==
  FirstOf(<<Get(c.by_key, <<provider, model>>), Get(c.by_key, <<"*", model>>),
            Get(c.openrouter, FirstOf(<<Get(c.by_slug, model), model>>))>>)

lookup(c, provider, model) ==
  LET local(scope, name) == Get(c.by_key, <<scope, name>>)
      remote(id) == Get(c.openrouter, id)
      entry == FirstOf(<<remote(FirstOf(<<Get(c.by_slug, model),
                                          Get(c.by_slug_model, model)>>)),
                         remote(model),
                         remote(Get(c.by_id_model, model))>>)
      overridden ==
        LET slug == c.slugs[entry.model]
        IN FirstOf(<<local(provider, entry.model), local(provider, slug),
                     local("*", entry.model), local("*", slug), entry>>)
  IN FirstOf(<<local(provider, model), local(provider, Undated[model]),
               local("*", model), IF entry = None THEN None ELSE overridden>>)

Positive(n) == IF n > 0 THEN n ELSE 0

\* To the nearest micro-dollar; halves away from zero, as round and SQL's ROUND do.
round6(n) ==
  IF n < 0 THEN -((500000 - n) \div 1000000) ELSE (n + 500000) \div 1000000

\* apply, for usage u; an Option of tokens that is None counts as 0.
apply(entry, u) ==
  LET cached_rate == FirstOf(<<entry.cached_input_per_1k, entry.input_per_1k>>)
  IN round6(Positive(u.prompt - u.cached) * entry.input_per_1k
              + Positive(u.cached) * cached_rate
              + Positive(u.completion) * entry.output_per_1k)

compute_cost(c, provider, model, u) ==
  LET entry == lookup(c, provider, model)
  IN IF entry = None THEN None ELSE apply(entry, u)
=============================================================================
