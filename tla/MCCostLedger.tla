---------------------------- MODULE MCCostLedger ----------------------------
(***************************************************************************)
(* An instance of CostLedger for TLC: two pairs of models with a short     *)
(* name in common, a variant, an id that occurs twice, a model without an  *)
(* id and two without a usable price.  The namespace is called like the    *)
(* primary provider.                                                       *)
(***************************************************************************)
EXTENDS CostLedger

CONSTANTS a1, a2

Interchangeable == Permutations(Admins)

SomeNames ==
  {"o/m", "o/m-1", "o/m:b", "q/m", "q/m-2", "q/x", "m", "m-1", "m-2", "m:b", "x",
   "o/y", "q/y", "y"}

DateSuffix ==
  [n \in SomeNames |-> CASE n = "o/m-1" -> "o/m"
                         [] n = "q/m-2" -> "q/m"
                         [] n \in {"m-1", "m-2"} -> "m"
                         [] OTHER -> None]

EndOf ==
  [n \in SomeNames |-> CASE n \in {"o/m", "q/m"} -> "m"
                         [] n = "o/m-1" -> "m-1"
                         [] n = "q/m-2" -> "m-2"
                         [] n = "o/m:b" -> "m:b"
                         [] n = "q/x" -> "x"
                         [] n \in {"o/y", "q/y"} -> "y"
                         [] OTHER -> n]

Model(id, slug, prompt, cache_read) ==
  [id |-> id, slug |-> slug, prompt |-> prompt, completion |-> 4,
   input_cache_read |-> cache_read]

SomeFeed ==
  <<Model("o/m:b", "o/m-1", 1, None), Model("o/m", "o/m-1", 2, 1),
    Model("q/m", "q/m-2", 3, 1), Model("q/m", "q/m-2", 7, None),
    Model("o/y", "o/y", 1, None), Model(None, "q/y", 2, None),
    Model("q/x", "q/x", -1, None), Model(None, "x", 5, -1)>>

Price(scope, model, rate) ==
  [provider |-> scope, model |-> model, input_per_1k |-> rate, output_per_1k |-> rate,
   cached_input_per_1k |-> None]

SomeFile == {Price("p2", "m-2", 900000)}

AdminEdit(op, scope, model, rate) ==
  [op |-> op, provider |-> scope, model |-> model, input_per_1k |-> rate,
   output_per_1k |-> 0, cached_input_per_1k |-> None]

\* q/m has names of its own (q/m-2, m-2) and one it shares (m).
SomeEdits ==
  {AdminEdit("upsert", "*", "q/m", 500000), AdminEdit("delete", "*", "q/m", 0),
   AdminEdit("upsert", "p1", "o/m", -1)}

End(primary, fallback, model, success, cached, ts, usage) ==
  [primary |-> primary, fallback_used |-> fallback, model |-> model,
   success |-> success, cached |-> cached, request_ts |-> ts, usage |-> usage]

\* An answer of a fallback, and one of the primary from the cache, with more cached
\* tokens than prompt tokens.
SomeTraffic ==
  {End("p2", "p1", "m-2", TRUE, FALSE, 1, [prompt |-> 3, cached |-> 1, completion |-> 1]),
   End("p2", None, "m-2", TRUE, TRUE, 2, [prompt |-> 1, cached |-> 3, completion |-> 1])}

SomeWindows == {[from |-> None, to |-> 1], [from |-> None, to |-> None]}

SomeFilters == {[model |-> None, from |-> None, to |-> None]}
=============================================================================
