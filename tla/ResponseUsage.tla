--------------------------- MODULE ResponseUsage ---------------------------
(***************************************************************************)
(* What the log reads off a response body (gateway-api/src/tokens.rs): the *)
(* token usage and the provider's id.                                      *)
(*                                                                         *)
(* A body is a sequence of lines.  Of a line the model has the chunk it    *)
(* ends in, whether it starts with "data: ", and the JSON object it holds, *)
(* a function of its fields; a JSON document is a body of one line, however*)
(* it is laid out.                                                         *)
(***************************************************************************)
EXTENDS Sequences, SequencesExt, Option

CONSTANT NonInt \* a JSON value that is neither an integer nor an object

at(value, field) == IF value \in {None, NonInt} THEN None ELSE Get(value, field)

\* as_object and as_i64.
Typed(value) == IF value = NonInt THEN None ELSE value

\* usage at the top level, or under response.
from_value(v) ==
  LET usage == FirstOf(<<Typed(at(v, "usage")), Typed(at(at(v, "response"), "usage"))>>)
      cached_in(details) == Typed(at(at(usage, details), "cached_tokens"))
  IN [prompt |-> Typed(FirstOf(<<at(usage, "prompt_tokens"),
                                 at(usage, "input_tokens")>>)),
      completion |-> Typed(FirstOf(<<at(usage, "completion_tokens"),
                                     at(usage, "output_tokens")>>)),
      total |-> Typed(at(usage, "total_tokens")),
      cached |-> FirstOf(<<cached_in("prompt_tokens_details"),
                           cached_in("input_tokens_details"),
                           Typed(at(usage, "cache_read_input_tokens"))>>)]

NoUsage == [prompt |-> None, completion |-> None, total |-> None, cached |-> None]

\* A body that is one JSON document, and otherwise the events it holds.
IsDocument(lines) == Len(lines) = 1 /\ ~lines[1].event /\ lines[1].json # None
Events(lines) == SelectSeq(lines, LAMBDA l : l.event /\ l.json # None)

\* Mutant: the last event that has a usage replaces what earlier ones reported.
Replace(usage, line) ==
  LET u == from_value(line.json) IN IF u = NoUsage THEN usage ELSE u

\* Mutant: the reports are added up.
MergeAdds(usage, line) ==
  LET u == from_value(line.json)
  IN [f \in DOMAIN usage |->
        IF u[f] # None /\ usage[f] # None THEN u[f] + usage[f]
        ELSE FirstOf(<<u[f], usage[f]>>)]

\* Field by field, what the event reports or else what was there.
Merge(usage, line) ==
  LET u == from_value(line.json)
  IN [f \in DOMAIN usage |-> FirstOf(<<u[f], usage[f]>>)]

extract_token_usage(lines) ==
  IF IsDocument(lines) THEN from_value(lines[1].json)
  ELSE FoldLeft(Merge, NoUsage, Events(lines))

total_tokens(u) ==
  IF u.total # None THEN u.total
  ELSE IF u.prompt # None /\ u.completion # None THEN u.prompt + u.completion
  ELSE None

\* The ids that count are texts; an empty one does not.
non_empty(id) == IF id \in {"", NonInt} THEN None ELSE id

id_from_value(v) ==
  FirstOf(<<non_empty(at(v, "id")),
            non_empty(at(at(v, "response"), "id"))>>)

\* Mutant: the last id is taken.
LastId(lines) ==
  FoldLeft(LAMBDA id, l : FirstOf(<<id_from_value(l.json), id>>), None,
           IF IsDocument(lines) THEN lines ELSE Events(lines))

extract_response_id(lines) ==
  LET values == IF IsDocument(lines) THEN lines ELSE Events(lines)
  IN FirstOf([i \in DOMAIN values |-> id_from_value(values[i].json)])

----------------------------------------------------------------------------
\* The lines that the first n chunks of a body hold in full; what is left of one
\* that is cut does not parse.
Held(lines, n) == SelectSeq(lines, LAMBDA l : l.end <= n)
=============================================================================
