-------------------------- MODULE MCProxyPipeline --------------------------
EXTENDS ProxyPipeline

Req(header, body) ==
  [routed |-> TRUE, enabled |-> TRUE, allow_nondeterministic |-> FALSE,
   header |-> header, force |-> FALSE, body |-> body, key |-> "k", priced |-> TRUE]

\* One request of each kind the handler tells apart.
AllKinds ==
  {[Req(None, "deterministic") EXCEPT !.routed = FALSE],
   [Req(None, "deterministic") EXCEPT !.enabled = FALSE],
   Req("bypass", "deterministic"),
   [Req("refresh", "sampled") EXCEPT !.allow_nondeterministic = TRUE,
                                     !.priced = FALSE],
   Req("other", "sampled"), Req(None, "deterministic"),
   [Req("only", "sampled") EXCEPT !.force = TRUE],
   Req("only-if-cached", "not_json")}

\* A document, and the lines of a stream: an event, or what is none.
Doc(end, json) == [end |-> end, event |-> FALSE, json |-> json]
Data(end, json) == [end |-> end, event |-> TRUE, json |-> json]
Blank(end) == [end |-> end, event |-> FALSE, json |-> None]

\* OpenAI: the usage in a document or in the last event.
ChatUsage(id, p, c) ==
  [id |-> id, usage |-> [prompt_tokens |-> p, completion_tokens |-> c,
                         total_tokens |-> p + c,
                         prompt_tokens_details |-> [cached_tokens |-> 1]]]

\* Anthropic: the prompt first, the output as it grows.
InputUsage(id, p, c) ==
  [id |-> id, usage |-> [input_tokens |-> p, output_tokens |-> c,
                         cache_read_input_tokens |-> 1]]
OutputUsage(c) == [usage |-> [output_tokens |-> c]]

\* The Responses API: everything under response.
Created(id) == [response |-> [id |-> id, usage |-> NonInt]]
Completed(id, p, c) ==
  [response |-> [id |-> id,
                 usage |-> [input_tokens |-> p, output_tokens |-> c,
                            input_tokens_details |-> [cached_tokens |-> 2]]]]

Resp(success, len, lines) == [success |-> success, len |-> len, lines |-> lines]

\* A short stream with its usage spread over the events; one that fits the cache
\* but not the capture, which ends between two reports; one that fits neither and
\* has several ids; and an error response.
Bodies ==
  {Resp(TRUE, 1, <<Data(1, InputUsage("m", 1, 0)), Blank(1), Data(1, OutputUsage(1)),
                   Data(1, OutputUsage(2))>>),
   Resp(TRUE, 2, <<Data(1, InputUsage("m", 1, 1)), Data(2, OutputUsage(2))>>),
   Resp(TRUE, 3, <<Data(1, Created("")), Data(1, [id |-> "i"]),
                   Data(3, Completed("r", 2, 1))>>),
   Resp(FALSE, 1, <<Doc(1, ChatUsage(NonInt, 1, 0))>>)}
=============================================================================
