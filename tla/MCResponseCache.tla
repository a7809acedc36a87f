-------------------------- MODULE MCResponseCache --------------------------
(***************************************************************************)
(* Instances of ResponseCache for TLC.  Bodies 3 and 5 are ["x","sx"] and  *)
(* ["xs","x"]: the same bytes, grouped differently, so that only the       *)
(* length prefixes tell them apart.                                        *)
(***************************************************************************)
EXTENDS ResponseCache

CONSTANTS c1, c2, c3

Node(tag, text, keys, kids) == [tag |-> tag, text |-> text, keys |-> keys, kids |-> kids]

\* Bytes.
x == 120
s == 115

\* 1: "x"  2: "sx"  3: ["x", "sx"]  4: "xs"  5: ["xs", "x"]  6: {"x": "x"}
Bodies ==
  <<Node("s", <<x>>, <<>>, <<>>),
    Node("s", <<s, x>>, <<>>, <<>>),
    Node("a", <<>>, <<>>, <<1, 2>>),
    Node("s", <<x, s>>, <<>>, <<>>),
    Node("a", <<>>, <<>>, <<4, 1>>),
    Node("o", <<>>, <<<<x>>>>, <<1>>)>>

Request(namespace, endpoint, scope, body, directive, ttl) ==
  [namespace |-> namespace, endpoint |-> endpoint, cache_scope |-> scope, body |-> body,
   directive |-> directive, ttl |-> ttl]

Ask(body, directive, ttl) == Request(<<110>>, <<101>>, <<>>, body, directive, ttl)

\* One key asked for in two ways, by requests whose endpoint and scope read the
\* same when joined, and a neighbour of it.
SomeRequests ==
  {Request(<<110>>, <<101, Bar, x>>, <<s>>, 3, "Default", 0),
   Request(<<110>>, <<101>>, <<x, Bar, s>>, 3, "Refresh", 9),
   Request(<<110>>, <<101>>, <<x, Bar, s>>, 5, "OnlyIfCached", 1)}

OneKey == {Ask(6, "Default", 1)}

\* Three bodies of one target; a scope; endpoint and scope that read
\* the same when joined; and a namespace with a bar that reads like another
\* namespace with an endpoint.
AlikeRequests ==
  {Ask(body, "Default", 1) : body \in {3, 5, 6}}
    \cup {Request(<<110>>, <<101>>, <<x>>, 3, "Default", 1),
          Request(<<110>>, <<101>>, <<x, Bar, s>>, 3, "Default", 1),
          Request(<<110>>, <<101, Bar, x>>, <<s>>, 3, "Default", 1),
          Request(<<110>>, <<101, Bar, x>>, <<s>>, 5, "Default", 1),
          Request(<<110, Bar, 101>>, <<x>>, <<s>>, 3, "Default", 1)}
=============================================================================
