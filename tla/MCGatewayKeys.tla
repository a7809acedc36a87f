--------------------------- MODULE MCGatewayKeys ---------------------------
EXTENDS GatewayKeys

K(id, project, secret) ==
  [id |-> id, project |-> project, secret |-> secret, resolves |-> TRUE]
F(keys) == [valid |-> TRUE, keys |-> keys]

One == F(<<K("x", "default", "s1")>>)
\* Secrets rotate and keys move to another project; one file no longer mentions
\* the default project and declares an admin's id last, so that it may be applied
\* in part; one names a project that does not exist; one has a secret that does
\* not resolve; one is broken.
SomeFiles ==
  {One,
   F(<<K("x", "team", "s2"), K("y", "default", "s1")>>),
   F(<<K("y", "team", "s2"), K("k", "team", "s2")>>),
   F(<<K("y", "nowhere", "s1")>>),
   F(<<[K("y", "team", "s1") EXCEPT !.resolves = FALSE]>>),
   [valid |-> FALSE, keys |-> <<>>]}
=============================================================================
