--------------------------- MODULE MCRateLimiter ---------------------------
(***************************************************************************)
(* Instances of RateLimiter for TLC.  The estimate is 2 tokens, a response *)
(* uses fewer or more than that.                                           *)
(***************************************************************************)
EXTENDS RateLimiter, TLC

CONSTANTS r1, r2, r3, k1, k2, p1

Caps(rpm, tpm, concurrent) ==
  [m \in Metric |-> CASE m = "rpm" -> rpm [] m = "tpm" -> tpm [] OTHER -> concurrent]
Rule(kind, id, cap) == [kind |-> kind, id |-> id, cap |-> cap]

TwoKeys == r1 :> k1 @@ r2 :> k2
OneProject == r1 :> p1 @@ r2 :> p1

ThreeOfOneKey == r1 :> k1 @@ r2 :> k1 @@ r3 :> k1
ThreeOfOneProject == r1 :> p1 @@ r2 :> p1 @@ r3 :> p1

\* Version 1: a rule per key, then a global one.  Version 2 lowers the global
\* concurrency and adds a project rule; the metadata rule matches nothing.
TwoVersions ==
  <<<<Rule("key", "*", Caps(1, 5, 1)), Rule("global", "*", Caps(None, None, 2))>>,
    <<Rule("metadata", "*", Caps(0, 0, 0)),
      Rule("project", p1, Caps(1, None, None)),
      Rule("global", "*", Caps(None, 3, 1))>>>>

\* One rule with a token cap.
TokenCap == <<<<Rule("global", "*", Caps(None, 5, None))>>>>
=============================================================================
