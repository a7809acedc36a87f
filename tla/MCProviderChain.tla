-------------------------- MODULE MCProviderChain --------------------------
EXTENDS ProviderChain

E(provider, trigger) == [provider |-> provider, trigger |-> trigger]
C(entries, n) == [entries |-> entries, max_attempts |-> n]

\* Chains of one to three entries with the triggers of the vocabulary, retry
\* limits 0 to 2, and a provider the engine does not know.
SomeChains ==
  {C(<<E("a", {})>>, n) : n \in 0..2}
    \cup {C(<<E("a", {}), E("b", t)>>, n) :
            t \in {{}, {"upstream_5xx"}, {"timeout"}, {"rate_limited", "network"}},
            n \in 0..2}
    \cup {C(<<E("a", {}), E("b", t), E("c", u)>>, 1) :
            t \in {{}, {"upstream_error"}}, u \in {{}, {"timeout"}}}
    \cup {C(<<E("x", {}), E("b", {})>>, 2), C(<<E("a", {}), E("x", {})>>, 2)}
=============================================================================
