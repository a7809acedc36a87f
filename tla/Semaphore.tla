----------------------------- MODULE Semaphore -----------------------------
(***************************************************************************)
(* What a concurrency limit promises, without counters: a set of permits   *)
(* is outstanding; a permit is granted only while fewer permits of its     *)
(* scope are outstanding than the cap it was asked for with, and it is     *)
(* given back at most once.  RateLimiter implements this with the u32 of   *)
(* MemoryCounterStore and Drop closures (Sem there is the refinement       *)
(* mapping), and ProxyPipeline takes its permits from it.                  *)
(***************************************************************************)
EXTENDS Naturals, FiniteSets

CONSTANTS Permits,     \* everything that may be granted
          ScopeOf(_),  \* the scope whose slots a permit occupies
          CapOf(_)     \* the cap the permit is requested with

VARIABLE granted       \* the outstanding permits

InScope(s) == {p \in granted : ScopeOf(p) = s}

Init == granted = {}

Grant(p) ==
  /\ p \notin granted
  /\ Cardinality(InScope(ScopeOf(p))) < CapOf(p)
  /\ granted' = granted \cup {p}

GiveBack(p) ==
  /\ p \in granted
  /\ granted' = granted \ {p}

Next == \E p \in Permits : Grant(p) \/ GiveBack(p)

Spec == Init /\ [][Next]_granted
=============================================================================
