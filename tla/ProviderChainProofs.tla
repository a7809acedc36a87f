------------------------ MODULE ProviderChainProofs ------------------------
(***************************************************************************)
(* Theorems about ProviderChain for every chain, every trigger list and    *)
(* every sequence of upstream results.                                     *)
(*                                                                         *)
(* FallbackJustified and FinalNotRepeated speak of neighbouring attempts of the *)
(* trace, while a step only sees the entry index and last_outcome.         *)
(* ChainInv ties the two together: it says, phase by phase, which attempt  *)
(* the trace ends with.                                                    *)
(***************************************************************************)
EXTENDS ProviderChain, FiniteSetTheorems, TLAPS

Last == trace[Len(trace)]

\* What the trace ends with while an entry is entered, tried or backed off.
TraceEnd ==
  /\ phase = "enter" =>
       IF trace = <<>> THEN idx = 1
       ELSE Last.entry = idx - 1 /\ last_outcome = Last.result
  /\ phase = "forward" =>
       /\ idx \in 1..Len(chain.entries)
       /\ \/ trace = <<>>
          \/ trace # <<>> /\ Last.entry = idx
          \/ /\ trace # <<>> /\ Last.entry = idx - 1
             /\ MatchesTrigger(Last.result, Entry(idx).trigger)
  /\ phase = "backoff" =>
       /\ idx \in 1..Len(chain.entries) /\ trace # <<>> /\ Last.entry = idx
       /\ attempt < chain.max_attempts

\* Until the chain is finished, no attempt settled the request.
NothingSettled ==
  phase # "finished" => \A i \in 1..Len(trace) : ~Settles(trace[i].result)

ChainInv ==
  TypeOK /\ TraceEnd /\ NothingSettled /\ FallbackJustified /\ FinalNotRepeated

LEMMA ChainFacts ==
  ASSUME NEW c \in Chains
  PROVE  Len(c.entries) \in Nat \ {0}
<1>1. ChainType(c)
  BY ChainsAssumption
<1> QED
  BY <1>1 DEF ChainType

\* The number of attempts a chain allows on an entry.
LEMMA AllowedFacts ==
  ASSUME chain \in Chains
  PROVE  /\ chain.max_attempts \in Nat
         /\ Allowed \in Nat \ {0}
         /\ Allowed = IF chain.max_attempts = 0 THEN 1 ELSE chain.max_attempts
<1>1. ChainType(chain)
  BY ChainsAssumption
<1>2. QED
  BY <1>1 DEF ChainType, Allowed

LEMMA ChainInit == Init => ChainInv
<1> SUFFICES ASSUME Init PROVE ChainInv
  OBVIOUS
<1>1. Len(chain.entries) \in Nat \ {0}
  BY ChainFacts DEF Init
<1>2. TypeOK
  BY <1>1, AllowedFacts DEF Init, TypeOK
<1>3. TraceEnd
  BY DEF Init, TraceEnd
<1>4. NothingSettled /\ FallbackJustified /\ FinalNotRepeated
  BY DEF Init, NothingSettled, FallbackJustified, FinalNotRepeated
<1>5. QED
  BY <1>2, <1>3, <1>4 DEF ChainInv

\* Entering an entry or leaving the loop: the trace stays as it is.
LEMMA EnterStep == ChainInv /\ EnterEntry => ChainInv'
<1> SUFFICES ASSUME ChainInv, EnterEntry PROVE ChainInv'
  OBVIOUS
<1> USE DEF ChainInv
<1>0. /\ Len(chain.entries) \in Nat \ {0}
      /\ UNCHANGED <<chain, idx, trace, last_outcome, last_response, last_error>>
  BY ChainFacts DEF EnterEntry, TypeOK
<1>A. Allowed \in Nat \ {0} /\ Allowed' = Allowed
  BY <1>0, AllowedFacts DEF Allowed, TypeOK
<1>1. FallbackJustified' /\ FinalNotRepeated'
  BY <1>0 DEF FallbackJustified, FinalNotRepeated, Entry
<1>2. NothingSettled'
  BY <1>0 DEF NothingSettled, EnterEntry
<1>3. CASE Takes(idx)
  <2>1. phase' = "forward" /\ attempt' = 1 /\ UNCHANGED answer
    BY <1>3 DEF EnterEntry
  <2>2. TypeOK'
    BY <1>0, <1>A, <2>1 DEF TypeOK
  <2>3. idx \in 1..Len(chain.entries)
    BY <1>0, <1>3 DEF Takes, TypeOK
  <2>4. CASE trace = <<>>
    BY <1>0, <1>1, <1>2, <2>1, <2>2, <2>3, <2>4 DEF TraceEnd
  <2>5. CASE trace # <<>>
    <3>1. Last.entry = idx - 1 /\ last_outcome = Last.result
      BY <2>5 DEF TraceEnd, EnterEntry
    <3>2. Len(trace) \in 1..Len(trace)
      <4>1. trace \in Seq([entry : 1..Len(chain.entries), result : Result])
        BY DEF TypeOK
      <4>2. QED
        BY <2>5, <4>1
    <3>3. Last.entry \in 1..Len(chain.entries)
      <4> DEFINE Attempt == [entry : 1..Len(chain.entries), result : Result]
      <4>1. trace \in Seq(Attempt)
        BY DEF TypeOK
      <4>2. trace[Len(trace)] \in Attempt
        <5> HIDE DEF Attempt
        <5> QED BY <3>2, <4>1
      <4>3. QED
        BY <4>2 DEF Last
    <3>4. MatchesTrigger(Last.result, Entry(idx).trigger)
      BY <1>0, <1>3, <2>3, <3>1, <3>3 DEF Takes
    <3>5. Last' = Last /\ Entry(idx)' = Entry(idx)
      BY <1>0 DEF Last, Entry
    <3>6. QED
      BY <1>0, <1>1, <1>2, <2>1, <2>2, <2>3, <2>5, <3>1, <3>4, <3>5 DEF TraceEnd
  <2>6. QED
    BY <2>4, <2>5
<1>4. CASE ~Takes(idx)
  <2>1. phase' = "finished" /\ answer' = Fallen /\ UNCHANGED attempt
    BY <1>4 DEF EnterEntry, LeaveLoop
  <2>2. Fallen \in Result \cup {None, Internal}
    BY DEF Fallen, TypeOK, Result
  <2>3. TypeOK'
    BY <1>0, <1>A, <2>1, <2>2 DEF TypeOK
  <2>4. TraceEnd'
    BY <2>1 DEF TraceEnd
  <2>5. QED
    BY <1>1, <1>2, <2>3, <2>4
<1>5. QED
  BY <1>3, <1>4

\* An attempt ended: the trace grows by one record, which follows the one
\* TraceEnd speaks of.
LEMMA AnsweredStep ==
  ASSUME ChainInv, NEW result \in Result, Answered(result)
  PROVE  ChainInv'
<1> USE DEF ChainInv
<1> DEFINE new == [entry |-> idx, result |-> result]
           n == Len(trace)
<1>0. /\ Len(chain.entries) \in Nat \ {0}
      /\ phase = "forward"
      /\ idx \in 1..Len(chain.entries)
      /\ n \in Nat
      /\ UNCHANGED <<chain, attempt, fallback_used>>
      /\ Allowed' = Allowed
  BY ChainFacts DEF Answered, TypeOK, TraceEnd, Allowed
<1>1. trace' = Append(trace, new)
  BY DEF Answered
<1>2. new \in [entry : 1..Len(chain.entries), result : Result]
  BY <1>0
<1>3. /\ trace' \in Seq([entry : 1..Len(chain.entries), result : Result])
      /\ Len(trace') = n + 1
      /\ trace'[n + 1] = new
      /\ \A i \in 1..n : trace'[i] = trace[i]
  <2> HIDE DEF new
  <2> QED BY <1>1, <1>2 DEF TypeOK
<1>4. FinalNotRepeated'
  <2>1. \A i \in 1..n : ~Settles(trace[i].result)
    BY <1>0 DEF NothingSettled
  <2>2. QED
    BY <1>0, <1>3, <2>1 DEF FinalNotRepeated, Settles
<1>5. FallbackJustified'
  <2>1. SUFFICES ASSUME NEW i \in 1..n, trace'[i + 1].entry # trace'[i].entry
        PROVE  /\ trace'[i + 1].entry = trace'[i].entry + 1
               /\ MatchesTrigger(trace'[i].result, Entry(trace'[i + 1].entry).trigger)
    <3> HIDE DEF new
    <3>1. Len(trace') - 1 = n
      BY <1>0, <1>3
    <3>2. QED
      BY <1>0, <3>1 DEF FallbackJustified, Entry
  <2>3. CASE i < n
    <3>1. i \in 1..(n - 1) /\ i + 1 \in 1..n
      BY <1>0, <2>3
    <3>2. QED
      BY <1>3, <2>1, <3>1 DEF FallbackJustified
  <2>4. CASE i = n
    <3>1. trace'[i] = Last /\ trace'[i + 1] = new /\ trace # <<>>
      BY <1>0, <1>3, <2>4 DEF Last
    <3>2. /\ Last.entry = idx - 1
          /\ MatchesTrigger(Last.result, Entry(idx).trigger)
      BY <1>0, <2>1, <3>1 DEF TraceEnd
    <3>3. QED
      BY <1>0, <3>1, <3>2
  <2>5. QED
    BY <1>0, <2>3, <2>4
<1>6. trace' # <<>> /\ Last' = new
  BY <1>0, <1>3 DEF Last
<1>7. CASE Settles(result)
  <2>1. /\ phase' = "finished" /\ answer' = result
        /\ UNCHANGED <<idx, last_outcome, last_response, last_error>>
    BY <1>7 DEF Answered
  <2>2. TypeOK'
    BY <1>0, <1>3, <2>1 DEF TypeOK
  <2>3. TraceEnd' /\ NothingSettled'
    BY <2>1 DEF TraceEnd, NothingSettled
  <2>4. QED
    BY <1>4, <1>5, <2>2, <2>3
<1>8. CASE ~Settles(result)
  <2>1. \A i \in 1..Len(trace') : ~Settles(trace'[i].result)
    BY <1>0, <1>3, <1>8 DEF NothingSettled
  <2>2. NothingSettled'
    <3>1. \A i \in 1..Len(trace') : Settles(trace[i].result)' <=> Settles(trace'[i].result)
      BY DEF Settles, OutcomeClass
    <3>2. QED
      BY <2>1, <3>1 DEF NothingSettled
  <2>3. CASE Exhausted
    <3>1. /\ phase' = "enter" /\ idx' = idx + 1
          /\ last_outcome' = result /\ SaveTerminal(result)
          /\ UNCHANGED answer
      BY <1>8, <2>3 DEF Answered
    <3>2. result.kind = "response" => result \in Results
      BY DEF Result, Timeout, Network, ProviderUnknown
    <3>3. /\ last_response' \in Results \cup {None}
          /\ last_error' \in Result \cup {None}
      BY <3>1, <3>2 DEF SaveTerminal, TypeOK
    <3>4. TypeOK'
      BY <1>0, <1>3, <3>1, <3>3 DEF TypeOK
    <3>5. TraceEnd'
      BY <1>0, <1>6, <3>1 DEF TraceEnd
    <3>6. QED
      BY <1>4, <1>5, <2>2, <3>4, <3>5
  <2>4. CASE ~Exhausted
    <3>1. /\ phase' = "backoff"
          /\ UNCHANGED <<idx, last_outcome, last_response, last_error, answer>>
      BY <1>8, <2>4 DEF Answered
    <3>2. TypeOK'
      BY <1>0, <1>3, <3>1 DEF TypeOK
    <3>3. attempt < chain.max_attempts
      BY <2>4, AllowedFacts DEF Exhausted, TypeOK
    <3>4. TraceEnd'
      BY <1>0, <1>6, <3>1, <3>3 DEF TraceEnd
    <3>5. QED
      BY <1>4, <1>5, <2>2, <3>2, <3>4
  <2>5. QED
    BY <2>3, <2>4
<1>9. QED
  BY <1>7, <1>8

LEMMA ChainStep == ChainInv /\ [Next]_vars => ChainInv'
<1> SUFFICES ASSUME ChainInv, [Next]_vars PROVE ChainInv'
  OBVIOUS
<1>1. CASE EnterEntry
  BY <1>1, EnterStep
<1>2. ASSUME NEW result \in Result, Answered(result) PROVE ChainInv'
  BY <1>2, AnsweredStep
<1>3. CASE Retry
  <2>1. /\ phase = "backoff" /\ phase' = "forward" /\ attempt' = attempt + 1
        /\ UNCHANGED <<chain, idx, trace, last_outcome, last_response,
                       last_error, fallback_used, answer>>
    BY <1>3 DEF Retry
  <2>2. TypeOK'
    <3>1. attempt < chain.max_attempts
      BY <2>1 DEF ChainInv, TraceEnd
    <3>2. attempt + 1 \in 0..Allowed /\ Allowed' = Allowed
      BY <2>1, <3>1, AllowedFacts DEF ChainInv, TypeOK, Allowed
    <3>3. QED
      BY <2>1, <3>2 DEF ChainInv, TypeOK
  <2>3. TraceEnd'
    BY <2>1 DEF ChainInv, TraceEnd, Last
  <2>4. NothingSettled' /\ FallbackJustified' /\ FinalNotRepeated'
    BY <2>1 DEF ChainInv, NothingSettled, FallbackJustified, FinalNotRepeated, Entry
  <2>5. QED
    BY <2>2, <2>3, <2>4 DEF ChainInv
<1>4. CASE UNCHANGED vars
  BY <1>4 DEF vars, ChainInv, TypeOK, TraceEnd, NothingSettled, FallbackJustified,
              FinalNotRepeated, Last, Entry, Allowed
<1>5. QED
  BY <1>1, <1>2, <1>3, <1>4 DEF Next, Finished

LEMMA ChainInvariant == Spec => []ChainInv
BY ChainInit, ChainStep, PTL DEF Spec

\* Every variable of execute_chain keeps its type for every chain; in
\* particular the entry index never passes the end of the chain by more than
\* one, and the attempt counter never passes the retry limit, 0 included.
THEOREM TypeCorrect == Spec => []TypeOK
<1>1. ChainInv => TypeOK
  BY DEF ChainInv
<1>2. QED
  BY <1>1, ChainInvariant, PTL

\* A fallback is only ever tried right after a failure of the entry before it
\* that its trigger matches (executor.rs, matches_fallback_trigger).
THEOREM FallbacksAreJustified == Spec => []FallbackJustified
<1>1. ChainInv => FallbackJustified
  BY DEF ChainInv
<1>2. QED
  BY <1>1, ChainInvariant, PTL

\* Whatever the retry settings and the triggers say, nothing is sent upstream
\* after a success, and nothing again to an entry that failed for good.
THEOREM FinalsAreNotRepeated == Spec => []FinalNotRepeated
<1>1. ChainInv => FinalNotRepeated
  BY DEF ChainInv
<1>2. QED
  BY <1>1, ChainInvariant, PTL

----------------------------------------------------------------------------
(***************************************************************************)
(* The number of attempts.  AttemptsBounded counts the records of the      *)
(* trace, a step compares attempt with max_attempts; CountInv says what    *)
(* the trace holds of each entry while the chain is running.               *)
(***************************************************************************)
TriesOf(t, i) == {j \in 1..Len(t) : t[j].entry = i}

CountInv ==
  /\ (phase = "enter" /\ idx <= Len(chain.entries)) => AttemptsOn(idx) = 0
  /\ phase = "forward" => attempt \in 1..Allowed /\ AttemptsOn(idx) = attempt - 1
  /\ phase = "backoff" => attempt \in 1..(Allowed - 1) /\ AttemptsOn(idx) = attempt
  /\ \A i \in 1..Len(chain.entries) :
       /\ i < idx => AttemptsOn(i) = Allowed
       /\ i = idx => AttemptsOn(i) <= Allowed
       /\ i > idx => AttemptsOn(i) = 0

\* The positions of an entry in the trace are a finite set.
LEMMA TriesFinite ==
  ASSUME TypeOK, NEW i
  PROVE  /\ IsFiniteSet(TriesOf(trace, i))
         /\ AttemptsOn(i) = Cardinality(TriesOf(trace, i))
         /\ AttemptsOn(i) \in Nat
<1>1. Len(trace) \in Nat
  BY DEF TypeOK
<1>2. IsFiniteSet(1..Len(trace))
  BY <1>1, FS_Interval
<1>3. IsFiniteSet(TriesOf(trace, i))
  BY <1>2, FS_Subset DEF TriesOf
<1>4. QED
  BY <1>3, FS_CardinalityType DEF TriesOf, AttemptsOn

\* An attempt adds one to the count of its entry, and nothing to the others'.
LEMMA CountStep ==
  ASSUME TypeOK, NEW i, NEW result, trace' = Append(trace, [entry |-> idx, result |-> result])
  PROVE  AttemptsOn(i)' = IF i = idx THEN AttemptsOn(i) + 1 ELSE AttemptsOn(i)
<1> DEFINE n == Len(trace)
           new == [entry |-> idx, result |-> result]
<1>1. n \in Nat
  BY DEF TypeOK
<1>2. /\ Len(trace') = n + 1
      /\ trace'[n + 1].entry = idx
      /\ \A j \in 1..n : trace'[j] = trace[j]
  <2>1. new.entry = idx
    OBVIOUS
  <2>2. trace \in Seq([entry : 1..Len(chain.entries), result : Result])
    BY DEF TypeOK
  <2>3. Len(trace') = n + 1 /\ trace'[n + 1] = new /\ \A j \in 1..n : trace'[j] = trace[j]
    <3> HIDE DEF new
    <3> QED BY <2>2 DEF new
  <2>4. QED
    BY <2>1, <2>3
<1>3. /\ IsFiniteSet(TriesOf(trace, i)) /\ AttemptsOn(i) = Cardinality(TriesOf(trace, i))
      /\ n + 1 \notin TriesOf(trace, i)
  <2>1. n + 1 \notin TriesOf(trace, i)
    BY <1>1 DEF TriesOf
  <2>2. QED
    BY <2>1, TriesFinite
<1>4. AttemptsOn(i)' = Cardinality(TriesOf(trace', i))
  BY DEF AttemptsOn, TriesOf
<1>5. CASE i = idx
  <2>1. TriesOf(trace', i) = TriesOf(trace, i) \cup {n + 1}
    BY <1>1, <1>2, <1>5 DEF TriesOf
  <2>2. QED
    BY <1>3, <1>4, <1>5, <2>1, FS_AddElement
<1>6. CASE i # idx
  <2>1. TriesOf(trace', i) = TriesOf(trace, i)
    BY <1>1, <1>2, <1>6 DEF TriesOf
  <2>2. QED
    BY <1>3, <1>4, <1>6, <2>1
<1>7. QED
  BY <1>5, <1>6

\* The counts bound the attempts: a later entry in the trace means that this one
\* is behind idx.
LEMMA CountsBound == TypeOK /\ CountInv => AttemptsBounded
<1> SUFFICES ASSUME TypeOK, CountInv, NEW i \in 1..Len(chain.entries)
             PROVE  /\ AttemptsOn(i) <= Allowed
                    /\ (\E j \in 1..Len(trace) : trace[j].entry > i) => AttemptsOn(i) = Allowed
  BY DEF AttemptsBounded
<1>0. Len(chain.entries) \in Nat /\ idx \in Nat /\ Allowed \in Nat \ {0}
  BY ChainFacts, AllowedFacts DEF TypeOK
<1>1. AttemptsOn(i) <= Allowed
  BY <1>0 DEF CountInv
<1>2. ASSUME NEW j \in 1..Len(trace), trace[j].entry > i
      PROVE  AttemptsOn(i) = Allowed
  <2> DEFINE e == trace[j].entry
  <2>1. e \in 1..Len(chain.entries)
    <3> DEFINE Attempt == [entry : 1..Len(chain.entries), result : Result]
    <3>1. trace \in Seq(Attempt)
      BY DEF TypeOK
    <3>2. trace[j] \in Attempt
      <4> HIDE DEF Attempt
      <4> QED BY <3>1
    <3>3. QED
      BY <3>2
  <2>2. j \in TriesOf(trace, e)
    BY DEF TriesOf
  <2>3. AttemptsOn(e) # 0
    BY <2>2, TriesFinite, FS_EmptySet
  <2>4. e <= idx
    BY <1>0, <2>1, <2>3 DEF CountInv
  <2>5. QED
    BY <1>0, <1>2, <2>1, <2>4 DEF CountInv
<1>3. QED
  BY <1>1, <1>2

LEMMA CountInit == Init => CountInv
<1> SUFFICES ASSUME Init PROVE CountInv
  OBVIOUS
<1>1. TypeOK
  BY ChainInit DEF ChainInv
<1>2. Allowed \in Nat \ {0} /\ Len(chain.entries) \in Nat \ {0}
  BY <1>1, AllowedFacts, ChainFacts DEF TypeOK
<1>3. ASSUME NEW i PROVE AttemptsOn(i) = 0
  <2>1. {j \in 1..Len(trace) : trace[j].entry = i} = {}
    BY DEF Init
  <2>2. QED
    BY <2>1, FS_EmptySet DEF AttemptsOn
<1>4. QED
  BY <1>2, <1>3 DEF Init, CountInv

LEMMA CountKept == ChainInv /\ CountInv /\ [Next]_vars => CountInv'
<1> SUFFICES ASSUME ChainInv, CountInv, [Next]_vars PROVE CountInv'
  OBVIOUS
<1>0. /\ TypeOK /\ idx \in Nat /\ attempt \in Nat
      /\ Len(chain.entries) \in Nat \ {0}
      /\ Allowed \in Nat \ {0} /\ chain.max_attempts \in Nat
      /\ Allowed = IF chain.max_attempts = 0 THEN 1 ELSE chain.max_attempts
  BY ChainFacts, AllowedFacts DEF ChainInv, TypeOK
<1>1. UNCHANGED chain /\ Allowed' = Allowed
  BY DEF Next, EnterEntry, Answered, Retry, Finished, vars, Allowed
<1>2. ASSUME UNCHANGED trace, NEW i PROVE AttemptsOn(i)' = AttemptsOn(i)
  BY <1>2 DEF AttemptsOn
<1>3. CASE EnterEntry
  <2>1. UNCHANGED <<idx, trace>> /\ phase = "enter"
    BY <1>3 DEF EnterEntry
  <2>2. \A i : AttemptsOn(i)' = AttemptsOn(i)
    BY <1>2, <2>1
  <2>3. CASE Takes(idx)
    <3>1. phase' = "forward" /\ attempt' = 1
      BY <1>3, <2>3 DEF EnterEntry
    <3>2. idx <= Len(chain.entries)
      BY <1>0, <2>3 DEF Takes
    <3>3. AttemptsOn(idx)' = 0
      BY <2>1, <2>2, <3>2 DEF CountInv
    <3>4. QED
      BY <1>0, <1>1, <2>1, <2>2, <3>1, <3>3 DEF CountInv
  <2>4. CASE ~Takes(idx)
    <3>1. phase' = "finished"
      BY <1>3, <2>4 DEF EnterEntry, LeaveLoop
    <3>2. QED
      BY <1>1, <2>1, <2>2, <3>1 DEF CountInv
  <2>5. QED
    BY <2>3, <2>4
<1>4. ASSUME NEW result \in Result, Answered(result) PROVE CountInv'
  <2>1. /\ trace' = Append(trace, [entry |-> idx, result |-> result])
        /\ phase = "forward" /\ UNCHANGED attempt
        /\ idx \in 1..Len(chain.entries)
    BY <1>4 DEF Answered, ChainInv, TraceEnd
  <2>2. \A i : AttemptsOn(i)' = IF i = idx THEN AttemptsOn(i) + 1 ELSE AttemptsOn(i)
    BY <1>0, <2>1, CountStep
  <2>3. attempt \in 1..Allowed /\ AttemptsOn(idx) = attempt - 1
    BY <2>1 DEF CountInv
  <2>4. CASE Settles(result)
    <3>1. phase' = "finished" /\ UNCHANGED idx
      BY <1>4, <2>4 DEF Answered
    <3>2. QED
      BY <1>0, <1>1, <2>1, <2>2, <2>3, <3>1 DEF CountInv
  <2>5. CASE ~Settles(result) /\ Exhausted
    <3>1. phase' = "enter" /\ idx' = idx + 1
      BY <1>4, <2>5 DEF Answered
    <3>2. attempt = Allowed
      BY <1>0, <2>3, <2>5 DEF Exhausted
    <3>3. \A i \in 1..Len(chain.entries) :
            AttemptsOn(i)' = IF i < idx' THEN Allowed ELSE 0
      <4> TAKE i \in 1..Len(chain.entries)
      <4>1. CASE i < idx
        BY <1>0, <2>1, <2>2, <3>1, <4>1 DEF CountInv
      <4>2. CASE i = idx
        BY <1>0, <2>1, <2>2, <2>3, <3>1, <3>2, <4>2
      <4>3. CASE i > idx
        BY <1>0, <2>1, <2>2, <3>1, <4>3 DEF CountInv
      <4>4. QED
        BY <1>0, <2>1, <4>1, <4>2, <4>3
    <3>4. idx' <= Len(chain.entries) => AttemptsOn(idx)' = 0
      <4>1. AttemptsOn(idx)' = Cardinality({j \in 1..Len(trace') : trace'[j].entry = idx'})
        BY DEF AttemptsOn
      <4>2. \A i : AttemptsOn(i)' = Cardinality({j \in 1..Len(trace') : trace'[j].entry = i})
        BY DEF AttemptsOn
      <4>3. idx' <= Len(chain.entries) => idx' \in 1..Len(chain.entries)
        BY <1>0, <3>1
      <4>4. QED
        BY <1>0, <3>1, <3>3, <4>1, <4>2, <4>3
    <3>5. QED
      BY <1>0, <1>1, <3>1, <3>3, <3>4 DEF CountInv
  <2>6. CASE ~Settles(result) /\ ~Exhausted
    <3>1. phase' = "backoff" /\ UNCHANGED idx
      BY <1>4, <2>6 DEF Answered
    <3>2. attempt \in 1..(Allowed - 1)
      BY <1>0, <2>3, <2>6 DEF Exhausted
    <3>3. QED
      BY <1>0, <1>1, <2>1, <2>2, <2>3, <3>1, <3>2 DEF CountInv
  <2>7. QED
    BY <2>4, <2>5, <2>6
<1>5. CASE Retry
  <2>1. /\ phase = "backoff" /\ phase' = "forward" /\ attempt' = attempt + 1
        /\ UNCHANGED <<idx, trace>>
    BY <1>5 DEF Retry
  <2>2. \A i : AttemptsOn(i)' = AttemptsOn(i)
    BY <1>2, <2>1
  <2>3. QED
    BY <1>0, <1>1, <2>1, <2>2 DEF CountInv
<1>6. CASE UNCHANGED vars
  <2>1. UNCHANGED <<idx, trace, phase, attempt>>
    BY <1>6 DEF vars
  <2>2. \A i : AttemptsOn(i)' = AttemptsOn(i)
    BY <1>2, <2>1
  <2>3. QED
    BY <1>1, <2>1, <2>2 DEF CountInv
<1>7. QED
  BY <1>3, <1>4, <1>5, <1>6 DEF Next, Finished

\* An entry is tried at most max_attempts times, or once, and left for the next
\* one only when all of them are used up (executor.rs, the retry loop), for every
\* chain and every sequence of results.
THEOREM AttemptsAreBounded == Spec => []AttemptsBounded
<1>1. Spec => []CountInv
  BY ChainInvariant, CountInit, CountKept, PTL DEF Spec
<1>2. ChainInv /\ CountInv => AttemptsBounded
  BY CountsBound DEF ChainInv
<1>3. QED
  BY <1>1, <1>2, ChainInvariant, PTL

----------------------------------------------------------------------------
(***************************************************************************)
(* The answer.  After the loop it is taken from last_response and          *)
(* last_error, which a step cannot relate to the trace; AnswerInv does.    *)
(* Closed are the responses that ended an entry which was left.            *)
(***************************************************************************)
Closed ==
  {i \in 1..Len(trace) :
     EndsEntry(i) /\ trace[i].entry < idx /\ trace[i].result.kind = "response"}

\* r is the result at the last position of S.
LatestOf(S, t, r) == \E i \in S : (\A j \in S : j <= i) /\ r = t[i].result

AnswerInv ==
  /\ \A i \in 1..Len(trace) :
       /\ trace[i].entry <= idx
       /\ phase = "enter" => trace[i].entry < idx
  /\ phase # "finished" =>
       \/ Closed = {} /\ last_response = None
       \/ LatestOf(Closed, trace, last_response)
  /\ (phase = "enter" /\ trace # <<>> /\ Closed = {}) => last_error = Last.result
  /\ phase \in {"forward", "backoff"} => fallback_used = FallbackName(idx)
  /\ (phase = "enter" /\ trace # <<>>) => fallback_used = FallbackName(Last.entry)
  /\ AnswerFromTrace

\* An attempt has an entry of the chain and a result, and entries never go down.
LEMMA TraceFacts ==
  ASSUME ChainInv
  PROVE  /\ Len(trace) \in Nat /\ idx \in Nat /\ Len(chain.entries) \in Nat \ {0}
         /\ \A i \in 1..Len(trace) : trace[i].entry \in Nat \ {0} /\ trace[i].result \in Result
         /\ \A i \in 1..(Len(trace) - 1) : trace[i].entry <= trace[i + 1].entry
         /\ trace = <<>> <=> Len(trace) = 0
<1> DEFINE Attempt == [entry : 1..Len(chain.entries), result : Result]
<1>1. trace \in Seq(Attempt) /\ idx \in Nat /\ Len(chain.entries) \in Nat \ {0}
  BY ChainFacts DEF ChainInv, TypeOK
<1>2. /\ Len(trace) \in Nat /\ \A i \in 1..Len(trace) : trace[i] \in Attempt
      /\ trace = <<>> <=> Len(trace) = 0
  <2> HIDE DEF Attempt
  <2> QED BY <1>1
<1>3. \A i \in 1..Len(trace) : trace[i].entry \in Nat \ {0} /\ trace[i].result \in Result
  BY <1>2
<1>4. ASSUME NEW i \in 1..(Len(trace) - 1) PROVE trace[i].entry <= trace[i + 1].entry
  <2>1. i \in 1..Len(trace) /\ i + 1 \in 1..Len(trace)
    BY <1>2
  <2>2. trace[i].entry \in Nat /\ trace[i + 1].entry \in Nat
    BY <1>3, <2>1
  <2>3. QED
    BY <2>2 DEF ChainInv, FallbackJustified
<1>5. QED
  BY <1>1, <1>2, <1>3, <1>4

\* Which positions end an entry once another attempt is recorded.
LEMMA EndsStep ==
  ASSUME ChainInv, AnswerInv, NEW result \in Result, Answered(result)
  PROVE  /\ Len(trace') = Len(trace) + 1
         /\ trace'[Len(trace) + 1] = [entry |-> idx, result |-> result]
         /\ \A i \in 1..Len(trace) :
              /\ trace'[i] = trace[i]
              /\ trace[i].entry < idx => (EndsEntry(i)' <=> EndsEntry(i))
              /\ trace[i].entry = idx => ~EndsEntry(i)'
         /\ \A i : i = Len(trace) + 1 => EndsEntry(i)'
<1> DEFINE n == Len(trace)
           new == [entry |-> idx, result |-> result]
<1>1. /\ n \in Nat /\ idx \in Nat
      /\ \A i \in 1..n : trace[i].entry \in Nat
      /\ \A i \in 1..(n - 1) : trace[i].entry <= trace[i + 1].entry
  BY TraceFacts
<1>2. Len(trace') = n + 1 /\ trace'[n + 1] = new /\ \A i \in 1..n : trace'[i] = trace[i]
  <2>1. trace' = Append(trace, new)
    BY DEF Answered
  <2>2. trace \in Seq([entry : 1..Len(chain.entries), result : Result])
    BY DEF ChainInv, TypeOK
  <2> HIDE DEF new
  <2>3. QED
    BY <2>1, <2>2
<1>3. new.entry = idx
  OBVIOUS
<1> HIDE DEF new
<1>4. ASSUME NEW i \in 1..n
      PROVE  /\ trace[i].entry < idx => (EndsEntry(i)' <=> EndsEntry(i))
             /\ trace[i].entry = idx => ~EndsEntry(i)'
  <2>1. CASE i = n
    BY <1>1, <1>2, <1>3, <2>1 DEF EndsEntry
  <2>2. CASE i < n
    <3>1. /\ i \in 1..(n - 1) /\ i + 1 \in 1..n
          /\ trace'[i + 1] = trace[i + 1] /\ trace'[i] = trace[i]
      BY <1>1, <1>2, <2>2
    <3>2. trace[i].entry <= trace[i + 1].entry /\ trace[i + 1].entry <= idx
      BY <1>1, <3>1 DEF AnswerInv
    <3>3. EndsEntry(i)' <=> EndsEntry(i)
      BY <1>1, <1>2, <2>2, <3>1 DEF EndsEntry
    <3>4. trace[i].entry = idx => trace[i + 1].entry = trace[i].entry
      BY <1>1, <3>1, <3>2
    <3>5. QED
      BY <1>1, <2>2, <3>1, <3>3, <3>4 DEF EndsEntry
  <2>3. QED
    BY <1>1, <2>1, <2>2
<1>5. ASSUME NEW i, i = n + 1 PROVE EndsEntry(i)'
  BY <1>2, <1>5 DEF EndsEntry
<1>6. QED
  BY <1>2, <1>4, <1>5 DEF new

LEMMA AnswerInit == Init => AnswerInv
<1> SUFFICES ASSUME Init PROVE AnswerInv
  OBVIOUS
<1>1. Closed = {}
  BY DEF Init, Closed
<1>2. QED
  BY <1>1 DEF Init, AnswerInv, AnswerFromTrace

\* Entering an entry, or leaving the loop with what it has saved.
LEMMA AnswerEnter == ChainInv /\ AnswerInv /\ EnterEntry => AnswerInv'
<1> SUFFICES ASSUME ChainInv, AnswerInv, EnterEntry PROVE AnswerInv'
  OBVIOUS
<1> DEFINE n == Len(trace)
<1>0. /\ phase = "enter"
      /\ UNCHANGED <<chain, idx, trace, last_outcome, last_response, last_error>>
  BY DEF EnterEntry
<1>1. /\ n \in Nat /\ idx \in Nat /\ trace = <<>> <=> n = 0
      /\ \A i \in 1..n : trace[i].entry \in Nat \ {0} /\ trace[i].result \in Result
  BY TraceFacts
<1>2. Closed' = Closed /\ Last' = Last
  BY <1>0 DEF Closed, EndsEntry, Last
<1>3. CASE Takes(idx)
  <2>1. phase' = "forward" /\ fallback_used' = FallbackName(idx)
    BY <1>3 DEF EnterEntry
  <2>2. FallbackName(idx)' = FallbackName(idx)
    BY <1>0 DEF FallbackName, Entry
  <2>3. AnswerFromTrace'
    BY <2>1 DEF AnswerFromTrace
  <2>4. QED
    BY <1>0, <1>2, <2>1, <2>2, <2>3 DEF AnswerInv, LatestOf
<1>4. CASE ~Takes(idx)
  <2>1. phase' = "finished" /\ answer' = Fallen /\ UNCHANGED fallback_used
    BY <1>4 DEF EnterEntry, LeaveLoop
  <2>2. n > 0 /\ trace # <<>> /\ n \in 1..n
    BY <1>0, <1>1, <1>4 DEF Takes, ChainInv, TraceEnd
  <2>3. ~Settles(Last.result) /\ Last.result \in Result
    BY <1>0, <1>1, <2>2 DEF ChainInv, NothingSettled, Last
  <2>4. Closed = {i \in 1..n : EndsEntry(i) /\ trace[i].result.kind = "response"}
    BY <1>0 DEF AnswerInv, Closed
  <2>5. Closed = {} => Fallen = Last.result
    BY <1>0, <2>2, <2>3, NoneAssumption DEF AnswerInv, LatestOf, Fallen
  <2>6. Closed # {} => LatestOf(Closed, trace, Fallen)
    BY <1>0, <1>1, NoneAssumption DEF AnswerInv, LatestOf, Fallen, Closed
  <2>7. fallback_used = IF Last.entry = 1 THEN None ELSE Entry(Last.entry).provider
    BY <1>0, <2>2 DEF AnswerInv, FallbackName
  <2>8. AnswerFromTrace'
    <3>1. /\ n > 0
          /\ fallback_used = IF trace[n].entry = 1 THEN None ELSE Entry(trace[n].entry).provider
          /\ IF Settles(trace[n].result) \/ Closed = {}
             THEN Fallen = trace[n].result
             ELSE \E i \in Closed : (\A j \in Closed : j <= i) /\ Fallen = trace[i].result
      BY <2>2, <2>3, <2>5, <2>6, <2>7 DEF Last, LatestOf
    <3>2. Entry(trace[n].entry)' = Entry(trace[n].entry)
      BY <1>0 DEF Entry
    <3>3. Settles(trace[n].result)' = Settles(trace[n].result)
      BY <1>0 DEF Settles, OutcomeClass
    <3>4. Closed = {i \in 1..Len(trace') : EndsEntry(i)' /\ trace'[i].result.kind = "response"}
      BY <1>0, <2>4 DEF EndsEntry
    <3>5. QED
      BY <1>0, <2>1, <3>1, <3>2, <3>3, <3>4 DEF AnswerFromTrace
  <2>9. QED
    BY <1>0, <2>1, <2>8 DEF AnswerInv
<1>5. QED
  BY <1>3, <1>4

\* An attempt ended: it settles the request, or it closes its entry, or the entry
\* is tried again and nothing more is closed.
LEMMA AnswerAnswered ==
  ASSUME ChainInv, AnswerInv, NEW result \in Result, Answered(result)
  PROVE  AnswerInv'
<1> DEFINE n == Len(trace)
           new == [entry |-> idx, result |-> result]
<1>0. /\ phase = "forward" /\ UNCHANGED <<chain, attempt, fallback_used>>
      /\ fallback_used = FallbackName(idx)
      /\ \/ Closed = {} /\ last_response = None
         \/ LatestOf(Closed, trace, last_response)
  BY DEF Answered, AnswerInv
<1>1. /\ n \in Nat /\ idx \in Nat
      /\ \A i \in 1..n : trace[i].entry \in Nat \ {0} /\ trace[i].entry <= idx
  BY TraceFacts DEF AnswerInv
<1>2. /\ Len(trace') = n + 1 /\ trace'[n + 1] = new
      /\ \A i \in 1..n :
           /\ trace'[i] = trace[i]
           /\ trace[i].entry < idx => (EndsEntry(i)' <=> EndsEntry(i))
           /\ trace[i].entry = idx => ~EndsEntry(i)'
      /\ \A i : i = n + 1 => EndsEntry(i)'
  BY EndsStep
<1>3. new.entry = idx /\ new.result = result
  OBVIOUS
<1> HIDE DEF new
<1>4. trace' # <<>> /\ Last' = new /\ FallbackName(idx) = IF idx = 1 THEN None ELSE Entry(idx).provider
  BY <1>1, <1>2 DEF Last, FallbackName
<1>5. \A i : Entry(i)' = Entry(i)
  BY <1>0 DEF Entry
<1>6. CASE Settles(result)
  <2>1. phase' = "finished" /\ answer' = result /\ UNCHANGED idx
    BY <1>6 DEF Answered
  <2>2. AnswerFromTrace'
    <3>1. Settles(trace[Len(trace)].result)'
      BY <1>2, <1>3, <1>6 DEF Settles, OutcomeClass
    <3>2. fallback_used' = IF idx = 1 THEN None ELSE Entry(idx).provider
      BY <1>0, <1>4
    <3>3. /\ Len(trace') > 0
          /\ trace'[Len(trace')].entry = idx /\ trace'[Len(trace')].result = result
      BY <1>1, <1>2, <1>3
    <3>4. Entry(trace[Len(trace)].entry)' = Entry(idx)
      BY <1>0, <3>3 DEF Entry
    <3>5. QED
      BY <2>1, <3>1, <3>2, <3>3, <3>4 DEF AnswerFromTrace
  <2>3. \A i \in 1..Len(trace') : trace'[i].entry <= idx'
    BY <1>1, <1>2, <1>3, <2>1
  <2>4. QED
    BY <2>1, <2>2, <2>3 DEF AnswerInv
<1>7. CASE ~Settles(result) /\ ~Exhausted
  <2>1. phase' = "backoff" /\ UNCHANGED <<idx, last_response, last_error>>
    BY <1>7 DEF Answered
  <2>2. Closed' = Closed
    BY <1>1, <1>2, <1>3, <2>1 DEF Closed
  <2>3. \/ Closed' = {} /\ last_response' = None
        \/ LatestOf(Closed', trace', last_response')
    BY <1>0, <1>2, <2>1, <2>2 DEF LatestOf, Closed
  <2>4. \A i \in 1..Len(trace') : trace'[i].entry <= idx'
    BY <1>1, <1>2, <1>3, <2>1
  <2>5. AnswerFromTrace' /\ FallbackName(idx)' = FallbackName(idx)
    BY <1>0, <2>1 DEF AnswerFromTrace, FallbackName, Entry
  <2>6. QED
    BY <1>0, <2>1, <2>3, <2>4, <2>5 DEF AnswerInv
<1>8. CASE ~Settles(result) /\ Exhausted
  <2>1. phase' = "enter" /\ idx' = idx + 1 /\ SaveTerminal(result)
    BY <1>8 DEF Answered
  <2>2. Closed' = Closed \cup {i \in {n + 1} : result.kind = "response"}
    <3>1. \A i \in 1..n : i \in Closed' <=> i \in Closed
      BY <1>1, <1>2, <2>1 DEF Closed
    <3>2. \A i : i = n + 1 => (i \in Closed' <=> result.kind = "response")
      BY <1>1, <1>2, <1>3, <2>1 DEF Closed
    <3>3. Closed' \subseteq 1..(n + 1) /\ Closed \subseteq 1..n
      BY <1>2 DEF Closed
    <3>4. 1..(n + 1) = (1..n) \cup {n + 1} /\ n + 1 \notin 1..n
      BY <1>1
    <3> HIDE DEF Closed, n
    <3>5. n + 1 \in Closed' <=> result.kind = "response"
      BY <3>2
    <3>6. QED
      BY <3>1, <3>3, <3>4, <3>5, Zenon
  <2>3. \A i \in 1..Len(trace') : trace'[i].entry <= idx' /\ trace'[i].entry < idx'
    BY <1>1, <1>2, <1>3, <2>1
  <2>4. AnswerFromTrace' /\ FallbackName(Last.entry)' = FallbackName(idx)
    BY <1>0, <1>3, <1>4, <2>1 DEF AnswerFromTrace, FallbackName, Entry
  <2>5. CASE result.kind = "response"
    <3>1. last_response' = result
      BY <2>1, <2>5 DEF SaveTerminal
    <3>2. n + 1 \in Closed' /\ \A j \in Closed' : j <= n + 1
      BY <1>1, <2>2, <2>5 DEF Closed
    <3>3. LatestOf(Closed', trace', last_response')
      BY <1>2, <1>3, <3>1, <3>2 DEF LatestOf
    <3>4. QED
      BY <1>0, <2>1, <2>3, <2>4, <3>2, <3>3 DEF AnswerInv
  <2>6. CASE result.kind # "response"
    <3>1. last_error' = result /\ UNCHANGED last_response
      BY <2>1, <2>6 DEF SaveTerminal
    <3>2. Closed' = Closed
      BY <2>2, <2>6
    <3>3. \/ Closed' = {} /\ last_response' = None
          \/ LatestOf(Closed', trace', last_response')
      BY <1>0, <1>2, <3>1, <3>2 DEF LatestOf, Closed
    <3>4. last_error' = Last'.result
      BY <1>3, <1>4, <3>1
    <3>5. QED
      BY <1>0, <2>1, <2>3, <2>4, <3>3, <3>4 DEF AnswerInv
  <2>7. QED
    BY <2>5, <2>6
<1>9. QED
  BY <1>6, <1>7, <1>8

LEMMA AnswerKept == ChainInv /\ AnswerInv /\ [Next]_vars => AnswerInv'
<1> SUFFICES ASSUME ChainInv, AnswerInv, [Next]_vars PROVE AnswerInv'
  OBVIOUS
<1>1. CASE Retry
  <2>1. /\ phase = "backoff" /\ phase' = "forward"
        /\ UNCHANGED <<chain, idx, trace, last_response, last_error, fallback_used>>
    BY <1>1 DEF Retry
  <2>2. AnswerFromTrace' /\ Closed' = Closed /\ FallbackName(idx)' = FallbackName(idx)
    BY <2>1 DEF AnswerFromTrace, Closed, EndsEntry, FallbackName, Entry
  <2>3. QED
    BY <2>1, <2>2 DEF AnswerInv, LatestOf
<1>2. CASE UNCHANGED vars
  BY <1>2 DEF vars, AnswerInv, AnswerFromTrace, Closed, EndsEntry, FallbackName, Entry,
              LatestOf, Last, Settles, OutcomeClass
<1>3. QED
  BY <1>1, <1>2, AnswerEnter, AnswerAnswered DEF Next, Finished

\* What execute_chain returns: the result that settled the request, else the
\* latest response that ended an entry, else the last error; and fallback_used
\* names the entry tried last (executor.rs).
THEOREM AnswerIsFromTrace == Spec => []AnswerFromTrace
<1>1. Spec => []AnswerInv
  BY ChainInvariant, AnswerInit, AnswerKept, PTL DEF Spec
<1>2. AnswerInv => AnswerFromTrace
  BY DEF AnswerInv
<1>3. QED
  BY <1>1, <1>2, PTL
=============================================================================
