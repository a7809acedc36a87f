--------------------------- MODULE ProviderChain ---------------------------
(***************************************************************************)
(* execute_chain: one request is tried on the entries of a route, primary  *)
(* first, with retries on each entry and a trigger in front of each        *)
(* fallback (gateway-core/src/proxy/{executor,retry,fallback,engine}.rs).  *)
(* What an upstream answers is the environment's choice.                   *)
(***************************************************************************)
EXTENDS Integers, Sequences, FiniteSets, Option

CONSTANTS
  Chains,      \* the chains a route may configure: primary and fallbacks
  Known,       \* providers the engine was built with
  Statuses     \* HTTP statuses an upstream may answer with

Trigger == {"upstream_5xx", "upstream_error", "timeout", "rate_limited",
            "ratelimited", "network"}

\* ProviderChain::from_route: primary, then the fallbacks; the retry settings
\* are the route's.  max_attempts is not validated, so it may be 0.
ChainType(c) ==
  /\ c.entries \in Seq([provider : STRING, trigger : SUBSET Trigger])
  /\ c.entries # <<>>
  /\ c.max_attempts \in Nat

ASSUME ChainsAssumption ==
  /\ \A c \in Chains : ChainType(c)
  /\ Statuses \subseteq Nat
  /\ None \notin STRING

(***************************************************************************)
(* Attempt results and their classification.                               *)
(***************************************************************************)
\* A response with a status, or an error with the status it maps to.
Results == [kind : {"response"}, status : Statuses]
Timeout == [kind |-> "timeout", status |-> 504]
Network == [kind |-> "http", status |-> 500]
ProviderUnknown == [kind |-> "unknown", status |-> 400]
Internal == [kind |-> "internal", status |-> 500]
Result == Results \cup {Timeout, Network, ProviderUnknown}

\* An Option that holds a result is not None.
ASSUME NoneAssumption == None \notin Result

RetryableStatuses == {408, 425, 429, 500, 502, 503, 504}

\* AttemptOutcome::from_status and from_error.
OutcomeClass(result) ==
  CASE result.kind = "timeout" -> "Timeout"
    [] result.kind = "http" -> "RetryableNetwork"
    [] result.kind = "response" /\ result.status \in RetryableStatuses
         -> "RetryableStatus"
    [] result.kind = "response" /\ result.status \in 200..399 -> "Success"
    [] OTHER -> "NonRetryable"

\* Mutant: a failure for good does not settle the request.
SettledBySuccess(result) == OutcomeClass(result) = "Success"

\* The outcomes execute_chain returns at once.
Settles(result) == OutcomeClass(result) \in {"Success", "NonRetryable"}

\* matches_fallback_trigger.
MatchesTrigger(result, triggers) ==
  LET class == OutcomeClass(result)
      server == result.status \in 500..599
  IN IF triggers = {}
     THEN class # "Success"
     ELSE \/ /\ class \in {"RetryableStatus", "NonRetryable"} /\ server
             /\ triggers \cap {"upstream_5xx", "upstream_error"} # {}
          \/ /\ class = "RetryableStatus" /\ result.status = 429
             /\ triggers \cap {"rate_limited", "ratelimited"} # {}
          \/ class = "Timeout" /\ "timeout" \in triggers
          \/ /\ class = "RetryableNetwork"
             /\ triggers \cap {"network", "timeout"} # {}

----------------------------------------------------------------------------
VARIABLES
  chain,         \* the route's chain
  phase,         \* "enter" an entry, "forward", "backoff", "finished"
  idx,           \* entry being tried
  attempt,       \* attempts made on it, the current one included
  trace,         \* attempts: entry and result
  last_outcome,  \* terminal result of the last exhausted entry
  last_response, \* response of an exhausted entry
  last_error,    \* error of an exhausted entry
  fallback_used,
  answer         \* ChainResult.response

vars == <<chain, phase, idx, attempt, trace, last_outcome, last_response,
          last_error, fallback_used, answer>>

Entry(i) == chain.entries[i]

Init ==
  /\ chain \in Chains
  /\ phase = "enter"
  /\ idx = 1
  /\ attempt = 0
  /\ trace = <<>>
  /\ last_outcome = None
  /\ last_response = None
  /\ last_error = None
  /\ fallback_used = None
  /\ answer = None

\* Mutant: an error of a later entry hides the response of an earlier one.
ErrorFirst ==
  IF last_error # None THEN last_error
  ELSE IF last_response # None THEN last_response ELSE Internal

\* What the chain answers after the loop: a response if any exhausted entry got
\* one, else the last error.
Fallen ==
  IF last_response # None THEN last_response
  ELSE IF last_error # None THEN last_error ELSE Internal

\* Mutant: a fallback is tried whatever its trigger says.
LoopIgnoresTrigger(i) == i \in 1..Len(chain.entries)

\* The head of the loop over entries: the primary is tried at once, a fallback
\* only if its trigger matches; otherwise, or past the end, the loop is left.
Takes(i) ==
  \/ i = 1
  \/ /\ i \in 2..Len(chain.entries)
     /\ last_outcome # None
     /\ MatchesTrigger(last_outcome, Entry(i).trigger)

FallbackName(i) == IF i = 1 THEN None ELSE Entry(i).provider

\* The loop is left without a settling result.
LeaveLoop == phase' = "finished" /\ answer' = Fallen

EnterEntry ==
  /\ phase = "enter"
  /\ \/ /\ Takes(idx)
        /\ fallback_used' = FallbackName(idx)
        /\ phase' = "forward"
        /\ attempt' = 1
        /\ UNCHANGED answer
     \/ /\ ~Takes(idx)
        /\ LeaveLoop
        /\ UNCHANGED <<fallback_used, attempt>>
  /\ UNCHANGED <<chain, idx, trace, last_outcome, last_response, last_error>>

\* Mutant: one attempt more than configured.
NoMoreRetries == attempt > chain.max_attempts

\* Mutant: the limit is compared for equality, which 0 never meets.
AtLimit == attempt = chain.max_attempts

Exhausted == attempt >= chain.max_attempts

\* The result that exhausted an entry; an error does not clear a response.
SaveTerminal(result) ==
  \/ /\ result.kind = "response"
     /\ last_response' = result /\ UNCHANGED last_error
  \/ /\ result.kind # "response"
     /\ last_error' = result /\ UNCHANGED last_response

\* engine.forward returned: classify, record the attempt, and return, retry or
\* go on to the next entry.
Answered(result) ==
  /\ phase = "forward"
  /\ (result = ProviderUnknown) <=> Entry(idx).provider \notin Known
  /\ trace' = Append(trace, [entry |-> idx, result |-> result])
  /\ \/ /\ Settles(result)
        /\ phase' = "finished"
        /\ answer' = result
        /\ UNCHANGED <<idx, last_outcome, last_response, last_error>>
     \/ /\ ~Settles(result) /\ Exhausted
        /\ phase' = "enter"
        /\ idx' = idx + 1
        /\ last_outcome' = result
        /\ SaveTerminal(result)
        /\ UNCHANGED answer
     \/ /\ ~Settles(result) /\ ~Exhausted
        /\ phase' = "backoff"
        /\ UNCHANGED <<idx, last_outcome, last_response, last_error, answer>>
  /\ UNCHANGED <<chain, attempt, fallback_used>>

\* The backoff elapsed.
Retry ==
  /\ phase = "backoff"
  /\ phase' = "forward"
  /\ attempt' = attempt + 1
  /\ UNCHANGED <<chain, idx, trace, last_outcome, last_response, last_error,
                 fallback_used, answer>>

\* ChainResult was returned.
Finished == phase = "finished" /\ UNCHANGED vars

Next == EnterEntry \/ (\E result \in Result : Answered(result)) \/ Retry \/ Finished

Spec == Init /\ [][Next]_vars

----------------------------------------------------------------------------
(***************************************************************************)
(* Properties                                                              *)
(***************************************************************************)
\* An entry is tried at most this often: the limit is compared after the attempt,
\* so a limit of 0 allows one.
Allowed == IF chain.max_attempts = 0 THEN 1 ELSE chain.max_attempts

\* The executor's variables keep their types; the attempt counter stays within
\* the route's limit, also when that is 0.
TypeOK ==
  /\ chain \in Chains
  /\ phase \in {"enter", "forward", "backoff", "finished"}
  /\ idx \in 1..(Len(chain.entries) + 1)
  /\ attempt \in 0..Allowed
  /\ trace \in Seq([entry : 1..Len(chain.entries), result : Result])
  /\ last_outcome \in Result \cup {None}
  /\ last_response \in Results \cup {None}
  /\ last_error \in Result \cup {None}
  /\ answer \in Result \cup {None, Internal}

\* The attempts move along the chain one entry at a time, and they move to an
\* entry only after the previous one ended in a result that the new entry's
\* trigger matches.
FallbackJustified ==
  \A i \in 1..(Len(trace) - 1) :
    trace[i + 1].entry # trace[i].entry =>
      /\ trace[i + 1].entry = trace[i].entry + 1
      /\ MatchesTrigger(trace[i].result, Entry(trace[i + 1].entry).trigger)

\* A success is never followed by another attempt, and an entry that failed for
\* good (400, 404, an unknown provider) is not asked again.
FinalNotRepeated ==
  \A i \in 1..(Len(trace) - 1) :
    /\ OutcomeClass(trace[i].result) # "Success"
    /\ OutcomeClass(trace[i].result) = "NonRetryable" =>
         trace[i + 1].entry # trace[i].entry

\* What the documents say of triggers: a failure that the next entry's trigger
\* matches is taken over by that entry, an empty list matching every failure.
\* The chain does not stop at such a failure.
FallbackTaken ==
  (phase = "finished" /\ trace # <<>>) =>
    LET last == trace[Len(trace)]
    IN last.entry < Len(chain.entries) =>
         ~MatchesTrigger(last.result, Entry(last.entry + 1).trigger)

\* An entry is tried at most max_attempts times (once if that is 0), and given
\* up for the next entry only after all of them.
AttemptsOn(i) == Cardinality({j \in 1..Len(trace) : trace[j].entry = i})
AttemptsBounded ==
  \A i \in 1..Len(chain.entries) :
    /\ AttemptsOn(i) <= Allowed
    /\ (\E j \in 1..Len(trace) : trace[j].entry > i) => AttemptsOn(i) = Allowed

\* The answer is the settling result if there is one, and otherwise the latest
\* response that ended an entry, even if a later entry ended in an error; and
\* fallback_used names the entry that was tried last, or nothing if that was
\* the primary: the pricing lookup and the log rely on it.
EndsEntry(i) == i = Len(trace) \/ trace[i + 1].entry # trace[i].entry
AnswerFromTrace ==
  phase = "finished" =>
    LET n == Len(trace)
        last == trace[n].entry
        responses == {i \in 1..n : EndsEntry(i) /\ trace[i].result.kind = "response"}
    IN /\ n > 0
       /\ fallback_used = IF last = 1 THEN None ELSE Entry(last).provider
       /\ IF Settles(trace[n].result) \/ responses = {}
          THEN answer = trace[n].result
          ELSE \E i \in responses : /\ \A j \in responses : j <= i
                                    /\ answer = trace[i].result
=============================================================================
