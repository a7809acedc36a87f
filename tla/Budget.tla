------------------------------- MODULE Budget -------------------------------
(***************************************************************************)
(* BudgetManager (gateway-api/src/budget.rs) over a shared counter store:  *)
(* the tasks of finished requests record their cost on every matching      *)
(* budget and fire thresholds, while new requests ask whether one of their *)
(* budgets blocks them, and periods roll over.  Each counter operation and *)
(* each webhook is a step of its own.                                      *)
(***************************************************************************)
EXTENDS Integers, Sequences, FiniteSetsExt, Functions, Option

CONSTANTS
  Budgets,         \* the budgets[] array: see BudgetType; its names, which key the
                   \* counters, are unique, so that an index stands for a name
  Spenders,        \* calls of record_cost
  Checkers,        \* calls of check_block
  ProjectOf, KeyOf,\* the principal of a call
  CostOf,          \* CostOf[c]: the cost a spender records
  StoreFails,      \* {FALSE}, or BOOLEAN if the counter store (Redis) may fail
  MaxPeriod        \* bound: periods 0..MaxPeriod of each budget

\* A threshold is in percent of the amount; hook is its webhook, if any.
ThresholdType == [at : Nat, action : {"notify", "block"}, hook : STRING \cup {None}]
BudgetType(b) ==
  /\ b.amount \in Nat
  /\ b.thresholds \in Seq(ThresholdType)
  /\ b.project \in STRING \cup {None} /\ b.key \in STRING \cup {None}

Calls == Spenders \cup Checkers

ASSUME BudgetAssumption ==
  /\ Len(Budgets) \in Nat
  /\ \A i \in 1..Len(Budgets) : BudgetType(Budgets[i])
  /\ Spenders \cap Checkers = {}
  /\ IsFiniteSet(Calls)
  /\ DOMAIN ProjectOf = Calls /\ DOMAIN KeyOf = Calls
  /\ CostOf \in [Spenders -> Nat]
  /\ StoreFails \subseteq BOOLEAN
  /\ MaxPeriod \in Nat

Index == 1..Len(Budgets)
Period == 0..MaxPeriod

\* matching_budgets: a missing field of the target matches everything.
Matches(i, c) ==
  Budgets[i].project \in {None, ProjectOf[c]} /\ Budgets[i].key \in {None, KeyOf[c]}

\* Mutant: the threshold itself does not count.
Beyond(i, used, t) == Budgets[i].amount > 0 /\ used * 100 > t.at * Budgets[i].amount

\* used / amount >= at, and 0 >= at for a budget without an amount.
Crosses(i, used, t) ==
  IF Budgets[i].amount > 0 THEN used * 100 >= t.at * Budgets[i].amount ELSE t.at = 0

\* (at * 100.0) as u32: the percentage as the dedupe key has it.  In f64 the
\* products for 29, 57 and 58 percent fall just below the integer.
Bucket(percent) == IF percent \in {29, 57, 58} THEN percent - 1 ELSE percent

Blocks(i, used) ==
  \E n \in DOMAIN Budgets[i].thresholds :
    LET t == Budgets[i].thresholds[n] IN t.action = "block" /\ Crosses(i, used, t)

VARIABLES
  now,       \* the current period of each budget
  used,      \* the budget counters, by budget and period
  notified,  \* dedupe keys: budget, period, bucket
  stage,     \* "new", "budget", "threshold", "hook", "done"
  at,        \* the budget a call is at
  step,      \* the threshold a spender is at
  seen,      \* the counter and the period it saw there
  blocked,   \* answer of check_block
  fired,     \* history: thresholds fired, as often as they were
  told,      \* history: the last total a recording was answered with
  missed,    \* history: <<call, budget>> whose counter operation never happened
  known      \* history: budgets that blocked when the check began, and when

vars == <<now, used, notified, stage, at, step, seen, blocked, fired, told, missed, known>>

\* The next matching budget from index i on, or the end of the loop.
NextMatch(c, i) ==
  LET later == {j \in Index : j >= i /\ Matches(j, c)}
  IN IF later = {} THEN Len(Budgets) + 1 ELSE Min(later)

\* Go to the next matching budget, or return.
Advance(c, i) ==
  /\ at' = [at EXCEPT ![c] = NextMatch(c, i)]
  /\ stage' = [stage EXCEPT ![c] = IF NextMatch(c, i) \in Index THEN "budget" ELSE "done"]

Init ==
  /\ now = [i \in Index |-> 0]
  /\ used = [i \in Index |-> [p \in Period |-> 0]]
  /\ told = used
  /\ notified = {}
  /\ stage = [c \in Calls |-> "new"]
  /\ at = [c \in Calls |-> 0]
  /\ step = [c \in Spenders |-> 1]
  /\ seen = [c \in Spenders |-> [used |-> 0, period |-> 0]]
  /\ blocked = [c \in Checkers |-> FALSE]
  /\ fired = <<>>
  /\ missed = {}
  /\ known = [c \in Checkers |-> {}]

\* A cost of zero or less is not recorded at all.
StartSpending(c) ==
  /\ stage[c] = "new"
  /\ \/ CostOf[c] > 0 /\ Advance(c, 1)
     \/ /\ CostOf[c] = 0
        /\ stage' = [stage EXCEPT ![c] = "done"]
        /\ UNCHANGED at
  /\ UNCHANGED <<now, used, notified, step, seen, blocked, fired, told, missed, known>>

\* incr_budget in the period that is current now.
Record(c) ==
  LET i == at[c]
      p == now[i]
      total == used[i][p] + CostOf[c]
  IN /\ stage[c] = "budget"
     /\ used' = [used EXCEPT ![i][p] = total]
     /\ told' = [told EXCEPT ![i][p] = total]
     /\ seen' = [seen EXCEPT ![c] = [used |-> total, period |-> p]]
     /\ step' = [step EXCEPT ![c] = 1]
     /\ stage' = [stage EXCEPT ![c] = "threshold"]
     /\ UNCHANGED <<now, notified, at, blocked, fired, missed, known>>

\* incr_budget of Redis fails, which counts as 0 used: INCRBYFLOAT did, or its
\* answer was lost, or EXPIRE did after it, and then the cost has landed.
RecordFails(c, landed) ==
  LET i == at[c]
      p == now[i]
  IN /\ TRUE \in StoreFails
     /\ stage[c] = "budget"
     /\ \/ /\ landed
           /\ used' = [used EXCEPT ![i][p] = @ + CostOf[c]]
           /\ UNCHANGED missed
        \/ /\ ~landed
           /\ missed' = missed \cup {<<c, i>>}
           /\ UNCHANGED used
     /\ seen' = [seen EXCEPT ![c] = [used |-> 0, period |-> p]]
     /\ step' = [step EXCEPT ![c] = 1]
     /\ stage' = [stage EXCEPT ![c] = "threshold"]
     /\ UNCHANGED <<now, notified, at, blocked, fired, told, known>>

\* Mutant: thresholds are not deduplicated.
FreshAlways(key) == TRUE

\* notified.insert returned true.
Fresh(key) == key \notin notified

\* One round of the loop over thresholds; firing may wait for a webhook.
Threshold(c) ==
  LET i == at[c]
      n == step[c]
      t == Budgets[i].thresholds[n]
      key == <<i, seen[c].period, Bucket(t.at)>>
      fires == Crosses(i, seen[c].used, t) /\ Fresh(key)
  IN /\ stage[c] = "threshold" /\ n \in DOMAIN Budgets[i].thresholds
     /\ \/ /\ fires
           /\ notified' = notified \cup {key}
           /\ fired' = Append(fired, [budget |-> i, period |-> seen[c].period, threshold |-> n])
           /\ stage' = [stage EXCEPT ![c] = IF t.hook = None THEN "threshold" ELSE "hook"]
        \/ /\ ~fires
           /\ UNCHANGED <<notified, fired, stage>>
     /\ step' = [step EXCEPT ![c] = @ + 1]
     /\ UNCHANGED <<now, used, at, seen, blocked, told, missed, known>>

\* The webhook was answered, failed or timed out: it is not tried again.
HookEnds(c) ==
  /\ stage[c] = "hook"
  /\ stage' = [stage EXCEPT ![c] = "threshold"]
  /\ UNCHANGED <<now, used, notified, at, step, seen, blocked, fired, told, missed, known>>

\* Mutant: only the first matching budget is charged.
StopAtFirst(c) ==
  /\ stage[c] = "threshold" /\ step[c] > Len(Budgets[at[c]].thresholds)
  /\ stage' = [stage EXCEPT ![c] = "done"]
  /\ UNCHANGED <<now, used, notified, at, step, seen, blocked, fired, told, missed, known>>

ThresholdsDone(c) ==
  /\ stage[c] = "threshold" /\ step[c] > Len(Budgets[at[c]].thresholds)
  /\ Advance(c, at[c] + 1)
  /\ UNCHANGED <<now, used, notified, step, seen, blocked, fired, told, missed, known>>

\* For the history and the properties: threshold n has been spent.
CrossedBy(i, total, n) ==
  /\ total * 100 >= Budgets[i].thresholds[n].at * Budgets[i].amount
  /\ Budgets[i].amount > 0 \/ Budgets[i].thresholds[n].at = 0
BlockReached(i, total) ==
  \E n \in DOMAIN Budgets[i].thresholds :
    Budgets[i].thresholds[n].action = "block" /\ CrossedBy(i, total, n)

\* check_block; known remembers what had reached its block threshold by then.
StartChecking(c) ==
  /\ stage[c] = "new"
  /\ Advance(c, 1)
  /\ known' = [known EXCEPT ![c] =
       {<<i, now[i]>> : i \in {j \in Index : Matches(j, c) /\ BlockReached(j, used[j][now[j]])}}]
  /\ UNCHANGED <<now, used, notified, step, seen, blocked, fired, told, missed>>

\* read_budget of the current period; a failing store reads as nothing used.
ReadBudget(c, fails) ==
  LET i == at[c]
      blocks == Blocks(i, IF fails THEN 0 ELSE used[i][now[i]])
  IN /\ stage[c] = "budget"
     /\ \/ /\ blocks
           /\ blocked' = [blocked EXCEPT ![c] = TRUE]
           /\ stage' = [stage EXCEPT ![c] = "done"]
           /\ UNCHANGED at
        \/ /\ ~blocks
           /\ Advance(c, i + 1)
           /\ UNCHANGED blocked
     /\ missed' = IF fails THEN missed \cup {<<c, i>>} ELSE missed
     /\ UNCHANGED <<now, used, notified, step, seen, fired, told, known>>

\* A budget enters its next period.
NextPeriod(i) ==
  /\ now[i] < MaxPeriod
  /\ now' = [now EXCEPT ![i] = @ + 1]
  /\ UNCHANGED <<used, notified, stage, at, step, seen, blocked, fired, told, missed, known>>

AllDone == (\A c \in Calls : stage[c] = "done") /\ UNCHANGED vars

Next ==
  \/ \E c \in Spenders :
       \/ StartSpending(c) \/ Threshold(c) \/ HookEnds(c) \/ ThresholdsDone(c)
       \/ Record(c) \/ \E landed \in BOOLEAN : RecordFails(c, landed)
  \/ \E c \in Checkers :
       StartChecking(c) \/ \E fails \in StoreFails : ReadBudget(c, fails)
  \/ \E i \in Index : NextPeriod(i)
  \/ AllDone

Spec == Init /\ [][Next]_vars

----------------------------------------------------------------------------
(***************************************************************************)
(* Properties                                                              *)
(***************************************************************************)
\* A threshold fires only in a period whose counter has reached it, and of the
\* thresholds of a budget that share a bucket one fires at most once in a
\* period, however the recordings interleave; once the recordings are over,
\* every threshold a recording was told is reached has fired, itself or one of
\* its bucket.  (One that only an unanswered increment reached stays silent.)
SamePoint(x, y) ==
  /\ x.budget = y.budget /\ x.period = y.period
  /\ Bucket(Budgets[x.budget].thresholds[x.threshold].at)
       = Bucket(Budgets[y.budget].thresholds[y.threshold].at)
Reached(x) ==
  /\ x.threshold \in DOMAIN Budgets[x.budget].thresholds
  /\ CrossedBy(x.budget, used[x.budget][x.period], x.threshold)
FiredIffCrossed ==
  /\ \A m, n \in DOMAIN fired : SamePoint(fired[m], fired[n]) => m = n
  /\ \A m \in DOMAIN fired : Reached(fired[m])
  /\ (\A c \in Spenders : stage[c] = "done") =>
       \A i \in Index, p \in Period : \A t \in DOMAIN Budgets[i].thresholds :
         LET x == [budget |-> i, period |-> p, threshold |-> t]
         IN (CrossedBy(i, told[i][p], t) /\ told[i][p] > 0)
              => \E m \in DOMAIN fired : SamePoint(fired[m], x)

\* Once the recordings are over, each matching budget has grown by the whole
\* cost of each request, over all periods, also where its answer was lost,
\* unless the increment itself failed.
Charged(i) ==
  {c \in Spenders : /\ Budgets[i].project \in {None, ProjectOf[c]}
                    /\ Budgets[i].key \in {None, KeyOf[c]}
                    /\ <<c, i>> \notin missed}
EveryMatchCharged ==
  (\A c \in Spenders : stage[c] = "done") =>
    \A i \in Index : MapThenSumSet(LAMBDA p : used[i][p], Period)
                       = MapThenSumSet(LAMBDA c : CostOf[c], Charged(i))

\* A request that asks after one of its budgets has reached its block threshold
\* is blocked, unless the store failed to answer for that budget or its period
\* has rolled over.
BlockedOnceCrossed ==
  \A c \in Checkers :
    (stage[c] = "done" /\ ~blocked[c])
      => \A k \in known[c] : now[k[1]] # k[2] \/ <<c, k[1]>> \in missed
=============================================================================
