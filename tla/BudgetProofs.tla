---------------------------- MODULE BudgetProofs ----------------------------
(***************************************************************************)
(* Theorems about Budget for any list of budgets, any callers and costs,   *)
(* with a counter store that may fail at every operation.                  *)
(*                                                                         *)
(* A call walks the budgets it matches in order, so what it has done so    *)
(* far is given by the budget it is at: WalkInv says that the budgets it   *)
(* has jumped over are none of its own.  Each property then adds what the  *)
(* walk leaves behind: checks, charges, thresholds.                        *)
(***************************************************************************)
EXTENDS Budget, FiniteSums

Last == Len(Budgets) + 1

Phase == {"new", "budget", "threshold", "hook", "done"}

TypeInv ==
  /\ now \in [Index -> Period]
  /\ used \in [Index -> [Period -> Nat]]
  /\ told \in [Index -> [Period -> Nat]]
  /\ stage \in [Calls -> Phase]
  /\ at \in [Calls -> Nat]
  /\ step \in [Spenders -> Nat \ {0}]
  /\ seen \in [Spenders -> [used : Nat, period : Period]]
  /\ blocked \in [Checkers -> BOOLEAN]
  /\ DOMAIN known = Checkers

\* Where a call is, and on whose behalf.
WalkOf(c) ==
  /\ stage[c] = "new" => at[c] = 0
  /\ stage[c] \in {"budget", "threshold", "hook"} => at[c] \in Index /\ Matches(at[c], c)
  /\ c \in Checkers => stage[c] \in {"new", "budget", "done"}
  /\ (c \in Spenders /\ stage[c] \in {"budget", "threshold", "hook"}) => CostOf[c] > 0
  /\ (c \in Spenders /\ stage[c] = "done" /\ CostOf[c] > 0) => at[c] = Last
  /\ (c \in Checkers /\ stage[c] = "done" /\ ~blocked[c]) => at[c] = Last

WalkInv == TypeInv /\ \A c \in Calls : WalkOf(c)

LEMMA LengthFacts == Len(Budgets) \in Nat /\ Index \subseteq Nat /\ Last \in Nat
BY BudgetAssumption DEF Index, Last

\* Every non-empty set of natural numbers has a least element.
LEMMA LeastExists ==
  ASSUME NEW S, S \subseteq Nat, S # {}
  PROVE  Min(S) \in S /\ \A y \in S : Min(S) <= y
<1> DEFINE R == OpToRel(<, Nat)
<1>1. PICK x \in S : \A y \in S : ~(<<y, x>> \in R)
  <2>1. IsWellFoundedOn(R, Nat)
    BY NatLessThanWellFounded
  <2> HIDE DEF R
  <2>2. QED
    BY <2>1, WFMin
<1>2. ASSUME NEW y \in S
      PROVE  x <= y
  <2>1. x \in Nat /\ y \in Nat
    OBVIOUS
  <2>2. ~(y < x)
    BY <1>1, <2>1 DEF OpToRel
  <2>3. QED
    BY <2>1, <2>2
<1>3. QED
  BY <1>2 DEF Min

\* The loop over the matching budgets skips only budgets that do not match.
LEMMA NextMatchFacts ==
  ASSUME NEW c, NEW i \in Nat
  PROVE  /\ NextMatch(c, i) \in Nat
         /\ NextMatch(c, i) \in Index => NextMatch(c, i) >= i /\ Matches(NextMatch(c, i), c)
         /\ NextMatch(c, i) \notin Index => NextMatch(c, i) = Last
         /\ \A j \in Index : j >= i /\ j < NextMatch(c, i) => ~Matches(j, c)
<1> DEFINE later == {j \in Index : j >= i /\ Matches(j, c)}
<1>1. CASE later = {}
  <2>1. NextMatch(c, i) = Last
    BY <1>1 DEF NextMatch, Last
  <2>2. Last \notin Index
    BY LengthFacts DEF Last, Index
  <2>3. QED
    BY <1>1, <2>1, <2>2, LengthFacts
<1>2. CASE later # {}
  <2>1. NextMatch(c, i) = Min(later)
    BY <1>2 DEF NextMatch
  <2>2. Min(later) \in later /\ \A y \in later : Min(later) <= y
    <3>1. later \subseteq Nat
      BY LengthFacts
    <3> HIDE DEF later
    <3>2. QED
      BY <1>2, <3>1, LeastExists
  <2>3. PICK m : m = Min(later)
    OBVIOUS
  <2>4. m \in Index /\ m >= i /\ Matches(m, c) /\ m \in Nat
    BY <2>2, <2>3, LengthFacts
  <2>5. \A j \in Index : (j >= i /\ Matches(j, c)) => m <= j
    BY <2>2, <2>3
  <2>6. \A j \in Index : j \in Nat /\ (m <= j => ~(j < m))
    BY <2>4, LengthFacts
  <2>7. QED
    BY <2>1, <2>3, <2>4, <2>5, <2>6
<1>3. QED
  BY <1>1, <1>2
----------------------------------------------------------------------------
\* What moving on to the next matching budget does.
LEMMA AdvanceFacts ==
  ASSUME TypeInv, NEW c \in Calls, NEW i \in Nat, Advance(c, i)
  PROVE  /\ stage' \in [Calls -> Phase] /\ at' \in [Calls -> Nat]
         /\ stage'[c] \in {"budget", "done"}
         /\ stage'[c] = "budget" => at'[c] \in Index /\ at'[c] >= i /\ Matches(at'[c], c)
         /\ stage'[c] = "done" => at'[c] = Last
         /\ \A j \in Index : j >= i /\ j < at'[c] => ~Matches(j, c)
         /\ \A d \in Calls : d # c => stage'[d] = stage[d] /\ at'[d] = at[d]
<1>1. PICK n : n = NextMatch(c, i)
  OBVIOUS
<1>2. /\ n \in Nat
      /\ n \in Index => n >= i /\ Matches(n, c)
      /\ n \notin Index => n = Last
      /\ \A j \in Index : j >= i /\ j < n => ~Matches(j, c)
  BY <1>1, NextMatchFacts
<1>3. /\ at' = [at EXCEPT ![c] = n]
      /\ stage' = [stage EXCEPT ![c] = IF n \in Index THEN "budget" ELSE "done"]
  BY <1>1 DEF Advance
<1>4. stage \in [Calls -> Phase] /\ at \in [Calls -> Nat]
  BY DEF TypeInv
<1>5. /\ at'[c] = n
      /\ stage'[c] = IF n \in Index THEN "budget" ELSE "done"
      /\ \A d \in Calls : d # c => stage'[d] = stage[d] /\ at'[d] = at[d]
  BY <1>3, <1>4
<1>6. stage' \in [Calls -> Phase] /\ at' \in [Calls -> Nat]
  BY <1>2, <1>3, <1>4 DEF Phase
<1>7. QED
  BY <1>2, <1>5, <1>6

LEMMA WalkFrame ==
  ASSUME NEW d \in Calls, WalkOf(d), stage'[d] = stage[d], at'[d] = at[d],
         d \in Checkers => blocked'[d] = blocked[d]
  PROVE  WalkOf(d)'
BY DEF WalkOf, Matches

LEMMA CallFacts == /\ Spenders \subseteq Calls /\ Checkers \subseteq Calls
                   /\ \A c \in Spenders : c \notin Checkers
                   /\ CostOf \in [Spenders -> Nat]
BY BudgetAssumption DEF Calls

\* A call in its loop is at a budget of its own.
LEMMA Walking ==
  ASSUME WalkInv, NEW c \in Calls, stage[c] \in {"budget", "threshold", "hook"}
  PROVE  /\ at[c] \in Index /\ at[c] \in Nat /\ at[c] + 1 \in Nat /\ Matches(at[c], c)
         /\ now[at[c]] \in Period /\ used[at[c]] \in [Period -> Nat]
         /\ c \in Spenders => CostOf[c] > 0
<1>1. at[c] \in Index /\ Matches(at[c], c) /\ (c \in Spenders => CostOf[c] > 0)
  BY DEF WalkInv, WalkOf
<1>2. QED
  BY <1>1, LengthFacts DEF WalkInv, TypeInv

LEMMA WalkInit == Init => WalkInv
<1> SUFFICES ASSUME Init PROVE WalkInv
  OBVIOUS
<1>1. 0 \in Period
  BY BudgetAssumption DEF Period
<1>2. TypeInv
  BY <1>1 DEF Init, TypeInv, Phase
<1>3. ASSUME NEW c \in Calls
      PROVE  WalkOf(c)
  <2>1. stage[c] = "new" /\ at[c] = 0
    BY DEF Init
  <2>2. QED
    BY <2>1 DEF WalkOf
<1>4. QED
  BY <1>2, <1>3 DEF WalkInv

LEMMA WalkStartSpending ==
  ASSUME WalkInv, NEW c \in Spenders, StartSpending(c)
  PROVE  WalkInv'
<1>1. TypeInv /\ c \in Calls /\ c \notin Checkers /\ 1 \in Nat /\ WalkOf(c)
  BY CallFacts DEF WalkInv
<1>2. CASE CostOf[c] > 0 /\ Advance(c, 1)
  <2>1. /\ stage' \in [Calls -> Phase] /\ at' \in [Calls -> Nat]
        /\ stage'[c] \in {"budget", "done"}
        /\ stage'[c] = "budget" => at'[c] \in Index /\ Matches(at'[c], c)
        /\ stage'[c] = "done" => at'[c] = Last
        /\ \A d \in Calls : d # c => stage'[d] = stage[d] /\ at'[d] = at[d]
    BY <1>1, <1>2, AdvanceFacts
  <2>2. TypeInv'
    BY <1>1, <2>1 DEF StartSpending, TypeInv
  <2>3. WalkOf(c)'
    BY <1>1, <1>2, <2>1 DEF WalkOf, Matches
  <2>4. ASSUME NEW d \in Calls, d # c
        PROVE  WalkOf(d)'
    BY <2>1, <2>4, WalkFrame DEF WalkInv, StartSpending
  <2>5. QED
    BY <2>2, <2>3, <2>4 DEF WalkInv
<1>3. CASE CostOf[c] = 0 /\ stage' = [stage EXCEPT ![c] = "done"] /\ UNCHANGED at
  <2>1. /\ stage' \in [Calls -> Phase] /\ stage'[c] = "done"
        /\ \A d \in Calls : d # c => stage'[d] = stage[d] /\ at'[d] = at[d]
    BY <1>1, <1>3 DEF TypeInv, Phase
  <2>2. TypeInv'
    BY <1>1, <1>3, <2>1 DEF StartSpending, TypeInv
  <2>3. WalkOf(c)'
    BY <1>1, <1>3, <2>1 DEF WalkOf
  <2>4. ASSUME NEW d \in Calls, d # c
        PROVE  WalkOf(d)'
    BY <2>1, <2>4, WalkFrame DEF WalkInv, StartSpending
  <2>5. QED
    BY <2>2, <2>3, <2>4 DEF WalkInv
<1>4. QED
  BY <1>2, <1>3 DEF StartSpending

\* A recording: the cost landed or not, and the total was answered or not.
Recorded(c, landed, answered) ==
  \/ Record(c) /\ landed /\ answered
  \/ RecordFails(c, landed) /\ ~answered

\* What a recording does to the counters, in every outcome.
LEMMA RecordFacts ==
  ASSUME WalkInv, NEW c \in Spenders, NEW landed \in BOOLEAN, NEW answered \in BOOLEAN,
         Recorded(c, landed, answered)
  PROVE  /\ stage[c] = "budget" /\ at[c] \in Index /\ now[at[c]] \in Period
         /\ answered => landed
         /\ used' \in [Index -> [Period -> Nat]]
         /\ \A i \in Index, p \in Period :
              used'[i][p] = IF landed /\ i = at[c] /\ p = now[at[c]]
                            THEN used[i][p] + CostOf[c] ELSE used[i][p]
         /\ told' \in [Index -> [Period -> Nat]]
         /\ \A i \in Index, p \in Period :
              told'[i][p] = IF answered /\ i = at[c] /\ p = now[at[c]]
                            THEN used[i][p] + CostOf[c] ELSE told[i][p]
         /\ seen' \in [Spenders -> [used : Nat, period : Period]]
         /\ seen'[c].period = now[at[c]]
         /\ seen'[c].used = IF answered THEN used[at[c]][now[at[c]]] + CostOf[c] ELSE 0
         /\ missed' = IF landed THEN missed ELSE missed \cup {<<c, at[c]>>}
         /\ step' = [step EXCEPT ![c] = 1] /\ step'[c] = 1
         /\ \A d \in Spenders : d # c => seen'[d] = seen[d] /\ step'[d] = step[d]
         /\ stage' = [stage EXCEPT ![c] = "threshold"] /\ stage'[c] = "threshold" /\ at' = at
         /\ \A d \in Calls : d # c => stage'[d] = stage[d]
         /\ UNCHANGED <<now, notified, blocked, fired, known>>
<1>1. PICK i, p : i = at[c] /\ p = now[i]
  OBVIOUS
<1>2. stage[c] = "budget" /\ c \in Calls /\ TypeInv
  BY CallFacts DEF Recorded, Record, RecordFails, WalkInv
<1>3. i \in Index /\ p \in Period /\ used[i] \in [Period -> Nat] /\ CostOf[c] \in Nat
  BY <1>1, <1>2, Walking, CallFacts
<1>4. PICK total : total = used[i][p] + CostOf[c]
  OBVIOUS
<1>5. total \in Nat
  BY <1>3, <1>4
<1>6. /\ stage' = [stage EXCEPT ![c] = "threshold"] /\ at' = at
      /\ step' = [step EXCEPT ![c] = 1]
      /\ UNCHANGED <<now, notified, blocked, fired, known>>
  BY DEF Recorded, Record, RecordFails
<1>7. /\ stage'[c] = "threshold" /\ step'[c] = 1
      /\ \A d \in Calls : d # c => stage'[d] = stage[d]
      /\ \A d \in Spenders : d # c => step'[d] = step[d]
  BY <1>2, <1>6 DEF TypeInv
<1>8. /\ used' = IF landed THEN [used EXCEPT ![i][p] = total] ELSE used
      /\ missed' = IF landed THEN missed ELSE missed \cup {<<c, i>>}
  BY <1>1, <1>4 DEF Recorded, Record, RecordFails
<1>9. /\ seen' = [seen EXCEPT ![c] = [used |-> IF answered THEN total ELSE 0, period |-> p]]
      /\ told' = IF answered THEN [told EXCEPT ![i][p] = total] ELSE told
      /\ answered => landed
  BY <1>1, <1>4 DEF Recorded, Record, RecordFails
<1>10. /\ used' \in [Index -> [Period -> Nat]]
       /\ \A j \in Index, q \in Period :
            used'[j][q] = IF landed /\ j = i /\ q = p THEN total ELSE used[j][q]
  BY <1>2, <1>3, <1>5, <1>8 DEF TypeInv
<1>11. /\ told' \in [Index -> [Period -> Nat]]
       /\ \A j \in Index, q \in Period :
            told'[j][q] = IF answered /\ j = i /\ q = p THEN total ELSE told[j][q]
  BY <1>2, <1>3, <1>5, <1>9 DEF TypeInv
<1>12. PICK u \in Nat : u = IF answered THEN total ELSE 0
  BY <1>5
<1>13. /\ seen' \in [Spenders -> [used : Nat, period : Period]]
       /\ seen'[c] = [used |-> u, period |-> p]
       /\ \A d \in Spenders : d # c => seen'[d] = seen[d]
  BY <1>2, <1>3, <1>9, <1>12 DEF TypeInv
<1>14. QED
  BY <1>1, <1>2, <1>3, <1>4, <1>6, <1>7, <1>8, <1>9, <1>10, <1>11, <1>12, <1>13

\* Every step of a spender at a budget is a recording.
LEMMA RecordCases ==
  ASSUME NEW c, Record(c) \/ \E landed \in BOOLEAN : RecordFails(c, landed)
  PROVE  \E landed, answered \in BOOLEAN : Recorded(c, landed, answered)
<1>1. CASE Record(c)
  <2>1. Recorded(c, TRUE, TRUE)
    BY <1>1 DEF Recorded
  <2>2. QED
    BY <2>1
<1>2. ASSUME NEW landed \in BOOLEAN, RecordFails(c, landed)
      PROVE  \E l, answered \in BOOLEAN : Recorded(c, l, answered)
  <2>1. Recorded(c, landed, FALSE)
    BY <1>2 DEF Recorded
  <2>2. QED
    BY <2>1
<1>3. QED
  BY <1>1, <1>2

LEMMA WalkRecord ==
  ASSUME WalkInv, NEW c \in Spenders, NEW landed \in BOOLEAN, NEW answered \in BOOLEAN,
         Recorded(c, landed, answered)
  PROVE  WalkInv'
<1>1. TypeInv /\ c \in Calls /\ c \notin Checkers /\ WalkOf(c) /\ stage[c] = "budget"
  BY CallFacts, RecordFacts DEF WalkInv
<1>2. /\ used' \in [Index -> [Period -> Nat]] /\ told' \in [Index -> [Period -> Nat]]
      /\ seen' \in [Spenders -> [used : Nat, period : Period]]
      /\ stage'[c] = "threshold" /\ at' = at
      /\ \A d \in Calls : d # c => stage'[d] = stage[d]
  BY RecordFacts
<1>3. /\ stage' = [stage EXCEPT ![c] = "threshold"] /\ step' = [step EXCEPT ![c] = 1]
      /\ UNCHANGED <<now, blocked, known>>
  BY RecordFacts
<1>4. TypeInv'
  BY <1>1, <1>2, <1>3 DEF TypeInv, Phase
<1>5. WalkOf(c)'
  BY <1>1, <1>2 DEF WalkOf, Matches
<1>6. ASSUME NEW d \in Calls, d # c
      PROVE  WalkOf(d)'
  BY <1>2, <1>3, <1>6, WalkFrame DEF WalkInv
<1>7. QED
  BY <1>4, <1>5, <1>6 DEF WalkInv

LEMMA WalkThreshold ==
  ASSUME WalkInv, NEW c \in Spenders, Threshold(c)
  PROVE  WalkInv'
<1>1. TypeInv /\ c \in Calls /\ c \notin Checkers /\ WalkOf(c) /\ stage[c] = "threshold"
  BY CallFacts DEF WalkInv, Threshold
<1>2. PICK next \in {"threshold", "hook"} : stage' = [stage EXCEPT ![c] = next]
  BY <1>1 DEF Threshold, TypeInv
<1>3. /\ step' = [step EXCEPT ![c] = @ + 1]
      /\ UNCHANGED <<now, used, told, at, seen, blocked, known>>
  BY DEF Threshold
<1>4. /\ stage'[c] = next
      /\ \A d \in Calls : d # c => stage'[d] = stage[d]
  BY <1>1, <1>2 DEF TypeInv
<1>5. TypeInv'
  BY <1>1, <1>2, <1>3 DEF TypeInv, Phase
<1>6. WalkOf(c)'
  BY <1>1, <1>2, <1>3, <1>4 DEF WalkOf, Matches
<1>7. ASSUME NEW d \in Calls, d # c
      PROVE  WalkOf(d)'
  BY <1>3, <1>4, <1>7, WalkFrame DEF WalkInv
<1>8. QED
  BY <1>5, <1>6, <1>7 DEF WalkInv

LEMMA WalkHookEnds ==
  ASSUME WalkInv, NEW c \in Spenders, HookEnds(c)
  PROVE  WalkInv'
<1>1. TypeInv /\ c \in Calls /\ c \notin Checkers /\ WalkOf(c) /\ stage[c] = "hook"
  BY CallFacts DEF WalkInv, HookEnds
<1>2. /\ stage' = [stage EXCEPT ![c] = "threshold"]
      /\ UNCHANGED <<now, used, told, at, step, seen, blocked, known>>
  BY DEF HookEnds
<1>3. /\ stage'[c] = "threshold"
      /\ \A d \in Calls : d # c => stage'[d] = stage[d]
  BY <1>1, <1>2 DEF TypeInv
<1>4. TypeInv'
  BY <1>1, <1>2 DEF TypeInv, Phase
<1>5. WalkOf(c)'
  BY <1>1, <1>2, <1>3 DEF WalkOf, Matches
<1>6. ASSUME NEW d \in Calls, d # c
      PROVE  WalkOf(d)'
  BY <1>2, <1>3, <1>6, WalkFrame DEF WalkInv
<1>7. QED
  BY <1>4, <1>5, <1>6 DEF WalkInv

LEMMA WalkThresholdsDone ==
  ASSUME WalkInv, NEW c \in Spenders, ThresholdsDone(c)
  PROVE  WalkInv'
<1>1. TypeInv /\ c \in Calls /\ c \notin Checkers /\ WalkOf(c) /\ stage[c] = "threshold"
  BY CallFacts DEF WalkInv, ThresholdsDone
<1>2. at[c] + 1 \in Nat /\ Advance(c, at[c] + 1)
  BY <1>1, Walking DEF ThresholdsDone
<1>3. /\ stage' \in [Calls -> Phase] /\ at' \in [Calls -> Nat]
      /\ stage'[c] \in {"budget", "done"}
      /\ stage'[c] = "budget" => at'[c] \in Index /\ Matches(at'[c], c)
      /\ stage'[c] = "done" => at'[c] = Last
      /\ \A d \in Calls : d # c => stage'[d] = stage[d] /\ at'[d] = at[d]
  BY <1>1, <1>2, AdvanceFacts
<1>4. UNCHANGED <<now, used, told, step, seen, blocked, known>>
  BY DEF ThresholdsDone
<1>5. TypeInv'
  BY <1>1, <1>3, <1>4 DEF TypeInv
<1>6. WalkOf(c)'
  BY <1>1, <1>3 DEF WalkOf, Matches
<1>7. ASSUME NEW d \in Calls, d # c
      PROVE  WalkOf(d)'
  BY <1>3, <1>4, <1>7, WalkFrame DEF WalkInv
<1>8. QED
  BY <1>5, <1>6, <1>7 DEF WalkInv
LEMMA WalkStartChecking ==
  ASSUME WalkInv, NEW c \in Checkers, StartChecking(c)
  PROVE  WalkInv'
<1>1. TypeInv /\ c \in Calls /\ c \notin Spenders /\ WalkOf(c) /\ 1 \in Nat /\ Advance(c, 1)
  BY CallFacts DEF WalkInv, StartChecking
<1>2. /\ stage' \in [Calls -> Phase] /\ at' \in [Calls -> Nat]
      /\ stage'[c] \in {"budget", "done"}
      /\ stage'[c] = "budget" => at'[c] \in Index /\ Matches(at'[c], c)
      /\ stage'[c] = "done" => at'[c] = Last
      /\ \A d \in Calls : d # c => stage'[d] = stage[d] /\ at'[d] = at[d]
  BY <1>1, AdvanceFacts
<1>3. UNCHANGED <<now, used, told, step, seen, blocked>> /\ DOMAIN known' = DOMAIN known
  BY DEF StartChecking
<1>4. TypeInv'
  BY <1>1, <1>2, <1>3 DEF TypeInv
<1>5. WalkOf(c)'
  BY <1>1, <1>2 DEF WalkOf, Matches
<1>6. ASSUME NEW d \in Calls, d # c
      PROVE  WalkOf(d)'
  BY <1>2, <1>3, <1>6, WalkFrame DEF WalkInv
<1>7. QED
  BY <1>4, <1>5, <1>6 DEF WalkInv

\* The budget blocks: the check returns at once.
ReadBlocks(c, fails) ==
  /\ Blocks(at[c], IF fails THEN 0 ELSE used[at[c]][now[at[c]]])
  /\ blocked' = [blocked EXCEPT ![c] = TRUE]
  /\ stage' = [stage EXCEPT ![c] = "done"]
  /\ UNCHANGED at

\* It does not: the check goes on.
ReadPasses(c, fails) ==
  /\ ~Blocks(at[c], IF fails THEN 0 ELSE used[at[c]][now[at[c]]])
  /\ Advance(c, at[c] + 1)
  /\ UNCHANGED blocked

LEMMA ReadCases ==
  ASSUME NEW c, NEW fails, ReadBudget(c, fails)
  PROVE  /\ stage[c] = "budget"
         /\ ReadBlocks(c, fails) \/ ReadPasses(c, fails)
         /\ missed' = IF fails THEN missed \cup {<<c, at[c]>>} ELSE missed
         /\ UNCHANGED <<now, used, told, notified, step, seen, fired, known>>
BY Zenon DEF ReadBudget, ReadBlocks, ReadPasses

LEMMA WalkReadBudget ==
  ASSUME WalkInv, NEW c \in Checkers, NEW fails \in StoreFails, ReadBudget(c, fails)
  PROVE  WalkInv'
<1>1. TypeInv /\ c \in Calls /\ c \notin Spenders /\ WalkOf(c) /\ stage[c] = "budget"
  BY CallFacts, ReadCases DEF WalkInv
<1>2. UNCHANGED <<now, used, told, step, seen, known>>
  BY ReadCases
<1>3. CASE ReadBlocks(c, fails)
  <2>1. /\ blocked' = [blocked EXCEPT ![c] = TRUE]
        /\ stage' = [stage EXCEPT ![c] = "done"] /\ UNCHANGED at
    BY <1>3 DEF ReadBlocks
  <2>2. /\ stage'[c] = "done" /\ blocked'[c] = TRUE
        /\ \A d \in Calls : d # c => stage'[d] = stage[d]
        /\ \A d \in Checkers : d # c => blocked'[d] = blocked[d]
    BY <1>1, <2>1 DEF TypeInv
  <2>3. TypeInv'
    BY <1>1, <1>2, <2>1 DEF TypeInv, Phase
  <2>4. WalkOf(c)'
    BY <1>1, <2>1, <2>2 DEF WalkOf
  <2>5. ASSUME NEW d \in Calls, d # c
        PROVE  WalkOf(d)'
    BY <2>1, <2>2, <2>5, WalkFrame DEF WalkInv
  <2>6. QED
    BY <2>3, <2>4, <2>5 DEF WalkInv
<1>4. CASE ReadPasses(c, fails)
  <2>1. at[c] + 1 \in Nat /\ Advance(c, at[c] + 1) /\ UNCHANGED blocked
    BY <1>1, <1>4, Walking DEF ReadPasses
  <2>2. /\ stage' \in [Calls -> Phase] /\ at' \in [Calls -> Nat]
        /\ stage'[c] \in {"budget", "done"}
        /\ stage'[c] = "budget" => at'[c] \in Index /\ Matches(at'[c], c)
        /\ stage'[c] = "done" => at'[c] = Last
        /\ \A d \in Calls : d # c => stage'[d] = stage[d] /\ at'[d] = at[d]
    BY <1>1, <2>1, AdvanceFacts
  <2>3. TypeInv'
    BY <1>1, <1>2, <2>1, <2>2 DEF TypeInv
  <2>4. WalkOf(c)'
    BY <1>1, <2>2 DEF WalkOf, Matches
  <2>5. ASSUME NEW d \in Calls, d # c
        PROVE  WalkOf(d)'
    BY <2>1, <2>2, <2>5, WalkFrame DEF WalkInv
  <2>6. QED
    BY <2>3, <2>4, <2>5 DEF WalkInv
<1>5. QED
  BY <1>3, <1>4, ReadCases

LEMMA PeriodFacts ==
  ASSUME WalkInv, NEW i \in Index, NextPeriod(i)
  PROVE  /\ now' \in [Index -> Period]
         /\ \A j \in Index : now'[j] = IF j = i THEN now[j] + 1 ELSE now[j]
         /\ \A j \in Index : now[j] \in Nat
         /\ UNCHANGED <<used, told, notified, stage, at, step, seen, blocked, fired, missed, known>>
<1>1. now' = [now EXCEPT ![i] = @ + 1] /\ now[i] < MaxPeriod /\ now \in [Index -> Period]
  BY DEF NextPeriod, WalkInv, TypeInv
<1>2. now[i] + 1 \in Period /\ \A j \in Index : now[j] \in Nat
  BY <1>1, BudgetAssumption DEF Period
<1>3. QED
  BY <1>1, <1>2 DEF NextPeriod

LEMMA WalkNextPeriod ==
  ASSUME WalkInv, NEW i \in Index, NextPeriod(i)
  PROVE  WalkInv'
<1>1. now' \in [Index -> Period] /\ UNCHANGED <<used, told, stage, at, step, seen, blocked, known>>
  BY PeriodFacts
<1>2. TypeInv'
  BY <1>1 DEF WalkInv, TypeInv
<1>3. ASSUME NEW d \in Calls
      PROVE  WalkOf(d)'
  BY <1>1, WalkFrame DEF WalkInv
<1>4. QED
  BY <1>2, <1>3 DEF WalkInv

LEMMA WalkStep == WalkInv /\ [Next]_vars => WalkInv'
<1> SUFFICES ASSUME WalkInv, [Next]_vars PROVE WalkInv'
  OBVIOUS
<1>1. ASSUME NEW c \in Spenders, StartSpending(c) PROVE WalkInv'
  BY <1>1, WalkStartSpending
<1>2. ASSUME NEW c \in Spenders, Threshold(c) PROVE WalkInv'
  BY <1>2, WalkThreshold
<1>3. ASSUME NEW c \in Spenders, HookEnds(c) PROVE WalkInv'
  BY <1>3, WalkHookEnds
<1>4. ASSUME NEW c \in Spenders, ThresholdsDone(c) PROVE WalkInv'
  BY <1>4, WalkThresholdsDone
<1>5. ASSUME NEW c \in Spenders, NEW landed \in BOOLEAN, NEW answered \in BOOLEAN,
             Recorded(c, landed, answered)
      PROVE  WalkInv'
  BY <1>5, WalkRecord
<1>6. ASSUME NEW c \in Checkers, StartChecking(c) PROVE WalkInv'
  BY <1>6, WalkStartChecking
<1>7. ASSUME NEW c \in Checkers, NEW fails \in StoreFails, ReadBudget(c, fails) PROVE WalkInv'
  BY <1>7, WalkReadBudget
<1>8. ASSUME NEW i \in Index, NextPeriod(i) PROVE WalkInv'
  BY <1>8, WalkNextPeriod
<1>9. CASE UNCHANGED vars
  <2>1. TypeInv'
    BY <1>9 DEF vars, WalkInv, TypeInv
  <2>2. ASSUME NEW d \in Calls
        PROVE  WalkOf(d)'
    BY <1>9, WalkFrame DEF vars, WalkInv
  <2>3. QED
    BY <2>1, <2>2 DEF WalkInv
<1>10. QED
  BY <1>1, <1>2, <1>3, <1>4, <1>5, <1>6, <1>7, <1>8, <1>9, RecordCases DEF Next, AllDone

LEMMA WalkAlways == Spec => []WalkInv
BY WalkInit, WalkStep, PTL DEF Spec
----------------------------------------------------------------------------
(***************************************************************************)
(* A check is not late: KnownOf says that a budget that blocked when check *)
(* c began still does, in that period, and that c has not passed it        *)
(* unblocked unless the period is over or the store did not answer.        *)
(***************************************************************************)
KnownOf(c) ==
  \A k \in known[c] :
    /\ k[1] \in Index /\ k[2] \in Period /\ k[2] <= now[k[1]]
    /\ Matches(k[1], c)
    /\ BlockReached(k[1], used[k[1]][k[2]])
    /\ (~blocked[c] /\ k[1] < at[c]) => now[k[1]] # k[2] \/ <<c, k[1]>> \in missed

KnownInv == \A c \in Checkers : KnownOf(c)

\* The counters only grow, the periods only advance.
Forward ==
  /\ \A i \in Index : now[i] <= now'[i]
  /\ \A i \in Index, p \in Period : used[i][p] <= used'[i][p]
  /\ missed \subseteq missed'

LEMMA BudgetFacts ==
  ASSUME NEW i \in Index
  PROVE  /\ Budgets[i].amount \in Nat
         /\ Budgets[i].thresholds \in Seq(ThresholdType)
         /\ \A n \in DOMAIN Budgets[i].thresholds :
              Budgets[i].thresholds[n] \in ThresholdType /\ Budgets[i].thresholds[n].at \in Nat
<1>1. Budgets[i].amount \in Nat /\ Budgets[i].thresholds \in Seq(ThresholdType)
  BY BudgetAssumption DEF Index, BudgetType
<1>2. \A n \in DOMAIN Budgets[i].thresholds : Budgets[i].thresholds[n] \in ThresholdType
  BY <1>1
<1>3. \A t \in ThresholdType : t.at \in Nat
  BY DEF ThresholdType
<1>4. QED
  BY <1>1, <1>2, <1>3

\* A total that has reached a percentage is not below it later.
LEMMA ReachGrows ==
  ASSUME NEW u \in Nat, NEW v \in Nat, u <= v, NEW x \in Nat, NEW y \in Nat, u * 100 >= x * y
  PROVE  v * 100 >= x * y
<1>1. PICK z \in Nat : z = x * y
  OBVIOUS
<1>2. v * 100 >= z
  BY <1>1
<1>3. QED
  BY <1>1, <1>2

LEMMA BlockReachedGrows ==
  ASSUME NEW i \in Index, NEW u \in Nat, NEW v \in Nat, u <= v, BlockReached(i, u)
  PROVE  BlockReached(i, v)
<1>1. PICK n \in DOMAIN Budgets[i].thresholds :
        /\ Budgets[i].thresholds[n].action = "block"
        /\ u * 100 >= Budgets[i].thresholds[n].at * Budgets[i].amount
        /\ Budgets[i].amount > 0 \/ Budgets[i].thresholds[n].at = 0
  BY Zenon DEF BlockReached, CrossedBy
<1>2. Budgets[i].thresholds[n].at \in Nat /\ Budgets[i].amount \in Nat
  BY BudgetFacts
<1>3. v * 100 >= Budgets[i].thresholds[n].at * Budgets[i].amount
  BY <1>1, <1>2, ReachGrows
<1>4. QED
  BY <1>1, <1>3, Zenon DEF BlockReached, CrossedBy

LEMMA BlockReachedBlocks ==
  ASSUME NEW i \in Index, NEW u \in Nat, BlockReached(i, u)
  PROVE  Blocks(i, u)
<1>1. PICK n \in DOMAIN Budgets[i].thresholds :
        /\ Budgets[i].thresholds[n].action = "block"
        /\ u * 100 >= Budgets[i].thresholds[n].at * Budgets[i].amount
        /\ Budgets[i].amount > 0 \/ Budgets[i].thresholds[n].at = 0
  BY Zenon DEF BlockReached, CrossedBy
<1>2. Crosses(i, u, Budgets[i].thresholds[n])
  BY <1>1, Zenon DEF Crosses
<1>3. QED
  BY <1>1, <1>2, Zenon DEF Blocks

LEMMA KnownFrame ==
  ASSUME WalkInv, WalkInv', NEW d \in Checkers, KnownOf(d), Forward,
         known'[d] = known[d], at'[d] = at[d], blocked'[d] = blocked[d]
  PROVE  KnownOf(d)'
<1> SUFFICES ASSUME NEW k \in known[d]
             PROVE  /\ k[1] \in Index /\ k[2] \in Period /\ k[2] <= now'[k[1]]
                    /\ Matches(k[1], d)
                    /\ BlockReached(k[1], used'[k[1]][k[2]])
                    /\ (~blocked[d] /\ k[1] < at[d]) =>
                         now'[k[1]] # k[2] \/ <<d, k[1]>> \in missed'
  BY Zenon DEF KnownOf, Matches, BlockReached, CrossedBy
<1>1. /\ k[1] \in Index /\ k[2] \in Period /\ k[2] <= now[k[1]]
      /\ Matches(k[1], d)
      /\ BlockReached(k[1], used[k[1]][k[2]])
      /\ (~blocked[d] /\ k[1] < at[d]) => now[k[1]] # k[2] \/ <<d, k[1]>> \in missed
  BY DEF KnownOf
<1>2. /\ now[k[1]] \in Nat /\ now'[k[1]] \in Nat /\ k[2] \in Nat
      /\ used[k[1]][k[2]] \in Nat /\ used'[k[1]][k[2]] \in Nat
  <2>1. PICK i \in Index, p \in Period : i = k[1] /\ p = k[2]
    BY <1>1
  <2>2. Period \subseteq Nat
    BY BudgetAssumption DEF Period
  <2>3. /\ now \in [Index -> Period] /\ now' \in [Index -> Period]
        /\ used \in [Index -> [Period -> Nat]] /\ used' \in [Index -> [Period -> Nat]]
    BY DEF WalkInv, TypeInv
  <2>4. /\ now[i] \in Nat /\ now'[i] \in Nat /\ p \in Nat
        /\ used[i][p] \in Nat /\ used'[i][p] \in Nat
    BY <2>2, <2>3
  <2>5. QED
    BY <2>1, <2>4
<1>3. now[k[1]] <= now'[k[1]] /\ used[k[1]][k[2]] <= used'[k[1]][k[2]] /\ missed \subseteq missed'
  BY <1>1 DEF Forward
<1>4. BlockReached(k[1], used'[k[1]][k[2]])
  BY <1>1, <1>2, <1>3, BlockReachedGrows
<1>5. k[2] <= now'[k[1]] /\ (now[k[1]] # k[2] => now'[k[1]] # k[2])
  BY <1>1, <1>2, <1>3
<1>6. QED
  BY <1>1, <1>3, <1>4, <1>5
\* The steps that are not a checker's own.
LEMMA ForwardOfOthers ==
  ASSUME WalkInv, Forward, KnownInv, WalkInv',
         \A d \in Checkers : known'[d] = known[d] /\ at'[d] = at[d] /\ blocked'[d] = blocked[d]
  PROVE  KnownInv'
BY KnownFrame DEF KnownInv

LEMMA SameIsForward ==
  ASSUME WalkInv, UNCHANGED <<now, used>>, missed \subseteq missed'
  PROVE  Forward
<1>1. \A x \in Period : x <= x
  BY DEF Period
<1>2. now \in [Index -> Period] /\ used \in [Index -> [Period -> Nat]]
  BY DEF WalkInv, TypeInv
<1>3. \A i \in Index : now[i] <= now'[i]
  BY <1>1, <1>2
<1>4. \A i \in Index, p \in Period : used[i][p] <= used'[i][p]
  BY <1>2
<1>5. QED
  BY <1>3, <1>4 DEF Forward

LEMMA KnownStartChecking ==
  ASSUME WalkInv, WalkInv', KnownInv, NEW c \in Checkers, StartChecking(c)
  PROVE  KnownInv'
<1>1. /\ c \in Calls /\ TypeInv /\ 1 \in Nat /\ Advance(c, 1)
      /\ UNCHANGED <<now, used, blocked, missed>>
  BY CallFacts DEF StartChecking, WalkInv
<1>2. PICK mine : mine = {j \in Index : Matches(j, c) /\ BlockReached(j, used[j][now[j]])}
  OBVIOUS
<1>3. known' = [known EXCEPT ![c] = {<<i, now[i]>> : i \in mine}]
  BY <1>2 DEF StartChecking
<1>4. /\ known'[c] = {<<i, now[i]>> : i \in mine}
      /\ \A d \in Checkers : d # c => known'[d] = known[d]
  BY <1>1, <1>3 DEF TypeInv
<1>5. /\ \A j \in Index : j >= 1 /\ j < at'[c] => ~Matches(j, c)
      /\ \A d \in Calls : d # c => at'[d] = at[d]
  BY <1>1, AdvanceFacts
<1>6. ASSUME NEW d \in Checkers, d # c
      PROVE  KnownOf(d)'
  <2>1. known'[d] = known[d] /\ at'[d] = at[d] /\ blocked'[d] = blocked[d] /\ KnownOf(d)
    BY <1>1, <1>4, <1>5, <1>6, CallFacts DEF KnownInv
  <2>2. Forward
    BY <1>1, SameIsForward
  <2>3. QED
    BY <2>1, <2>2, KnownFrame
<1>7. ASSUME NEW i \in mine
      PROVE  /\ i \in Index /\ now[i] \in Period /\ now[i] <= now[i]
             /\ Matches(i, c) /\ BlockReached(i, used[i][now[i]])
             /\ ~(i < at'[c])
  <2>1. i \in Index /\ Matches(i, c) /\ BlockReached(i, used[i][now[i]])
    BY <1>2
  <2>2. now[i] \in Period /\ i >= 1
    BY <1>1, <2>1 DEF TypeInv, Index
  <2>3. now[i] <= now[i]
    BY <2>2 DEF Period
  <2>4. QED
    BY <1>5, <2>1, <2>2, <2>3
<1>8. KnownOf(c)'
  <2> SUFFICES ASSUME NEW k \in known'[c]
               PROVE  /\ k[1] \in Index /\ k[2] \in Period /\ k[2] <= now'[k[1]]
                      /\ Matches(k[1], c)
                      /\ BlockReached(k[1], used'[k[1]][k[2]])
                      /\ ~(k[1] < at'[c])
    BY Zenon DEF KnownOf, Matches, BlockReached, CrossedBy
  <2>1. PICK i \in mine : k = <<i, now[i]>>
    BY <1>4
  <2>2. k[1] = i /\ k[2] = now[i] /\ now' = now /\ used' = used
    BY <1>1, <2>1
  <2>3. QED
    BY <1>7, <2>2
<1>9. QED
  BY <1>6, <1>8 DEF KnownInv

LEMMA KnownReadBudget ==
  ASSUME WalkInv, WalkInv', KnownInv, NEW c \in Checkers, NEW fails \in StoreFails,
         ReadBudget(c, fails)
  PROVE  KnownInv'
<1>1. /\ c \in Calls /\ TypeInv /\ stage[c] = "budget" /\ fails \in BOOLEAN
      /\ missed' = IF fails THEN missed \cup {<<c, at[c]>>} ELSE missed
      /\ UNCHANGED <<now, used, known>>
  BY CallFacts, ReadCases, BudgetAssumption DEF WalkInv
<1>2. missed \subseteq missed' /\ (fails => <<c, at[c]>> \in missed')
  BY <1>1
<1>3. Forward
  BY <1>1, <1>2, SameIsForward
<1>4. at[c] \in Index /\ at[c] \in Nat /\ at[c] + 1 \in Nat
  BY <1>1, Walking
<1>5. \A d \in Checkers : d # c => at'[d] = at[d] /\ blocked'[d] = blocked[d]
  <2>1. CASE ReadBlocks(c, fails)
    BY <1>1, <2>1 DEF ReadBlocks, TypeInv
  <2>2. CASE ReadPasses(c, fails)
    BY <1>1, <1>4, <2>2, AdvanceFacts, CallFacts DEF ReadPasses
  <2>3. QED
    BY <2>1, <2>2, ReadCases
<1>6. ASSUME NEW d \in Checkers, d # c
      PROVE  KnownOf(d)'
  BY <1>1, <1>3, <1>5, <1>6, KnownFrame DEF KnownInv
<1>7. KnownOf(c)'
  <2>1. KnownOf(c)
    BY DEF KnownInv
  <2>2. ASSUME NEW k \in known[c], ~blocked'[c], k[1] < at'[c]
        PROVE  now[k[1]] # k[2] \/ <<c, k[1]>> \in missed'
    <3>1. ReadPasses(c, fails)
      <4>1. ReadBlocks(c, fails) => blocked'[c] = TRUE
        BY <1>1 DEF ReadBlocks, TypeInv
      <4>2. QED
        BY <2>2, <4>1, ReadCases
    <3>2. /\ Advance(c, at[c] + 1) /\ UNCHANGED blocked
          /\ ~Blocks(at[c], IF fails THEN 0 ELSE used[at[c]][now[at[c]]])
      BY <3>1 DEF ReadPasses
    <3>3. \A j \in Index : j >= at[c] + 1 /\ j < at'[c] => ~Matches(j, c)
      BY <1>1, <1>4, <3>2, AdvanceFacts
    <3>4. /\ k[1] \in Index /\ Matches(k[1], c) /\ k[2] \in Period
          /\ BlockReached(k[1], used[k[1]][k[2]])
          /\ k[1] < at[c] => now[k[1]] # k[2] \/ <<c, k[1]>> \in missed
      BY <2>1, <2>2, <3>2 DEF KnownOf
    <3>5. k[1] \in Nat /\ ~(k[1] >= at[c] + 1)
      BY <2>2, <3>3, <3>4, LengthFacts
    <3>6. CASE k[1] < at[c]
      BY <1>2, <3>4, <3>6
    <3>7. CASE k[1] = at[c] /\ fails
      BY <1>2, <3>7
    <3>8. CASE k[1] = at[c] /\ ~fails /\ now[k[1]] = k[2]
      <4>1. PICK u \in Nat : u = used[at[c]][now[at[c]]]
        BY <1>1, <1>4 DEF TypeInv
      <4>2. BlockReached(at[c], u) /\ ~Blocks(at[c], u)
        BY <3>2, <3>4, <3>8, <4>1
      <4>3. QED
        BY <1>4, <4>2, BlockReachedBlocks
    <3>9. QED
      BY <1>1, <1>4, <3>5, <3>6, <3>7, <3>8
  <2> SUFFICES ASSUME NEW k \in known[c]
               PROVE  /\ k[1] \in Index /\ k[2] \in Period /\ k[2] <= now[k[1]]
                      /\ Matches(k[1], c)
                      /\ BlockReached(k[1], used[k[1]][k[2]])
                      /\ (~blocked'[c] /\ k[1] < at'[c]) =>
                           now[k[1]] # k[2] \/ <<c, k[1]>> \in missed'
    BY <1>1, Zenon DEF KnownOf, Matches, BlockReached, CrossedBy
  <2>3. QED
    BY <2>1, <2>2 DEF KnownOf
<1>8. QED
  BY <1>6, <1>7 DEF KnownInv
LEMMA KnownStep == WalkInv /\ WalkInv' /\ KnownInv /\ [Next]_vars => KnownInv'
<1> SUFFICES ASSUME WalkInv, WalkInv', KnownInv, [Next]_vars PROVE KnownInv'
  OBVIOUS
<1>1. ASSUME NEW c \in Spenders,
             StartSpending(c) \/ Threshold(c) \/ HookEnds(c) \/ ThresholdsDone(c)
      PROVE  KnownInv'
  <2>1. c \in Calls /\ TypeInv /\ (\A d \in Checkers : d \in Calls /\ d # c) /\ 1 \in Nat
    BY CallFacts DEF WalkInv
  <2>2. UNCHANGED <<now, used, blocked, missed, known>>
    BY <1>1 DEF StartSpending, Threshold, HookEnds, ThresholdsDone
  <2>3. \A d \in Checkers : at'[d] = at[d]
    <3>1. CASE StartSpending(c)
      BY <2>1, <3>1, AdvanceFacts DEF StartSpending
    <3>2. CASE Threshold(c) \/ HookEnds(c)
      BY <3>2 DEF Threshold, HookEnds
    <3>3. CASE ThresholdsDone(c)
      <4>1. at[c] + 1 \in Nat /\ Advance(c, at[c] + 1)
        BY <2>1, <3>3, Walking DEF ThresholdsDone
      <4>2. QED
        BY <2>1, <4>1, AdvanceFacts
    <3>4. QED
      BY <1>1, <3>1, <3>2, <3>3
  <2>4. Forward
    BY <2>2, SameIsForward
  <2>5. QED
    BY <2>2, <2>3, <2>4, ForwardOfOthers
<1>2. ASSUME NEW c \in Spenders, NEW landed \in BOOLEAN, NEW answered \in BOOLEAN,
             Recorded(c, landed, answered)
      PROVE  KnownInv'
  <2>1. /\ \A i \in Index, p \in Period :
             used'[i][p] = IF landed /\ i = at[c] /\ p = now[at[c]]
                           THEN used[i][p] + CostOf[c] ELSE used[i][p]
        /\ missed' = IF landed THEN missed ELSE missed \cup {<<c, at[c]>>}
    BY <1>2, RecordFacts
  <2>2. UNCHANGED <<now, at, blocked, known>>
    BY <1>2, RecordFacts
  <2>3. CostOf[c] \in Nat
    BY CallFacts
  <2>4. \A i \in Index, p \in Period : used[i][p] \in Nat
    BY DEF WalkInv, TypeInv
  <2>5. \A i \in Index : now[i] <= now'[i]
    <3>1. \A x \in Period : x <= x
      BY DEF Period
    <3>2. now \in [Index -> Period]
      BY DEF WalkInv, TypeInv
    <3>3. QED
      BY <2>2, <3>1, <3>2
  <2>6. \A i \in Index, p \in Period : used[i][p] <= used'[i][p]
    BY <2>1, <2>3, <2>4
  <2>7. missed \subseteq missed'
    BY <2>1
  <2>8. Forward
    BY <2>5, <2>6, <2>7 DEF Forward
  <2>9. QED
    BY <2>2, <2>8, ForwardOfOthers
<1>3. ASSUME NEW c \in Checkers, StartChecking(c) PROVE KnownInv'
  BY <1>3, KnownStartChecking
<1>4. ASSUME NEW c \in Checkers, NEW fails \in StoreFails, ReadBudget(c, fails) PROVE KnownInv'
  BY <1>4, KnownReadBudget
<1>5. ASSUME NEW i \in Index, NextPeriod(i) PROVE KnownInv'
  <2>1. /\ \A j \in Index : now'[j] = IF j = i THEN now[j] + 1 ELSE now[j]
        /\ \A j \in Index : now[j] \in Nat
        /\ UNCHANGED <<used, at, blocked, missed, known>>
    BY <1>5, PeriodFacts
  <2>2. \A j \in Index, p \in Period : used[j][p] \in Nat
    BY DEF WalkInv, TypeInv
  <2>3. Forward
    BY <2>1, <2>2 DEF Forward
  <2>4. QED
    BY <2>1, <2>3, ForwardOfOthers
<1>6. CASE UNCHANGED vars
  <2>1. UNCHANGED <<now, used, at, blocked, missed, known>>
    BY <1>6 DEF vars
  <2>2. QED
    BY <2>1, SameIsForward, ForwardOfOthers
<1>7. QED
  BY <1>1, <1>2, <1>3, <1>4, <1>5, <1>6, RecordCases DEF Next, AllDone

\* A request whose budget had reached its block threshold when check_block began
\* is blocked, in whatever order counters, periods and store failures fall,
\* unless the period ended or the store did not answer for that budget.
THEOREM BlocksOnceCrossed == Spec => []BlockedOnceCrossed
<1>1. Init => KnownInv
  BY DEF Init, KnownInv, KnownOf
<1>2. WalkInv /\ KnownInv => BlockedOnceCrossed
  <2> SUFFICES ASSUME WalkInv, KnownInv, NEW c \in Checkers, stage[c] = "done", ~blocked[c],
                      NEW k \in known[c]
               PROVE  now[k[1]] # k[2] \/ <<c, k[1]>> \in missed
    BY DEF BlockedOnceCrossed
  <2>1. at[c] = Last
    BY CallFacts DEF WalkInv, WalkOf
  <2>2. /\ k[1] \in Index
        /\ k[1] < at[c] => now[k[1]] # k[2] \/ <<c, k[1]>> \in missed
    BY DEF KnownInv, KnownOf
  <2>3. \A i \in Index : i < Last
    BY LengthFacts DEF Index, Last
  <2>4. QED
    BY <2>1, <2>2, <2>3
<1>3. QED
  BY <1>1, <1>2, WalkAlways, KnownStep, PTL DEF Spec
----------------------------------------------------------------------------
(***************************************************************************)
(* Every matching budget is charged: the counters of a budget hold, over   *)
(* all periods, exactly the costs of the calls that are past it.           *)
(***************************************************************************)
Past(c, i) == i < at[c] \/ (i = at[c] /\ stage[c] \in {"threshold", "hook"})

Paid(i) ==
  [c \in Spenders |-> IF Past(c, i) /\ Matches(i, c) /\ <<c, i>> \notin missed
                      THEN CostOf[c] ELSE 0]

PaidInv ==
  /\ \A c \in Spenders, i \in Index : <<c, i>> \in missed => Past(c, i)
  /\ \A i \in Index : SumOf(used[i], Period) = SumOf(Paid(i), Spenders)

LEMMA FiniteFacts == IsFiniteSet(Spenders) /\ IsFiniteSet(Period)
<1>1. IsFiniteSet(Calls) /\ Spenders \subseteq Calls
  BY BudgetAssumption, CallFacts
<1>2. IsFiniteSet(Spenders)
  BY <1>1, FS_Subset
<1>3. IsFiniteSet(Period)
  <2>1. 0 \in Int /\ MaxPeriod \in Int
    BY BudgetAssumption
  <2>2. QED
    BY <2>1, FS_Interval DEF Period
<1>4. QED
  BY <1>2, <1>3

LEMMA PaidType ==
  ASSUME NEW i
  PROVE  \A c \in Spenders : Paid(i)[c] \in Int
BY CallFacts DEF Paid

\* A step that brings no call past a budget of its own.
LEMMA PaidFrame ==
  ASSUME PaidInv, UNCHANGED used,
         \A c \in Spenders, i \in Index : Matches(i, c) => (Past(c, i)' <=> Past(c, i)),
         \A c \in Spenders, i \in Index : Past(c, i) => Past(c, i)',
         \A c \in Spenders, i \in Index : <<c, i>> \in missed' <=> <<c, i>> \in missed
  PROVE  PaidInv'
<1>1. \A c \in Spenders, i \in Index : <<c, i>> \in missed' => Past(c, i)'
  BY DEF PaidInv
<1>2. ASSUME NEW i \in Index
      PROVE  SumOf(used'[i], Period) = SumOf(Paid(i)', Spenders)
  <2>1. Paid(i)' = Paid(i)
    BY DEF Paid, Matches
  <2>2. SumOf(used[i], Period) = SumOf(Paid(i), Spenders)
    BY DEF PaidInv
  <2>3. PICK f, g, u, v : f = Paid(i) /\ g = Paid(i)' /\ u = used[i] /\ v = used'[i]
    OBVIOUS
  <2>4. SumOf(u, Period) = SumOf(f, Spenders) /\ f = g /\ u = v
    BY <2>1, <2>2, <2>3
  <2>5. SumOf(v, Period) = SumOf(g, Spenders)
    BY <2>4
  <2>6. QED
    BY <2>3, <2>5
<1>3. QED
  BY <1>1, <1>2 DEF PaidInv
\* Moving on skips no budget of the call's own.
LEMMA AdvancePast ==
  ASSUME WalkInv, NEW c \in Spenders, NEW n \in Nat, Advance(c, n),
         \A i \in Index : Past(c, i) <=> i < n
  PROVE  \A d \in Spenders, i \in Index :
           /\ Past(d, i) => Past(d, i)'
           /\ Matches(i, d) => (Past(d, i)' <=> Past(d, i))
<1>1. /\ stage'[c] \in {"budget", "done"} /\ at'[c] \in Nat
      /\ at'[c] \in Index => at'[c] >= n
      /\ at'[c] \notin Index => at'[c] = Last
      /\ \A j \in Index : j >= n /\ j < at'[c] => ~Matches(j, c)
      /\ \A d \in Calls : d # c => stage'[d] = stage[d] /\ at'[d] = at[d]
  <2>1. c \in Calls /\ TypeInv
    BY CallFacts DEF WalkInv
  <2>2. /\ at' \in [Calls -> Nat] /\ stage'[c] \in {"budget", "done"}
        /\ stage'[c] = "budget" => at'[c] \in Index /\ at'[c] >= n
        /\ stage'[c] = "done" => at'[c] = Last
        /\ \A j \in Index : j >= n /\ j < at'[c] => ~Matches(j, c)
        /\ \A d \in Calls : d # c => stage'[d] = stage[d] /\ at'[d] = at[d]
    BY <2>1, AdvanceFacts
  <2>3. Last \notin Index
    BY LengthFacts DEF Last, Index
  <2>4. QED
    BY <2>1, <2>2, <2>3
<1>2. ASSUME NEW d \in Spenders, NEW i \in Index, d # c
      PROVE  Past(d, i)' <=> Past(d, i)
  BY <1>1, <1>2, CallFacts DEF Past
<1>3. ASSUME NEW i \in Index
      PROVE  /\ Past(c, i) => Past(c, i)'
             /\ Matches(i, c) => (Past(c, i)' <=> Past(c, i))
  <2>1. i \in Nat /\ i < Last /\ Last \in Nat
    BY LengthFacts DEF Last, Index
  <2>2. Past(c, i)' <=> i < at'[c]
    BY <1>1 DEF Past
  <2>3. Past(c, i) <=> i < n
    OBVIOUS
  <2>4. i < n => i < at'[c]
    BY <1>1, <2>1
  <2>5. (Matches(i, c) /\ i < at'[c]) => i < n
    BY <1>1, <2>1
  <2>6. QED
    BY <2>2, <2>3, <2>4, <2>5
<1>4. QED
  BY <1>2, <1>3

LEMMA PaidRecord ==
  ASSUME WalkInv, PaidInv, NEW c \in Spenders, NEW landed \in BOOLEAN, NEW answered \in BOOLEAN,
         Recorded(c, landed, answered)
  PROVE  PaidInv'
<1>1. PICK a, q : a = at[c] /\ q = now[a]
  OBVIOUS
<1>2. /\ stage[c] = "budget" /\ a \in Index /\ q \in Period
      /\ used' \in [Index -> [Period -> Nat]]
      /\ \A i \in Index, p \in Period :
           used'[i][p] = IF landed /\ i = a /\ p = q THEN used[i][p] + CostOf[c] ELSE used[i][p]
      /\ missed' = IF landed THEN missed ELSE missed \cup {<<c, a>>}
      /\ stage'[c] = "threshold" /\ at' = at
      /\ \A d \in Calls : d # c => stage'[d] = stage[d]
  BY <1>1, RecordFacts
<1>3. Matches(a, c) /\ CostOf[c] \in Nat /\ c \in Calls /\ a \in Nat /\ used \in [Index -> [Period -> Nat]]
  BY <1>1, <1>2, Walking, CallFacts DEF WalkInv, TypeInv
<1>4. /\ ~Past(c, a) /\ Past(c, a)' /\ <<c, a>> \notin missed
      /\ \A d \in Spenders, i \in Index : ~(d = c /\ i = a) => (Past(d, i)' <=> Past(d, i))
  <2>1. ~Past(c, a)
    BY <1>1, <1>2, <1>3 DEF Past
  <2>2. Past(c, a)'
    BY <1>1, <1>2 DEF Past
  <2>3. <<c, a>> \notin missed
    BY <1>2, <2>1 DEF PaidInv
  <2>4. \A d \in Spenders, i \in Index : ~(d = c /\ i = a) => (Past(d, i)' <=> Past(d, i))
    BY <1>1, <1>2, CallFacts DEF Past
  <2>5. QED
    BY <2>1, <2>2, <2>3, <2>4
<1>5. ASSUME NEW d \in Spenders, NEW i \in Index, <<d, i>> \in missed'
      PROVE  Past(d, i)'
  <2>1. CASE d = c /\ i = a
    BY <1>4, <2>1
  <2>2. CASE ~(d = c /\ i = a)
    <3>1. <<d, i>> \in missed
      BY <1>2, <1>5, <2>2
    <3>2. QED
      BY <1>4, <2>2, <3>1 DEF PaidInv
  <2>3. QED
    BY <2>1, <2>2
<1>6. \A d \in Spenders, i \in Index :
        Paid(i)'[d] = IF landed /\ d = c /\ i = a THEN Paid(i)[d] + CostOf[c] ELSE Paid(i)[d]
  <2>1. ASSUME NEW d \in Spenders, NEW i \in Index
        PROVE  Paid(i)'[d] = IF landed /\ d = c /\ i = a THEN Paid(i)[d] + CostOf[c] ELSE Paid(i)[d]
    <3>1. /\ Paid(i)[d] = IF Past(d, i) /\ Matches(i, d) /\ <<d, i>> \notin missed
                          THEN CostOf[d] ELSE 0
          /\ Paid(i)'[d] = IF Past(d, i)' /\ Matches(i, d) /\ <<d, i>> \notin missed'
                           THEN CostOf[d] ELSE 0
      BY DEF Paid, Matches
    <3>2. CASE d = c /\ i = a
      BY <1>2, <1>3, <1>4, <3>1, <3>2
    <3>3. CASE ~(d = c /\ i = a)
      <4>1. <<d, i>> \in missed' <=> <<d, i>> \in missed
        BY <1>2, <3>3
      <4>2. QED
        BY <1>4, <3>1, <3>3, <4>1
    <3>4. QED
      BY <3>2, <3>3
  <2>2. QED
    BY <2>1
<1>7. ASSUME NEW i \in Index
      PROVE  SumOf(used'[i], Period) = SumOf(Paid(i)', Spenders)
  <2>1. PICK f, g, u, v, k : /\ f = Paid(i) /\ g = Paid(i)' /\ u = used[i] /\ v = used'[i]
                             /\ k = CostOf[c]
    OBVIOUS
  <2>2. /\ SumOf(u, Period) = SumOf(f, Spenders) /\ k \in Int
        /\ \A p \in Period : u[p] \in Int
        /\ \A d \in Spenders : f[d] \in Int
    BY <1>3, <2>1, PaidType DEF PaidInv
  <2>3. CASE landed /\ i = a
    <3>1. \A p \in Period : v[p] = IF p = q THEN u[p] + k ELSE u[p]
      BY <1>2, <2>1, <2>3
    <3>2. \A d \in Spenders : g[d] = IF d = c THEN f[d] + k ELSE f[d]
      BY <1>6, <2>1, <2>3
    <3>3. SumOf(v, Period) = SumOf(u, Period) + k
      <4>1. q \in Period /\ IsFiniteSet(Period)
        BY <1>2, FiniteFacts
      <4>2. QED
        BY <2>2, <3>1, <4>1, SumOfUpdate
    <3>4. SumOf(g, Spenders) = SumOf(f, Spenders) + k
      BY <2>2, <3>2, FiniteFacts, SumOfUpdate
    <3>5. QED
      BY <2>1, <2>2, <3>3, <3>4
  <2>4. CASE ~(landed /\ i = a)
    <3>1. \A p \in Period : v[p] = u[p]
      BY <1>2, <2>1, <2>4
    <3>2. \A d \in Spenders : g[d] = f[d]
      BY <1>6, <2>1, <2>4
    <3>3. SumOf(v, Period) = SumOf(u, Period) /\ SumOf(g, Spenders) = SumOf(f, Spenders)
      BY <2>2, <3>1, <3>2, FiniteFacts, SumOfSame
    <3>4. QED
      BY <2>1, <2>2, <3>3
  <2>5. QED
    BY <2>3, <2>4
<1>8. QED
  BY <1>5, <1>7 DEF PaidInv
LEMMA PaidStep == WalkInv /\ PaidInv /\ [Next]_vars => PaidInv'
<1> SUFFICES ASSUME WalkInv, PaidInv, [Next]_vars PROVE PaidInv'
  OBVIOUS
<1>1. ASSUME NEW c \in Spenders, StartSpending(c) PROVE PaidInv'
  <2>1. UNCHANGED <<used, missed>> /\ stage[c] = "new" /\ at[c] = 0 /\ c \in Calls /\ TypeInv
    BY <1>1, CallFacts DEF StartSpending, WalkInv, WalkOf
  <2>2. \A i \in Index : i \in Nat /\ i >= 1
    BY DEF Index
  <2>3. \A i \in Index : ~Past(c, i)
    BY <2>1, <2>2 DEF Past
  <2>4. CASE Advance(c, 1)
    <3>1. \A i \in Index : Past(c, i) <=> i < 1
      BY <2>2, <2>3
    <3>2. 1 \in Nat
      OBVIOUS
    <3>3. \A d \in Spenders, i \in Index :
            /\ Past(d, i) => Past(d, i)'
            /\ Matches(i, d) => (Past(d, i)' <=> Past(d, i))
      BY <2>4, <3>1, <3>2, AdvancePast
    <3>4. QED
      BY <2>1, <3>3, PaidFrame
  <2>5. CASE stage' = [stage EXCEPT ![c] = "done"] /\ UNCHANGED at
    <3>1. \A d \in Calls : d # c => stage'[d] = stage[d]
      BY <2>1, <2>5 DEF TypeInv
    <3>2. stage'[c] = "done"
      BY <2>1, <2>5 DEF TypeInv
    <3>3. \A d \in Spenders, i \in Index : Past(d, i)' <=> Past(d, i)
      BY <2>1, <2>2, <2>5, <3>1, <3>2, CallFacts DEF Past
    <3>4. QED
      BY <2>1, <3>3, PaidFrame
  <2>6. QED
    BY <1>1, <2>4, <2>5 DEF StartSpending
<1>2. ASSUME NEW c \in Spenders, Threshold(c) \/ HookEnds(c) PROVE PaidInv'
  <2>1. UNCHANGED <<used, missed, at>> /\ c \in Calls /\ TypeInv /\ stage[c] \in {"threshold", "hook"}
    BY <1>2, CallFacts DEF Threshold, HookEnds, WalkInv
  <2>2. PICK next \in {"threshold", "hook"} : stage' = [stage EXCEPT ![c] = next]
    BY <1>2, <2>1 DEF Threshold, HookEnds, TypeInv
  <2>3. stage'[c] = next /\ \A d \in Calls : d # c => stage'[d] = stage[d]
    BY <2>1, <2>2 DEF TypeInv
  <2>4. \A d \in Spenders, i \in Index : Past(d, i)' <=> Past(d, i)
    BY <2>1, <2>2, <2>3, CallFacts DEF Past
  <2>5. QED
    BY <2>1, <2>4, PaidFrame
<1>3. ASSUME NEW c \in Spenders, ThresholdsDone(c) PROVE PaidInv'
  <2>1. /\ UNCHANGED <<used, missed>> /\ c \in Calls /\ stage[c] = "threshold"
        /\ Advance(c, at[c] + 1)
    BY <1>3, CallFacts DEF ThresholdsDone
  <2>2. at[c] \in Nat /\ at[c] + 1 \in Nat
    BY <2>1, Walking
  <2>3. \A i \in Index : Past(c, i) <=> i < at[c] + 1
    BY <2>1, <2>2, LengthFacts DEF Past
  <2>4. \A d \in Spenders, i \in Index :
          /\ Past(d, i) => Past(d, i)'
          /\ Matches(i, d) => (Past(d, i)' <=> Past(d, i))
    BY <2>1, <2>2, <2>3, AdvancePast
  <2>5. QED
    BY <2>1, <2>4, PaidFrame
<1>4. ASSUME NEW c \in Spenders, NEW landed \in BOOLEAN, NEW answered \in BOOLEAN,
             Recorded(c, landed, answered)
      PROVE  PaidInv'
  BY <1>4, PaidRecord
<1>5. ASSUME NEW c \in Checkers,
             StartChecking(c) \/ \E fails \in StoreFails : ReadBudget(c, fails)
      PROVE  PaidInv'
  <2>1. c \in Calls /\ TypeInv /\ (\A d \in Spenders : d \in Calls /\ d # c) /\ 1 \in Nat
    BY CallFacts DEF WalkInv
  <2>2. /\ UNCHANGED used
        /\ \A d \in Spenders : stage'[d] = stage[d] /\ at'[d] = at[d]
        /\ \A d \in Spenders, i \in Index : <<d, i>> \in missed' <=> <<d, i>> \in missed
    <3>1. CASE StartChecking(c)
      <4>1. Advance(c, 1) /\ UNCHANGED <<used, missed>>
        BY <3>1 DEF StartChecking
      <4>2. QED
        BY <2>1, <4>1, AdvanceFacts
    <3>2. ASSUME NEW fails \in StoreFails, ReadBudget(c, fails)
          PROVE  /\ UNCHANGED used
                 /\ \A d \in Spenders : stage'[d] = stage[d] /\ at'[d] = at[d]
                 /\ \A d \in Spenders, i \in Index : <<d, i>> \in missed' <=> <<d, i>> \in missed
      <4>1. /\ UNCHANGED used /\ stage[c] = "budget"
            /\ missed' = IF fails THEN missed \cup {<<c, at[c]>>} ELSE missed
            /\ ReadBlocks(c, fails) \/ ReadPasses(c, fails)
        BY <3>2, ReadCases
      <4>2. CASE ReadBlocks(c, fails)
        BY <2>1, <4>1, <4>2 DEF ReadBlocks, TypeInv
      <4>3. CASE ReadPasses(c, fails)
        <5>1. at[c] + 1 \in Nat /\ Advance(c, at[c] + 1)
          BY <2>1, <4>1, <4>3, Walking DEF ReadPasses
        <5>2. \A d \in Spenders : stage'[d] = stage[d] /\ at'[d] = at[d]
          BY <2>1, <5>1, AdvanceFacts
        <5>3. QED
          BY <2>1, <4>1, <5>2
      <4>4. QED
        BY <4>1, <4>2, <4>3
    <3>3. QED
      BY <1>5, <3>1, <3>2
  <2>3. \A d \in Spenders, i \in Index : Past(d, i)' <=> Past(d, i)
    BY <2>2 DEF Past
  <2>4. QED
    BY <2>2, <2>3, PaidFrame
<1>6. ASSUME UNCHANGED <<used, stage, at, missed>> PROVE PaidInv'
  <2>1. \A d \in Spenders, i \in Index : Past(d, i)' <=> Past(d, i)
    BY <1>6 DEF Past
  <2>2. QED
    BY <1>6, <2>1, PaidFrame
<1>7. QED
  BY <1>1, <1>2, <1>3, <1>4, <1>5, <1>6, RecordCases DEF Next, AllDone, NextPeriod, vars

\* When the recordings are over, the counters of a budget hold, over all
\* periods, the sum of the costs of the requests it matches and the store did
\* not fail for: none is lost, split short by a rollover or counted twice
\* (BudgetManager::record_cost).
THEOREM MatchesAreCharged == Spec => []EveryMatchCharged
<1>1. Init => PaidInv
  <2> SUFFICES ASSUME Init PROVE PaidInv
    OBVIOUS
  <2>1. \A c \in Spenders, i \in Index : <<c, i>> \notin missed /\ ~Past(c, i)
    <3>1. \A i \in Index : i \in Nat /\ i >= 1
      BY DEF Index
    <3>2. QED
      BY <3>1, CallFacts DEF Init, Past
  <2>2. ASSUME NEW i \in Index
        PROVE  SumOf(used[i], Period) = SumOf(Paid(i), Spenders)
    <3>1. PICK f, u : f = Paid(i) /\ u = used[i]
      OBVIOUS
    <3>2. (\A c \in Spenders : f[c] = 0) /\ (\A p \in Period : u[p] = 0)
      BY <2>1, <3>1 DEF Paid, Init
    <3>3. SumOf(u, Period) = 0 /\ SumOf(f, Spenders) = 0
      BY <3>2, FiniteFacts, SumOfZeros
    <3>4. QED
      BY <3>1, <3>3
  <2>3. QED
    BY <2>1, <2>2 DEF PaidInv
<1>2. WalkInv /\ PaidInv => EveryMatchCharged
  <2> SUFFICES ASSUME WalkInv, PaidInv, \A c \in Spenders : stage[c] = "done", NEW i \in Index
               PROVE  MapThenSumSet(LAMBDA p : used[i][p], Period)
                        = MapThenSumSet(LAMBDA c : CostOf[c], Charged(i))
    BY DEF EveryMatchCharged
  <2>1. Charged(i) \subseteq Spenders
    BY DEF Charged
  <2>2. \A c \in Spenders : Paid(i)[c] = IF c \in Charged(i) THEN CostOf[c] ELSE 0
    <3>1. ASSUME NEW c \in Spenders
          PROVE  Paid(i)[c] = IF c \in Charged(i) THEN CostOf[c] ELSE 0
      <4>1. c \in Charged(i) <=> (Matches(i, c) /\ <<c, i>> \notin missed)
        BY DEF Charged, Matches
      <4>2. Paid(i)[c] = IF Past(c, i) /\ Matches(i, c) /\ <<c, i>> \notin missed
                         THEN CostOf[c] ELSE 0
        BY DEF Paid
      <4>3. CASE CostOf[c] = 0
        BY <4>1, <4>2, <4>3
      <4>4. CASE CostOf[c] > 0
        <5>1. at[c] = Last
          BY <4>4, CallFacts DEF WalkInv, WalkOf
        <5>2. Past(c, i)
          BY <5>1, LengthFacts DEF Past, Last, Index
        <5>3. QED
          BY <4>1, <4>2, <5>2
      <4>5. CostOf[c] \in Nat
        BY CallFacts
      <4>6. QED
        BY <4>3, <4>4, <4>5
    <3>2. QED
      BY <3>1
  <2>3. PICK f, u, A : f = Paid(i) /\ u = used[i] /\ A = Charged(i)
    OBVIOUS
  <2>4. /\ \A c \in Spenders : f[c] = IF c \in A THEN CostOf[c] ELSE 0
        /\ A \subseteq Spenders /\ \A c \in A : CostOf[c] \in Int
    BY <2>1, <2>2, <2>3, CallFacts
  <2>5. SumOf(f, Spenders) = SumOf(CostOf, A)
    BY <2>4, FiniteFacts, SumOfMask
  <2>6. SumOf(u, Period) = SumOf(f, Spenders)
    BY <2>3 DEF PaidInv
  <2>7. QED
    BY <2>3, <2>5, <2>6 DEF SumOf
<1>3. QED
  BY <1>1, <1>2, WalkAlways, PaidStep, PTL DEF Spec
----------------------------------------------------------------------------
(***************************************************************************)
(* Thresholds fire exactly when they are crossed.  The dedupe keys are the *)
(* points of the thresholds that fired, one for each (FiredInv); what a    *)
(* spender saw is never more than the counter (SeenInv); and a threshold   *)
(* the counter has crossed was fired, or the spender whose increment made  *)
(* the counter what it is has not come to it yet (DueInv).                 *)
(***************************************************************************)
PointAt(i, p, t) == <<i, p, Bucket(Budgets[i].thresholds[t].at)>>

PointOf(x) == PointAt(x.budget, x.period, x.threshold)

FiredType == [budget : Index, period : Period, threshold : Nat]

FiredInv ==
  /\ fired \in Seq(FiredType)
  /\ \A m \in DOMAIN fired : PointOf(fired[m]) \in notified /\ Reached(fired[m])
  /\ \A m, n \in DOMAIN fired : PointOf(fired[m]) = PointOf(fired[n]) => m = n
  /\ \A point \in notified : \E m \in DOMAIN fired : PointOf(fired[m]) = point

SeenInv ==
  \A c \in Spenders :
    stage[c] \in {"threshold", "hook"} => seen[c].used <= used[at[c]][seen[c].period]

\* Spender c is still to come to threshold t of (i, p), with the counter in hand.
Waits(c, i, p, t) ==
  /\ stage[c] \in {"threshold", "hook"} /\ at[c] = i
  /\ seen[c].used = told[i][p] /\ seen[c].period = p /\ step[c] <= t

DueInv ==
  \A i \in Index, p \in Period : \A t \in DOMAIN Budgets[i].thresholds :
    (CrossedBy(i, told[i][p], t) /\ told[i][p] > 0) =>
      PointAt(i, p, t) \in notified \/ \E c \in Spenders : Waits(c, i, p, t)

\* The comparison in the code, with its case of a budget without an amount.
LEMMA CrossesIffCrossed ==
  ASSUME NEW i \in Index, NEW t \in DOMAIN Budgets[i].thresholds, NEW u \in Nat
  PROVE  Crosses(i, u, Budgets[i].thresholds[t]) <=> CrossedBy(i, u, t)
<1>1. PICK a, b : a = Budgets[i].amount /\ b = Budgets[i].thresholds[t].at
  OBVIOUS
<1>2. a \in Nat /\ b \in Nat
  BY <1>1, BudgetFacts
<1>3. Crosses(i, u, Budgets[i].thresholds[t]) <=> IF a > 0 THEN u * 100 >= b * a ELSE b = 0
  BY <1>1, Zenon DEF Crosses
<1>4. CrossedBy(i, u, t) <=> (u * 100 >= b * a /\ (a > 0 \/ b = 0))
  BY <1>1, Zenon DEF CrossedBy
<1>5. CASE a > 0
  BY <1>3, <1>4, <1>5
<1>6. CASE ~(a > 0)
  <2>1. a = 0 /\ b * a = 0 /\ u * 100 >= 0
    BY <1>2, <1>6
  <2>2. QED
    BY <1>3, <1>4, <1>6, <2>1
<1>7. QED
  BY <1>5, <1>6

LEMMA CrossedByGrows ==
  ASSUME NEW i \in Index, NEW t \in DOMAIN Budgets[i].thresholds,
         NEW u \in Nat, NEW v \in Nat, u <= v, CrossedBy(i, u, t)
  PROVE  CrossedBy(i, v, t)
<1>1. Budgets[i].amount \in Nat /\ Budgets[i].thresholds[t].at \in Nat
  BY BudgetFacts
<1>2. u * 100 >= Budgets[i].thresholds[t].at * Budgets[i].amount
  BY Zenon DEF CrossedBy
<1>3. v * 100 >= Budgets[i].thresholds[t].at * Budgets[i].amount
  BY <1>1, <1>2, ReachGrows
<1>4. QED
  BY <1>3, Zenon DEF CrossedBy

LEMMA ReachedIff ==
  ASSUME NEW x
  PROVE  Reached(x) <=> /\ x.threshold \in DOMAIN Budgets[x.budget].thresholds
                        /\ CrossedBy(x.budget, used[x.budget][x.period], x.threshold)
BY Zenon DEF Reached, CrossedBy

LEMMA ReachedIffNext ==
  ASSUME NEW x
  PROVE  Reached(x)' <=> /\ x.threshold \in DOMAIN Budgets[x.budget].thresholds
                         /\ CrossedBy(x.budget, used'[x.budget][x.period], x.threshold)
BY Zenon DEF Reached, CrossedBy

LEMMA FiredFrame ==
  ASSUME WalkInv, WalkInv', FiredInv, UNCHANGED <<fired, notified>>,
         \A i \in Index, p \in Period : used[i][p] <= used'[i][p]
  PROVE  FiredInv'
<1>1. ASSUME NEW m \in DOMAIN fired
      PROVE  Reached(fired[m])'
  <2>1. PICK x : x = fired[m]
    OBVIOUS
  <2>2. x \in FiredType /\ Reached(x)
    BY <2>1 DEF FiredInv
  <2>3. x.budget \in Index /\ x.period \in Period
    BY <2>2 DEF FiredType
  <2>4. /\ used[x.budget][x.period] \in Nat /\ used'[x.budget][x.period] \in Nat
        /\ used[x.budget][x.period] <= used'[x.budget][x.period]
    <3>1. used \in [Index -> [Period -> Nat]] /\ used' \in [Index -> [Period -> Nat]]
      BY DEF WalkInv, TypeInv
    <3>2. QED
      BY <2>3, <3>1
  <2>5. /\ x.threshold \in DOMAIN Budgets[x.budget].thresholds
        /\ CrossedBy(x.budget, used[x.budget][x.period], x.threshold)
    BY <2>2, ReachedIff
  <2>6. CrossedBy(x.budget, used'[x.budget][x.period], x.threshold)
    BY <2>3, <2>4, <2>5, CrossedByGrows
  <2>7. Reached(x)'
    BY <2>5, <2>6, ReachedIffNext
  <2>8. fired'[m] = x
    BY <2>1
  <2>9. QED
    BY <2>7, <2>8, Zenon DEF Reached
<1>2. QED
  BY <1>1 DEF FiredInv, PointOf, PointAt, Bucket
\* A threshold fires.
Fires(c) ==
  LET t == Budgets[at[c]].thresholds[step[c]]
  IN Crosses(at[c], seen[c].used, t) /\ <<at[c], seen[c].period, Bucket(t.at)>> \notin notified

\* What one round over the thresholds does.
LEMMA ThresholdFacts ==
  ASSUME WalkInv, NEW c \in Spenders, Threshold(c)
  PROVE  /\ stage[c] = "threshold" /\ at[c] \in Index /\ seen[c].period \in Period
         /\ seen[c].used \in Nat /\ step[c] \in Nat
         /\ step[c] \in DOMAIN Budgets[at[c]].thresholds
         /\ Fires(c) =>
              /\ notified' = notified \cup {PointAt(at[c], seen[c].period, step[c])}
              /\ fired' = Append(fired, [budget |-> at[c], period |-> seen[c].period,
                                         threshold |-> step[c]])
         /\ ~Fires(c) => UNCHANGED <<notified, fired>>
         /\ stage'[c] \in {"threshold", "hook"}
         /\ step'[c] = step[c] + 1
         /\ UNCHANGED <<used, told, at, seen>>
         /\ \A d \in Spenders : d # c => stage'[d] = stage[d] /\ step'[d] = step[d]
<1>1. /\ c \in Calls /\ TypeInv /\ stage[c] = "threshold"
      /\ step[c] \in DOMAIN Budgets[at[c]].thresholds
  BY CallFacts DEF Threshold, WalkInv
<1>2. at[c] \in Index
  BY <1>1, Walking
<1>3. seen[c].period \in Period /\ seen[c].used \in Nat /\ step[c] \in Nat
  BY <1>1 DEF TypeInv
<1>4. step' = [step EXCEPT ![c] = @ + 1] /\ UNCHANGED <<used, told, at, seen>>
  BY DEF Threshold
<1>5. PICK next \in {"threshold", "hook"} : stage' = [stage EXCEPT ![c] = next]
  BY <1>1 DEF Threshold, TypeInv
<1>6. /\ stage'[c] \in {"threshold", "hook"} /\ step'[c] = step[c] + 1
      /\ \A d \in Spenders : d # c => stage'[d] = stage[d] /\ step'[d] = step[d]
  BY <1>1, <1>4, <1>5, CallFacts DEF TypeInv
<1>7. /\ Fires(c) => /\ notified' = notified \cup {PointAt(at[c], seen[c].period, step[c])}
                     /\ fired' = Append(fired, [budget |-> at[c], period |-> seen[c].period,
                                                threshold |-> step[c]])
      /\ ~Fires(c) => UNCHANGED <<notified, fired>>
  BY Zenon DEF Threshold, Fires, Fresh, PointAt
<1>8. QED
  BY <1>1, <1>2, <1>3, <1>4, <1>6, <1>7

LEMMA FiredThreshold ==
  ASSUME WalkInv, WalkInv', FiredInv, SeenInv, NEW c \in Spenders, Threshold(c)
  PROVE  FiredInv'
<1>1. /\ stage[c] = "threshold" /\ at[c] \in Index /\ seen[c].period \in Period
      /\ seen[c].used \in Nat /\ step[c] \in Nat
      /\ step[c] \in DOMAIN Budgets[at[c]].thresholds
      /\ UNCHANGED used
  BY ThresholdFacts
<1>2. used \in [Index -> [Period -> Nat]]
  BY DEF WalkInv, TypeInv
<1>3. CASE ~Fires(c)
  <2>1. UNCHANGED <<fired, notified>>
    BY <1>3, ThresholdFacts
  <2>2. \A i \in Index, p \in Period : used[i][p] <= used'[i][p]
    BY <1>1, <1>2
  <2>3. QED
    BY <2>1, <2>2, FiredFrame
<1>4. CASE Fires(c)
  <2>1. PICK x : x = [budget |-> at[c], period |-> seen[c].period, threshold |-> step[c]]
    OBVIOUS
  <2>2. notified' = notified \cup {PointOf(x)} /\ fired' = Append(fired, x)
    <3>1. x.budget = at[c] /\ x.period = seen[c].period /\ x.threshold = step[c]
      BY <2>1
    <3>2. PointOf(x) = PointAt(at[c], seen[c].period, step[c])
      BY <3>1, Zenon DEF PointOf
    <3>3. QED
      BY <1>4, <2>1, <3>2, ThresholdFacts
  <2>3. x \in FiredType /\ x.budget = at[c] /\ x.period = seen[c].period /\ x.threshold = step[c]
    BY <1>1, <2>1 DEF FiredType
  <2>4. PointOf(x) \notin notified
    BY <1>4, <2>3, Zenon DEF Fires, PointOf, PointAt
  <2>5. Reached(x)
    <3>1. Crosses(at[c], seen[c].used, Budgets[at[c]].thresholds[step[c]])
      BY <1>4, Zenon DEF Fires
    <3>2. CrossedBy(at[c], seen[c].used, step[c])
      BY <1>1, <3>1, CrossesIffCrossed
    <3>3. seen[c].used <= used[at[c]][seen[c].period] /\ used[at[c]][seen[c].period] \in Nat
      BY <1>1, <1>2 DEF SeenInv
    <3>4. CrossedBy(at[c], used[at[c]][seen[c].period], step[c])
      BY <1>1, <3>2, <3>3, CrossedByGrows
    <3>5. QED
      BY <1>1, <2>3, <3>4, ReachedIff
  <2>6. PICK n \in Nat : n = Len(fired) /\ DOMAIN fired = 1..n
    BY DEF FiredInv
  <2>7. /\ fired' \in Seq(FiredType) /\ DOMAIN fired' = 1..(n + 1)
        /\ fired'[n + 1] = x /\ \A m \in 1..n : fired'[m] = fired[m]
    BY <2>2, <2>3, <2>6 DEF FiredInv
  <2>8. ASSUME NEW m \in 1..(n + 1)
        PROVE  m \in 1..n \/ m = n + 1
    BY <2>8
  <2>9. \A m \in 1..n : PointOf(fired[m]) \in notified /\ Reached(fired[m])
    BY <2>6 DEF FiredInv
  <2>10. \A m \in 1..(n + 1) : PointOf(fired'[m]) \in notified'
    BY <2>2, <2>7, <2>8, <2>9
  <2>11. \A m \in 1..(n + 1) : Reached(fired'[m])
    BY <2>5, <2>7, <2>8, <2>9
  <2>12. ASSUME NEW m \in 1..(n + 1), NEW k \in 1..(n + 1), PointOf(fired'[m]) = PointOf(fired'[k])
         PROVE  m = k
    <3>1. CASE m \in 1..n /\ k \in 1..n
      BY <2>6, <2>7, <2>12, <3>1 DEF FiredInv
    <3>2. CASE m \in 1..n /\ k = n + 1
      BY <2>4, <2>7, <2>9, <2>12, <3>2
    <3>3. CASE m = n + 1 /\ k \in 1..n
      BY <2>4, <2>7, <2>9, <2>12, <3>3
    <3>4. QED
      BY <2>8, <3>1, <3>2, <3>3
  <2>13. ASSUME NEW point \in notified'
         PROVE  \E m \in 1..(n + 1) : PointOf(fired'[m]) = point
    <3>1. CASE point = PointOf(x)
      <4>1. n + 1 \in 1..(n + 1)
        OBVIOUS
      <4>2. QED
        BY <2>7, <3>1, <4>1
    <3>2. CASE point \in notified
      <4>1. PICK m \in 1..n : PointOf(fired[m]) = point
        BY <2>6, <3>2 DEF FiredInv
      <4>2. m \in 1..(n + 1)
        OBVIOUS
      <4>3. QED
        BY <2>7, <4>1, <4>2
    <3>3. QED
      BY <2>2, <3>1, <3>2
  <2>14. \A m \in DOMAIN fired' : PointOf(fired[m])' \in notified' /\ Reached(fired[m])'
    BY <1>1, <2>7, <2>10, <2>11 DEF Reached, PointOf, PointAt, Bucket
  <2>15. \A m, k \in DOMAIN fired' : PointOf(fired[m])' = PointOf(fired[k])' => m = k
    BY <2>7, <2>12 DEF PointOf, PointAt, Bucket
  <2>16. \A point \in notified' : \E m \in DOMAIN fired' : PointOf(fired[m])' = point
    BY <2>7, <2>13 DEF PointOf, PointAt, Bucket
  <2>17. QED
    BY <2>7, <2>14, <2>15, <2>16 DEF FiredInv
<1>5. QED
  BY <1>3, <1>4
SpenderSame(d) ==
  stage'[d] = stage[d] /\ at'[d] = at[d] /\ seen'[d] = seen[d] /\ step'[d] = step[d]

\* Spender c returns from the loop over the thresholds, or has not entered it.
Moves(c) ==
  /\ UNCHANGED <<used, told, notified, fired>>
  /\ stage'[c] \notin {"threshold", "hook"}
  /\ \A t \in DOMAIN Budgets[at[c]].thresholds :
       stage[c] \in {"threshold", "hook"} => step[c] > t
  /\ \A d \in Spenders : d # c => SpenderSame(d)

LEMMA MoveFacts ==
  ASSUME WalkInv, NEW c \in Spenders, StartSpending(c) \/ ThresholdsDone(c)
  PROVE  Moves(c)
<1>1. c \in Calls /\ TypeInv /\ UNCHANGED <<used, told, notified, fired, seen, step>>
  BY CallFacts DEF StartSpending, ThresholdsDone, WalkInv
<1>2. /\ stage'[c] \notin {"threshold", "hook"}
      /\ \A d \in Calls : d # c => stage'[d] = stage[d] /\ at'[d] = at[d]
  <2>1. CASE CostOf[c] = 0 /\ StartSpending(c)
    BY <1>1, <2>1 DEF StartSpending, TypeInv
  <2>2. ASSUME NEW n \in Nat, Advance(c, n)
        PROVE  /\ stage'[c] \notin {"threshold", "hook"}
               /\ \A d \in Calls : d # c => stage'[d] = stage[d] /\ at'[d] = at[d]
    <3>1. /\ stage'[c] \in {"budget", "done"}
          /\ \A d \in Calls : d # c => stage'[d] = stage[d] /\ at'[d] = at[d]
      BY <1>1, <2>2, AdvanceFacts
    <3>2. QED
      BY <3>1
  <2>3. CASE CostOf[c] > 0 /\ StartSpending(c)
    <3>1. 1 \in Nat /\ Advance(c, 1)
      BY <2>3 DEF StartSpending
    <3>2. QED
      BY <2>2, <3>1
  <2>4. CASE ThresholdsDone(c)
    <3>1. stage[c] = "threshold" /\ Advance(c, at[c] + 1)
      BY <2>4 DEF ThresholdsDone
    <3>2. at[c] + 1 \in Nat
      BY <1>1, <3>1, Walking
    <3>3. QED
      BY <2>2, <3>1, <3>2
  <2>5. QED
    BY <2>1, <2>3, <2>4 DEF StartSpending
<1>3. \A t \in DOMAIN Budgets[at[c]].thresholds : stage[c] \in {"threshold", "hook"} => step[c] > t
  <2>1. CASE StartSpending(c)
    BY <2>1 DEF StartSpending
  <2>2. CASE ThresholdsDone(c)
    <3>1. stage[c] = "threshold" /\ step[c] > Len(Budgets[at[c]].thresholds)
      BY <2>2 DEF ThresholdsDone
    <3>2. at[c] \in Index
      BY <1>1, <3>1, Walking
    <3>3. PICK s \in Seq(ThresholdType) : s = Budgets[at[c]].thresholds
      BY <3>2, BudgetFacts
    <3>4. step[c] \in Nat /\ step[c] > Len(s)
      BY <1>1, <3>1, <3>3 DEF TypeInv
    <3>5. \A t \in DOMAIN s : step[c] > t
      BY <3>4
    <3>6. QED
      BY <3>3, <3>5
  <2>3. QED
    BY <2>1, <2>2
<1>4. QED
  BY <1>1, <1>2, <1>3, CallFacts DEF Moves, SpenderSame

\* The checkers' steps and the rollovers.
LEMMA OutsideFacts ==
  ASSUME WalkInv,
         \/ \E c \in Checkers :
              StartChecking(c) \/ \E fails \in StoreFails : ReadBudget(c, fails)
         \/ \E i \in Index : NextPeriod(i)
         \/ UNCHANGED vars
  PROVE  UNCHANGED <<used, told, notified, fired>> /\ \A d \in Spenders : SpenderSame(d)
<1>1. ASSUME NEW c \in Checkers, StartChecking(c)
      PROVE  UNCHANGED <<used, told, notified, fired>> /\ \A d \in Spenders : SpenderSame(d)
  <2>1. /\ UNCHANGED <<used, told, notified, fired, seen, step>> /\ Advance(c, 1) /\ 1 \in Nat
        /\ c \in Calls /\ TypeInv /\ \A d \in Spenders : d \in Calls /\ d # c
    BY <1>1, CallFacts DEF StartChecking, WalkInv
  <2>2. \A d \in Spenders : stage'[d] = stage[d] /\ at'[d] = at[d]
    BY <2>1, AdvanceFacts
  <2>3. QED
    BY <2>1, <2>2 DEF SpenderSame
<1>2. ASSUME NEW c \in Checkers, NEW fails \in StoreFails, ReadBudget(c, fails)
      PROVE  UNCHANGED <<used, told, notified, fired>> /\ \A d \in Spenders : SpenderSame(d)
  <2>1. /\ UNCHANGED <<used, told, notified, fired, seen, step>> /\ stage[c] = "budget"
        /\ ReadBlocks(c, fails) \/ ReadPasses(c, fails)
        /\ c \in Calls /\ TypeInv /\ \A d \in Spenders : d \in Calls /\ d # c
    BY <1>2, ReadCases, CallFacts DEF WalkInv
  <2>2. \A d \in Spenders : stage'[d] = stage[d] /\ at'[d] = at[d]
    <3>1. CASE ReadBlocks(c, fails)
      BY <2>1, <3>1 DEF ReadBlocks, TypeInv
    <3>2. CASE ReadPasses(c, fails)
      <4>1. at[c] + 1 \in Nat /\ Advance(c, at[c] + 1)
        BY <2>1, <3>2, Walking DEF ReadPasses
      <4>2. QED
        BY <2>1, <4>1, AdvanceFacts
    <3>3. QED
      BY <2>1, <3>1, <3>2
  <2>3. QED
    BY <2>1, <2>2 DEF SpenderSame
<1>3. CASE (\E i \in Index : NextPeriod(i)) \/ UNCHANGED vars
  BY <1>3 DEF NextPeriod, vars, SpenderSame
<1>4. QED
  BY <1>1, <1>2, <1>3

\* A spender that a step leaves alone has seen no more than the counters hold.
LEMMA SeenFrame ==
  ASSUME WalkInv, WalkInv', SeenInv,
         \A i \in Index, p \in Period : used[i][p] <= used'[i][p],
         \A d \in Spenders :
           \/ SpenderSame(d)
           \/ stage'[d] \in {"threshold", "hook"} =>
                seen'[d].used <= used'[at'[d]][seen'[d].period]
  PROVE  SeenInv'
<1> SUFFICES ASSUME NEW d \in Spenders, stage'[d] \in {"threshold", "hook"}
             PROVE  seen'[d].used <= used'[at'[d]][seen'[d].period]
  BY DEF SeenInv
<1>1. CASE ~SpenderSame(d)
  BY <1>1
<1>2. CASE SpenderSame(d)
  <2>1. stage[d] \in {"threshold", "hook"} /\ at'[d] = at[d] /\ seen'[d] = seen[d]
    BY <1>2 DEF SpenderSame
  <2>2. PICK i, p, u : i = at[d] /\ p = seen[d].period /\ u = seen[d].used
    OBVIOUS
  <2>3. i \in Index /\ p \in Period /\ u \in Nat
    <3>1. i \in Index
      BY <2>1, <2>2, Walking, CallFacts
    <3>2. QED
      BY <2>2, <3>1 DEF WalkInv, TypeInv
  <2>4. u <= used[i][p]
    BY <2>1, <2>2 DEF SeenInv
  <2>5. used[i][p] \in Nat /\ used'[i][p] \in Nat
    <3>1. used \in [Index -> [Period -> Nat]] /\ used' \in [Index -> [Period -> Nat]]
      BY DEF WalkInv, TypeInv
    <3>2. QED
      BY <2>3, <3>1
  <2>6. u <= used'[i][p]
    <3>1. used[i][p] <= used'[i][p]
      BY <2>3
    <3>2. QED
      BY <2>3, <2>4, <2>5, <3>1
  <2>7. QED
    BY <2>1, <2>2, <2>6
<1>3. QED
  BY <1>1, <1>2

\* While the counters stay, whoever waits goes on waiting or has fired.
LEMMA DueFrame ==
  ASSUME DueInv, UNCHANGED told, notified \subseteq notified',
         \A c \in Spenders, i \in Index, p \in Period : \A t \in DOMAIN Budgets[i].thresholds :
           (Waits(c, i, p, t) /\ CrossedBy(i, told[i][p], t)) =>
             Waits(c, i, p, t)' \/ PointAt(i, p, t) \in notified'
  PROVE  DueInv'
<1> SUFFICES ASSUME NEW i \in Index, NEW p \in Period, NEW t \in DOMAIN Budgets[i].thresholds,
                    CrossedBy(i, told[i][p], t), told[i][p] > 0
             PROVE  PointAt(i, p, t) \in notified' \/ \E c \in Spenders : Waits(c, i, p, t)'
  BY DEF DueInv, CrossedBy, PointAt, Bucket
<1>1. PointAt(i, p, t) \in notified \/ \E c \in Spenders : Waits(c, i, p, t)
  BY DEF DueInv
<1>2. CASE PointAt(i, p, t) \in notified
  BY <1>2
<1>3. CASE \E c \in Spenders : Waits(c, i, p, t)
  BY <1>3
<1>4. QED
  BY <1>1, <1>2, <1>3
FireInv == FiredInv /\ SeenInv /\ DueInv

\* A spender whose place has not changed goes on waiting.
LEMMA WaitsSame ==
  ASSUME UNCHANGED told, NEW d, SpenderSame(d), NEW i, NEW p, NEW t, Waits(d, i, p, t)
  PROVE  Waits(d, i, p, t)'
BY DEF SpenderSame, Waits

LEMMA CountersStay ==
  ASSUME WalkInv, UNCHANGED used
  PROVE  \A i \in Index, p \in Period : used[i][p] <= used'[i][p]
<1>1. used \in [Index -> [Period -> Nat]]
  BY DEF WalkInv, TypeInv
<1>2. QED
  BY <1>1

LEMMA FireMoves ==
  ASSUME WalkInv, WalkInv', FireInv, NEW c \in Spenders, Moves(c)
  PROVE  FireInv'
<1>1. /\ UNCHANGED used /\ UNCHANGED told /\ UNCHANGED notified /\ UNCHANGED fired
      /\ stage'[c] \notin {"threshold", "hook"}
      /\ \A d \in Spenders : d # c => SpenderSame(d)
  BY DEF Moves
<1>2. FiredInv' /\ SeenInv'
  BY <1>1, CountersStay, FiredFrame, SeenFrame DEF FireInv
<1>3. ASSUME NEW d \in Spenders, NEW i \in Index, NEW p \in Period,
             NEW t \in DOMAIN Budgets[i].thresholds, Waits(d, i, p, t)
      PROVE  Waits(d, i, p, t)'
  <2>1. CASE d = c
    <3>1. stage[c] \in {"threshold", "hook"} /\ at[c] = i /\ step[c] <= t /\ step[c] > t
      BY <1>3, <2>1 DEF Waits, Moves
    <3>2. t \in Int /\ step[c] \in Int
      <4>1. PICK s \in Seq(ThresholdType) : s = Budgets[i].thresholds
        BY BudgetFacts
      <4>2. \A n \in DOMAIN s : n \in Int
        OBVIOUS
      <4>3. step[c] \in Int
        BY DEF WalkInv, TypeInv
      <4>4. QED
        BY <4>1, <4>2, <4>3
    <3>3. QED
      BY <3>1, <3>2
  <2>2. CASE d # c
    BY <1>1, <1>3, <2>2, WaitsSame
  <2>3. QED
    BY <2>1, <2>2
<1>4. DueInv'
  BY <1>1, <1>3, DueFrame DEF FireInv
<1>5. QED
  BY <1>2, <1>4 DEF FireInv

LEMMA FireOutside ==
  ASSUME WalkInv, WalkInv', FireInv, UNCHANGED <<used, told, notified, fired>>,
         \A d \in Spenders : SpenderSame(d)
  PROVE  FireInv'
<1>1. FiredInv'
  BY CountersStay, FiredFrame DEF FireInv
<1>2. SeenInv'
  BY CountersStay, SeenFrame DEF FireInv
<1>3. DueInv'
  BY WaitsSame, DueFrame DEF FireInv
<1>4. QED
  BY <1>1, <1>2, <1>3 DEF FireInv

LEMMA FireHookEnds ==
  ASSUME WalkInv, WalkInv', FireInv, NEW c \in Spenders, HookEnds(c)
  PROVE  FireInv'
<1>1. /\ c \in Calls /\ TypeInv /\ stage[c] = "hook" /\ stage' = [stage EXCEPT ![c] = "threshold"]
      /\ UNCHANGED used /\ UNCHANGED told /\ UNCHANGED notified /\ UNCHANGED fired /\ UNCHANGED <<at, step, seen>>
  BY CallFacts DEF HookEnds, WalkInv
<1>2. stage'[c] = "threshold" /\ \A d \in Spenders : d # c => SpenderSame(d)
  BY <1>1, CallFacts DEF TypeInv, SpenderSame
<1>3. FiredInv'
  BY <1>1, CountersStay, FiredFrame DEF FireInv
<1>4. SeenInv'
  <2>1. seen'[c].used <= used'[at'[c]][seen'[c].period]
    BY <1>1 DEF FireInv, SeenInv
  <2>2. QED
    BY <1>1, <1>2, <2>1, CountersStay, SeenFrame DEF FireInv
<1>5. ASSUME NEW d \in Spenders, NEW i \in Index, NEW p \in Period,
             NEW t \in DOMAIN Budgets[i].thresholds, Waits(d, i, p, t)
      PROVE  Waits(d, i, p, t)'
  <2>1. CASE d = c
    BY <1>1, <1>2, <1>5, <2>1 DEF Waits
  <2>2. CASE d # c
    BY <1>1, <1>2, <1>5, <2>2, WaitsSame
  <2>3. QED
    BY <2>1, <2>2
<1>6. DueInv'
  BY <1>1, <1>5, DueFrame DEF FireInv
<1>7. QED
  BY <1>3, <1>4, <1>6 DEF FireInv

LEMMA FireThreshold ==
  ASSUME WalkInv, WalkInv', FireInv, NEW c \in Spenders, Threshold(c)
  PROVE  FireInv'
<1>1. /\ stage[c] = "threshold" /\ at[c] \in Index /\ seen[c].period \in Period
      /\ seen[c].used \in Nat /\ step[c] \in Nat
      /\ step[c] \in DOMAIN Budgets[at[c]].thresholds
      /\ Fires(c) => notified' = notified \cup {PointAt(at[c], seen[c].period, step[c])}
      /\ ~Fires(c) => notified' = notified
      /\ stage'[c] \in {"threshold", "hook"}
      /\ step'[c] = step[c] + 1
      /\ UNCHANGED used /\ UNCHANGED told /\ UNCHANGED <<at, seen>>
      /\ \A d \in Spenders : d # c => stage'[d] = stage[d] /\ step'[d] = step[d]
  BY ThresholdFacts
<1>2. \A d \in Spenders : d # c => SpenderSame(d)
  BY <1>1 DEF SpenderSame
<1>3. FiredInv'
  BY FiredThreshold DEF FireInv
<1>4. SeenInv'
  <2>1. seen'[c].used <= used'[at'[c]][seen'[c].period]
    BY <1>1 DEF FireInv, SeenInv
  <2>2. QED
    BY <1>1, <1>2, <2>1, CountersStay, SeenFrame DEF FireInv
<1>5. ASSUME NEW d \in Spenders, NEW i \in Index, NEW p \in Period,
             NEW t \in DOMAIN Budgets[i].thresholds, Waits(d, i, p, t),
             CrossedBy(i, told[i][p], t)
      PROVE  Waits(d, i, p, t)' \/ PointAt(i, p, t) \in notified'
  <2>1. CASE d = c /\ step[c] = t
    <3>1. at[c] = i /\ seen[c].used = told[i][p] /\ seen[c].period = p
      BY <1>5, <2>1 DEF Waits
    <3>2. Crosses(at[c], seen[c].used, Budgets[at[c]].thresholds[step[c]])
      BY <1>1, <1>5, <2>1, <3>1, CrossesIffCrossed
    <3>3. Fires(c) \/ PointAt(at[c], seen[c].period, step[c]) \in notified
      BY <3>2, Zenon DEF Fires, PointAt
    <3>4. PointAt(at[c], seen[c].period, step[c]) \in notified'
      BY <1>1, <3>3
    <3>5. QED
      BY <2>1, <3>1, <3>4
  <2>2. CASE d = c /\ step[c] # t
    <3>1. t \in Int
      <4>1. Budgets[i].thresholds \in Seq(ThresholdType)
        BY BudgetFacts
      <4>2. QED
        BY <4>1
    <3>2. step[c] <= t
      BY <1>5, <2>2 DEF Waits
    <3>3. step'[c] <= t
      BY <1>1, <2>2, <3>1, <3>2
    <3>4. QED
      BY <1>1, <1>5, <2>2, <3>3 DEF Waits
  <2>3. CASE d # c
    BY <1>1, <1>2, <1>5, <2>3, WaitsSame
  <2>4. QED
    BY <2>1, <2>2, <2>3
<1>6. notified \subseteq notified'
  BY <1>1
<1>7. DueInv'
  BY <1>1, <1>5, <1>6, DueFrame DEF FireInv
<1>8. QED
  BY <1>3, <1>4, <1>7 DEF FireInv
LEMMA FireRecord ==
  ASSUME WalkInv, WalkInv', FireInv, NEW c \in Spenders, NEW landed \in BOOLEAN,
         NEW answered \in BOOLEAN, Recorded(c, landed, answered)
  PROVE  FireInv'
<1>1. PICK a, q : a = at[c] /\ q = now[a]
  OBVIOUS
<1>2. /\ stage[c] = "budget" /\ a \in Index /\ q \in Period
      /\ \A i \in Index, p \in Period :
           used'[i][p] = IF landed /\ i = a /\ p = q THEN used[i][p] + CostOf[c] ELSE used[i][p]
      /\ \A i \in Index, p \in Period :
           told'[i][p] = IF answered /\ i = a /\ p = q THEN used[i][p] + CostOf[c] ELSE told[i][p]
      /\ answered => landed
      /\ seen'[c].period = q
      /\ seen'[c].used = IF answered THEN used[a][q] + CostOf[c] ELSE 0
      /\ step'[c] = 1 /\ stage'[c] = "threshold" /\ at' = at
      /\ \A d \in Spenders : d # c => seen'[d] = seen[d] /\ step'[d] = step[d] /\ stage'[d] = stage[d]
  BY <1>1, RecordFacts, CallFacts
<1>3. UNCHANGED <<notified, fired>>
  BY RecordFacts
<1>4. \A d \in Spenders : d # c => SpenderSame(d)
  BY <1>2 DEF SpenderSame
<1>5. CostOf[c] \in Nat
  BY CallFacts
<1>6. /\ used \in [Index -> [Period -> Nat]]
      /\ \A i \in Index, p \in Period : used[i][p] <= used'[i][p]
  <2>1. used \in [Index -> [Period -> Nat]]
    BY DEF WalkInv, TypeInv
  <2>2. \A i \in Index, p \in Period : used[i][p] \in Nat
    BY <2>1
  <2>3. QED
    BY <1>2, <1>5, <2>1, <2>2
<1>7. FiredInv'
  BY <1>3, <1>6, FiredFrame DEF FireInv
<1>8. SeenInv'
  <2>1. seen'[c].used <= used'[at'[c]][seen'[c].period]
    <3>1. used[a][q] \in Nat
      BY <1>2, <1>6
    <3>2. at'[c] = a /\ used'[a][q] = IF landed THEN used[a][q] + CostOf[c] ELSE used[a][q]
      BY <1>1, <1>2
    <3>3. QED
      BY <1>2, <1>5, <3>1, <3>2
  <2>2. QED
    BY <1>4, <1>6, <2>1, SeenFrame DEF FireInv
<1>9. ASSUME NEW i \in Index, NEW p \in Period, NEW t \in DOMAIN Budgets[i].thresholds,
             CrossedBy(i, told'[i][p], t), told'[i][p] > 0
      PROVE  PointAt(i, p, t) \in notified' \/ \E d \in Spenders : Waits(d, i, p, t)'
  <2>1. CASE answered /\ i = a /\ p = q
    <3>1. seen'[c].used = told'[i][p] /\ seen'[c].period = p /\ at'[c] = i
      BY <1>1, <1>2, <2>1
    <3>2. step'[c] <= t
      <4>1. PICK s \in Seq(ThresholdType) : s = Budgets[i].thresholds
        BY BudgetFacts
      <4>2. \A n \in DOMAIN s : 1 <= n
        OBVIOUS
      <4>3. QED
        BY <1>2, <4>1, <4>2
    <3>3. Waits(c, i, p, t)'
      BY <1>2, <3>1, <3>2 DEF Waits
    <3>4. QED
      BY <3>3
  <2>2. CASE ~(answered /\ i = a /\ p = q)
    <3>1. told'[i][p] = told[i][p]
      BY <1>2, <2>2
    <3>2. PointAt(i, p, t) \in notified \/ \E d \in Spenders : Waits(d, i, p, t)
      BY <1>9, <3>1 DEF FireInv, DueInv
    <3>3. ASSUME NEW d \in Spenders, Waits(d, i, p, t)
          PROVE  Waits(d, i, p, t)'
      <4>1. d # c
        BY <1>2, <3>3 DEF Waits
      <4>2. QED
        BY <1>4, <3>1, <3>3, <4>1 DEF Waits, SpenderSame
    <3>4. QED
      BY <1>3, <3>2, <3>3
  <2>3. QED
    BY <2>1, <2>2
<1>10. DueInv'
  BY <1>9 DEF DueInv, CrossedBy, PointAt, Bucket
<1>11. QED
  BY <1>7, <1>8, <1>10 DEF FireInv

LEMMA FireStep == WalkInv /\ WalkInv' /\ FireInv /\ [Next]_vars => FireInv'
<1> SUFFICES ASSUME WalkInv, WalkInv', FireInv, [Next]_vars PROVE FireInv'
  OBVIOUS
<1>1. ASSUME NEW c \in Spenders, StartSpending(c) \/ ThresholdsDone(c) PROVE FireInv'
  BY <1>1, MoveFacts, FireMoves
<1>2. ASSUME NEW c \in Spenders, Threshold(c) PROVE FireInv'
  BY <1>2, FireThreshold
<1>3. ASSUME NEW c \in Spenders, HookEnds(c) PROVE FireInv'
  BY <1>3, FireHookEnds
<1>4. ASSUME NEW c \in Spenders, NEW landed \in BOOLEAN, NEW answered \in BOOLEAN,
             Recorded(c, landed, answered)
      PROVE  FireInv'
  BY <1>4, FireRecord
<1>5. CASE \/ \E c \in Checkers :
                StartChecking(c) \/ \E fails \in StoreFails : ReadBudget(c, fails)
           \/ \E i \in Index : NextPeriod(i)
           \/ UNCHANGED vars
  BY <1>5, OutsideFacts, FireOutside
<1>6. QED
  BY <1>1, <1>2, <1>3, <1>4, <1>5, RecordCases DEF Next, AllDone

\* In every interleaving of recordings, rollovers and store failures a threshold
\* fires only once its counter has reached it and at most once in a period, and
\* when the recordings are over every one reached has fired
\* (BudgetManager::record_cost, fire_threshold).
THEOREM FiresIffCrossed == Spec => []FiredIffCrossed
<1>1. Init => FireInv
  <2> SUFFICES ASSUME Init PROVE FireInv
    OBVIOUS
  <2>1. fired = << >> /\ notified = {}
    BY DEF Init
  <2>2. FiredInv
    BY <2>1 DEF FiredInv
  <2>3. SeenInv
    BY CallFacts DEF Init, SeenInv
  <2>4. \A i \in Index, p \in Period : told[i][p] = 0
    BY DEF Init
  <2>5. DueInv
    BY <2>4 DEF DueInv
  <2>6. QED
    BY <2>2, <2>3, <2>5 DEF FireInv
<1>2. WalkInv /\ FireInv => FiredIffCrossed
  <2> SUFFICES ASSUME WalkInv, FireInv PROVE FiredIffCrossed
    OBVIOUS
  <2>1. \A x, y : SamePoint(x, y) <=> PointOf(x) = PointOf(y)
    BY DEF SamePoint, PointOf, PointAt
  <2>2. \A m, n \in DOMAIN fired : SamePoint(fired[m], fired[n]) => m = n
    BY <2>1 DEF FireInv, FiredInv
  <2>3. \A m \in DOMAIN fired : Reached(fired[m])
    BY DEF FireInv, FiredInv
  <2>4. ASSUME \A c \in Spenders : stage[c] = "done",
               NEW i \in Index, NEW p \in Period, NEW t \in DOMAIN Budgets[i].thresholds,
               NEW x, x = [budget |-> i, period |-> p, threshold |-> t],
               CrossedBy(i, told[i][p], t), told[i][p] > 0
        PROVE  \E m \in DOMAIN fired : SamePoint(fired[m], x)
    <3>1. x.budget = i /\ x.period = p /\ x.threshold = t
      BY <2>4
    <3>3. PointAt(i, p, t) \in notified
      BY <2>4 DEF FireInv, DueInv, Waits
    <3>4. PointOf(x) \in notified
      BY <3>1, <3>3 DEF PointOf
    <3>5. PICK m \in DOMAIN fired : PointOf(fired[m]) = PointOf(x)
      BY <3>4 DEF FireInv, FiredInv
    <3>6. QED
      BY <2>1, <3>5
  <2>5. QED
    BY <2>2, <2>3, <2>4, Zenon DEF FiredIffCrossed
<1>3. QED
  BY <1>1, <1>2, WalkAlways, FireStep, PTL DEF Spec
=============================================================================
