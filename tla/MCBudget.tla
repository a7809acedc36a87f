------------------------------ MODULE MCBudget ------------------------------
EXTENDS Budget, TLC

CONSTANTS s1, s2, s3, c1

T(percent, action, hook) == [at |-> percent, action |-> action, hook |-> hook]
B(project, key, amount, thresholds) ==
  [project |-> project, key |-> key, amount |-> amount, thresholds |-> thresholds]

Project == [c \in Calls |-> "p"]
Keyed == [c \in Calls |-> IF c = s2 THEN "k2" ELSE "k1"]
Costs == [c \in Spenders |-> IF c = s3 THEN 0 ELSE IF c = s2 THEN 2 ELSE 1]

\* One budget without a target, with two thresholds in one bucket, and one for a
\* key of the project, without an amount and with a threshold at zero; 3 is spent
\* in all, so that the block threshold of the first is reached exactly.
Layered ==
  <<B(None, None, 4, <<T(28, "notify", None), T(29, "notify", None), T(75, "block", "a")>>),
    B("p", "k1", 0, <<T(0, "notify", None), T(50, "block", None)>>)>>
=============================================================================
