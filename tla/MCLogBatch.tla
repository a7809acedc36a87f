----------------------------- MODULE MCLogBatch -----------------------------
EXTENDS LogBatch, TLC

CONSTANTS a, b, c

Distinct == [r \in Records |-> r]
\* Two responses carry the same id.
Repeated == [r \in Records |-> IF r = b THEN a ELSE r]
=============================================================================
