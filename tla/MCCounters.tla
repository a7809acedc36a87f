----------------------------- MODULE MCCounters -----------------------------
(***************************************************************************)
(* The two users of the shared counter store, side by side: budgets        *)
(* (Budget) and concurrency slots (RedisCounter).  They share no key, so a *)
(* behaviour is of one of them, and the other one rests.                   *)
(***************************************************************************)
EXTENDS MCBudget, MCRedisCounter

VARIABLE subject

CountersInit == subject \in {"budgets", "slots"} /\ Init /\ SlotInit

CountersNext ==
  /\ \/ subject = "budgets" /\ Next /\ UNCHANGED slotVars
     \/ subject = "slots" /\ SlotNext /\ UNCHANGED vars
  /\ UNCHANGED subject

CountersSpec == CountersInit /\ [][CountersNext]_<<subject, vars, slotVars>>
=============================================================================
