---------------------------- MODULE RedisCounter ----------------------------
(***************************************************************************)
(* The concurrency slots of RedisCounterStore (gateway-storage/src/redis/  *)
(* counter.rs) for one key: try_acquire_concurrency and the release of its *)
(* permits, with the requests of every gateway interleaved between two     *)
(* Redis commands.  A command may fail with or without having been         *)
(* executed; a gateway may die with its permits.  Redis deletes the key    *)
(* when its time to live runs out, and INCR and DECR create a missing one  *)
(* without a time to live.                                                 *)
(***************************************************************************)
EXTENDS Integers, FiniteSets, Option

CONSTANTS
  Requests,   \* requests; each may come back after it is over
  MaxSlots,   \* max: the cap of the rule
  Ttl,        \* the 60 seconds of EXPIRE, in ticks
  U32,        \* 2^32
  MaxFaults,  \* bound on failed commands and deaths
  MaxDebt     \* bound below zero: no release once the counter is at -MaxDebt

ASSUME RedisAssumption ==
  /\ IsFiniteSet(Requests)
  /\ MaxSlots \in Nat /\ Ttl \in Nat \ {0} /\ MaxFaults \in Nat /\ MaxDebt \in Nat
  /\ U32 \in Nat \ {0}
  /\ MaxSlots < U32
  /\ Cardinality(Requests) < U32
  /\ None \notin Int

VARIABLES
  count,   \* the value of the key, None if there is no key
  ttl,     \* its remaining time to live, None if it has none
  pc,      \* where a request is
  v,       \* what its INCR returned
  faults,  \* failed commands and deaths so far
  drifted, \* history: a command was lost, or the key expired under a slot, and
           \* the key has not expired since with no slot in use
  rivals   \* history: the other slots that were counted when it incremented

slotVars == <<count, ttl, pc, v, faults, drifted, rivals>>

Value == IF count = None THEN 0 ELSE count

\* The requests whose increment has not been taken back.
Counted == {r \in Requests : pc[r] \in {"expire", "compare", "rollback", "held", "release"}}

Held == {r \in Requests : pc[r] = "held"}

Goto(r, p) == pc' = [pc EXCEPT ![r] = p]

\* The call is over, and its locals are gone.
Return(r, p) ==
  /\ Goto(r, p)
  /\ v' = [v EXCEPT ![r] = 0]
  /\ rivals' = [rivals EXCEPT ![r] = 0]

SlotInit ==
  /\ count = None /\ ttl = None
  /\ pc = [r \in Requests |-> "idle"]
  /\ v = [r \in Requests |-> 0]
  /\ faults = 0
  /\ drifted = FALSE
  /\ rivals = [r \in Requests |-> 0]

----------------------------------------------------------------------------
(* try_acquire_concurrency                                                 *)

\* INCR, which returns the new value.
Incr(r) ==
  /\ pc[r] = "idle"
  /\ count' = Value + 1
  /\ v' = [v EXCEPT ![r] = Value + 1]
  /\ rivals' = [rivals EXCEPT ![r] = Cardinality(Counted)]
  /\ Goto(r, "expire")
  /\ UNCHANGED <<ttl, faults, drifted>>

\* EXPIRE: whatever the key's age, its life starts again.
Expire(r) ==
  /\ pc[r] = "expire"
  /\ ttl' = IF count = None THEN None ELSE Ttl
  /\ Goto(r, "compare")
  /\ UNCHANGED <<count, v, faults, drifted, rivals>>

\* Mutant: the cap itself is refused.
AtCap(n) == n % U32 >= MaxSlots

\* v as u32 > max: a negative count is a huge one.
OverCount(n) == n % U32 > MaxSlots

Compare(r) ==
  /\ pc[r] = "compare"
  /\ \/ /\ OverCount(v[r])
        /\ Goto(r, "rollback")
        /\ UNCHANGED <<v, rivals>>
     \/ /\ ~OverCount(v[r])
        /\ Return(r, "held")
  /\ UNCHANGED <<count, ttl, faults, drifted>>

\* Mutant: a denied attempt keeps its increment.
NoDecr == UNCHANGED <<count, ttl>>

\* DECR; it leaves the time to live alone.
Decr ==
  /\ count' = Value - 1
  /\ UNCHANGED ttl

Rollback(r) ==
  /\ pc[r] = "rollback"
  /\ Decr
  /\ Return(r, "idle")
  /\ UNCHANGED <<faults, drifted>>

----------------------------------------------------------------------------
(* The permit                                                              *)

\* The permit is dropped: the release runs in a task of its own.
Drop(r) ==
  /\ pc[r] = "held"
  /\ Goto(r, "release")
  /\ UNCHANGED <<count, ttl, v, faults, drifted, rivals>>

Release(r) ==
  /\ pc[r] = "release" /\ Value > -MaxDebt
  /\ Decr
  /\ Return(r, "idle")
  /\ UNCHANGED <<faults, drifted>>

----------------------------------------------------------------------------
(* Faults                                                                  *)

Fault == faults < MaxFaults /\ faults' = faults + 1

\* INCR fails; if it was executed, nobody takes it back.
IncrFails(r) ==
  /\ pc[r] = "idle" /\ Fault
  /\ \/ count' = Value + 1 /\ drifted' = TRUE
     \/ UNCHANGED <<count, drifted>>
  /\ UNCHANGED <<ttl, pc, v, rivals>>

\* EXPIRE fails: the call returns the error and the increment stays.
ExpireFails(r) ==
  /\ pc[r] = "expire" /\ Fault
  /\ ttl' \in {ttl, IF count = None THEN None ELSE Ttl}
  /\ drifted' = TRUE
  /\ Return(r, "idle")
  /\ UNCHANGED count

\* DECR fails, in a denied call or in the task of a release, which ignores it.
DecrFails(r) ==
  /\ pc[r] \in {"rollback", "release"} /\ Fault
  /\ \/ Decr /\ UNCHANGED drifted
     \/ drifted' = TRUE /\ UNCHANGED <<count, ttl>>
  /\ Return(r, "idle")

\* The gateway dies: what it had counted stays counted.
Die(r) ==
  /\ r \in Counted /\ Fault
  /\ drifted' = TRUE
  /\ Return(r, "idle")
  /\ UNCHANGED <<count, ttl>>

\* A second passes; Redis deletes a key at the end of its life.
TtlTick ==
  /\ ttl # None
  /\ ttl' = IF ttl = 1 THEN None ELSE ttl - 1
  /\ count' = IF ttl = 1 THEN None ELSE count
  /\ drifted' = IF ttl = 1 THEN Counted # {} ELSE drifted
  /\ UNCHANGED <<pc, v, faults, rivals>>

Acquire(r) == Incr(r) \/ Expire(r) \/ Compare(r) \/ Rollback(r)

SlotNext ==
  \/ \E r \in Requests :
       \/ Acquire(r) \/ Drop(r) \/ Release(r)
       \/ IncrFails(r) \/ ExpireFails(r) \/ DecrFails(r) \/ Die(r)
  \/ TtlTick

SlotSpec == SlotInit /\ [][SlotNext]_slotVars

----------------------------------------------------------------------------
(***************************************************************************)
(* Properties                                                              *)
(***************************************************************************)
\* The counter is exactly the number of slots in use or being tried for, and
\* no more than MaxSlots permits are held, however attempts, denials, roll-backs and
\* detached releases interleave.  A leaked slot or an early expiry breaks this
\* only until the key expires with nothing in flight.
SlotsExact ==
  ~drifted => Value = Cardinality(Counted) /\ Cardinality(Held) <= MaxSlots

\* A request is denied only if MaxSlots others held a slot or were trying for one
\* when it incremented the counter, unless the counter had drifted.
DeniedAtCap ==
  \A r \in Requests : (~drifted /\ pc[r] = "rollback") => rivals[r] >= MaxSlots

(***************************************************************************)
(* What the repository says of the limit and the code does not do.         *)
(***************************************************************************)
\* docs/src/configuration.md: `concurrency` is the number of requests that may
\* be in flight at the same time, so a request is denied only at that number.
DeniedOnlyAtCap ==
  \A r \in Requests : pc[r] = "rollback" => rivals[r] >= MaxSlots
=============================================================================
