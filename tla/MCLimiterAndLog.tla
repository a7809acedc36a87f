-------------------------- MODULE MCLimiterAndLog --------------------------
(***************************************************************************)
(* What every request passes through in the process, side by side: the     *)
(* rate limiter (RateLimiter) and the batched log (LogBatch).  They share  *)
(* no state, so a behaviour is of one of them, and the other one rests.    *)
(* None of the steps that fairness is about is enabled in one that rests.  *)
(***************************************************************************)
EXTENDS MCRateLimiter, MCLogBatch

VARIABLE subject

BothInit == subject \in {"limiter", "log"} /\ Init /\ LogInit

BothNext ==
  /\ \/ subject = "limiter" /\ Next /\ UNCHANGED logVars
     \/ subject = "log" /\ LogNext /\ UNCHANGED vars
  /\ UNCHANGED subject

\* With the fairness of FairSpec and LogFairSpec.
BothSpec ==
  /\ BothInit /\ [][BothNext]_<<subject, vars, logVars>>
  /\ LimiterFairness /\ LogFairness
=============================================================================
