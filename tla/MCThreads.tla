------------------------------- MODULE MCThreads -------------------------------
(***************************************************************************)
(* DecodeThread, ContinuousLimit and MainLoop for TLC.  No two of them     *)
(* share a variable and every property speaks of one of them, so one run   *)
(* looks at each by itself: "part" says at which, and the variables of the *)
(* others stay as they are in the beginning.                               *)
(***************************************************************************)
EXTENDS DecodeThread, ContinuousLimit, MainLoop

VARIABLE part

allVars == <<part, decodeVars, limitVars, loopVars>>

Init ==
  /\ part \in {"decode", "limit", "loop"}
  /\ DecodeInit /\ LimitInit /\ LoopInit

Next ==
  /\ \/ part = "decode" /\ DecodeNext /\ UNCHANGED <<limitVars, loopVars>>
     \/ part = "limit" /\ LimitNext /\ UNCHANGED <<decodeVars, loopVars>>
     \/ part = "loop" /\ LoopNext /\ UNCHANGED <<decodeVars, limitVars>>
  /\ UNCHANGED part

\* What the module that is looked at assumes of the scheduler.
Fairness ==
  \/ part = "decode" /\ DecodeFairness
  \/ part = "limit" /\ LimitFairness
  \/ part = "loop" /\ LoopFairness

Spec == Init /\ [][Next]_allVars /\ Fairness
=============================================================================
