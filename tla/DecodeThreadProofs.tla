------------------------- MODULE DecodeThreadProofs -------------------------
(***************************************************************************)
(* What DecodeThread keeps for every number of units: the types, and that  *)
(* at most one fill begins after Running was cleared.                      *)
(***************************************************************************)
EXTENDS DecodeThread, TLAPS

\* While Running is set no fill is late, and a thread that has begun its late
\* fill must see Running set before it can begin another.
LateInv ==
  /\ running => lateFills = 0
  /\ lateFills \in {0, 1}
  /\ lateFills = 1 => decode \notin {"stillRunning?", "oneLoop"}

IInv == DecodeTypeOK /\ LateInv

\* How far the code stays behind InterruptStopsDecoding: one fill begins at
\* most, the one the thread had already decided on.
AtMostOneLateFill == lateFills <= 1

LEMMA InitHolds == DecodeInit => IInv
<1> SUFFICES ASSUME DecodeInit PROVE IInv
  OBVIOUS
<1>1. room \in 0 .. Units /\ lateFills = 0 /\ lateFills \in Nat
  BY UnitsAssumption DEF DecodeInit
<1>2. /\ running \in BOOLEAN /\ terminating \in BOOLEAN /\ event \in BOOLEAN
      /\ wait \in BOOLEAN /\ playing \in BOOLEAN /\ loaded \in BOOLEAN
      /\ crashed \in BOOLEAN
  BY DEF DecodeInit
<1>3. /\ decode \in ThreadLabels /\ main \in MainLabels
      /\ then \in {"Stop", "Clear", "Invalidate"}
  BY DEF DecodeInit, ThreadLabels, MainLabels
<1> QED BY <1>1, <1>2, <1>3 DEF IInv, DecodeTypeOK, LateInv

\* A step of the decode thread.
LEMMA DecodeKeeps == IInv /\ Decode => IInv'
<1> SUFFICES ASSUME IInv, Decode PROVE IInv'
  OBVIOUS
<1> USE DEF IInv, DecodeTypeOK, LateInv, ThreadLabels, MainLabels, shared, sound,
            ThreadGoTo
<1>1. CASE Outer
  BY <1>1 DEF Outer
<1>2. CASE Inner
  <2>1. wait' \in BOOLEAN
    BY <1>2 DEF Inner
  <2>2. /\ decode' \in ThreadLabels
        /\ ~running => decode' \notin {"stillRunning?", "oneLoop"}
    BY <1>2 DEF Inner
  <2>3. DecodeTypeOK'
    BY <1>2, <2>1, <2>2, ZenonT(30) DEF Inner
  <2>4. LateInv'
    BY <1>2, <2>2 DEF Inner
  <2> QED BY <2>3, <2>4
<1>3. CASE StillRunning
  BY <1>3 DEF StillRunning
<1>4. CASE FillBegin
  BY <1>4 DEF FillBegin
<1>5. CASE FillEnd
  <2>1. wait' \in BOOLEAN
    BY <1>5 DEF FillEnd
  <2>2. room' \in 0 .. Units
    BY <1>5, UnitsAssumption DEF FillEnd
  <2> QED BY <1>5, <2>1, <2>2 DEF FillEnd
<1>6. CASE FillDeleted
  BY <1>6 DEF FillDeleted
<1>7. CASE Filled
  BY <1>7 DEF Filled
<1>8. CASE Nap
  BY <1>8, ZenonT(30) DEF Nap
<1>9. CASE Sleep
  BY <1>9, ZenonT(30) DEF Sleep
<1> QED
  BY <1>1, <1>2, <1>3, <1>4, <1>5, <1>6, <1>7, <1>8, <1>9 DEF Decode

\* A call of the main thread begins.
LEMMA CallKeeps == IInv /\ MainCall => IInv'
<1> SUFFICES ASSUME IInv, MainCall PROVE IInv'
  OBVIOUS
<1> USE DEF IInv, DecodeTypeOK, LateInv, ThreadLabels, MainLabels, shared, sound,
            MainGoTo
<1>1. CASE Open
  BY <1>1 DEF Open
<1>2. CASE StartPlay
  BY <1>2, UnitsAssumption DEF StartPlay
<1>3. ASSUME NEW call \in {"Stop", "Clear", "Invalidate"}, StopPlay(call)
      PROVE  IInv'
  BY <1>3, ZenonT(30) DEF StopPlay
<1>4. CASE TimerBeat
  BY <1>4 DEF TimerBeat
<1> QED BY <1>1, <1>2, <1>3, <1>4 DEF MainCall

\* A call of the main thread goes on.
LEMMA MainKeeps == IInv /\ MainStep => IInv'
<1> SUFFICES ASSUME IInv, MainStep PROVE IInv'
  OBVIOUS
<1> USE DEF IInv, DecodeTypeOK, LateInv, ThreadLabels, MainLabels, shared, sound,
            MainGoTo
<1>1. CASE ContinueRun
  BY <1>1 DEF ContinueRun
<1>2. CASE ContinueSet
  BY <1>2 DEF ContinueSet
<1>3. CASE InterruptBegin
  <2>1. event' \in BOOLEAN
    BY <1>3 DEF InterruptBegin
  <2>2. main' \in MainLabels
    BY <1>3 DEF InterruptBegin
  <2> QED BY <1>3, <2>1, <2>2 DEF InterruptBegin
<1>4. CASE InterruptEnd
  BY <1>4, ZenonT(30) DEF InterruptEnd
<1>5. CASE Delete
  <2>1. loaded' \in BOOLEAN
    BY <1>5 DEF Delete
  <2> QED BY <1>5, <2>1 DEF Delete
<1>6. CASE Terminate
  BY <1>6, ZenonT(30) DEF Terminate
<1>7. CASE WakeDecode
  BY <1>7 DEF WakeDecode
<1>8. CASE JoinDecode
  BY <1>8 DEF JoinDecode
<1> QED
  BY <1>1, <1>2, <1>3, <1>4, <1>5, <1>6, <1>7, <1>8 DEF MainStep

\* The playing thread.
LEMMA PlayingKeeps == IInv /\ (Consume \/ PlayedOut) => IInv'
<1> SUFFICES ASSUME IInv, Consume \/ PlayedOut PROVE IInv'
  OBVIOUS
<1> USE DEF IInv, DecodeTypeOK, LateInv, shared, sound
<1>1. CASE Consume
  <2>1. room' \in 0 .. Units
    BY <1>1, UnitsAssumption DEF Consume
  <2> QED BY <1>1, <2>1 DEF Consume
<1>2. CASE PlayedOut
  BY <1>2 DEF PlayedOut
<1> QED BY <1>1, <1>2

\* The inductive invariant, whatever the number of units.
THEOREM DecodeInvariant == DecodeSpec => []IInv
<1>1. IInv /\ [DecodeNext]_decodeVars => IInv'
  <2>1. IInv /\ DecodeNext => IInv'
    BY DecodeKeeps, CallKeeps, MainKeeps, PlayingKeeps DEF DecodeNext
  <2>2. IInv /\ UNCHANGED decodeVars => IInv'
    BY DEF IInv, DecodeTypeOK, LateInv, decodeVars, shared, sound
  <2> QED BY <2>1, <2>2
<1> QED BY <1>1, InitHolds, PTL DEF DecodeSpec

\* Type correctness.
THEOREM DecodeTypes == DecodeSpec => []DecodeTypeOK
<1>1. IInv => DecodeTypeOK
  BY DEF IInv
<1> QED BY <1>1, DecodeInvariant, PTL

\* Between the step by which Interrupt or the destructor clears Running and the
\* next Continue the decode thread begins one fill at most.
THEOREM OneLateFill == DecodeSpec => []AtMostOneLateFill
<1>1. IInv => AtMostOneLateFill
  BY DEF IInv, LateInv, AtMostOneLateFill
<1> QED BY <1>1, DecodeInvariant, PTL
=============================================================================
