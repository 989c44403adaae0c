---------------------------- MODULE L2RingProofs ----------------------------
(***************************************************************************)
(* Proofs about L2Ring, for every size of the ring and every stream.       *)
(*                                                                         *)
(* The inductive invariant has three parts: who holds which lock at which  *)
(* point (LockInv), how L2BufferRemain is bounded while a unit is rendered *)
(* or read (CountInv), and how L2BufferWritePos follows from               *)
(* L2BufferReadPos and L2BufferRemain (PositionInv).                       *)
(*                                                                         *)
(* On it rests a second one, about what the slots hold: the unit each will *)
(* give away (NoUnitLost), with how far the decoder is ahead of the device *)
(* while the stream has not ended (StreamInv).                             *)
(***************************************************************************)
EXTENDS L2Ring, TLAPS

-----------------------------------------------------------------------------
(* Type correctness.                                                        *)

\* The next slot of a slot is a slot.
LEMMA AdvanceType ==
  ASSUME NEW pos \in Slots
  PROVE  Advance(pos) \in Slots
  BY L2RingAssumption DEF Slots, Advance

\* The state of the ring and of its threads stays well-formed, whatever the
\* order in which the three threads of WaveImpl.cpp run.
THEOREM TypeCorrect == Spec => []TypeOK
<1> USE DEF Threads, None, Labels
<1>1. Init => TypeOK
  BY L2RingAssumption, SMTT(30) DEF Init, TypeOK, Slots
<1>2. TypeOK /\ [Next]_vars => TypeOK'
  <2> SUFFICES ASSUME TypeOK, [Next]_vars PROVE TypeOK'
    OBVIOUS
  <2> USE DEF TypeOK, GoTo, ring, flags, locks, hist
  <2>1. ASSUME NEW t \in Threads, FillCheck(t) PROVE TypeOK'
    BY <2>1 DEF FillCheck, LeaveFill, AfterFill
  <2>2. ASSUME NEW t \in Threads, FillBegin(t) PROVE TypeOK'
    BY <2>2 DEF FillBegin
  <2>3. ASSUME NEW t \in Threads, NEW got \in {"full", "part", "zero"},
               FillEnd(t, got)
        PROVE  TypeOK'
    <3>1. Advance(writePos) \in Slots
      BY AdvanceType
    <3>2. samples' \in [Slots -> {"full", "part", "zero"}] /\ ended' \in BOOLEAN
      BY <2>3 DEF FillEnd
    <3>3. /\ segment' \in [Slots -> Nat]
          /\ sound' \in [Slots -> Nat]
          /\ decoded' \in Nat
      <4>1. CASE got = "zero"
        BY <2>3, <4>1 DEF FillEnd
      <4>2. CASE got # "zero"
        <5>1. /\ decoded' = decoded + 1
              /\ segment' = [segment EXCEPT ![writePos] = decoded + 1]
              /\ sound' = [sound EXCEPT ![writePos] = decoded + 1]
          BY <2>3, <4>2 DEF FillEnd
        <5> QED BY <5>1
      <4> QED BY <4>1, <4>2
    <3>4. pc' \in [Threads -> Labels]
      BY <2>3 DEF FillEnd
    <3> QED BY <2>3, <3>1, <3>2, <3>3, <3>4 DEF FillEnd
  <2>4. ASSUME NEW t \in Threads, FillIncrement(t) PROVE TypeOK'
    BY <2>4 DEF FillIncrement, LeaveFill, AfterFill
  <2>5. ASSUME NEW t \in Threads, FillDS(t) PROVE TypeOK'
    <3>1. CASE Sample(t) BY <3>1 DEF Sample
    <3>2. CASE Prepare(t) BY <3>2 DEF Prepare
    <3>3. CASE Refill(t) BY <3>3 DEF Refill
    <3>4. CASE LockToRead(t) BY <3>4 DEF LockToRead
    <3>5. CASE ReadBegin(t) BY <3>5 DEF ReadBegin
    <3>6. CASE ReadSkip(t) BY <3>6 DEF ReadSkip, LeaveRead
    <3>7. CASE ReadEnd(t)
      <4>1. Advance(readPos) \in Slots
        BY AdvanceType
      <4>2. heard' \in Seq(Nat) /\ sound' \in [Slots -> Nat]
        <5>1. sound[readPos] \in Nat
          OBVIOUS
        <5>2. Append(heard, sound[readPos]) \in Seq(Nat)
          BY <5>1
        <5>3. [sound EXCEPT ![readPos] = 0] \in [Slots -> Nat]
          OBVIOUS
        <5>4. /\ heard' = Append(heard, sound[readPos]) \/ heard' = heard
              /\ sound' = [sound EXCEPT ![readPos] = 0] \/ sound' = sound
          BY <3>7 DEF ReadEnd
        <5> QED BY <5>2, <5>3, <5>4
      <4>3. pc' \in [Threads -> Labels]
        BY <3>7 DEF ReadEnd
      <4> QED BY <3>7, <4>1, <4>2, <4>3 DEF ReadEnd
    <3>8. CASE ReadDecrement(t) BY <3>8 DEF ReadDecrement, LeaveRead
    <3> QED BY <2>5, <3>1, <3>2, <3>3, <3>4, <3>5, <3>6, <3>7, <3>8 DEF FillDS
  <2>6. ASSUME NEW t \in Threads, Fill(t) PROVE TypeOK'
    BY <2>1, <2>2, <2>3, <2>4, <2>6 DEF Fill
  <2>7. CASE Decoder
    BY <2>6, <2>7, SMTT(30) DEF Decoder, DecoderLoop, DecoderEnter
  <2>8. CASE Player
    <3>1. CASE PlayerLoop \/ PlayerReturn \/ PlayerEnter \/ FinishBegin
      BY <3>1 DEF PlayerLoop, PlayerReturn, PlayerEnter, FinishBegin
    <3>2. CASE FinishEnd
      BY <3>2 DEF FinishEnd
    <3> QED BY <2>5, <2>6, <2>8, <3>1, <3>2 DEF Player
  <2>9. CASE Start
    <3>1. CASE StartReset
      <4>1. 0 \in Slots
        BY L2RingAssumption DEF Slots
      <4>2. heard' \in Seq(Nat) /\ pc' \in [Threads -> Labels]
        BY <3>1 DEF StartReset
      <4>3. /\ samples' \in [Slots -> {"full", "part", "zero"}]
            /\ segment' \in [Slots -> Nat]
        BY <3>1 DEF StartReset
      <4>4. /\ readPos' \in Slots /\ writePos' \in Slots /\ remain' \in Int
            /\ ended' \in BOOLEAN /\ playing' \in BOOLEAN /\ decoded' \in Nat
        <5>1. /\ readPos' = 0 /\ writePos' = 0 /\ remain' = 0
              /\ ended' = FALSE /\ playing' = TRUE /\ decoded' = 0
          BY <3>1, Zenon DEF StartReset
        <5>2. remain' \in Int /\ decoded' \in Nat
          BY <5>1, SMT
        <5> QED BY <4>1, <5>1, <5>2, Zenon
      <4>5. UNCHANGED <<sound, callback, running, bufferCS, l2CS>>
        BY <3>1 DEF StartReset
      <4> QED BY <4>2, <4>3, <4>4, <4>5
    <3>2. CASE StartEnter \/ StartLock \/ StartUnready \/ Continue
      BY <3>2, ZenonT(30) DEF StartEnter, StartLock, StartUnready, LeaveRead, Continue
    <3> QED BY <2>5, <2>6, <2>9, <3>1, <3>2 DEF Start
  <2>10. CASE Stop
    <3>1. CASE StopEnter
      BY <3>1 DEF StopEnter
    <3>2. ASSUME NEW next \in {"start", "interrupt"}, StopLock(next)
          PROVE  TypeOK'
      BY <3>2 DEF StopLock
    <3>3. CASE Interrupt
      BY <3>3 DEF Interrupt
    <3> QED BY <2>10, <3>1, <3>2, <3>3 DEF Stop
  <2>11. CASE UNCHANGED vars
    BY <2>11 DEF vars
  <2> QED BY <2>7, <2>8, <2>9, <2>10, <2>11 DEF Next
<1> QED BY <1>1, <1>2, PTL DEF Spec

-----------------------------------------------------------------------------
(* The inductive invariant.                                                 *)

\* Where the playing thread and the main thread hold BufferCS.
PlayerBuffer == InFill \cup InRead \cup {"sample", "prepare", "refill", "lock", "finish"}
MainL2       == InFill \cup InRead \cup {"reset", "sample", "prepare", "refill", "lock"}
MainBuffer   == MainL2 \cup {"startLock", "stopLock"}

\* Where each thread can be, and which locks it holds there.
LockInv ==
  /\ pc["decoder"] \in InFill \cup {"idle", "enter"}
  /\ pc["player"] \in PlayerBuffer => bufferCS = "player"
  /\ pc["main"] \in MainBuffer => bufferCS = "main"
  /\ pc["main"] \in MainL2 => l2CS = "main"
  /\ \A t \in Threads : pc[t] \in InFill => l2CS = t

\* A thread that renders found room and the room is still there; a thread that
\* reads with no L2BufferCS found two units and they are still there.
CountInv ==
  /\ remain <= Units
  /\ \A t \in Threads :
       pc[t] \in {"render", "rendering", "increment"} => remain < Units
  /\ UnlockedReadIsSafe

\* L2BufferWritePos is L2BufferReadPos plus the units held, modulo the ring.
PositionInv == \E k \in Int : writePos = readPos + Held + k * Units

IInv == TypeOK /\ LockInv /\ CountInv /\ PositionInv

\* Arithmetic of the ring: a distance strictly between 0 and one ring is not a
\* whole number of rings; a step of either position is one unit, modulo the ring.
LEMMA WholeRings ==
  ASSUME NEW r \in 1 .. Units - 1, NEW k \in Int
  PROVE  r + k * Units # 0
<1> USE L2RingAssumption
<1>1. CASE k >= 0
  <2>1. k * Units >= 0
    BY <1>1
  <2> QED BY <2>1
<1>2. CASE k <= -1
  <2>1. (k + 1) * Units <= 0
    BY <1>2
  <2>2. (k + 1) * Units = k * Units + Units
    OBVIOUS
  <2> QED BY <2>1, <2>2
<1> QED BY <1>1, <1>2

LEMMA AddUnit ==
  ASSUME NEW rp \in Slots, NEW wp \in Slots, NEW held \in Int, NEW k \in Int,
         wp = rp + held + k * Units
  PROVE  \E j \in Int : Advance(wp) = rp + (held + 1) + j * Units
<1> USE L2RingAssumption DEF Slots, Advance
<1>1. CASE wp + 1 < Units
  <2>1. Advance(wp) = rp + (held + 1) + k * Units
    BY <1>1
  <2> QED BY <2>1, Zenon
<1>2. CASE wp + 1 >= Units
  <2>1. wp + 1 = Units /\ Advance(wp) = 0
    BY <1>2
  <2>2. (k - 1) * Units = k * Units - Units
    OBVIOUS
  <2>3. Advance(wp) = rp + (held + 1) + (k - 1) * Units
    BY <2>1, <2>2
  <2>4. k - 1 \in Int
    OBVIOUS
  <2> QED BY <2>3, <2>4, Zenon
<1> QED BY <1>1, <1>2

LEMMA TakeUnit ==
  ASSUME NEW rp \in Slots, NEW wp \in Slots, NEW held \in Int, NEW k \in Int,
         wp = rp + held + k * Units
  PROVE  \E j \in Int : wp = Advance(rp) + (held - 1) + j * Units
<1> USE L2RingAssumption DEF Slots, Advance
<1>1. CASE rp + 1 < Units
  <2>1. wp = Advance(rp) + (held - 1) + k * Units
    BY <1>1
  <2> QED BY <2>1, Zenon
<1>2. CASE rp + 1 >= Units
  <2>1. rp + 1 = Units /\ Advance(rp) = 0
    BY <1>2
  <2>2. (k + 1) * Units = k * Units + Units
    OBVIOUS
  <2>3. wp = Advance(rp) + (held - 1) + (k + 1) * Units
    BY <2>1, <2>2
  <2>4. k + 1 \in Int
    OBVIOUS
  <2> QED BY <2>3, <2>4, Zenon
<1> QED BY <1>1, <1>2

\* A step of one thread between points where no unit is on its way leaves the
\* count of held units alone.
LEMMA HeldUnchanged ==
  ASSUME TypeOK, NEW t \in Threads, NEW label \in Labels,
         GoTo(t, label), remain' = remain,
         pc[t] \notin {"increment", "decrement"},
         label \notin {"increment", "decrement"}
  PROVE  Held' = Held
<1>1. \A u \in Threads :
        /\ pc'[u] = "increment" <=> pc[u] = "increment"
        /\ pc'[u] = "decrement" <=> pc[u] = "decrement"
  BY DEF TypeOK, GoTo
<1> QED BY <1>1, Zenon DEF Held

\* No two threads fill the ring at once, and no two read it.
LEMMA OneFillerOneReader ==
  ASSUME TypeOK, LockInv, NEW t \in Threads, NEW u \in Threads, t # u
  PROVE  /\ pc[t] \in InFill => pc[u] \notin InFill
         /\ pc[t] \in InRead => pc[u] \notin InRead
<1>1. pc[t] \in InFill => pc[u] \notin InFill
  BY DEF LockInv
<1>2. pc["decoder"] \notin InRead
  BY DEF LockInv, InFill, InRead
<1>3. pc["player"] \in InRead => pc["main"] \notin InRead
  BY DEF LockInv, PlayerBuffer, MainBuffer, MainL2
<1> QED BY <1>1, <1>2, <1>3 DEF Threads

\* The units held, after each step that renders, counts, reads or discounts one.
LEMMA HeldAfterFill ==
  ASSUME TypeOK, LockInv, NEW t \in Threads, NEW got, FillEnd(t, got)
  PROVE  Held' = Held + 1
<1>1. \A u \in Threads : pc[u] # "increment"
  BY OneFillerOneReader DEF FillEnd, InFill
<1>2. \A u \in Threads : pc'[u] = "decrement" <=> pc[u] = "decrement"
  BY DEF FillEnd, GoTo, TypeOK
<1>3. pc'[t] = "increment"
  BY DEF FillEnd, GoTo, TypeOK
<1>4. remain' = remain /\ remain \in Int
  BY DEF FillEnd, TypeOK
<1> QED BY <1>1, <1>2, <1>3, <1>4 DEF Held

LEMMA HeldAfterCount ==
  ASSUME TypeOK, LockInv, NEW t \in Threads, FillIncrement(t)
  PROVE  Held' = Held
<1>1. \A u \in Threads : pc[u] = "increment" => u = t
  BY OneFillerOneReader DEF FillIncrement, InFill
<1>2. \A u \in Threads :
        pc'[u] # "increment" /\ (pc'[u] = "decrement" <=> pc[u] = "decrement")
  BY <1>1 DEF FillIncrement, LeaveFill, AfterFill, GoTo, TypeOK, Threads
<1>3. remain' = remain + 1 /\ remain \in Int /\ pc[t] = "increment"
  BY DEF FillIncrement, TypeOK
<1> QED BY <1>2, <1>3 DEF Held

LEMMA HeldAfterRead ==
  ASSUME TypeOK, LockInv, NEW t \in Threads, ReadEnd(t)
  PROVE  Held' = Held - 1
<1>1. \A u \in Threads : pc[u] # "decrement"
  BY OneFillerOneReader DEF ReadEnd, InRead
<1>2. \A u \in Threads : pc'[u] = "increment" <=> pc[u] = "increment"
  BY DEF ReadEnd, GoTo, TypeOK
<1>3. pc'[t] = "decrement"
  BY DEF ReadEnd, GoTo, TypeOK
<1>4. remain' = remain /\ remain \in Int
  BY DEF ReadEnd, TypeOK
<1> QED BY <1>1, <1>2, <1>3, <1>4 DEF Held

LEMMA HeldAfterDiscount ==
  ASSUME TypeOK, LockInv, NEW t \in Threads, ReadDecrement(t)
  PROVE  Held' = Held
<1>1. \A u \in Threads : pc[u] = "decrement" => u = t
  BY OneFillerOneReader DEF ReadDecrement, InRead
<1>2. \A u \in Threads :
        pc'[u] # "decrement" /\ (pc'[u] = "increment" <=> pc[u] = "increment")
  BY <1>1 DEF ReadDecrement, LeaveRead, GoTo, TypeOK
<1>3. remain' = remain - 1 /\ remain \in Int /\ pc[t] = "decrement"
  BY DEF ReadDecrement, TypeOK
<1> QED BY <1>2, <1>3 DEF Held

\* Who holds which lock where stays true.
LEMMA LocksKept == TypeOK /\ LockInv /\ [Next]_vars => LockInv'
<1> SUFFICES ASSUME TypeOK, LockInv, [Next]_vars PROVE LockInv'
  OBVIOUS
<1> USE DEF TypeOK, LockInv, Threads, None, InFill, InRead, PlayerBuffer,
            MainL2, MainBuffer, GoTo, locks
<1>1. ASSUME NEW t \in Threads, Fill(t) PROVE LockInv'
  <2>1. CASE FillCheck(t)
    BY <2>1 DEF FillCheck, LeaveFill, AfterFill
  <2>2. CASE FillBegin(t)
    BY <2>2 DEF FillBegin
  <2>3. ASSUME NEW got \in {"full", "part", "zero"}, FillEnd(t, got)
        PROVE  LockInv'
    BY <2>3 DEF FillEnd
  <2>4. CASE FillIncrement(t)
    BY <2>4 DEF FillIncrement, LeaveFill, AfterFill
  <2> QED BY <1>1, <2>1, <2>2, <2>3, <2>4 DEF Fill
<1>2. ASSUME NEW t \in Threads, FillDS(t) PROVE LockInv'
  <2>1. CASE Sample(t) BY <2>1 DEF Sample
  <2>2. CASE Prepare(t) BY <2>2 DEF Prepare
  <2>3. CASE Refill(t) BY <2>3 DEF Refill
  <2>4. CASE LockToRead(t) BY <2>4 DEF LockToRead
  <2>5. CASE ReadBegin(t) BY <2>5 DEF ReadBegin
  <2>6. CASE ReadSkip(t) BY <2>6 DEF ReadSkip, LeaveRead
  <2>7. CASE ReadEnd(t) BY <2>7 DEF ReadEnd
  <2>8. CASE ReadDecrement(t) BY <2>8 DEF ReadDecrement, LeaveRead
  <2> QED BY <1>2, <2>1, <2>2, <2>3, <2>4, <2>5, <2>6, <2>7, <2>8 DEF FillDS
<1>3. CASE Decoder
  <2>1. CASE DecoderLoop BY <2>1 DEF DecoderLoop
  <2>2. CASE DecoderEnter BY <2>2 DEF DecoderEnter
  <2> QED BY <1>1, <1>3, <2>1, <2>2 DEF Decoder
<1>4. CASE Player
  <2>1. CASE PlayerLoop BY <2>1 DEF PlayerLoop
  <2>2. CASE PlayerReturn BY <2>2 DEF PlayerReturn
  <2>3. CASE PlayerEnter BY <2>3 DEF PlayerEnter
  <2>4. CASE FinishBegin BY <2>4 DEF FinishBegin
  <2>5. CASE FinishEnd BY <2>5 DEF FinishEnd
  <2> QED BY <1>1, <1>2, <1>4, <2>1, <2>2, <2>3, <2>4, <2>5 DEF Player
<1>5. CASE Start
  <2>1. CASE StartEnter BY <2>1 DEF StartEnter
  <2>2. CASE StartLock BY <2>2 DEF StartLock
  <2>3. CASE StartReset BY <2>3 DEF StartReset
  <2>4. CASE StartUnready BY <2>4 DEF StartUnready, LeaveRead
  <2>5. CASE Continue BY <2>5 DEF Continue
  <2> QED BY <1>1, <1>2, <1>5, <2>1, <2>2, <2>3, <2>4, <2>5 DEF Start
<1>6. CASE Stop
  <2>1. CASE StopEnter BY <2>1 DEF StopEnter
  <2>2. ASSUME NEW next \in {"start", "interrupt"}, StopLock(next)
        PROVE  LockInv'
    BY <2>2 DEF StopLock
  <2>3. CASE Interrupt BY <2>3 DEF Interrupt
  <2> QED BY <1>6, <2>1, <2>2, <2>3 DEF Stop
<1>7. CASE UNCHANGED vars
  BY <1>7 DEF vars
<1> QED BY <1>3, <1>4, <1>5, <1>6, <1>7 DEF Next

\* A thread that renders still has room, an unlocked reader still has two
\* units.  Only FillIncrement adds to L2BufferRemain, and only a reader takes
\* from it, of which there is one at a time.
LEMMA CountsKept == IInv /\ [Next]_vars => CountInv'
<1> SUFFICES ASSUME IInv, [Next]_vars PROVE CountInv'
  OBVIOUS
<1> USE L2RingAssumption
    DEF IInv, TypeOK, LockInv, CountInv, UnlockedReadIsSafe, Threads, None,
        InFill, InRead, PlayerBuffer, MainL2, MainBuffer, GoTo, locks, ring
<1>1. ASSUME NEW t \in Threads, Fill(t) PROVE CountInv'
  <2>1. CASE FillCheck(t)
    BY <2>1 DEF FillCheck, LeaveFill, AfterFill
  <2>2. CASE FillBegin(t)
    BY <2>2 DEF FillBegin
  <2>3. ASSUME NEW got \in {"full", "part", "zero"}, FillEnd(t, got)
        PROVE  CountInv'
    BY <2>3 DEF FillEnd
  <2>4. CASE FillIncrement(t)
    BY <2>4 DEF FillIncrement, LeaveFill, AfterFill
  <2> QED BY <1>1, <2>1, <2>2, <2>3, <2>4 DEF Fill
<1>2. ASSUME NEW t \in Threads, FillDS(t) PROVE CountInv'
  <2>1. CASE Sample(t) BY <2>1 DEF Sample
  <2>2. CASE Prepare(t) BY <2>2 DEF Prepare
  <2>3. CASE Refill(t) BY <2>3 DEF Refill
  <2>4. CASE LockToRead(t) BY <2>4 DEF LockToRead
  <2>5. CASE ReadBegin(t) BY <2>5 DEF ReadBegin
  <2>6. CASE ReadSkip(t) BY <2>6 DEF ReadSkip, LeaveRead
  <2>7. CASE ReadEnd(t) BY <2>7 DEF ReadEnd
  <2>8. CASE ReadDecrement(t)
    <3>1. \A u \in Threads \ {t} : pc[u] \notin InRead
      BY <2>8, OneFillerOneReader DEF ReadDecrement
    <3> QED BY <2>8, <3>1 DEF ReadDecrement, LeaveRead
  <2> QED BY <1>2, <2>1, <2>2, <2>3, <2>4, <2>5, <2>6, <2>7, <2>8 DEF FillDS
<1>3. CASE Decoder
  BY <1>1, <1>3 DEF Decoder, DecoderLoop, DecoderEnter
<1>4. CASE Player
  <2>1. CASE PlayerLoop \/ PlayerReturn \/ PlayerEnter \/ FinishBegin
    BY <2>1 DEF PlayerLoop, PlayerReturn, PlayerEnter, FinishBegin
  <2>2. CASE FinishEnd BY <2>2 DEF FinishEnd
  <2> QED BY <1>1, <1>2, <1>4, <2>1, <2>2 DEF Player
<1>5. CASE Start
  <2>1. CASE StartEnter \/ StartLock
    BY <2>1 DEF StartEnter, StartLock
  <2>2. CASE StartReset BY <2>2 DEF StartReset
  <2>3. CASE StartUnready \/ Continue
    BY <2>3 DEF StartUnready, LeaveRead, Continue
  <2> QED BY <1>1, <1>2, <1>5, <2>1, <2>2, <2>3 DEF Start
<1>6. CASE Stop
  <2>1. CASE StopEnter BY <2>1 DEF StopEnter
  <2>2. ASSUME NEW next \in {"start", "interrupt"}, StopLock(next)
        PROVE  CountInv'
    BY <2>2 DEF StopLock
  <2>3. CASE Interrupt BY <2>3 DEF Interrupt
  <2> QED BY <1>6, <2>1, <2>2, <2>3 DEF Stop
<1>7. CASE UNCHANGED vars
  BY <1>7 DEF vars
<1> QED BY <1>3, <1>4, <1>5, <1>6, <1>7 DEF Next

\* The write position follows from the read position and the units held.
LEMMA PositionKept == IInv /\ [Next]_vars => PositionInv'
<1> SUFFICES ASSUME IInv, [Next]_vars PROVE PositionInv'
  OBVIOUS
<1> USE L2RingAssumption DEF IInv
<1>1. PICK k \in Int : writePos = readPos + Held + k * Units
  BY DEF PositionInv
<1>2. Held \in Int
  BY DEF Held, TypeOK
\* Steps that move no position and no unit.
<1>3. ASSUME UNCHANGED <<readPos, writePos>>, Held' = Held PROVE PositionInv'
  BY <1>1, <1>3 DEF PositionInv
<1>4. ASSUME NEW t \in Threads, NEW label \in Labels \ {"increment", "decrement"},
             GoTo(t, label), pc[t] \notin {"increment", "decrement"},
             UNCHANGED <<readPos, writePos, remain>>
      PROVE  PositionInv'
  <2>1. Held' = Held
    BY <1>4, HeldUnchanged
  <2> QED BY <1>3, <1>4, <2>1
<1>5. ASSUME NEW t \in Threads, Fill(t) PROVE PositionInv'
  <2>1. CASE FillCheck(t)
    BY <2>1, <1>4 DEF FillCheck, LeaveFill, AfterFill, Labels, Threads, ring
  <2>2. CASE FillBegin(t)
    BY <2>2, <1>4 DEF FillBegin, Labels
  <2>3. ASSUME NEW got \in {"full", "part", "zero"}, FillEnd(t, got)
        PROVE  PositionInv'
    <3>2. Held' = Held + 1
      BY <2>3, HeldAfterFill
    <3>3. readPos' = readPos /\ writePos' = Advance(writePos)
      BY <2>3 DEF FillEnd
    <3>4. \E j \in Int : Advance(writePos) = readPos + (Held + 1) + j * Units
      BY <1>1, <1>2, AddUnit DEF TypeOK
    <3> QED BY <3>2, <3>3, <3>4, Zenon DEF PositionInv
  <2>4. CASE FillIncrement(t)
    <3>1. Held' = Held
      BY <2>4, HeldAfterCount
    <3> QED BY <2>4, <1>3, <3>1 DEF FillIncrement
  <2> QED BY <1>5, <2>1, <2>2, <2>3, <2>4 DEF Fill
<1>6. ASSUME NEW t \in Threads, FillDS(t) PROVE PositionInv'
  <2>1. CASE Sample(t) \/ Prepare(t) \/ Refill(t) \/ LockToRead(t) \/ ReadBegin(t)
    BY <2>1, <1>4 DEF Sample, Prepare, Refill, LockToRead, ReadBegin, Labels, ring
  <2>2. CASE ReadSkip(t)
    BY <2>2, <1>4 DEF ReadSkip, LeaveRead, Labels, ring
  <2>3. CASE ReadEnd(t)
    <3>2. Held' = Held - 1
      BY <2>3, HeldAfterRead
    <3>3. writePos' = writePos /\ readPos' = Advance(readPos)
      BY <2>3 DEF ReadEnd
    <3>4. \E j \in Int : writePos = Advance(readPos) + (Held - 1) + j * Units
      BY <1>1, <1>2, TakeUnit DEF TypeOK
    <3> QED BY <3>2, <3>3, <3>4, Zenon DEF PositionInv
  <2>4. CASE ReadDecrement(t)
    <3>1. Held' = Held
      BY <2>4, HeldAfterDiscount
    <3> QED BY <2>4, <1>3, <3>1 DEF ReadDecrement
  <2> QED BY <1>6, <2>1, <2>2, <2>3, <2>4 DEF FillDS
<1>7. CASE Decoder
  BY <1>5, <1>7, <1>4 DEF Decoder, DecoderLoop, DecoderEnter, Labels, Threads, ring
<1>8. CASE Player
  <2>1. CASE PlayerLoop \/ PlayerReturn \/ PlayerEnter \/ FinishBegin
    BY <2>1, <1>4
    DEF PlayerLoop, PlayerReturn, PlayerEnter, FinishBegin, Labels, Threads, ring
  <2>2. CASE FinishEnd
    BY <2>2, <1>4 DEF FinishEnd, Labels, Threads
  <2> QED BY <1>5, <1>6, <1>8, <2>1, <2>2 DEF Player, Threads
<1>9. CASE Start
  <2>1. CASE StartEnter \/ StartLock
    BY <2>1, <1>4 DEF StartEnter, StartLock, Labels, Threads, ring
  <2>2. CASE StartReset
    <3>1. \A u \in Threads : pc[u] \notin {"increment", "decrement"}
      BY <2>2 DEF StartReset, LockInv, Threads, InFill, InRead, PlayerBuffer,
                  MainL2, MainBuffer
    <3>2. \A u \in Threads : pc'[u] \notin {"increment", "decrement"}
      BY <2>2, <3>1 DEF StartReset, GoTo, TypeOK
    <3>3. readPos' = 0 /\ writePos' = 0 /\ remain' = 0
      BY <2>2, Zenon DEF StartReset
    <3>4. Held' = 0
      BY <3>2, <3>3 DEF Held
    <3>5. writePos' = readPos' + Held' + 0 * Units
      BY <3>3, <3>4
    <3>6. 0 \in Int
      OBVIOUS
    <3> QED BY <3>5, <3>6, Zenon DEF PositionInv
  <2>3. CASE StartUnready \/ Continue
    BY <2>3, <1>4 DEF StartUnready, LeaveRead, Continue, Labels, Threads, ring
  <2> QED BY <1>5, <1>6, <1>9, <2>1, <2>2, <2>3 DEF Start, Threads
<1>10. CASE Stop
  <2>1. CASE StopEnter
    BY <2>1, <1>4 DEF StopEnter, Labels, Threads, ring
  <2>2. ASSUME NEW next \in {"start", "interrupt"}, StopLock(next)
        PROVE  PositionInv'
    BY <2>2, <1>4 DEF StopLock, Labels, Threads, ring
  <2>3. CASE Interrupt
    BY <2>3, <1>4 DEF Interrupt, Labels, Threads, ring
  <2> QED BY <1>10, <2>1, <2>2, <2>3 DEF Stop
<1>11. CASE UNCHANGED vars
  BY <1>11, <1>3 DEF vars, ring, Held
<1> QED BY <1>7, <1>8, <1>9, <1>10, <1>11 DEF Next

-----------------------------------------------------------------------------
(* The theorems.                                                            *)

\* In the invariant's states the reader's slot is not the renderer's: their
\* distance is L2BufferRemain, which is neither 0 nor a whole ring.
LEMMA NoRaceFromInv == IInv => NoSlotRace
<1> SUFFICES ASSUME IInv, NEW r \in Threads, NEW w \in Threads,
                    pc[r] = "reading", pc[w] = "rendering"
             PROVE  readPos # writePos
  BY DEF NoSlotRace
<1> USE L2RingAssumption DEF IInv
<1>1. r # w
  OBVIOUS
<1>2. l2CS # r
  BY <1>1 DEF LockInv, InFill
<1>3. 2 <= remain /\ remain < Units
  BY <1>2 DEF CountInv, UnlockedReadIsSafe, InRead, TypeOK
<1>4. \A u \in Threads : pc[u] \notin {"increment", "decrement"}
  BY OneFillerOneReader DEF InFill, InRead
<1>5. Held = remain
  BY <1>4 DEF Held, TypeOK
<1>6. PICK k \in Int : writePos = readPos + remain + k * Units
  BY <1>5 DEF PositionInv
<1>7. remain \in 1 .. Units - 1
  BY <1>3 DEF TypeOK
<1>8. remain + k * Units # 0
  BY <1>7, WholeRings
<1>9. k * Units \in Int
  OBVIOUS
<1> QED BY <1>6, <1>7, <1>8, <1>9 DEF TypeOK, Slots

\* The inductive invariant holds in every reachable state.
THEOREM Invariant == Spec => []IInv
<1>1. Init => IInv
  <2> SUFFICES ASSUME Init PROVE IInv
    OBVIOUS
  <2>1. TypeOK
    BY L2RingAssumption, SMTT(30) DEF Init, TypeOK, Slots, Threads, None, Labels
  <2>2. LockInv
    BY DEF Init, LockInv, Threads, InFill, InRead, PlayerBuffer, MainL2, MainBuffer
  <2>3. CountInv
    BY L2RingAssumption DEF Init, CountInv, UnlockedReadIsSafe, InRead
  <2>4. Held = 0
    BY DEF Init, Held
  <2>5. writePos = readPos + Held + 0 * Units
    BY <2>4, L2RingAssumption DEF Init
  <2> QED BY <2>1, <2>2, <2>3, <2>5 DEF IInv, PositionInv
<1>2. IInv /\ TypeOK' /\ [Next]_vars => IInv'
  BY LocksKept, CountsKept, PositionKept DEF IInv
<1> QED BY <1>1, <1>2, TypeCorrect, PTL DEF Spec

\* ReadL2Buffer never reads the slot FillL2Buffer is writing, for every size of
\* the ring, although an unlocked reader and the decode thread run at once.
THEOREM NoRace == Spec => []NoSlotRace
BY Invariant, NoRaceFromInv, PTL

\* A reader with no L2BufferCS always leaves at least one more unit in the ring.
THEOREM UnlockedReads == Spec => []UnlockedReadIsSafe
<1>1. IInv => UnlockedReadIsSafe
  BY DEF IInv, CountInv
<1> QED BY <1>1, Invariant, PTL

\* The ring never holds more units than it has slots.
THEOREM RingBounded == Spec => []NoOverfill
<1>1. IInv => NoOverfill
  BY L2RingAssumption DEF IInv, CountInv, NoOverfill, Held, TypeOK
<1> QED BY <1>1, Invariant, PTL

-----------------------------------------------------------------------------
(* No unit is lost.                                                         *)

\* Until the end of the stream every unit decoded is heard or held, and a
\* reader finds one.
StreamInv ==
  /\ remain < 0 => ended
  /\ ~ended => decoded = Len(heard) + Held
  /\ \A t \in Threads :
       pc[t] \in {"lock", "read", "reading", "decrement"} => remain >= 1 \/ ended

LossInv == NoUnitLost /\ StreamInv

\* A reader with the ring not ended has a unit, also while it is counted.
LEMMA HeldNatural ==
  ASSUME TypeOK, StreamInv, ~ended
  PROVE  Held >= 0
<1>1. remain \in Int /\ remain >= 0
  BY DEF TypeOK, StreamInv
<1>2. (\E t \in Threads : pc[t] = "decrement") => remain >= 1
  BY DEF StreamInv
<1> QED BY <1>1, <1>2 DEF Held

\* The slot to be rendered is as far ahead as units are held.
LEMMA WriteIsAhead ==
  ASSUME TypeOK, PositionInv, Held \in 0 .. Units - 1
  PROVE  Ahead(writePos) = Held
<1> USE L2RingAssumption
<1>1. PICK k \in Int : writePos = readPos + Held + k * Units
  BY DEF PositionInv
<1>2. readPos \in Slots /\ writePos \in Slots
  BY DEF TypeOK
<1>3. Ahead(writePos) \in 0 .. Units - 1
  BY <1>2 DEF Ahead, Slots
<1>4. \E j \in {0, 1} : Ahead(writePos) = writePos - readPos + j * Units
  BY <1>2 DEF Ahead, Slots
<1>5. PICK j \in {0, 1} : Ahead(writePos) = Held + k * Units + j * Units
  BY <1>1, <1>2, <1>4 DEF Slots
<1>6. k * Units + j * Units = (k + j) * Units /\ k + j \in Int
  OBVIOUS
<1>7. (k + j) * Units \in Int /\ Ahead(writePos) - Held = (k + j) * Units
  BY <1>3, <1>5, <1>6
<1>8. k + j = 0
  <2>1. SUFFICES ASSUME k + j # 0 PROVE FALSE
    OBVIOUS
  <2>2. CASE k + j >= 1
    <3>1. (k + j) * Units >= Units
      BY <2>2
    <3> QED BY <3>1, <1>3, <1>7
  <2>3. CASE k + j <= -1
    <3>1. (k + j + 1) * Units <= 0
      BY <2>3
    <3>2. (k + j + 1) * Units = (k + j) * Units + Units
      OBVIOUS
    <3> QED BY <3>1, <3>2, <1>3, <1>7
  <2> QED BY <1>6, <2>1, <2>2, <2>3
<1> QED BY <1>3, <1>7, <1>8

\* Two slots are not as far ahead.
LEMMA AheadIsDistinct ==
  ASSUME TypeOK, NEW s \in Slots, NEW r \in Slots, Ahead(s) = Ahead(r)
  PROVE  s = r
  BY L2RingAssumption, SMTT(30) DEF TypeOK, Ahead, Slots

\* A step that moves no unit and counts none.
LEMMA QuietStep ==
  ASSUME IInv, LossInv, NEW t \in Threads,
         NEW label \in Labels \ {"increment", "decrement"},
         GoTo(t, label), pc[t] \notin {"increment", "decrement"},
         UNCHANGED <<readPos, remain, ended, samples, sound, decoded, heard>>,
         label \in {"lock", "read", "reading"} => remain >= 1 \/ ended
  PROVE  LossInv'
<1>1. Held' = Held
  BY HeldUnchanged DEF IInv
<1>2. NoUnitLost'
  BY <1>1 DEF LossInv, NoUnitLost, Content, Ahead
<1>3. \A u \in Threads :
        pc'[u] \in {"lock", "read", "reading", "decrement"} => remain >= 1 \/ ended
  BY DEF LossInv, StreamInv, GoTo, IInv, TypeOK
<1>4. StreamInv'
  BY <1>1, <1>3 DEF LossInv, StreamInv
<1> QED BY <1>2, <1>4 DEF LossInv

\* FillL2Buffer adds a unit, or silence at the end, behind those held.
LEMMA FillKeepsUnits ==
  ASSUME IInv, LossInv, NEW t \in Threads, NEW got \in {"full", "part", "zero"},
         FillEnd(t, got)
  PROVE  LossInv'
<1> USE L2RingAssumption
<1> DEFINE h == Len(heard)
<1>1. /\ TypeOK /\ LockInv /\ CountInv /\ PositionInv
      /\ NoUnitLost /\ StreamInv
  BY DEF IInv, LossInv
<1>2. /\ Held' = Held + 1 /\ Held \in Int /\ h \in Nat /\ decoded \in Nat
      /\ readPos \in Slots /\ writePos \in Slots
  <2>1. Held' = Held + 1
    BY HeldAfterFill DEF IInv
  <2>2. Held \in Int
    BY <1>1 DEF Held, TypeOK
  <2>3. h \in Nat /\ decoded \in Nat /\ readPos \in Slots /\ writePos \in Slots
    BY <1>1 DEF TypeOK
  <2> QED BY <2>1, <2>2, <2>3
<1>3. Held < Units
  <2>1. remain < Units /\ remain \in Int
    BY <1>1 DEF FillEnd, CountInv, TypeOK
  <2>2. \A u \in Threads : pc[u] # "increment"
    BY <1>1, OneFillerOneReader DEF FillEnd, InFill
  <2> QED BY <2>1, <2>2 DEF Held
<1>w. PICK w \in Slots : w = writePos
  BY <1>2
<1>4. Held >= 0 => Ahead(w) = Held
  BY <1>w, <1>1, <1>2, <1>3, WriteIsAhead
<1>5. UNCHANGED <<readPos, remain, heard>>
  BY DEF FillEnd
<1>6. \A slot \in Slots : Ahead(slot)' = Ahead(slot) /\ Ahead(slot) \in 0 .. Units - 1
  BY <1>2, <1>5 DEF Ahead, Slots
<1>7. \A slot \in Slots \ {w} :
        /\ Content(slot)' = Content(slot)
        /\ Held >= 0 => Ahead(slot) # Held
  <2>1. \A slot \in Slots \ {w} :
          samples'[slot] = samples[slot] /\ sound'[slot] = sound[slot]
    <3>1. samples' = [samples EXCEPT ![w] = got]
      BY <1>w DEF FillEnd
    <3>2. \/ sound' = sound
          \/ sound' = [sound EXCEPT ![w] = decoded + 1]
      BY <1>w DEF FillEnd
    <3>3. DOMAIN samples = Slots /\ DOMAIN sound = Slots
      BY <1>1 DEF TypeOK
    <3> QED BY <3>1, <3>2, <3>3
  <2>2. \A slot \in Slots \ {w} : Ahead(slot) # Ahead(w)
    BY <1>1, AheadIsDistinct
  <2> QED BY <1>4, <2>1, <2>2 DEF Content
<1>8. samples'[w] = got
  BY <1>w, <1>1 DEF FillEnd, TypeOK
<1>9. pc'[t] = "increment" /\ \A u \in Threads \ {t} : pc'[u] = pc[u]
  BY <1>1 DEF FillEnd, GoTo, TypeOK
<1>10. CASE got = "zero"
  <2>1. decoded' = decoded /\ ended'
    BY <1>10 DEF FillEnd
  <2>2. Content(w)' = 0
    BY <1>8, <1>10 DEF Content
  <2>3. decoded = h \/ decoded <= h + Held
    BY <1>1 DEF NoUnitLost
  <2>4. ASSUME NEW slot \in Slots
        PROVE  Content(slot)' = LET unit == h + Ahead(slot) + 1
                                IN  IF Ahead(slot) < Held + 1 /\ unit <= decoded
                                      THEN unit ELSE 0
    <3>1. CASE slot = w
      BY <1>2, <1>4, <1>6, <2>1, <2>2, <2>3, <3>1
    <3>2. CASE slot # w
      <4>1. Content(slot)' = Content(slot) /\ (Held >= 0 => Ahead(slot) # Held)
        BY <1>7, <3>2
      <4>2. Content(slot) = IF Ahead(slot) < Held /\ h + Ahead(slot) + 1 <= decoded
                              THEN h + Ahead(slot) + 1 ELSE 0
        BY <1>1 DEF NoUnitLost
      <4>3. Ahead(slot) < Held + 1 <=> Ahead(slot) < Held
        BY <1>2, <1>6, <4>1
      <4> QED BY <4>1, <4>2, <4>3
    <3> QED BY <3>1, <3>2
  <2>5. NoUnitLost'
    BY <1>1, <1>2, <1>5, <1>6, <2>1, <2>3, <2>4 DEF NoUnitLost
  <2>6. StreamInv'
    BY <2>1 DEF StreamInv
  <2> QED BY <2>5, <2>6 DEF LossInv
<1>11. CASE got # "zero"
  <2>1. ~ended /\ decoded' = decoded + 1
    BY <1>11 DEF FillEnd
  <2>2. decoded = h + Held /\ Held >= 0
    BY <1>1, <2>1, HeldNatural DEF StreamInv
  <2>3. Content(w)' = decoded + 1
    <3>1. sound'[w] = decoded + 1
      BY <1>w, <1>1, <1>11 DEF FillEnd, TypeOK
    <3>2. samples'[w] # "zero"
      BY <1>8, <1>11
    <3> QED BY <3>1, <3>2 DEF Content
  <2>4. ASSUME NEW slot \in Slots
        PROVE  Content(slot)' = LET unit == h + Ahead(slot) + 1
                                IN  IF Ahead(slot) < Held + 1 /\ unit <= decoded + 1
                                      THEN unit ELSE 0
    <3>1. CASE slot = w
      BY <1>2, <1>4, <1>6, <2>1, <2>2, <2>3, <3>1
    <3>2. CASE slot # w
      <4>1. Content(slot)' = Content(slot) /\ Ahead(slot) # Held
        BY <1>7, <2>2, <3>2
      <4>2. Content(slot) = IF Ahead(slot) < Held /\ h + Ahead(slot) + 1 <= decoded
                              THEN h + Ahead(slot) + 1 ELSE 0
        BY <1>1 DEF NoUnitLost
      <4> QED BY <1>2, <1>6, <2>2, <4>1, <4>2, SMTT(30)
    <3> QED BY <3>1, <3>2
  <2>5. NoUnitLost'
    BY <1>1, <1>2, <1>5, <1>6, <2>1, <2>2, <2>4 DEF NoUnitLost
  <2>6. StreamInv'
    <3>1. remain >= 0 /\ remain' = remain
      BY <1>1, <1>5, <2>1 DEF StreamInv, TypeOK
    <3>2. ~ended' => decoded' = Len(heard') + Held'
      BY <1>2, <1>5, <2>1, <2>2
    <3>3. \A u \in Threads :
            pc'[u] \in {"lock", "read", "reading", "decrement"} => remain >= 1
      BY <1>1, <1>9, <2>1 DEF StreamInv
    <3>4. ~(remain' < 0)
      BY <1>1, <3>1 DEF TypeOK
    <3> QED BY <3>2, <3>3, <3>4, <1>5 DEF StreamInv
  <2> QED BY <2>5, <2>6 DEF LossInv
<1> QED BY <1>10, <1>11

\* ReadL2Buffer gives away the next unit, or nothing where the ring is silent.
LEMMA ReadKeepsUnits ==
  ASSUME IInv, LossInv, NEW t \in Threads, ReadEnd(t)
  PROVE  LossInv'
<1> USE L2RingAssumption
<1> DEFINE h == Len(heard)
<1>1. TypeOK /\ LockInv /\ CountInv /\ NoUnitLost /\ StreamInv
  BY DEF IInv, LossInv
<1>2. /\ Held' = Held - 1 /\ Held \in Int /\ h \in Nat /\ decoded \in Nat
      /\ readPos \in Slots
  BY <1>1, HeldAfterRead DEF Held, TypeOK
<1>3. Held <= Units
  BY <1>1 DEF Held, CountInv, TypeOK
<1>4. /\ readPos' = Advance(readPos)
      /\ UNCHANGED <<remain, ended, samples, decoded>>
  BY DEF ReadEnd
<1>r. PICK r \in Slots : r = readPos
  BY <1>2
<1>5. /\ heard \in Seq(Nat) /\ sound \in [Slots -> Nat]
      /\ sound' = [sound EXCEPT ![r] = 0] \/ sound' = sound
  BY <1>1, <1>r DEF TypeOK, ReadEnd
<1>6. Ahead(r) = 0 /\ \A slot \in Slots : Ahead(slot) \in 0 .. Units - 1
  BY <1>2, <1>r DEF Ahead, Slots
<1>7. \A slot \in Slots \ {r} :
        Ahead(slot)' = Ahead(slot) - 1 /\ Ahead(slot) >= 1
  BY <1>2, <1>4, <1>r DEF Ahead, Advance, Slots
<1>8. Ahead(r)' = Units - 1
  BY <1>2, <1>4, <1>r DEF Ahead, Advance, Slots
<1>9. \A slot \in Slots :
        Content(slot) = IF Ahead(slot) < Held /\ h + Ahead(slot) + 1 <= decoded
                          THEN h + Ahead(slot) + 1 ELSE 0
  BY <1>1 DEF NoUnitLost
<1>10. h <= decoded /\ (decoded = h \/ decoded <= h + Held)
  BY <1>1 DEF NoUnitLost
<1>11. Content(r) = IF 0 < Held /\ h + 1 <= decoded THEN h + 1 ELSE 0
  BY <1>2, <1>6, <1>9
<1>12. /\ Content(r) = 0 => heard' = heard
       /\ Content(r) # 0 => heard' = Append(heard, Content(r))
  BY <1>r DEF ReadEnd, Content
<1>13. Content(r)' = 0
  <2>1. CASE samples[r] = "zero"
    BY <1>4, <2>1 DEF Content
  <2>2. CASE samples[r] # "zero"
    <3>1. sound' = [sound EXCEPT ![r] = 0]
      BY <1>r, <2>2 DEF ReadEnd
    <3>2. sound'[r] = 0
      BY <1>5, <3>1
    <3> QED BY <3>2 DEF Content
  <2> QED BY <2>1, <2>2
<1>14. \A slot \in Slots \ {r} : Content(slot)' = Content(slot)
  <2>1. \A slot \in Slots \ {r} : sound'[slot] = sound[slot]
    BY <1>5
  <2> QED BY <1>4, <2>1 DEF Content
<1>15. remain >= 1 \/ ended
  BY <1>1 DEF ReadEnd, StreamInv
\* A unit is heard.
<1>16. CASE decoded >= h + 1
  <2>1. Held >= 1 /\ Content(r) = h + 1
    BY <1>2, <1>10, <1>11, <1>16
  <2>2. heard' = Append(heard, h + 1)
    BY <1>2, <1>12, <2>1
  <2>3. Len(heard') = h + 1 /\ \A i \in 1 .. h + 1 : heard'[i] = i
    <3>1. \A i \in 1 .. h : heard[i] = i
      BY <1>1 DEF NoUnitLost
    <3> QED BY <1>2, <1>5, <2>2, <3>1
  <2>4. ASSUME NEW slot \in Slots
        PROVE  Content(slot)' = LET unit == h + 1 + Ahead(slot)' + 1
                                IN  IF Ahead(slot)' < Held - 1 /\ unit <= decoded
                                      THEN unit ELSE 0
    <3>1. CASE slot = r
      BY <1>2, <1>3, <1>8, <1>13, <3>1
    <3>2. CASE slot # r
      <4>1. /\ Content(slot)' = Content(slot)
            /\ Ahead(slot)' = Ahead(slot) - 1 /\ Ahead(slot) \in Nat
        BY <1>6, <1>7, <1>14, <3>2
      <4> QED BY <1>2, <1>9, <4>1
    <3> QED BY <3>1, <3>2
  <2>5. NoUnitLost'
    BY <1>2, <1>4, <1>10, <1>16, <2>1, <2>3, <2>4 DEF NoUnitLost
  <2>6. ~ended' => decoded' = Len(heard') + Held'
    BY <1>1, <1>2, <1>4, <2>3 DEF StreamInv
  <2>7. StreamInv'
    BY <1>1, <1>4, <1>15, <2>6 DEF StreamInv
  <2> QED BY <2>5, <2>7 DEF LossInv
\* Nothing is left to be heard: the stream has ended.
<1>17. CASE ~(decoded >= h + 1)
  <2>1. decoded = h /\ Content(r) = 0 /\ heard' = heard
    BY <1>2, <1>10, <1>11, <1>12, <1>17
  <2>2. ASSUME NEW slot \in Slots
        PROVE  /\ Content(slot)' = 0
               /\ ~(h + Ahead(slot)' + 1 <= decoded)
    <3>1. CASE slot = r
      BY <1>2, <1>8, <1>13, <2>1, <3>1
    <3>2. CASE slot # r
      <4>1. /\ Content(slot)' = Content(slot)
            /\ Ahead(slot)' = Ahead(slot) - 1 /\ Ahead(slot) \in Nat \ {0}
        BY <1>6, <1>7, <1>14, <3>2
      <4>2. Content(slot) = 0
        BY <1>2, <1>9, <2>1, <4>1
      <4> QED BY <1>2, <2>1, <4>1, <4>2
    <3> QED BY <3>1, <3>2
  <2>3. NoUnitLost'
    BY <1>1, <1>2, <1>4, <2>1, <2>2 DEF NoUnitLost
  <2>4. ended
    <3>1. SUFFICES ASSUME ~ended PROVE FALSE
      OBVIOUS
    <3>2. Held = 0
      BY <1>1, <1>2, <2>1, <3>1 DEF StreamInv
    <3>3. remain >= 1 /\ remain \in Int
      BY <1>1, <1>15, <3>1 DEF TypeOK
    <3>4. \A u \in Threads : pc[u] # "decrement"
      BY <1>1, OneFillerOneReader DEF ReadEnd, InRead
    <3> QED BY <3>2, <3>3, <3>4 DEF Held
  <2>5. StreamInv'
    BY <1>4, <2>4 DEF StreamInv
  <2> QED BY <2>3, <2>5 DEF LossInv
<1> QED BY <1>16, <1>17

\* No step loses a unit.
LEMMA LossKept == IInv /\ LossInv /\ [Next]_vars => LossInv'
<1> SUFFICES ASSUME IInv, LossInv, [Next]_vars PROVE LossInv'
  OBVIOUS
<1> USE DEF Threads, Labels, ring, flags, hist
<1>1. TypeOK /\ LockInv /\ CountInv /\ NoUnitLost /\ StreamInv
  BY DEF IInv, LossInv
<1>2. ASSUME NEW t \in Threads, Fill(t) PROVE LossInv'
  <2>1. CASE FillCheck(t)
    <3>1. remain = Units => remain >= 1
      BY L2RingAssumption
    <3> QED BY <2>1, <3>1, QuietStep DEF FillCheck, LeaveFill, AfterFill
  <2>2. CASE FillBegin(t)
    BY <2>2, QuietStep DEF FillBegin
  <2>3. ASSUME NEW got \in {"full", "part", "zero"}, FillEnd(t, got)
        PROVE  LossInv'
    BY <2>3, FillKeepsUnits
  <2>4. CASE FillIncrement(t)
    <3>1. Held' = Held
      BY <1>1, <2>4, HeldAfterCount
    <3>2. /\ remain' = remain + 1 /\ remain \in Int
          /\ UNCHANGED <<readPos, ended, samples, sound, decoded, heard>>
      BY <1>1, <2>4 DEF FillIncrement, TypeOK
    <3>3. NoUnitLost'
      BY <1>1, <3>1, <3>2 DEF NoUnitLost, Content, Ahead
    <3>4. \A u \in Threads :
            pc'[u] \in {"lock", "read", "reading", "decrement"}
              => u = t \/ pc'[u] = pc[u]
      BY <1>1, <2>4 DEF FillIncrement, LeaveFill, GoTo, TypeOK
    <3>5. remain >= 0 \/ ended
      BY <1>1, <3>2 DEF StreamInv
    <3>6. StreamInv'
      BY <1>1, <3>1, <3>2, <3>4, <3>5 DEF StreamInv
    <3> QED BY <3>3, <3>6 DEF LossInv
  <2> QED BY <1>2, <2>1, <2>2, <2>3, <2>4 DEF Fill
<1>3. ASSUME NEW t \in Threads, FillDS(t) PROVE LossInv'
  <2>1. CASE Sample(t)
    BY <1>1, <2>1, QuietStep DEF Sample, TypeOK
  <2>2. CASE Prepare(t)
    <3>1. remain \in Int /\ (remain < 0 => ended)
      BY <1>1 DEF TypeOK, StreamInv
    <3> QED BY <2>2, <3>1, QuietStep DEF Prepare
  <2>3. CASE Refill(t)
    BY <2>3, QuietStep DEF Refill
  <2>4. CASE LockToRead(t)
    BY <1>1, <2>4, QuietStep DEF LockToRead, StreamInv
  <2>5. CASE ReadBegin(t)
    BY <1>1, <2>5, QuietStep DEF ReadBegin, StreamInv
  <2>6. CASE ReadSkip(t)
    BY <2>6, QuietStep DEF ReadSkip, LeaveRead
  <2>7. CASE ReadEnd(t)
    BY <2>7, ReadKeepsUnits
  <2>8. CASE ReadDecrement(t)
    <3>1. Held' = Held
      BY <1>1, <2>8, HeldAfterDiscount
    <3>2. /\ remain' = remain - 1 /\ remain \in Int
          /\ UNCHANGED <<readPos, ended, samples, sound, decoded, heard>>
      BY <1>1, <2>8 DEF ReadDecrement, TypeOK
    <3>3. NoUnitLost'
      BY <1>1, <3>1, <3>2 DEF NoUnitLost, Content, Ahead
    <3>4. \A u \in Threads :
            pc'[u] \in {"read", "reading", "decrement"} => pc[u] \in InRead /\ u # t
      BY <1>1, <2>8 DEF ReadDecrement, LeaveRead, GoTo, TypeOK, InRead
    <3>5. \A u \in Threads :
            pc'[u] = "lock" => u # t /\ pc[u] = "lock"
      BY <1>1, <2>8 DEF ReadDecrement, LeaveRead, GoTo, TypeOK
    <3>6. \A u \in Threads : pc'[u] \notin {"lock", "read", "reading", "decrement"}
      <4>1. \A u \in Threads \ {t} : pc[u] \notin InRead
        BY <1>1, <2>8, OneFillerOneReader DEF ReadDecrement, InRead
      <4>2. \A u \in Threads \ {t} : pc[u] # "lock"
        BY <1>1, <2>8
        DEF ReadDecrement, LockInv, InFill, InRead, PlayerBuffer, MainBuffer, MainL2
      <4> QED BY <3>4, <3>5, <4>1, <4>2
    <3>7. remain >= 1 \/ ended
      BY <1>1, <2>8 DEF ReadDecrement, StreamInv
    <3>8. StreamInv'
      BY <1>1, <3>1, <3>2, <3>6, <3>7 DEF StreamInv
    <3> QED BY <3>3, <3>8 DEF LossInv
  <2> QED BY <1>3, <2>1, <2>2, <2>3, <2>4, <2>5, <2>6, <2>7, <2>8 DEF FillDS
<1>4. CASE Decoder
  BY <1>2, <1>4, QuietStep DEF Decoder, DecoderLoop, DecoderEnter
<1>5. CASE Player
  <2>1. CASE PlayerLoop \/ PlayerReturn \/ PlayerEnter \/ FinishBegin
    BY <2>1, QuietStep DEF PlayerLoop, PlayerReturn, PlayerEnter, FinishBegin
  <2>2. CASE FinishEnd
    BY <2>2, QuietStep DEF FinishEnd
  <2> QED BY <1>2, <1>3, <1>5, <2>1, <2>2 DEF Player
<1>6. CASE Start
  <2>1. CASE StartEnter \/ StartLock
    BY <2>1, QuietStep DEF StartEnter, StartLock
  <2>2. CASE StartReset
    <3>1. /\ remain' = 0 /\ decoded' = 0 /\ Len(heard') = 0
          /\ readPos' = 0
          /\ \A slot \in Slots : samples'[slot] = "zero"
      BY <2>2 DEF StartReset
    <3>2. \A u \in Threads :
            pc[u] \notin {"increment", "lock", "read", "reading", "decrement"}
      BY <1>1, <2>2 DEF StartReset, LockInv, InFill, InRead, PlayerBuffer,
                        MainL2, MainBuffer
    <3>3. \A u \in Threads :
            pc'[u] \notin {"increment", "lock", "read", "reading", "decrement"}
      BY <1>1, <2>2, <3>2 DEF StartReset, GoTo, TypeOK
    <3>4. Held' = 0
      BY <3>1, <3>3 DEF Held
    <3>5. \A slot \in Slots : Ahead(slot)' \in Nat /\ Content(slot)' = 0
      BY <3>1, L2RingAssumption DEF Ahead, Content, Slots
    <3>6. NoUnitLost'
      BY <3>1, <3>4, <3>5 DEF NoUnitLost
    <3>7. StreamInv'
      BY <3>1, <3>3, <3>4 DEF StreamInv
    <3> QED BY <3>6, <3>7 DEF LossInv
  <2>3. CASE StartUnready \/ Continue
    BY <2>3, QuietStep DEF StartUnready, LeaveRead, Continue
  <2> QED BY <1>2, <1>3, <1>6, <2>1, <2>2, <2>3 DEF Start
<1>7. CASE Stop
  <2>1. CASE StopEnter
    BY <2>1, QuietStep DEF StopEnter
  <2>2. ASSUME NEW next \in {"start", "interrupt"}, StopLock(next)
        PROVE  LossInv'
    BY <2>2, QuietStep DEF StopLock
  <2>3. CASE Interrupt
    BY <2>3, QuietStep DEF Interrupt
  <2> QED BY <1>7, <2>1, <2>2, <2>3 DEF Stop
<1>8. CASE UNCHANGED vars
  BY <1>1, <1>8 DEF vars, LossInv, NoUnitLost, StreamInv, Held, Content, Ahead
<1> QED BY <1>4, <1>5, <1>6, <1>7, <1>8 DEF Next

\* What the slots hold, and how far the decoder is ahead, stays as described.
LEMMA UnitsStream == Spec => []LossInv
<1>1. Init => LossInv
  <2> SUFFICES ASSUME Init PROVE LossInv
    OBVIOUS
  <2>1. Held = 0
    BY DEF Init, Held
  <2>2. /\ remain = 0 /\ decoded = 0 /\ Len(heard) = 0
        /\ \A t \in Threads : pc[t] = "idle"
        /\ \A slot \in Slots : samples[slot] = "zero"
    BY DEF Init
  <2>3. NoUnitLost
    <3>1. \A slot \in Slots : Ahead(slot) \in Nat /\ Content(slot) = 0
      BY <2>2, L2RingAssumption DEF Init, Ahead, Content, Slots
    <3> QED BY <2>1, <2>2, <3>1 DEF NoUnitLost
  <2>4. StreamInv
    BY <2>1, <2>2 DEF StreamInv
  <2> QED BY <2>3, <2>4 DEF LossInv
<1>2. IInv /\ LossInv /\ [Next]_vars => LossInv'
  BY LossKept
<1> QED BY <1>1, <1>2, Invariant, PTL DEF Spec

\* No decoded unit is lost, repeated or overtaken, for every size of the ring
\* and every stream.
THEOREM UnitsKept == Spec => []NoUnitLost
<1>1. LossInv => NoUnitLost
  BY DEF LossInv
<1> QED BY <1>1, UnitsStream, PTL

-----------------------------------------------------------------------------
(* The ring implements AudioFifo.                                           *)

\* What waits in the ring are the units from the next one to be heard to the
\* last one decoded.
WaitingUnits == [i \in 1 .. decoded - Len(heard) |-> Len(heard) + i]

\* The states in which the ring is compared with the queue.
RingInv == IInv /\ LossInv

LEMMA WaitingIsBounded ==
  ASSUME RingInv
  PROVE  /\ decoded \in Nat /\ Len(heard) \in Nat /\ heard \in Seq(Nat)
         /\ Len(heard) <= decoded /\ decoded - Len(heard) <= Units
         /\ decoded = Len(heard) \/ decoded <= Len(heard) + Held
<1>1. /\ decoded \in Nat /\ heard \in Seq(Nat) /\ Len(heard) \in Nat
      /\ remain \in Int /\ remain <= Units
  BY DEF RingInv, IInv, TypeOK, CountInv
<1>2. /\ Len(heard) <= decoded
      /\ decoded = Len(heard) \/ decoded <= Len(heard) + Held
  BY DEF RingInv, LossInv, NoUnitLost
<1>3. Held \in Int /\ Held <= Units
  BY L2RingAssumption DEF Held, RingInv, IInv, CountInv, TypeOK
<1> QED BY <1>1, <1>2, <1>3, L2RingAssumption

\* The slot n ahead of the reader is a slot, and it is n ahead.
LEMMA SlotAheadIsAhead ==
  ASSUME TypeOK, NEW n \in 0 .. Units - 1
  PROVE  SlotAhead(n) \in Slots /\ Ahead(SlotAhead(n)) = n
  BY L2RingAssumption DEF TypeOK, SlotAhead, Ahead, Slots

LEMMA QueueIsWaiting == RingInv => Queue = WaitingUnits
<1> SUFFICES ASSUME RingInv PROVE Queue = WaitingUnits
  OBVIOUS
<1> DEFINE h == Len(heard)
           n == decoded - h
<1>1. /\ h \in Nat /\ n \in 0 .. Units /\ decoded \in Nat
      /\ n = 0 \/ n <= Held
  BY WaitingIsBounded, L2RingAssumption DEF Held, RingInv, IInv, TypeOK
<1>2. ASSUME NEW i \in 1 .. n
      PROVE  Content(SlotAhead(i - 1)) = h + i
  <2>1. i - 1 \in 0 .. Units - 1
    BY <1>1, L2RingAssumption
  <2>2. PICK slot \in Slots : slot = SlotAhead(i - 1) /\ Ahead(slot) = i - 1
    BY <2>1, SlotAheadIsAhead DEF RingInv, IInv
  <2>3. Content(slot) = LET unit == h + Ahead(slot) + 1
                        IN  IF Ahead(slot) < Held /\ unit <= decoded THEN unit ELSE 0
    BY DEF RingInv, LossInv, NoUnitLost
  <2>4. Held \in Int
    BY DEF Held, RingInv, IInv, TypeOK
  <2> QED BY <1>1, <2>2, <2>3, <2>4
<1> QED BY <1>2, Zenon DEF Queue, WaitingUnits

\* A queue of consecutive units: its length, and what a unit more makes of it.
LEMMA AppendUnit ==
  ASSUME NEW h \in Nat, NEW d \in Nat, h <= d, NEW q,
         q = [i \in 1 .. d - h |-> h + i]
  PROVE  /\ Len(q) = d - h
         /\ Append(q, d + 1) = [i \in 1 .. d + 1 - h |-> h + i]
<1>1. d - h \in Nat /\ q \in [1 .. d - h -> Nat]
  OBVIOUS
<1>2. q \in Seq(Nat) /\ Len(q) = d - h
  BY <1>1
<1>3. Append(q, d + 1) \in Seq(Nat) /\ Len(Append(q, d + 1)) = d + 1 - h
  BY <1>1, <1>2
<1>4. DOMAIN Append(q, d + 1) = 1 .. d + 1 - h
  BY <1>3
<1>5. ASSUME NEW i \in 1 .. d + 1 - h PROVE Append(q, d + 1)[i] = h + i
  BY <1>2
<1> QED BY <1>2, <1>3, <1>4, <1>5

\* Its head, and what is left without it.
LEMMA HeadUnit ==
  ASSUME NEW h \in Nat, NEW d \in Nat, h < d, NEW q,
         q = [i \in 1 .. d - h |-> h + i]
  PROVE  /\ q # <<>> /\ Head(q) = h + 1
         /\ Tail(q) = [i \in 1 .. d - (h + 1) |-> h + 1 + i]
<1>1. d - h \in Nat /\ q \in [1 .. d - h -> Nat]
  OBVIOUS
<1>2. q \in Seq(Nat) /\ Len(q) = d - h
  BY <1>1, SMTT(30)
<1>3. q # <<>> /\ Head(q) = h + 1
  <2>1. q[1] = h + 1 /\ Len(q) >= 1
    BY <1>2
  <2> QED BY <1>2, <2>1
<1>4. Tail(q) \in Seq(Nat) /\ Len(Tail(q)) = d - (h + 1)
  BY <1>2, <1>3, SMTT(30)
<1>5. DOMAIN Tail(q) = 1 .. d - (h + 1)
  BY <1>4
<1>6. ASSUME NEW i \in 1 .. d - (h + 1) PROVE Tail(q)[i] = h + 1 + i
  BY <1>2, <1>3, <1>4
<1>7. Tail(q) = [i \in DOMAIN Tail(q) |-> Tail(q)[i]]
  BY <1>4
<1>8. Tail(q) = [i \in 1 .. d - (h + 1) |-> h + 1 + i]
  BY <1>5, <1>6, <1>7, Zenon
<1> QED BY <1>3, <1>8

\* The abstract queue changes as the units decoded and heard do, and in no other
\* way.
LEMMA QueueAfter == RingInv /\ RingInv' => Queue = WaitingUnits /\ Queue' = WaitingUnits'
<1>1. RingInv' => (Queue = WaitingUnits)'
  BY QueueIsWaiting, PTL
<1> QED BY <1>1, QueueIsWaiting

\* A unit rendered is given to the queue, which has room; a unit read is the
\* head of the queue; a restart empties it.
LEMMA FillGives ==
  ASSUME RingInv, RingInv', NEW t \in Threads,
         NEW got \in {"full", "part", "zero"}, FillEnd(t, got)
  PROVE  Fifo!Give \/ UNCHANGED Fifo!vars
<1> DEFINE h == Len(heard)
<1>1. /\ decoded \in Nat /\ h \in Nat /\ h <= decoded
      /\ Queue = WaitingUnits /\ Queue' = WaitingUnits' /\ heard' = heard
  BY WaitingIsBounded, QueueAfter DEF FillEnd
<1>2. CASE got = "zero"
  BY <1>1, <1>2 DEF FillEnd, WaitingUnits, Fifo!vars
<1>3. CASE got # "zero"
  <2>1. ~ended /\ decoded' = decoded + 1
    BY <1>3 DEF FillEnd
  <2>2. decoded = h + Held /\ decoded - h = Held
    <3>1. Held \in Int
      BY DEF Held, RingInv, IInv, TypeOK
    <3>2. decoded = h + Held
      BY <2>1 DEF RingInv, LossInv, StreamInv
    <3> QED BY <1>1, <3>1, <3>2
  <2>3. Held < Units
    <3>2. pc[t] = "rendering" /\ remain < Units /\ remain \in Int
      BY DEF FillEnd, RingInv, IInv, CountInv, TypeOK
    <3>3. \A u \in Threads : pc[u] # "increment"
      BY <3>2, OneFillerOneReader DEF InFill, RingInv, IInv
    <3> QED BY <3>2, <3>3, L2RingAssumption DEF Held
  <2>4. Len(Queue) = decoded - h /\ Append(Queue, decoded + 1) = Queue'
    <3>1. /\ Queue = [i \in 1 .. decoded - h |-> h + i]
          /\ Queue' = [i \in 1 .. decoded + 1 - h |-> h + i]
      BY <1>1, <2>1 DEF WaitingUnits
    <3> QED BY <1>1, <3>1, AppendUnit, Zenon
  <2>5. Len(Queue) < Units
    BY <2>2, <2>3, <2>4
  <2> QED BY <1>1, <2>1, <2>4, <2>5 DEF Fifo!Give
<1> QED BY <1>2, <1>3

LEMMA ReadTakes ==
  ASSUME RingInv, RingInv', NEW t \in Threads, ReadEnd(t)
  PROVE  Fifo!Take \/ UNCHANGED Fifo!vars
<1> DEFINE h == Len(heard)
<1>1. /\ decoded \in Nat /\ h \in Nat /\ heard \in Seq(Nat) /\ h <= decoded
      /\ decoded = h \/ decoded <= h + Held
      /\ Queue = WaitingUnits /\ Queue' = WaitingUnits' /\ decoded' = decoded
  BY WaitingIsBounded, QueueAfter DEF ReadEnd
<1>2. readPos \in Slots /\ Held \in Int
  BY DEF RingInv, IInv, TypeOK, Held
<1>3. Ahead(readPos) = 0
  BY <1>2 DEF Ahead, Slots
<1>4. Content(readPos) = IF 0 < Held /\ h + 1 <= decoded THEN h + 1 ELSE 0
  BY <1>1, <1>2, <1>3 DEF RingInv, LossInv, NoUnitLost
<1>5. /\ Content(readPos) = 0 => heard' = heard
      /\ Content(readPos) # 0 => heard' = Append(heard, Content(readPos))
  BY DEF ReadEnd, Content
<1>6. CASE Content(readPos) = 0
  BY <1>1, <1>5, <1>6 DEF WaitingUnits, Fifo!vars
<1>7. CASE Content(readPos) # 0
  <2>1. h + 1 <= decoded /\ heard' = Append(heard, h + 1)
    BY <1>4, <1>5, <1>7
  <2>2. Len(heard') = h + 1 /\ decoded > h
    BY <1>1, <2>1
  <2>3. Queue # <<>> /\ Head(Queue) = h + 1 /\ Tail(Queue) = Queue'
    <3>1. /\ Queue = [i \in 1 .. decoded - h |-> h + i]
          /\ Queue' = [i \in 1 .. decoded - (h + 1) |-> h + 1 + i]
      BY <1>1, <2>2 DEF WaitingUnits
    <3>2. h < decoded
      BY <1>1, <2>2
    <3> QED BY <1>1, <3>1, <3>2, HeadUnit, Zenon
  <2> QED BY <1>1, <2>1, <2>3 DEF Fifo!Take
<1> QED BY <1>6, <1>7

LEMMA QueueUnchanged ==
  ASSUME RingInv, RingInv', UNCHANGED <<decoded, heard>>
  PROVE  UNCHANGED Fifo!vars
  BY QueueAfter DEF WaitingUnits, Fifo!vars

\* Every step of the ring is a step of the queue, or leaves it alone.
LEMMA StepImplementsFifo ==
  RingInv /\ RingInv' /\ [Next]_vars => [Fifo!Next]_Fifo!vars
<1> SUFFICES ASSUME RingInv, RingInv', [Next]_vars
             PROVE  Fifo!Next \/ UNCHANGED Fifo!vars
  OBVIOUS
<1> USE DEF hist
<1>1. ASSUME NEW t \in Threads, Fill(t) PROVE Fifo!Next \/ UNCHANGED Fifo!vars
  <2>1. CASE FillCheck(t) \/ FillBegin(t) \/ FillIncrement(t)
    BY <2>1, QueueUnchanged DEF FillCheck, FillBegin, FillIncrement
  <2>2. ASSUME NEW got \in {"full", "part", "zero"}, FillEnd(t, got)
        PROVE  Fifo!Next \/ UNCHANGED Fifo!vars
    BY <2>2, FillGives DEF Fifo!Next
  <2> QED BY <1>1, <2>1, <2>2 DEF Fill
<1>2. ASSUME NEW t \in Threads, FillDS(t) PROVE Fifo!Next \/ UNCHANGED Fifo!vars
  <2>1. CASE ReadEnd(t)
    BY <2>1, ReadTakes DEF Fifo!Next
  <2>2. CASE FillDS(t) /\ ~ReadEnd(t)
    BY <2>2, QueueUnchanged DEF FillDS, Sample, Prepare, Refill, LockToRead,
                                ReadBegin, ReadSkip, ReadDecrement
  <2> QED BY <1>2, <2>1, <2>2
<1>3. CASE Decoder
  BY <1>1, <1>3, QueueUnchanged DEF Decoder, DecoderLoop, DecoderEnter, Threads
<1>4. CASE Player
  BY <1>1, <1>2, <1>4, QueueUnchanged
  DEF Player, PlayerLoop, PlayerReturn, PlayerEnter, FinishBegin, FinishEnd, Threads
<1>5. CASE Start
  <2>1. CASE StartReset
    <3>1. decoded' = 0 /\ heard' = <<>>
      BY <2>1 DEF StartReset
    <3>2. Queue' = [i \in 1 .. 0 - Len(heard') |-> Len(heard') + i]
      BY <3>1, QueueAfter DEF WaitingUnits
    <3>3. Queue' = <<>>
      BY <3>1, <3>2
    <3> QED BY <3>1, <3>3 DEF Fifo!Next, Fifo!Restart
  <2>2. CASE StartEnter \/ StartLock \/ StartUnready \/ Continue
    BY <2>2, QueueUnchanged DEF StartEnter, StartLock, StartUnready, Continue
  <2> QED BY <1>1, <1>2, <1>5, <2>1, <2>2 DEF Start, Threads
<1>6. CASE Stop
  BY <1>6, QueueUnchanged DEF Stop, StopEnter, StopLock, Interrupt
<1>7. CASE UNCHANGED vars
  BY <1>7, QueueUnchanged DEF vars
<1> QED BY <1>3, <1>4, <1>5, <1>6, <1>7 DEF Next

\* For every size of the ring and every stream, whatever the order in which the
\* three threads run, the level-2 buffer is a bounded first-in first-out queue.
THEOREM RingImplementsFifo == Spec => ImplementsFifo
<1>1. Init => Fifo!Init
  <2> SUFFICES ASSUME Init PROVE Fifo!Init
    OBVIOUS
  <2>1. decoded = 0 /\ heard = <<>>
    BY DEF Init
  <2>2. Queue = <<>>
    BY <2>1 DEF Queue
  <2> QED BY <2>1, <2>2 DEF Fifo!Init
<1>2. Spec => [](RingInv)
  BY UnitsStream, Invariant, PTL DEF RingInv
<1> QED BY <1>1, <1>2, StepImplementsFifo, PTL DEF Spec, ImplementsFifo, Fifo!Spec

=============================================================================
