------------------------- MODULE WavePlaybackProofs -------------------------
(***************************************************************************)
(* What WavePlayback keeps for every stream, ring, device and set of       *)
(* labels: the types, among them that the device never queues more units   *)
(* than it has buffers; that one label event at most is on its way; and    *)
(* that no label is lost, doubled or overtaken.                            *)
(***************************************************************************)
EXTENDS WavePlayback, SequenceTheorems, TLAPS

\* Who holds which lock follows from where the threads are.
LockInv ==
  /\ vectorCS = IF player = "idle" THEN None ELSE "player"
  /\ bufferCS = "player" <=> player = "fill"
  /\ bufferCS = "main" <=> main \in {"reset", "fill", "vector", "started"}

\* What is given and what the ring holds is part of the stream, which goes on
\* until it has ended.
StreamInv ==
  /\ given + l2 <= MaxStream
  /\ ~ended => given + l2 < MaxStream

\* The device has room for the unit FillBuffer is about to append.
RoomInv ==
  /\ player = "fill" => device < DeviceUnits
  /\ main = "fill" => device = 0

IInv == TypeOK /\ LockInv /\ StreamInv /\ RoomInv /\ OneEventPosted

LEMMA InitHolds == Init => IInv
<1> SUFFICES ASSUME Init PROVE IInv
  OBVIOUS
<1>1. /\ playing \in BOOLEAN /\ dsPlaying \in BOOLEAN /\ paused \in BOOLEAN
      /\ callback \in BOOLEAN /\ running \in BOOLEAN /\ primary \in BOOLEAN
      /\ ended \in BOOLEAN /\ pending \in BOOLEAN /\ toBeCalled \in BOOLEAN
  BY DEF Init
<1>2. /\ given \in 0 .. MaxStream /\ l2 \in 0 .. Units
      /\ device \in 0 .. DeviceUnits /\ posted \in Nat
      /\ given + l2 < MaxStream
  BY PlaybackAssumption DEF Init
<1>3. /\ vectorCS \in {None, "player"} /\ bufferCS \in {None, "main", "player"}
      /\ main \in MainLabels /\ player \in PlayerLabels
      /\ status \in {"stop", "play"}
      /\ labels \in Seq(Labelled) /\ fired \in Seq(Labelled)
  BY DEF Init, MainLabels, PlayerLabels
<1>4. TypeOK
  BY <1>1, <1>2, <1>3, ZenonT(30) DEF TypeOK
<1>5. LockInv /\ RoomInv /\ OneEventPosted
  BY DEF Init, LockInv, RoomInv, OneEventPosted, None
<1>6. StreamInv
  BY <1>2, PlaybackAssumption DEF StreamInv, Init
<1> QED BY <1>4, <1>5, <1>6 DEF IInv

-----------------------------------------------------------------------------
(* What both threads do in FillBuffer.                                      *)

LEMMA MoveKeeps ==
  ASSUME TypeOK, StreamInv, device < DeviceUnits, Move
  PROVE  /\ given' \in 0 .. MaxStream /\ l2' \in 0 .. Units
         /\ given' + l2' = given + l2
         /\ device' \in 0 .. DeviceUnits
         /\ labels' \in Seq(Labelled)
<1>1. /\ given \in Nat /\ l2 \in Nat \ {0} /\ device \in Nat
      /\ given + l2 <= MaxStream /\ l2 <= Units
  BY DEF TypeOK, StreamInv, Move
<1>2. labels' \in Seq(Labelled)
  BY DEF TypeOK, Move
<1> QED BY <1>1, <1>2, PlaybackAssumption DEF Move

LEMMA RenderKeeps ==
  ASSUME TypeOK, StreamInv, l2 < Units, Render
  PROVE  /\ l2' \in 0 .. Units /\ ended' \in BOOLEAN
         /\ given + l2' <= MaxStream
         /\ ~ended' => given + l2' < MaxStream
<1>1. /\ given \in Nat /\ l2 \in Nat /\ given + l2 < MaxStream
      /\ l2' = l2 + 1
  BY DEF TypeOK, StreamInv, Render
<1>2. ended' \in BOOLEAN /\ (~ended' => given + l2 + 1 # MaxStream)
  BY DEF Render
<1> QED BY <1>1, <1>2, PlaybackAssumption

-----------------------------------------------------------------------------
(* The playing thread.                                                      *)

LEMMA RoundKeeps ==
  ASSUME IInv, NEW serve \in BOOLEAN, Round(serve)
  PROVE  IInv'
<1> USE DEF Round, stream
<1>1. TypeOK'
  <2>1. primary' \in BOOLEAN /\ toBeCalled' \in BOOLEAN
    BY DEF IInv, TypeOK
  <2>2. posted' \in Nat
    BY DEF IInv, TypeOK
  <2>3. vectorCS' \in {None, "player"} /\ player' \in PlayerLabels
    BY DEF IInv, TypeOK, PlayerLabels
  <2> QED BY <2>1, <2>2, <2>3, ZenonT(30) DEF IInv, TypeOK
<1>2. LockInv'
  BY DEF IInv, LockInv, None
<1>3. StreamInv' /\ RoomInv'
  BY DEF IInv, StreamInv, RoomInv
<1>4. OneEventPosted'
  BY DEF IInv, TypeOK, OneEventPosted
<1> QED BY <1>1, <1>2, <1>3, <1>4 DEF IInv

LEMMA ServeKeeps == IInv /\ Serve => IInv'
<1> SUFFICES ASSUME IInv, Serve PROVE IInv'
  OBVIOUS
<1> USE DEF IInv
<1> USE DEF stream, notices, flags
<1>1. CASE ServeNothing
  <2>1. dsPlaying' \in BOOLEAN
    BY <1>1 DEF ServeNothing
  <2>2. vectorCS' \in {None, "player"} /\ player' \in PlayerLabels
    BY <1>1 DEF ServeNothing, PlayerLabels
  <2>3. TypeOK'
    BY <1>1, <2>1, <2>2, ZenonT(30) DEF ServeNothing, TypeOK
  <2> QED BY <1>1, <2>3 DEF ServeNothing, LockInv, StreamInv, RoomInv, OneEventPosted, None
<1>2. CASE ServeEnd
  <2>1. fired' \in Seq(Labelled) /\ labels' \in Seq(Labelled)
    BY <1>2 DEF ServeEnd, TypeOK
  <2>2. vectorCS' \in {None, "player"} /\ player' \in PlayerLabels
    BY <1>2 DEF ServeEnd, PlayerLabels
  <2>3. playing' \in BOOLEAN /\ dsPlaying' \in BOOLEAN
    BY <1>2 DEF ServeEnd
  <2>4. TypeOK'
    BY <1>2, <2>1, <2>2, <2>3, ZenonT(30) DEF ServeEnd, TypeOK
  <2> QED BY <1>2, <2>4 DEF ServeEnd, LockInv, StreamInv, RoomInv, OneEventPosted, None
<1>3. CASE ServeFull
  <2>1. dsPlaying' \in BOOLEAN
    BY <1>3 DEF ServeFull
  <2>2. vectorCS' \in {None, "player"} /\ player' \in PlayerLabels
    BY <1>3 DEF ServeFull, PlayerLabels
  <2>3. TypeOK'
    BY <1>3, <2>1, <2>2, ZenonT(30) DEF ServeFull, TypeOK
  <2> QED BY <1>3, <2>3 DEF ServeFull, LockInv, StreamInv, RoomInv, OneEventPosted, None
<1>4. CASE ServeBegin
  <2>1. /\ l2' \in 0 .. Units /\ ended' \in BOOLEAN
        /\ given + l2' <= MaxStream
        /\ ~ended' => given + l2' < MaxStream
    <3>1. CASE l2 = 0 /\ ~ended
      BY <1>4, <3>1, RenderKeeps, PlaybackAssumption DEF ServeBegin
    <3>2. CASE ~(l2 = 0 /\ ~ended)
      BY <1>4, <3>2 DEF ServeBegin, TypeOK, StreamInv
    <3> QED BY <3>1, <3>2
  <2>2. bufferCS' \in {None, "main", "player"} /\ player' \in PlayerLabels
    BY <1>4 DEF ServeBegin, PlayerLabels
  <2>3. dsPlaying' \in BOOLEAN
    BY <1>4 DEF ServeBegin
  <2>4. TypeOK'
    BY <1>4, <2>1, <2>2, <2>3, ZenonT(30) DEF ServeBegin, TypeOK
  <2>5. StreamInv'
    BY <1>4, <2>1 DEF ServeBegin, StreamInv
  <2> QED BY <1>4, <2>4, <2>5 DEF ServeBegin, LockInv, RoomInv, OneEventPosted, None
<1>5. CASE ServeMove
  <2>1. /\ given' \in 0 .. MaxStream /\ l2' \in 0 .. Units
        /\ given' + l2' = given + l2
        /\ device' \in 0 .. DeviceUnits /\ labels' \in Seq(Labelled)
    <3>1. CASE l2 > 0
      BY <1>5, <3>1, MoveKeeps DEF ServeMove, RoomInv
    <3>2. CASE ~(l2 > 0)
      BY <1>5, <3>2 DEF ServeMove, TypeOK
    <3> QED BY <3>1, <3>2
  <2>2. pending' \in BOOLEAN
    BY <1>5 DEF ServeMove
  <2>3. /\ vectorCS' \in {None, "player"} /\ player' \in PlayerLabels
        /\ bufferCS' \in {None, "main", "player"}
    BY <1>5 DEF ServeMove, PlayerLabels
  <2>4. TypeOK'
    BY <1>5, <2>1, <2>2, <2>3, ZenonT(30) DEF ServeMove, TypeOK
  <2>5. StreamInv'
    BY <1>5, <2>1 DEF ServeMove, StreamInv
  <2>6. LockInv' /\ RoomInv'
    BY <1>5 DEF ServeMove, LockInv, RoomInv, None
  <2> QED BY <1>5, <2>4, <2>5, <2>6 DEF ServeMove, OneEventPosted
<1> QED BY <1>1, <1>2, <1>3, <1>4, <1>5 DEF Serve

-----------------------------------------------------------------------------
(* The decode thread and the device.                                        *)

LEMMA DecodeKeeps == IInv /\ Decode => IInv'
<1> SUFFICES ASSUME IInv, Decode PROVE IInv'
  OBVIOUS
<1> USE DEF IInv, Decode, locks, pcs, flags, notices
<1>1. /\ l2' \in 0 .. Units /\ ended' \in BOOLEAN
      /\ given + l2' <= MaxStream
      /\ ~ended' => given + l2' < MaxStream
  BY RenderKeeps
<1>2. TypeOK'
  BY <1>1, ZenonT(30) DEF TypeOK
<1>3. StreamInv'
  BY <1>1 DEF StreamInv
<1> QED BY <1>2, <1>3 DEF LockInv, RoomInv, OneEventPosted

LEMMA DevicePlaysKeeps == IInv /\ DevicePlays => IInv'
<1> SUFFICES ASSUME IInv, DevicePlays PROVE IInv'
  OBVIOUS
<1> USE DEF IInv, DevicePlays, locks, pcs, flags, notices
<1>1. device' \in 0 .. DeviceUnits /\ device' < device
  BY PlaybackAssumption DEF TypeOK
<1>2. TypeOK'
  BY <1>1, ZenonT(30) DEF TypeOK
<1>3. RoomInv'
  BY <1>1, PlaybackAssumption DEF RoomInv, TypeOK
<1> QED BY <1>2, <1>3 DEF LockInv, StreamInv, OneEventPosted

-----------------------------------------------------------------------------
(* The main thread.                                                         *)

LEMMA ScriptKeeps == IInv /\ (Script \/ StopEnd \/ TimerBeat) => IInv'
<1> SUFFICES ASSUME IInv, Script \/ StopEnd \/ TimerBeat PROVE IInv'
  OBVIOUS
<1> USE DEF IInv, locks, pcs, flags, stream, notices
<1>1. CASE Play
  <2>1. main' \in MainLabels
    BY <1>1 DEF Play, MainLabels
  <2>2. TypeOK'
    BY <1>1, <2>1, ZenonT(30) DEF Play, TypeOK
  <2> QED BY <1>1, <2>2 DEF Play, LockInv, StreamInv, RoomInv, OneEventPosted
<1>2. ASSUME NEW next \in {"start", "interrupt"}, StopPlay(next)
      PROVE  IInv'
  <2>1. main' \in MainLabels /\ device' \in 0 .. DeviceUnits
    BY <1>2, PlaybackAssumption DEF StopPlay, MainLabels
  <2>2. playing' \in BOOLEAN /\ dsPlaying' \in BOOLEAN
    BY <1>2 DEF StopPlay
  <2>3. TypeOK'
    BY <1>2, <2>1, <2>2, ZenonT(30) DEF StopPlay, TypeOK
  <2> QED BY <1>2, <2>3, PlaybackAssumption
          DEF StopPlay, LockInv, StreamInv, RoomInv, OneEventPosted, None
<1>3. ASSUME NEW b \in PauseValues, SetPaused(b)
      PROVE  IInv'
  <2>1. paused' \in BOOLEAN
    BY <1>3, PlaybackAssumption DEF SetPaused
  <2>2. TypeOK'
    BY <1>3, <2>1, ZenonT(30) DEF SetPaused, TypeOK
  <2> QED BY <1>3, <2>2 DEF SetPaused, LockInv, StreamInv, RoomInv, OneEventPosted
<1>4. CASE StopEnd
  <2>1. main' \in MainLabels /\ status' \in {"stop", "play"}
    BY <1>4 DEF StopEnd, MainLabels
  <2>2. callback' \in BOOLEAN /\ running' \in BOOLEAN
    BY <1>4 DEF StopEnd
  <2>3. TypeOK'
    BY <1>4, <2>1, <2>2, ZenonT(30) DEF StopEnd, TypeOK
  <2> QED BY <1>4, <2>3 DEF StopEnd, LockInv, StreamInv, RoomInv, OneEventPosted
<1>5. CASE TimerBeat
  <2>1. status' \in {"stop", "play"}
    BY <1>5 DEF TimerBeat
  <2>2. callback' \in BOOLEAN /\ running' \in BOOLEAN
    BY <1>5 DEF TimerBeat
  <2>3. TypeOK'
    BY <1>5, <2>1, <2>2, ZenonT(30) DEF TimerBeat, TypeOK
  <2> QED BY <1>5, <2>3 DEF TimerBeat, LockInv, StreamInv, RoomInv, OneEventPosted
<1> QED BY <1>1, <1>2, <1>3, <1>4, <1>5 DEF Script

LEMMA StartKeeps == IInv /\ Start => IInv'
<1> SUFFICES ASSUME IInv, Start PROVE IInv'
  OBVIOUS
<1> USE DEF IInv, locks, pcs, flags, stream, notices
<1>1. CASE StartLock
  <2>1. main' \in MainLabels /\ bufferCS' \in {None, "main", "player"}
    BY <1>1 DEF StartLock, MainLabels
  <2>2. TypeOK'
    BY <1>1, <2>1, ZenonT(30) DEF StartLock, TypeOK
  <2> QED BY <1>1, <2>2
          DEF StartLock, LockInv, StreamInv, RoomInv, OneEventPosted, None
<1>2. CASE StartReset
  <2>1. /\ main' \in MainLabels
        /\ given' \in 0 .. MaxStream /\ l2' \in 0 .. Units
        /\ device' \in 0 .. DeviceUnits
    BY <1>2, PlaybackAssumption DEF StartReset, MainLabels
  <2>2. labels' \in Seq(Labelled) /\ fired' \in Seq(Labelled)
    BY <1>2 DEF StartReset
  <2>3. playing' \in BOOLEAN /\ ended' \in BOOLEAN
    BY <1>2 DEF StartReset
  <2>4. TypeOK'
    BY <1>2, <2>1, <2>2, <2>3, ZenonT(30) DEF StartReset, TypeOK
  <2>5. StreamInv'
    <3>1. given' = 0 /\ l2' = 1 /\ (~ended' => MaxStream # 1)
      BY <1>2 DEF StartReset
    <3> QED BY <3>1, PlaybackAssumption DEF StreamInv
  <2>6. LockInv' /\ RoomInv'
    BY <1>2, PlaybackAssumption DEF StartReset, LockInv, RoomInv, None
  <2> QED BY <1>2, <2>4, <2>5, <2>6 DEF StartReset, OneEventPosted
<1>3. CASE StartFill
  <2>1. /\ given' \in 0 .. MaxStream /\ l2' \in 0 .. Units
        /\ given' + l2' = given + l2
        /\ device' \in 0 .. DeviceUnits /\ labels' \in Seq(Labelled)
    <3>1. CASE primary
      <4>1. device < DeviceUnits
        BY <1>3, PlaybackAssumption DEF StartFill, RoomInv
      <4> QED BY <1>3, <3>1, <4>1, MoveKeeps DEF StartFill
    <3>2. CASE ~primary
      BY <1>3, <3>2 DEF StartFill, TypeOK
    <3> QED BY <3>1, <3>2
  <2>2. main' \in {"vector", "started"}
    BY <1>3 DEF StartFill
  <2>3. main' \in MainLabels
    BY <2>2 DEF MainLabels
  <2>4. TypeOK'
    <3>1. /\ UNCHANGED vectorCS /\ UNCHANGED bufferCS /\ UNCHANGED player
          /\ UNCHANGED status /\ UNCHANGED playing /\ UNCHANGED dsPlaying
          /\ UNCHANGED paused /\ UNCHANGED callback /\ UNCHANGED running
          /\ UNCHANGED primary /\ UNCHANGED ended /\ UNCHANGED fired
          /\ UNCHANGED pending /\ UNCHANGED toBeCalled /\ UNCHANGED posted
      BY <1>3 DEF StartFill
    <3>2. /\ given' \in 0 .. MaxStream /\ l2' \in 0 .. Units
          /\ device' \in 0 .. DeviceUnits /\ labels' \in Seq(Labelled)
      BY <2>1
    <3>3. TypeOK
      OBVIOUS
    <3> HIDE DEF IInv, locks, pcs, flags, stream, notices
    <3> QED BY <2>3, <3>1, <3>2, <3>3 DEF TypeOK
  <2>5. StreamInv'
    BY <1>3, <2>1 DEF StartFill, StreamInv
  <2>6. LockInv' /\ RoomInv'
    BY <1>3, <2>2 DEF StartFill, LockInv, RoomInv, None
  <2> QED BY <1>3, <2>4, <2>5, <2>6 DEF StartFill, OneEventPosted
<1>4. CASE StartReschedule
  <2>1. main' \in MainLabels /\ pending' \in BOOLEAN
    BY <1>4 DEF StartReschedule, MainLabels
  <2>2. TypeOK'
    BY <1>4, <2>1, ZenonT(30) DEF StartReschedule, TypeOK
  <2> QED BY <1>4, <2>2
          DEF StartReschedule, LockInv, StreamInv, RoomInv, OneEventPosted
<1>5. CASE StartEnd
  <2>1. /\ main' \in MainLabels /\ bufferCS' \in {None, "main", "player"}
        /\ status' \in {"stop", "play"}
    BY <1>5 DEF StartEnd, MainLabels
  <2>2. /\ dsPlaying' \in BOOLEAN /\ callback' \in BOOLEAN
        /\ running' \in BOOLEAN
    BY <1>5 DEF StartEnd
  <2>3. TypeOK'
    BY <1>5, <2>1, <2>2, ZenonT(30) DEF StartEnd, TypeOK
  <2> QED BY <1>5, <2>3
          DEF StartEnd, LockInv, StreamInv, RoomInv, OneEventPosted, None
<1> QED BY <1>1, <1>2, <1>3, <1>4, <1>5 DEF Start

LEMMA DeliverKeeps ==
  ASSUME IInv, NEW due \in 0 .. Len(labels), Deliver(due)
  PROVE  IInv'
<1> USE DEF IInv, Deliver, locks, pcs, flags, stream
<1>1. labels \in Seq(Labelled) /\ fired \in Seq(Labelled) /\ Len(labels) \in Nat
  BY DEF TypeOK
<1>2. /\ SubSeq(labels, 1, due) \in Seq(Labelled)
      /\ SubSeq(labels, due + 1, Len(labels)) \in Seq(Labelled)
  <2>1. \A i \in 1 .. Len(labels) : labels[i] \in Labelled
    BY <1>1
  <2> QED BY <1>1, <2>1, SubSeqProperties
<1>3. labels' \in Seq(Labelled) /\ fired' \in Seq(Labelled)
  <2>1. CASE playing /\ dsPlaying
    <3>1. fired \o SubSeq(labels, 1, due) \in Seq(Labelled)
      BY <1>1, <1>2, ConcatProperties
    <3> QED BY <1>2, <2>1, <3>1, ZenonT(30)
  <2>2. CASE ~(playing /\ dsPlaying)
    BY <1>1, <2>2, ZenonT(30)
  <2> QED BY <2>1, <2>2
<1>4. posted' \in Nat
  BY DEF TypeOK
<1>5. toBeCalled' \in BOOLEAN
  OBVIOUS
<1>6. pending' \in BOOLEAN
  <2>1. (due < Len(labels)) \in BOOLEAN
    OBVIOUS
  <2>2. pending' = (due < Len(labels)) \/ pending' = FALSE
    BY ZenonT(30)
  <2> QED BY <2>1, <2>2, ZenonT(30)
<1>7. TypeOK'
  BY <1>3, <1>4, <1>5, <1>6, ZenonT(30) DEF TypeOK
<1>8. OneEventPosted'
  BY DEF OneEventPosted, TypeOK
<1> QED BY <1>7, <1>8 DEF LockInv, StreamInv, RoomInv

-----------------------------------------------------------------------------

\* The inductive invariant: who holds which lock, that the ring and the device
\* hold what the stream has, and that there is room where a unit is appended.
THEOREM PlaybackInvariant == Spec => []IInv
<1>1. IInv /\ [Next]_vars => IInv'
  <2>1. IInv /\ Next => IInv'
    BY RoundKeeps, ServeKeeps, DecodeKeeps, DevicePlaysKeeps, ScriptKeeps,
       StartKeeps, DeliverKeeps
    DEF Next
  <2>2. IInv /\ UNCHANGED vars => IInv'
    BY DEF IInv, TypeOK, LockInv, StreamInv, RoomInv, OneEventPosted, vars,
           locks, pcs, flags, stream, notices
  <2> QED BY <2>1, <2>2
<1> QED BY <1>1, InitHolds, PTL DEF Spec

\* Type correctness: in particular no more units are queued than the device
\* has buffers, and none is played that the stream does not have.
THEOREM PlaybackTypes == Spec => []TypeOK
<1>1. IInv => TypeOK
  BY DEF IInv
<1> QED BY <1>1, PlaybackInvariant, PTL

\* WndProcToBeCalled is set exactly while one event is on its way.
THEOREM OneEvent == Spec => []OneEventPosted
<1>1. IInv => OneEventPosted
  BY DEF IInv
<1> QED BY <1>1, PlaybackInvariant, PTL

-----------------------------------------------------------------------------
(* No label is lost.                                                        *)

\* A sequence of the labels of the first units, in their order and once each.
IsLabels(all, units) ==
  /\ \A i, j \in 1 .. Len(all) : i < j => all[i] < all[j]
  /\ {all[i] : i \in 1 .. Len(all)} = {u \in Labelled : u <= units}

LEMMA LabelledAreUnits == \A u \in Labelled : u \in Nat /\ u >= 1
  BY PlaybackAssumption

\* The label of the next unit joins the queue behind all others; so it does
\* when there is none.
LEMMA NextLabel ==
  ASSUME NEW units \in Nat, NEW all \in Seq(Labelled), IsLabels(all, units)
  PROVE  /\ units + 1 \in Labelled => IsLabels(Append(all, units + 1), units + 1)
         /\ units + 1 \notin Labelled => IsLabels(all, units + 1)
<1> DEFINE n == Len(all)
<1>1. n \in Nat /\ \A i \in 1 .. n : all[i] \in Labelled /\ all[i] <= units
  BY DEF IsLabels
<1>2. ASSUME units + 1 \in Labelled
      PROVE  IsLabels(Append(all, units + 1), units + 1)
  <2> DEFINE more == Append(all, units + 1)
  <2>1. /\ Len(more) = n + 1 /\ more[n + 1] = units + 1
        /\ \A i \in 1 .. n : more[i] = all[i]
    BY <1>1
  <2> HIDE DEF more
  <2>2. ASSUME NEW i \in 1 .. n + 1, NEW j \in 1 .. n + 1, i < j
        PROVE  more[i] < more[j]
    <3>1. i \in 1 .. n /\ more[i] = all[i] /\ all[i] \in Nat /\ all[i] <= units
      BY <1>1, <2>1, <2>2, LabelledAreUnits
    <3>2. CASE j = n + 1
      BY <2>1, <3>1, <3>2
    <3>3. CASE j \in 1 .. n
      <4>1. all[i] < all[j]
        BY <2>2, <3>1, <3>3 DEF IsLabels
      <4> QED BY <2>1, <3>1, <3>3, <4>1
    <3> QED BY <1>1, <3>2, <3>3
  <2>3. ASSUME NEW u \in Labelled, u <= units + 1
        PROVE  \E i \in 1 .. n + 1 : more[i] = u
    <3>1. CASE u = units + 1
      BY <1>1, <2>1, <3>1
    <3>2. CASE u <= units
      <4>1. PICK i \in 1 .. n : all[i] = u
        BY <3>2 DEF IsLabels
      <4> QED BY <1>1, <2>1, <4>1
    <3> QED BY <2>3, <3>1, <3>2, LabelledAreUnits
  <2>4. ASSUME NEW i \in 1 .. n + 1
        PROVE  more[i] \in Labelled /\ more[i] <= units + 1
    <3>1. CASE i = n + 1
      BY <1>2, <2>1, <3>1
    <3>2. CASE i \in 1 .. n
      BY <1>1, <2>1, <3>2, LabelledAreUnits
    <3> QED BY <1>1, <3>1, <3>2
  <2>5. {more[i] : i \in 1 .. n + 1} = {u \in Labelled : u <= units + 1}
    BY <2>3, <2>4
  <2> QED BY <2>1, <2>2, <2>5 DEF IsLabels, more
<1>3. ASSUME units + 1 \notin Labelled
      PROVE  IsLabels(all, units + 1)
  <2>1. {u \in Labelled : u <= units + 1} = {u \in Labelled : u <= units}
    BY <1>3, LabelledAreUnits
  <2> QED BY <2>1 DEF IsLabels
<1> QED BY <1>2, <1>3

LEMMA Regroup ==
  ASSUME NEW S, NEW s \in Seq(S), NEW t \in Seq(S), NEW u \in Seq(S)
  PROVE  (s \o t) \o u = s \o (t \o u)
OBVIOUS

\* A queue whose head moves behind what is out already stays the same list.
LEMMA MovesAcross ==
  ASSUME NEW S, NEW out \in Seq(S), NEW queue \in Seq(S), NEW n \in 0 .. Len(queue)
  PROVE  (out \o SubSeq(queue, 1, n)) \o SubSeq(queue, n + 1, Len(queue)) = out \o queue
<1> DEFINE head == SubSeq(queue, 1, n)
           rest == SubSeq(queue, n + 1, Len(queue))
<1>1. Len(queue) \in Nat /\ \A i \in 1 .. Len(queue) : queue[i] \in S
  OBVIOUS
<1>2. head \in Seq(S) /\ rest \in Seq(S)
  BY <1>1, SubSeqProperties
<1>3. head \o rest = SubSeq(queue, 1, Len(queue))
  <2>1. /\ 1 \in 1 .. Len(queue) + 1 /\ n \in 1 - 1 .. Len(queue)
        /\ Len(queue) \in n .. Len(queue)
    BY <1>1
  <2> QED BY <2>1, ConcatAdjacentSubSeq
<1>4. head \o rest = queue
  BY <1>3, SubSeqFull
<1> HIDE DEF head, rest
<1>5. (out \o head) \o rest = out \o (head \o rest)
  BY <1>2, Regroup, SMTT(30)
<1> QED BY <1>4, <1>5 DEF head, rest

LEMMA KeptIsLabels == LabelsKept <=> IsLabels(fired \o labels, given)
  BY DEF LabelsKept, IsLabels

\* FillBuffer moves a unit to the device.
LEMMA MoveKeepsLabels ==
  ASSUME TypeOK, LabelsKept, Move, fired' = fired
  PROVE  LabelsKept'
<1>1. /\ given \in Nat /\ fired \in Seq(Labelled) /\ labels \in Seq(Labelled)
      /\ given' = given + 1
  BY DEF TypeOK, Move
<1>2. fired \o labels \in Seq(Labelled) /\ IsLabels(fired \o labels, given)
  BY <1>1, KeptIsLabels, ConcatProperties
<1>3. CASE given + 1 \in Labelled
  <2>1. labels' = Append(labels, given + 1)
    BY <1>3 DEF Move
  <2>2. fired \o Append(labels, given + 1) = Append(fired \o labels, given + 1)
    BY <1>1, <1>3
  <2>3. IsLabels(fired' \o labels', given')
    BY <1>1, <1>2, <1>3, <2>1, <2>2, NextLabel
  <2> QED BY <2>3 DEF LabelsKept, IsLabels
<1>4. CASE given + 1 \notin Labelled
  <2>1. labels' = labels
    BY <1>4 DEF Move
  <2>2. IsLabels(fired' \o labels', given')
    BY <1>1, <1>2, <1>4, <2>1, NextLabel
  <2> QED BY <2>2 DEF LabelsKept, IsLabels
<1> QED BY <1>3, <1>4

\* Labels go from the queue to the fired ones.
LEMMA FiringKeepsLabels ==
  ASSUME TypeOK, LabelsKept, NEW due \in 0 .. Len(labels), given' = given,
         fired' = fired \o SubSeq(labels, 1, due),
         labels' = SubSeq(labels, due + 1, Len(labels))
  PROVE  LabelsKept'
<1>1. fired \in Seq(Labelled) /\ labels \in Seq(Labelled) /\ Len(labels) \in Nat
  BY DEF TypeOK
<1>2. (fired \o SubSeq(labels, 1, due)) \o SubSeq(labels, due + 1, Len(labels))
        = fired \o labels
  BY <1>1, MovesAcross
<1> QED BY <1>2 DEF LabelsKept

LEMMA LabelsStep == IInv /\ LabelsKept /\ [Next]_vars => LabelsKept'
<1> SUFFICES ASSUME IInv, LabelsKept, [Next]_vars PROVE LabelsKept'
  OBVIOUS
<1>1. TypeOK
  BY DEF IInv
<1>2. ASSUME UNCHANGED <<given, labels, fired>> PROVE LabelsKept'
  BY <1>2 DEF LabelsKept
<1>3. CASE Serve
  <2>1. CASE ServeEnd
    <3>1. fired' \o labels' = fired \o labels /\ given' = given
      BY <1>1, <2>1 DEF ServeEnd, TypeOK, stream
    <3> QED BY <3>1 DEF LabelsKept
  <2>2. CASE ServeMove
    <3>1. fired' = fired
      BY <2>2 DEF ServeMove
    <3>2. CASE l2 > 0
      BY <1>1, <2>2, <3>1, <3>2, MoveKeepsLabels DEF ServeMove
    <3>3. CASE ~(l2 > 0)
      BY <1>2, <2>2, <3>1, <3>3 DEF ServeMove
    <3> QED BY <3>2, <3>3
  <2>3. CASE ServeNothing \/ ServeFull \/ ServeBegin
    BY <1>2, <2>3 DEF ServeNothing, ServeFull, ServeBegin, stream, notices
  <2> QED BY <1>3, <2>1, <2>2, <2>3 DEF Serve
<1>4. CASE Start
  <2>1. CASE StartReset
    <3>1. given' = 0 /\ fired' = <<>> /\ labels' = <<>>
      BY <2>1 DEF StartReset
    <3>2. {u \in Labelled : u <= 0} = {}
      BY LabelledAreUnits
    <3> QED BY <3>1, <3>2 DEF LabelsKept
  <2>2. CASE StartFill
    <3>1. CASE primary
      BY <1>1, <2>2, <3>1, MoveKeepsLabels DEF StartFill
    <3>2. CASE ~primary
      BY <1>2, <2>2, <3>2 DEF StartFill
    <3> QED BY <3>1, <3>2
  <2>3. CASE StartLock \/ StartReschedule \/ StartEnd
    BY <1>2, <2>3 DEF StartLock, StartReschedule, StartEnd, stream, notices
  <2> QED BY <1>4, <2>1, <2>2, <2>3 DEF Start
<1>5. ASSUME NEW due \in 0 .. Len(labels), Deliver(due) PROVE LabelsKept'
  <2>1. CASE playing /\ dsPlaying
    BY <1>1, <1>5, <2>1, FiringKeepsLabels DEF Deliver, stream
  <2>2. CASE ~(playing /\ dsPlaying)
    BY <1>2, <1>5, <2>2 DEF Deliver, stream
  <2> QED BY <2>1, <2>2
<1>6. CASE Script \/ StopEnd \/ TimerBeat
  BY <1>2, <1>6 DEF Script, Play, StopPlay, SetPaused, StopEnd, TimerBeat, stream, notices
<1>7. CASE Decode \/ DevicePlays \/ \E serve \in BOOLEAN : Round(serve)
  BY <1>2, <1>7 DEF Decode, DevicePlays, Round, stream, notices
<1>8. CASE UNCHANGED vars
  BY <1>2, <1>8 DEF vars, stream, notices
<1> QED BY <1>3, <1>4, <1>5, <1>6, <1>7, <1>8 DEF Next

\* Every label of a unit moved to the device is fired once and in its turn, or
\* still waits: whatever is started, paused, sought, stopped and delivered late.
THEOREM LabelsStay == Spec => []LabelsKept
<1>1. Init => LabelsKept
  <2>1. {u \in Labelled : u <= 0} = {}
    BY LabelledAreUnits
  <2> QED BY <2>1 DEF Init, LabelsKept
<1>2. IInv /\ LabelsKept /\ [Next]_vars => LabelsKept'
  BY LabelsStep
<1> QED BY <1>1, <1>2, PlaybackInvariant, PTL DEF Spec
=============================================================================
