------------------------------- MODULE L2Ring -------------------------------
(***************************************************************************)
(* The level-2 buffer of a tTJSNI_WaveSoundBuffer: a ring of rendered      *)
(* units between the decoder and the audio device (WaveImpl.cpp).          *)
(*                                                                         *)
(*   - the decode thread renders units into the ring (FillL2Buffer), under *)
(*     L2BufferCS;                                                         *)
(*   - the playing thread moves units from the ring to the device          *)
(*     (FillBuffer), under BufferCS, and takes L2BufferCS only when at     *)
(*     most one unit was left: with two or more it reads the ring while    *)
(*     the decode thread writes it;                                        *)
(*   - the main thread restarts the ring (StartPlay) and stops it          *)
(*     (StopPlay) under both locks, and lets the decode thread run         *)
(*     (Continue) or stops it (Interrupt).                                 *)
(*                                                                         *)
(* A unit of sound is a number, its place in the decoded stream; 0 is      *)
(* silence.  L2BufferRemainCS guards single reads and writes of            *)
(* L2BufferRemain: each is one step here.                                  *)
(***************************************************************************)
EXTENDS Integers, Sequences

CONSTANTS
  Units,      \* L2BufferUnits: the number of slots of the ring
  MaxStream,  \* bound: the stream ends after at most this many units
  MaxLag      \* bound: how far L2BufferRemain may fall below zero

ASSUME L2RingAssumption ==
  /\ Units \in Nat /\ Units >= 2     \* if(L2BufferUnits <= 1) L2BufferUnits = 2
  /\ MaxStream \in Nat
  /\ MaxLag \in Nat

Threads == {"main", "player", "decoder"}
None    == "none"
Slots   == 0 .. Units - 1

VARIABLES
  readPos,    \* L2BufferReadPos
  writePos,   \* L2BufferWritePos
  remain,     \* L2BufferRemain
  ended,      \* L2BufferEnded
  samples,    \* L2BufferDecodedSamplesInUnit: "full", "part" or "zero"
  segment,    \* L2BufferSegmentQueues: the unit whose segments and labels a slot holds
  sound,      \* Level2Buffer: the unit whose samples a slot holds
  playing,    \* BufferPlaying
  callback,   \* ThreadCallbackEnabled: the playing thread serves this sound
  running,    \* Running of the decode thread
  bufferCS,   \* the holder of BufferCS
  l2CS,       \* the holder of L2BufferCS
  pc,         \* where each thread is
  decoded,    \* history: units with sound decoded since the last restart
  heard       \* history: units with sound given to the device, in order

ring  == <<readPos, writePos, remain, ended, samples, segment, sound>>
locks == <<bufferCS, l2CS>>
hist  == <<decoded, heard>>
flags == <<playing, callback, running>>
vars  == <<ring, flags, locks, pc, hist>>

Labels == {"idle", "enter",                                    \* Execute
           "check", "render", "rendering", "increment",        \* FillL2Buffer
           "sample", "prepare", "refill", "lock",              \* FillBuffer
           "read", "reading", "decrement",                     \* ReadL2Buffer
           "finish",                                           \* FillBuffer, at the end
           "start", "startLock", "reset", "continue",          \* StartPlay
           "stopLock", "interrupt"}                            \* StopPlay, Stop

InFill == {"check", "render", "rendering", "increment"}
InRead == {"read", "reading", "decrement"}

GoTo(t, label) == pc' = [pc EXCEPT ![t] = label]

\* if(pos >= L2BufferUnits) pos = 0
Advance(pos) == IF pos + 1 >= Units THEN 0 ELSE pos + 1

-----------------------------------------------------------------------------
(* FillL2Buffer.  Whoever calls it holds L2BufferCS from "check" to the end. *)

\* Mutant: the decode thread goes on filling without a look at Running.
AfterFillForever(t) == CASE t = "main"    -> "sample"
                         [] t = "player"  -> "lock"
                         [] t = "decoder" -> "check"

\* Where a thread goes on when its call of FillL2Buffer returns: the main
\* thread to the FillBuffer of StartPlay, the playing thread to the second
\* half of FillBuffer, the decode thread to its loop.
AfterFill(t) == CASE t = "main"    -> "sample"
                  [] t = "player"  -> "lock"
                  [] t = "decoder" -> "idle"

\* The holder scope of FillL2Buffer ends; StartPlay still holds its own.
LeaveFill(t) ==
  /\ GoTo(t, AfterFill(t))
  /\ l2CS' = IF t = "main" THEN "main" ELSE None

\* The loop of the decode thread finds Running set and calls
\* FillL2Buffer(false, true).  OneLoopCS, which it takes on the way, only
\* delays Interrupt: a fill that has begun is finished first.
DecoderLoop ==
  /\ pc["decoder"] = "idle"
  /\ running
  /\ GoTo("decoder", "enter")
  /\ UNCHANGED <<ring, flags, locks, hist>>

DecoderEnter ==
  /\ pc["decoder"] = "enter"
  /\ l2CS = None
  /\ l2CS' = "decoder"
  /\ GoTo("decoder", "check")
  /\ UNCHANGED <<ring, flags, bufferCS, hist>>

\* if(L2BufferRemain == L2BufferUnits) ... return false
FillCheck(t) ==
  /\ pc[t] = "check"
  /\ IF remain = Units
       THEN LeaveFill(t)
       ELSE GoTo(t, "render") /\ UNCHANGED l2CS
  /\ UNCHANGED <<ring, flags, bufferCS, hist>>

\* L2BufferSegmentQueues[L2BufferWritePos].Clear(), and Decode starts writing
\* Level2Buffer at that slot.
FillBegin(t) ==
  /\ pc[t] = "render"
  /\ segment' = [segment EXCEPT ![writePos] = 0]
  /\ GoTo(t, "rendering")
  /\ UNCHANGED <<readPos, writePos, remain, ended, samples, sound, flags,
                 locks, hist>>

\* Decode has returned "got": a whole unit, less than a unit, or nothing (the
\* end of the stream, or a decoder that threw).  Past the end the slot is
\* only marked empty.
FillEnd(t, got) ==
  /\ pc[t] = "rendering"
  /\ got # "zero" => decoded < MaxStream
  /\ ended => got = "zero"
  /\ ended' = (ended \/ got # "full")
  /\ samples' = [samples EXCEPT ![writePos] = got]
  /\ IF got = "zero"
       THEN UNCHANGED <<segment, sound, decoded>>
       ELSE /\ decoded' = decoded + 1
            /\ segment' = [segment EXCEPT ![writePos] = decoded + 1]
            /\ sound'   = [sound EXCEPT ![writePos] = decoded + 1]
  /\ writePos' = Advance(writePos)
  /\ GoTo(t, "increment")
  /\ UNCHANGED <<readPos, remain, flags, locks, heard>>

\* L2BufferRemain++
FillIncrement(t) ==
  /\ pc[t] = "increment"
  /\ remain' = remain + 1
  /\ LeaveFill(t)
  /\ UNCHANGED <<readPos, writePos, ended, samples, segment, sound, flags,
                 bufferCS, hist>>

-----------------------------------------------------------------------------
(* FillBuffer, as far as the ring goes.  BufferCS is held throughout.       *)

\* The playing thread comes round: if((*i)->ThreadCallbackEnabled)
PlayerLoop ==
  /\ pc["player"] = "idle"
  /\ callback
  /\ GoTo("player", "enter")
  /\ UNCHANGED <<ring, flags, locks, hist>>

\* FillBuffer returns at once: if(!BufferPlaying), the sound is paused, or the
\* device has no room.
PlayerReturn ==
  /\ pc["player"] = "enter"
  /\ bufferCS = None
  /\ GoTo("player", "idle")
  /\ UNCHANGED <<ring, flags, locks, hist>>

\* FillBuffer goes on to copy L2BufferRemain: the sound is playing and the
\* device has room for another unit.
PlayerEnter ==
  /\ pc["player"] = "enter"
  /\ bufferCS = None
  /\ playing
  /\ bufferCS' = "player"
  /\ GoTo("player", "sample")
  /\ UNCHANGED <<ring, flags, l2CS, hist>>

\* if(L2BufferEnded) and the device has played all it was given: playback
\* stops.  ResetSamplePositions clears the segments of the whole ring.
FinishBegin ==
  /\ pc["player"] = "enter"
  /\ bufferCS = None
  /\ playing /\ ended
  /\ bufferCS' = "player"
  /\ GoTo("player", "finish")
  /\ UNCHANGED <<ring, flags, l2CS, hist>>

FinishEnd ==
  /\ pc["player"] = "finish"
  /\ segment' = [s \in Slots |-> 0]
  /\ playing' = FALSE
  /\ bufferCS' = None
  /\ GoTo("player", "idle")
  /\ UNCHANGED <<readPos, writePos, remain, ended, samples, sound, callback,
                 running, l2CS, hist>>

\* Mutants: one unit, and no unit at all, is enough to read with no lock.
SampleOne(t) ==
  /\ pc[t] = "sample"
  /\ GoTo(t, IF remain > 0 THEN "read" ELSE "prepare")
  /\ UNCHANGED <<ring, flags, locks, hist>>
SampleNone(t) ==
  /\ pc[t] = "sample"
  /\ GoTo(t, IF remain >= 0 THEN "read" ELSE "prepare")
  /\ UNCHANGED <<ring, flags, locks, hist>>

\* bufferremain = L2BufferRemain, and the choice between reading with no lock
\* and PrepareToReadL2Buffer.  A thread that holds L2BufferCS keeps it.
Sample(t) ==
  /\ pc[t] = "sample"
  /\ GoTo(t, IF remain > 1 THEN "read" ELSE "prepare")
  /\ UNCHANGED <<ring, flags, locks, hist>>

\* PrepareToReadL2Buffer: if(L2BufferRemain == 0 && !L2BufferEnded)
\* FillL2Buffer.
Prepare(t) ==
  /\ pc[t] = "prepare"
  /\ GoTo(t, IF remain = 0 /\ ~ended THEN "refill" ELSE "lock")
  /\ UNCHANGED <<ring, flags, locks, hist>>

\* The call of FillL2Buffer enters its critical section.
Refill(t) ==
  /\ pc[t] = "refill"
  /\ l2CS \in {None, t}
  /\ l2CS' = t
  /\ GoTo(t, "check")
  /\ UNCHANGED <<ring, flags, bufferCS, hist>>

\* tTJSCriticalSectionHolder l2holder(L2BufferCS) around FillDSBuffer.
LockToRead(t) ==
  /\ pc[t] = "lock"
  /\ l2CS \in {None, t}
  /\ l2CS' = t
  /\ GoTo(t, "read")
  /\ UNCHANGED <<ring, flags, bufferCS, hist>>

\* FillDSBuffer: with a device buffer free, ReadL2Buffer starts reading the
\* slot at L2BufferReadPos; otherwise nothing is read.
ReadBegin(t) ==
  /\ pc[t] = "read"
  /\ remain > - MaxLag
  /\ GoTo(t, "reading")
  /\ UNCHANGED <<ring, flags, locks, hist>>

\* FillBuffer returns; on the main thread the locked block of StartPlay ends.
LeaveRead(t) ==
  /\ GoTo(t, IF t = "main" THEN "continue" ELSE "idle")
  /\ bufferCS' = None
  /\ l2CS' = IF l2CS = t THEN None ELSE l2CS

ReadSkip(t) ==
  /\ pc[t] = "read"
  /\ LeaveRead(t)
  /\ UNCHANGED <<ring, flags, hist>>

\* Mutant: the unit read is not overwritten with silence.
ReadEndLoud(t) ==
  /\ pc[t] = "reading"
  /\ heard' = IF samples[readPos] # "zero" /\ sound[readPos] # 0
                THEN Append(heard, sound[readPos]) ELSE heard
  /\ readPos' = Advance(readPos)
  /\ GoTo(t, "decrement")
  /\ UNCHANGED <<writePos, remain, ended, samples, segment, sound, flags, locks,
                 decoded>>

\* Mutant: the last, shorter unit is not given to the device.
ReadEndWhole(t) ==
  /\ pc[t] = "reading"
  /\ IF samples[readPos] = "full"
       THEN /\ heard' = IF sound[readPos] # 0 THEN Append(heard, sound[readPos])
                                              ELSE heard
            /\ sound' = [sound EXCEPT ![readPos] = 0]
       ELSE UNCHANGED <<heard, sound>>
  /\ readPos' = Advance(readPos)
  /\ GoTo(t, "decrement")
  /\ UNCHANGED <<writePos, remain, ended, samples, segment, flags, locks,
                 decoded>>

\* ReadL2Buffer: AppendBuffer if the unit is not empty, overwrite it with
\* silence, advance L2BufferReadPos.
ReadEnd(t) ==
  /\ pc[t] = "reading"
  /\ IF samples[readPos] # "zero"
       THEN /\ heard' = IF sound[readPos] # 0 THEN Append(heard, sound[readPos])
                                              ELSE heard
            /\ sound' = [sound EXCEPT ![readPos] = 0]
       ELSE UNCHANGED <<heard, sound>>
  /\ readPos' = Advance(readPos)
  /\ GoTo(t, "decrement")
  /\ UNCHANGED <<writePos, remain, ended, samples, segment, flags, locks,
                 decoded>>

\* L2BufferRemain--
ReadDecrement(t) ==
  /\ pc[t] = "decrement"
  /\ remain' = remain - 1
  /\ LeaveRead(t)
  /\ UNCHANGED <<readPos, writePos, ended, samples, segment, sound, flags,
                 hist>>

-----------------------------------------------------------------------------
(* Play, SetSamplePosition, Stop and TimerBeatHandler, on the main thread.   *)

\* StartPlay takes BufferCS: from Play, when the sound is not playing (its
\* StopPlay then changes nothing), or from SetSamplePosition after StopPlay.
StartEnter ==
  /\ \/ pc["main"] = "start"
     \/ pc["main"] = "idle" /\ ~playing
  /\ bufferCS = None
  /\ bufferCS' = "main"
  /\ GoTo("main", "startLock")
  /\ UNCHANGED <<ring, flags, l2CS, hist>>

StartLock ==
  /\ pc["main"] = "startLock"
  /\ l2CS = None
  /\ l2CS' = "main"
  /\ GoTo("main", "reset")
  /\ UNCHANGED <<ring, flags, bufferCS, hist>>

\* Mutant: L2BufferDecodedSamplesInUnit is not reset.
StartResetSamples ==
  /\ pc["main"] = "reset"
  /\ readPos' = 0 /\ writePos' = 0 /\ remain' = 0
  /\ ended' = FALSE
  /\ segment' = [s \in Slots |-> 0]
  /\ playing' = TRUE
  /\ decoded' = 0
  /\ heard' = <<>>
  /\ GoTo("main", "check")
  /\ UNCHANGED <<samples, sound, callback, running, locks>>

\* CreateSoundBuffer clears the segments; FillL2Buffer(true, false) resets the
\* ring and renders the first unit.  The samples of Level2Buffer stay.
StartReset ==
  /\ pc["main"] = "reset"
  /\ readPos' = 0 /\ writePos' = 0 /\ remain' = 0
  /\ ended' = FALSE
  /\ samples' = [s \in Slots |-> "zero"]
  /\ segment' = [s \in Slots |-> 0]
  /\ playing' = TRUE
  /\ decoded' = 0
  /\ heard' = <<>>
  /\ GoTo("main", "check")
  /\ UNCHANGED <<sound, callback, running, locks>>

\* if (!TVPPrimarySoundBufferPlaying) return true, in the FillBuffer(true,
\* false) of StartPlay: nothing is moved to the device yet.
StartUnready ==
  /\ pc["main"] = "sample"
  /\ LeaveRead("main")
  /\ UNCHANGED <<ring, flags, hist>>

\* ThreadCallbackEnabled = true; Thread->Continue(), after the locked block of
\* StartPlay.
Continue ==
  /\ pc["main"] = "continue"
  /\ callback' = TRUE
  /\ running' = TRUE
  /\ GoTo("main", "idle")
  /\ UNCHANGED <<ring, playing, locks, hist>>

\* StopPlay takes BufferCS, then L2BufferCS.
StopEnter ==
  /\ pc["main"] = "idle"
  /\ bufferCS = None
  /\ bufferCS' = "main"
  /\ GoTo("main", "stopLock")
  /\ UNCHANGED <<ring, flags, l2CS, hist>>

\* BufferPlaying = false.  Stop goes on to interrupt the decode thread,
\* SetSamplePosition to restart the sound with the decode thread running.
StopLock(next) ==
  /\ pc["main"] = "stopLock"
  /\ l2CS = None
  /\ playing' = FALSE
  /\ GoTo("main", next)
  /\ bufferCS' = None
  /\ UNCHANGED <<ring, callback, running, l2CS, hist>>

\* ThreadCallbackEnabled = false; Thread->Interrupt(), from Stop or, for a
\* sound that has finished, from TimerBeatHandler.  It waits for a fill in
\* progress (OneLoopCS).
Interrupt ==
  /\ \/ pc["main"] = "interrupt"
     \/ pc["main"] = "idle" /\ ~playing /\ running
  /\ running => pc["decoder"] \in {"idle", "enter"}
  /\ callback' = FALSE
  /\ running' = FALSE
  /\ GoTo("main", "idle")
  /\ UNCHANGED <<ring, playing, locks, hist>>

-----------------------------------------------------------------------------

Init ==
  /\ readPos = 0 /\ writePos = 0 /\ remain = 0
  /\ ended = FALSE
  /\ samples = [s \in Slots |-> "zero"]
  /\ segment = [s \in Slots |-> 0]
  /\ sound   = [s \in Slots |-> 0]
  /\ playing = FALSE /\ callback = FALSE /\ running = FALSE
  /\ bufferCS = None /\ l2CS = None
  /\ pc = [t \in Threads |-> "idle"]
  /\ decoded = 0
  /\ heard = <<>>

Fill(t) ==
  \/ FillCheck(t)
  \/ FillBegin(t)
  \/ \E got \in {"full", "part", "zero"} : FillEnd(t, got)
  \/ FillIncrement(t)

FillDS(t) ==
  \/ Sample(t)
  \/ Prepare(t)
  \/ Refill(t)
  \/ LockToRead(t)
  \/ ReadBegin(t)
  \/ ReadSkip(t)
  \/ ReadEnd(t)
  \/ ReadDecrement(t)

Decoder == DecoderLoop \/ DecoderEnter \/ Fill("decoder")
Player  == PlayerLoop \/ PlayerReturn \/ PlayerEnter \/ FinishBegin \/ FinishEnd
             \/ FillDS("player") \/ Fill("player")
Start   == StartEnter \/ StartLock \/ StartReset \/ StartUnready \/ Continue
             \/ Fill("main") \/ FillDS("main")
Stop    == StopEnter \/ (\E next \in {"start", "interrupt"} : StopLock(next))
             \/ Interrupt

Next == Decoder \/ Player \/ Start \/ Stop

Spec == Init /\ [][Next]_vars

-----------------------------------------------------------------------------
(* Fairness.  Each thread goes on, and obtains in the end a lock that is     *)
(* released again and again; the device goes on playing, so that it has room *)
(* for another unit again and again.  Nothing is assumed of what the script  *)
(* asks of the main thread, only that a call it made goes on.                *)

Fairness ==
  /\ SF_vars(pc["main"] # "idle" /\ (Start \/ Stop))
  /\ SF_vars(Decoder)
  /\ SF_vars(Player)
  /\ SF_vars(PlayerEnter)
  /\ SF_vars(ReadBegin("player"))

FairSpec == Spec /\ Fairness

-----------------------------------------------------------------------------
(* Properties.                                                              *)

\* Every variable stays in its type.
TypeOK ==
  /\ readPos \in Slots /\ writePos \in Slots
  /\ remain \in Int
  /\ ended \in BOOLEAN
  /\ playing \in BOOLEAN /\ callback \in BOOLEAN /\ running \in BOOLEAN
  /\ samples \in [Slots -> {"full", "part", "zero"}]
  /\ segment \in [Slots -> Nat] /\ sound \in [Slots -> Nat]
  /\ bufferCS \in Threads \cup {None}
  /\ l2CS \in Threads \cup {None}
  /\ pc \in [Threads -> Labels]
  /\ decoded \in Nat
  /\ heard \in Seq(Nat)

\* "this function will never read currently writing L2 buffer" (ReadL2Buffer):
\* the slot one thread reads is never the slot another thread renders, though
\* the reader holds no lock that the renderer takes.
NoSlotRace ==
  \A r, w \in Threads :
    pc[r] = "reading" /\ pc[w] = "rendering" => readPos # writePos

\* The units the ring holds, counting the one being added or removed whose
\* L2BufferRemain++ or L2BufferRemain-- is still to come.
Held ==
  remain + (IF \E t \in Threads : pc[t] = "increment" THEN 1 ELSE 0)
         - (IF \E t \in Threads : pc[t] = "decrement" THEN 1 ELSE 0)

\* The ring is never asked to hold more than it can: L2BufferRemain and the
\* units on their way in or out stay within L2BufferUnits (FillL2Buffer checks
\* the room before it renders and counts the unit after).
NoOverfill == remain <= Units /\ Held <= Units

\* A thread that reads with no L2BufferCS has another unit left in the ring
\* besides the one it reads, so the decode thread cannot come round to it.
UnlockedReadIsSafe ==
  \A t \in Threads :
    pc[t] \in InRead /\ l2CS # t => remain >= 2

\* How far a slot is ahead of L2BufferReadPos, and the unit a reader would get
\* from it: 0 for silence.
Ahead(slot) == IF slot >= readPos THEN slot - readPos ELSE slot - readPos + Units
Content(slot) == IF samples[slot] = "zero" THEN 0 ELSE sound[slot]

\* The slot that is n ahead of L2BufferReadPos.
SlotAhead(n) == IF readPos + n < Units THEN readPos + n ELSE readPos + n - Units

\* What the ring holds of the units decoded and not yet heard, the next one to
\* be played first.
Queue == [i \in 1 .. decoded - Len(heard) |-> Content(SlotAhead(i - 1))]

\* Every decoded unit is heard or waits in the ring, at its place behind the
\* next one to be heard, and all other slots are silent: none is lost, repeated
\* or overtaken, also when a reader runs ahead of L2BufferRemain at the end.
NoUnitLost ==
  /\ \A i \in 1 .. Len(heard) : heard[i] = i
  /\ Len(heard) <= decoded
  /\ decoded = Len(heard) \/ decoded <= Len(heard) + Held
  /\ \A slot \in Slots :
       Content(slot) = LET unit == Len(heard) + Ahead(slot) + 1
                       IN  IF Ahead(slot) < Held /\ unit <= decoded
                             THEN unit ELSE 0

\* What the ring promises its users: a bounded first-in first-out queue.
Fifo == INSTANCE AudioFifo WITH
          Capacity <- Units, given <- decoded, queue <- Queue

ImplementsFifo == Fifo!Spec

\* Whoever asks the main thread to play, seek or stop gets the thread back:
\* the locks held by the playing and the decode thread never keep it.
MainReturns == pc["main"] # "idle" ~> pc["main"] = "idle"

\* A unit that waits in the ring is given to the device in the end, unless the
\* sound is stopped or has come to its end meanwhile.
UnitIsHeard ==
  \A n \in 1 .. MaxStream :
    (playing /\ decoded >= n /\ Len(heard) < n)
      ~> (Len(heard) >= n \/ ~playing)

=============================================================================
