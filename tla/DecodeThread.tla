---------------------------- MODULE DecodeThread ----------------------------
(***************************************************************************)
(* The decode thread of one tTJSNI_WaveSoundBuffer and the calls by which  *)
(* the main thread lets it run (Continue), stops it (Interrupt) and ends   *)
(* it (the destructor), in WaveImpl.cpp.                                   *)
(*                                                                         *)
(* The two share Running, which neither reads under a lock, OneLoopCS,     *)
(* which is held for one FillL2Buffer, and Event, on which the decode      *)
(* thread sleeps.  Event remembers a Set until a wait consumes it.  The    *)
(* level-2 buffer is only a number of free slots here.                     *)
(***************************************************************************)
EXTENDS Integers

CONSTANT Units   \* L2BufferUnits

ASSUME UnitsAssumption == Units \in Nat /\ Units >= 2

VARIABLES
  running,     \* Running
  terminating,  \* GetTerminated()
  event,       \* Event: a Set that no wait has consumed
  wait,        \* the local variable "wait" of Execute: the buffer was full
  room,        \* free slots of the level-2 buffer
  playing,     \* BufferPlaying
  loaded,      \* Decoder, LoopManager and the buffers they fill exist
  decode,      \* where the decode thread is in Execute
  main,        \* where the main thread is
  then,        \* the call the main thread is in: "Stop", "Clear" or "Invalidate"
  lateFills,   \* history: fills begun since Running was last cleared
  crashed      \* the process died on a deleted object

shared == <<running, terminating, event>>
sound  == <<room, playing, loaded>>
decodeVars == <<shared, wait, sound, decode, main, then, lateFills, crashed>>

ThreadLabels == {"terminated?", "running?", "stillRunning?", "oneLoop",
                 "fill", "filled", "nap", "sleep", "done"}
MainLabels   == {"idle", "startPlay", "continue", "set",
                 "stop", "interrupt", "oneLoop", "stopped",
                 "terminate", "wake", "join", "gone"}

-----------------------------------------------------------------------------
(* Execute.                                                                 *)

ThreadGoTo(label) == decode' = label

\* while(!GetTerminated()), and the break after the inner loop
Outer ==
  /\ decode = "terminated?"
  /\ ThreadGoTo(IF terminating THEN "done" ELSE "running?")
  /\ UNCHANGED <<shared, wait, sound, main, then, lateFills, crashed>>

\* while(Running); when it is over, if(GetTerminated()) break.  "wait" is
\* declared in the body and not initialised: it can have any value.
Inner ==
  /\ decode = "running?"
  /\ IF running
       THEN /\ ThreadGoTo("stillRunning?")
            /\ wait' \in BOOLEAN
       ELSE /\ ThreadGoTo(IF terminating THEN "done" ELSE "sleep")
            /\ UNCHANGED wait
  /\ UNCHANGED <<shared, sound, main, then, lateFills, crashed>>

\* if(Running), before OneLoopCS is asked for
StillRunning ==
  /\ decode = "stillRunning?"
  /\ ThreadGoTo(IF running THEN "oneLoop" ELSE "filled")
  /\ UNCHANGED <<shared, wait, sound, main, then, lateFills, crashed>>

\* OneLoopCS is taken, and FillL2Buffer begins.
FillBegin ==
  /\ decode = "oneLoop"
  /\ ThreadGoTo("fill")
  /\ lateFills' = IF running THEN 0 ELSE lateFills + 1
  /\ UNCHANGED <<shared, wait, sound, main, then, crashed>>

\* FillL2Buffer returns, and OneLoopCS is released.
FillEnd ==
  /\ decode = "fill"
  /\ loaded
  /\ wait' = (room = 0)
  /\ room' = IF room = 0 THEN 0 ELSE room - 1
  /\ ThreadGoTo("filled")
  /\ UNCHANGED <<shared, playing, loaded, main, then, lateFills, crashed>>

\* FillL2Buffer on a deleted decoder: the process dies, or the freed memory
\* still serves and the call returns with either result.
FillDeleted ==
  /\ decode = "fill"
  /\ ~loaded
  /\ crashed' \in BOOLEAN
  /\ wait' \in BOOLEAN
  /\ ThreadGoTo("filled")
  /\ UNCHANGED <<shared, sound, main, then, lateFills>>

\* if(GetTerminated()) break; if(Running) ... if(wait) ... Event.WaitFor(...)
Filled ==
  /\ decode = "filled"
  /\ \/ terminating /\ ThreadGoTo("done")
     \/ ~terminating /\ running /\ wait /\ ThreadGoTo("nap")
     \/ ~terminating /\ ~(running /\ wait) /\ ThreadGoTo("running?")
  /\ UNCHANGED <<shared, wait, sound, main, then, lateFills, crashed>>

\* Event.WaitFor(TVP_WSB_DECODE_THREAD_SLEEP_TIME - elapsed): the event or the
\* timeout ends it.
Nap ==
  /\ decode = "nap"
  /\ event' = FALSE
  /\ ThreadGoTo("running?")
  /\ UNCHANGED <<running, terminating, wait, sound, main, then, lateFills, crashed>>

\* Event.WaitFor(0): only the event ends it.
Sleep ==
  /\ decode = "sleep"
  /\ event
  /\ event' = FALSE
  /\ ThreadGoTo("terminated?")
  /\ UNCHANGED <<running, terminating, wait, sound, main, then, lateFills, crashed>>

Decode ==
  Outer \/ Inner \/ StillRunning \/ FillBegin \/ FillEnd \/ FillDeleted
    \/ Filled \/ Nap \/ Sleep

-----------------------------------------------------------------------------
(* The main thread.                                                         *)

MainGoTo(label) == main' = label

\* Open, after a Clear: a decoder is made.
Open ==
  /\ main = "idle" /\ ~loaded
  /\ loaded' = TRUE
  /\ UNCHANGED <<shared, wait, room, playing, decode, main, then, lateFills, crashed>>

\* StartPlay, of Play or of SetSamplePosition, takes L2BufferCS, so no fill is
\* in progress, and renders the first unit.
StartPlay ==
  /\ main = "idle" /\ loaded
  /\ decode # "fill"
  /\ room' = Units - 1
  /\ playing' = TRUE
  /\ MainGoTo("continue")
  /\ UNCHANGED <<shared, wait, loaded, decode, then, lateFills, crashed>>

\* Continue: Running = true, then Event.Set().
ContinueRun ==
  /\ main = "continue"
  /\ running' = TRUE
  /\ lateFills' = 0
  /\ MainGoTo("set")
  /\ UNCHANGED <<terminating, event, wait, sound, decode, then, crashed>>

\* Mutant: Continue does not set the event.
ContinueSilent ==
  /\ main = "set"
  /\ MainGoTo("idle")
  /\ UNCHANGED <<shared, wait, sound, decode, then, lateFills, crashed>>

ContinueSet ==
  /\ main = "set"
  /\ event' = TRUE
  /\ MainGoTo("idle")
  /\ UNCHANGED <<running, terminating, wait, sound, decode, then, lateFills, crashed>>

\* Stop, Clear (of Open or of a failed Open) or Invalidate begins: StopPlay
\* takes L2BufferCS, if there is a decoder.
StopPlay(call) ==
  /\ main = "idle"
  /\ loaded => decode # "fill"
  /\ playing' = FALSE
  /\ then' = call
  /\ MainGoTo("interrupt")
  /\ UNCHANGED <<shared, wait, room, loaded, decode, lateFills, crashed>>

\* TimerBeatHandler finds the sound finished.
TimerBeat ==
  /\ main = "idle" /\ ~playing /\ running
  /\ then' = "Stop"
  /\ MainGoTo("interrupt")
  /\ UNCHANGED <<shared, wait, sound, decode, lateFills, crashed>>

\* Interrupt: if(!Running) return; Event.Set();
InterruptBegin ==
  /\ main = "interrupt"
  /\ IF running
       THEN event' = TRUE /\ MainGoTo("oneLoop")
       ELSE UNCHANGED event /\ MainGoTo("stopped")
  /\ UNCHANGED <<running, terminating, wait, sound, decode, then, lateFills, crashed>>

\* OneLoopCS is obtained: Running = false, and the call returns.
InterruptEnd ==
  /\ main = "oneLoop"
  /\ decode # "fill"
  /\ running' = FALSE
  /\ lateFills' = 0
  /\ MainGoTo("stopped")
  /\ UNCHANGED <<terminating, event, wait, sound, decode, then, crashed>>

\* Stop returns.  The second Interrupt of Clear finds Running false and does
\* nothing; then LoopManager, the filters and Decoder are deleted, and by
\* Invalidate the level-2 buffer as well (DestroySoundBuffer).
Delete ==
  /\ main = "stopped"
  /\ loaded' = (loaded /\ then = "Stop")
  /\ MainGoTo(IF then = "Invalidate" THEN "terminate" ELSE "idle")
  /\ UNCHANGED <<shared, wait, room, playing, decode, then, lateFills, crashed>>

\* delete Thread: Running = false; Terminate(); Event.Set(); WaitFor();
Terminate ==
  /\ main = "terminate"
  /\ running' = FALSE
  /\ terminating' = TRUE
  /\ MainGoTo("wake")
  /\ UNCHANGED <<event, wait, sound, decode, then, lateFills, crashed>>

\* Mutant: the destructor does not set the event.
WakeSilent ==
  /\ main = "wake"
  /\ MainGoTo("join")
  /\ UNCHANGED <<shared, wait, sound, decode, then, lateFills, crashed>>

WakeDecode ==
  /\ main = "wake"
  /\ event' = TRUE
  /\ MainGoTo("join")
  /\ UNCHANGED <<running, terminating, wait, sound, decode, then, lateFills, crashed>>

JoinDecode ==
  /\ main = "join"
  /\ decode = "done"
  /\ MainGoTo("gone")
  /\ UNCHANGED <<shared, wait, sound, decode, then, lateFills, crashed>>

MainCall ==
  \/ Open
  \/ StartPlay
  \/ \E call \in {"Stop", "Clear", "Invalidate"} : StopPlay(call)
  \/ TimerBeat

MainStep ==
  ContinueRun \/ ContinueSet \/ InterruptBegin \/ InterruptEnd \/ Delete
    \/ Terminate \/ WakeDecode \/ JoinDecode

-----------------------------------------------------------------------------
(* The playing thread takes a unit, or finds the sound at its end.          *)

Consume ==
  /\ playing /\ room < Units
  /\ room' = room + 1
  /\ UNCHANGED <<shared, wait, playing, loaded, decode, main, then, lateFills, crashed>>

PlayedOut ==
  /\ playing
  /\ playing' = FALSE
  /\ UNCHANGED <<shared, wait, room, loaded, decode, main, then, lateFills, crashed>>

-----------------------------------------------------------------------------

DecodeInit ==
  /\ running = FALSE /\ terminating = FALSE /\ event = FALSE /\ wait = FALSE
  /\ room = Units /\ playing = FALSE /\ loaded = FALSE
  /\ decode = "terminated?" /\ main = "idle" /\ then = "Stop"
  /\ lateFills = 0 /\ crashed = FALSE

DecodeNext == ~crashed /\ (Decode \/ MainCall \/ MainStep \/ Consume \/ PlayedOut)

DecodeSpec == DecodeInit /\ [][DecodeNext]_decodeVars

\* Both threads go on with what they have begun; OneLoopCS, released between
\* two fills, is obtained by the main thread in the end.
DecodeFairness == /\ WF_decodeVars(~crashed /\ Decode)
                  /\ SF_decodeVars(~crashed /\ MainStep)

DecodeFairSpec == DecodeSpec /\ DecodeFairness

-----------------------------------------------------------------------------
(* Properties.                                                              *)

\* Every variable stays in its type.
DecodeTypeOK ==
  /\ running \in BOOLEAN /\ terminating \in BOOLEAN /\ event \in BOOLEAN
  /\ wait \in BOOLEAN
  /\ room \in 0 .. Units /\ playing \in BOOLEAN /\ loaded \in BOOLEAN
  /\ decode \in ThreadLabels /\ main \in MainLabels
  /\ then \in {"Stop", "Clear", "Invalidate"}
  /\ lateFills \in Nat /\ crashed \in BOOLEAN

\* What a comment in Interrupt says (WaveImpl.cpp:2047), that it "stops the
\* decoding": when it has cleared Running no fill begins before Continue.  The
\* code does not keep this: the decode thread may have tested Running and wait
\* for OneLoopCS.
InterruptStopsDecoding == terminating \/ lateFills = 0

\* The main thread never waits for the decode thread in vain to have it stop
\* or end: Interrupt and the destructor return.
InterruptReturns ==
  main \in {"interrupt", "oneLoop", "join"} ~> main \in {"stopped", "gone"} \/ crashed

\* A wake-up is never lost: a decode thread that may run and has room fills the
\* buffer, whatever stops and restarts came before, unless it is stopped again.
Fills == (main = "idle" /\ running /\ room > 0) ~> (decode = "fill" \/ ~running \/ crashed)
=============================================================================
