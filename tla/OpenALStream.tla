---------------------------- MODULE OpenALStream ----------------------------
(***************************************************************************)
(* The device of one sound (OpenALWaveMixer.cpp): a source of OpenAL with  *)
(* a fixed set of buffers that are queued, played and queued again, and    *)
(* the two threads of WaveImpl.cpp that call it.                           *)
(*                                                                         *)
(* A call is the list of its steps in todo[t]; a step is cut where another *)
(* thread or the mixer of OpenAL may come in between.  EnsurePlayState is  *)
(* the steps "ensure", which reads the state of the source, and "act".     *)
(* The ring of decoded units is the number of units in it (see L2Ring).    *)
(***************************************************************************)
EXTENDS Integers, Sequences

CONSTANTS
  Buffers,   \* _bufferCount, which is L1BufferUnits
  Rooms,     \* what TVPAL_BUFFER_COUNT may be: it differs between the builds
  Units,     \* L2BufferUnits
  MaxUnits   \* bound: units decoded in the whole life of the device

ASSUME StreamAssumption ==
  /\ Buffers \in Nat \ {0}
  /\ Rooms \subseteq Nat \ {0}
  /\ Units \in Nat \ {0}
  /\ MaxUnits \in Nat

None == "none"
Threads == {"main", "player"}

VARIABLES
  source,    \* the source of OpenAL: its state, its queue, how many are done
  index,     \* _bufferIdx
  playing,   \* _playing
  sent,      \* whether _sentSamples differs from zero
  mtx,       \* the holder of _buffer_mtx
  bufferCS,  \* the holder of BufferCS
  todo,      \* the steps left of each thread's call
  seen,      \* what each thread's EnsurePlayState has read
  sound,     \* BufferPlaying, DSBufferPlaying, Paused, ThreadCallbackEnabled
  ring,      \* the units decoded and not yet taken, and L2BufferEnded
  primary,   \* TVPPrimarySoundBufferPlaying
  program,   \* TVPPrimaryBufferPlayingByProgram
  given,     \* units taken from the ring so far
  heard      \* history: the last unit heard since the sound was started,
             \* whether the device ran dry, it did so before the end, it was
             \* given a first unit, and whether SetBufferPaused has ever
             \* called it

device == <<source, index, playing, sent, mtx, seen>>
caller == <<bufferCS, sound, ring, primary, program, given>>
vars   == <<device, caller, todo, heard>>

States == {"initial", "playing", "paused", "stopped"}

Ensure == <<"ensure", "act">>

\* StopPlay and StartPlay.  CreateSoundBuffer sets the volume and the position
\* of the device before it resets it.
StopPlay  == <<"lock", "stop">> \o Ensure \o <<"stopped", "unlock">>
StartPlay == <<"lock">> \o Ensure \o <<"reset">> \o Ensure \o <<"refill">>

Steps == {"ensure", "act", "lock", "unlock", "stop", "stopped", "reset",
          "refill", "go", "take", "append", "queue", "play", "pause",
          "silent", "serve", "fill", "check", "restore", "quiet"}

\* The thread t is about to do the step s.
At(t, s) == todo[t] # <<>> /\ Head(todo[t]) = s
Then(t, steps) == todo' = [todo EXCEPT ![t] = steps \o Tail(@)]
Done(t) == todo' = [todo EXCEPT ![t] = Tail(@)]

-----------------------------------------------------------------------------
(* OpenAL.                                                                  *)

\* AL_BUFFERS_PROCESSED: every buffer of a stopped source is processed.
Processed(s) ==
  CASE s.state = "stopped" -> Len(s.queue)
    [] s.state = "initial" -> 0
    [] OTHER -> s.done

\* alSourcePlay goes on with a paused source and begins any other again, with
\* the first buffer that is still queued.
SourcePlay(s) ==
  IF s.queue = <<>>
    THEN [s EXCEPT !.state = "stopped"]
    ELSE [s EXCEPT !.state = "playing", !.done = IF s.state = "paused" THEN @ ELSE 0]

SourcePause(s) == [s EXCEPT !.state = IF @ = "playing" THEN "paused" ELSE @]
SourceStop(s)  == [s EXCEPT !.state = IF @ = "initial" THEN @ ELSE "stopped"]

\* alSourceRewind, and AL_BUFFER set to 0.
EmptySource == [state |-> "initial", queue |-> <<>>, done |-> 0]

\* The mixer plays the next buffer to its end.  The source stops when it was
\* the last one.
Mix ==
  /\ source.state = "playing"
  /\ LET done == source.done + 1
         unit == source.queue[done].unit
         dry  == done = Len(source.queue)
         last == IF unit > heard.last THEN unit ELSE heard.last
     IN  /\ source' = [source EXCEPT !.done = done,
                                     !.state = IF dry THEN "stopped" ELSE @]
         /\ heard' = [heard EXCEPT
              !.last = last,
              !.dry = @ \/ dry,
              !.early = @ \/ (dry /\ (~ring.ended \/ ring.units > 0 \/ last # given))]
  /\ UNCHANGED <<index, playing, sent, mtx, seen, caller, todo>>

-----------------------------------------------------------------------------
(* tTVPSoundBuffer.                                                         *)

Remain == Len(source.queue) - Processed(source)
IsBufferValid == Processed(source) > 0 \/ Len(source.queue) < Buffers

\* EnsurePlayState reads the state of the source, with _buffer_mtx, which is
\* recursive.
EnsureRead(t) ==
  /\ At(t, "ensure")
  /\ mtx \in {None, t}
  /\ mtx' = t
  /\ seen' = [seen EXCEPT ![t] = source.state]
  /\ Done(t)
  /\ UNCHANGED <<source, index, playing, sent, caller, heard>>

Silenced(s, state) ==
  LET p == IF state = "playing" THEN SourcePause(s) ELSE s
  IN  IF index = -1 /\ p.state # "stopped"
        THEN IF sent THEN SourceStop(p) ELSE EmptySource
        ELSE p

\* Mutant: a source that plays already is started again.
WantedAgain(s, state) == IF playing THEN SourcePlay(s) ELSE Silenced(s, state)

\* Mutant: a source that has run dry is left as it is.
WantedOnce(s, state) ==
  IF playing
    THEN IF state \in {"playing", "stopped"} THEN s ELSE SourcePlay(s)
    ELSE Silenced(s, state)

\* What a call of EnsurePlayState makes of the source.
Wanted(s, state) ==
  IF playing
    THEN IF state = "playing" THEN s ELSE SourcePlay(s)
    ELSE Silenced(s, state)

EnsureAct(t) ==
  /\ At(t, "act")
  /\ source' = Wanted(source, seen[t])
  /\ mtx' = None
  /\ seen' = [seen EXCEPT ![t] = None]
  /\ Done(t)
  /\ UNCHANGED <<index, playing, sent, caller, heard>>

\* AppendBuffer takes back what is processed.  _bufferSize, by which it counts
\* the samples, is never written.
Unqueue(t) ==
  /\ At(t, "append")
  /\ mtx = None
  /\ mtx' = t
  /\ LET n == Processed(source)
     IN  /\ source' = [source EXCEPT !.queue = SubSeq(@, n + 1, Len(@)),
                                     !.done = 0]
         /\ sent' \in IF n = 0 THEN {sent} ELSE BOOLEAN
  /\ Done(t)
  /\ UNCHANGED <<index, playing, seen, caller, heard>>

\* Mutant: the index wraps one buffer too late.
NextIndexLate == IF index + 1 > Buffers THEN 0 ELSE index + 1

NextIndex == IF index + 1 >= Buffers THEN 0 ELSE index + 1

\* AppendBuffer fills the next buffer and queues it; there may be no room, and
\* then it returns.
Queue(t) ==
  /\ At(t, "queue")
  /\ IF Len(source.queue) >= Buffers
       THEN /\ mtx' = None
            /\ todo' = [todo EXCEPT ![t] = SubSeq(@, 4, Len(@))]
            /\ UNCHANGED <<source, index>>
       ELSE /\ index' = NextIndex
            /\ source' = [source EXCEPT !.queue =
                 Append(@, [buffer |-> NextIndex, unit |-> given])]
            /\ Done(t)
            /\ UNCHANGED mtx
  /\ UNCHANGED <<playing, sent, seen, caller, heard>>

\* Mutant: Pause begins again with the first buffer, as Stop does.
FlagsPauseFirst(t) ==
  /\ \/ At(t, "play") /\ playing' = TRUE /\ UNCHANGED <<index, sent>>
     \/ At(t, "pause") /\ playing' = FALSE /\ index' = -1 /\ UNCHANGED sent
     \/ At(t, "stop") /\ playing' = FALSE /\ index' = -1 /\ UNCHANGED sent
     \/ At(t, "reset") /\ playing' = FALSE /\ index' = -1 /\ sent' = FALSE
  /\ Done(t)
  /\ UNCHANGED <<source, mtx, seen, caller, heard>>

\* The flags that Play, Pause, Stop and Reset set before EnsurePlayState.
Flags(t) ==
  /\ \/ At(t, "play") /\ playing' = TRUE /\ UNCHANGED <<index, sent>>
     \/ At(t, "pause") /\ playing' = FALSE /\ UNCHANGED <<index, sent>>
     \/ At(t, "stop") /\ playing' = FALSE /\ index' = -1 /\ UNCHANGED sent
     \/ At(t, "reset") /\ playing' = FALSE /\ index' = -1 /\ sent' = FALSE
  /\ Done(t)
  /\ UNCHANGED <<source, mtx, seen, caller, heard>>

-----------------------------------------------------------------------------
(* What both threads do with BufferCS.                                      *)

Lock(t) ==
  /\ At(t, "lock")
  /\ bufferCS = None
  /\ bufferCS' = t
  /\ Done(t)
  /\ UNCHANGED <<device, sound, ring, primary, program, given, heard>>

Unlock(t) ==
  /\ At(t, "unlock")
  /\ bufferCS' = None
  /\ Done(t)
  /\ UNCHANGED <<device, sound, ring, primary, program, given, heard>>

\* The decoder renders one unit: a whole one, a shorter one, which is the last,
\* or nothing.
Decoded(r) ==
  {[r EXCEPT !.ended = TRUE]} \cup
  {[units |-> r.units + 1, ended |-> e] :
     e \in IF given + r.units < MaxUnits THEN BOOLEAN ELSE {}}

\* PrepareToReadL2Buffer renders a unit when the ring has none; then, by
\* FillDSBuffer and ReadL2Buffer, one unit goes to the device if that has room.
\* At the end of the stream there is nothing to be appended.
Take(t) ==
  /\ At(t, "take")
  /\ \E r \in IF ring.units = 0 /\ ~ring.ended THEN Decoded(ring) ELSE {ring} :
       IF IsBufferValid /\ r.units > 0
         THEN /\ ring' = [r EXCEPT !.units = @ - 1]
              /\ given' = given + 1
              /\ heard' = [heard EXCEPT !.primed = TRUE]
              /\ Then(t, <<"append", "queue">> \o Ensure)
         ELSE /\ ring' = r
              /\ Done(t)
              /\ UNCHANGED <<given, heard>>
  /\ UNCHANGED <<device, bufferCS, sound, primary, program>>

\* StopPlay, and FillBuffer at the end of the sound, clear the flags.
Stopped(t) ==
  /\ At(t, "stopped")
  /\ sound' = [sound EXCEPT !.buffer = FALSE, !.device = FALSE]
  /\ Done(t)
  /\ UNCHANGED <<device, bufferCS, ring, primary, program, given, heard>>

-----------------------------------------------------------------------------
(* The main thread.                                                         *)

Idle(t) == todo[t] = <<>>
Calls(steps) ==
  /\ Idle("main")
  /\ todo' = [todo EXCEPT !["main"] = steps]

\* FillL2Buffer(true) and FillBuffer(true), which does nothing while the
\* primary buffer does not play.  BufferCS keeps Paused as it is.
Refill ==
  /\ At("main", "refill")
  /\ sound' = [sound EXCEPT !.buffer = TRUE]
  /\ ring' \in Decoded([units |-> 0, ended |-> FALSE])
  /\ heard' = [heard EXCEPT !.last = given, !.dry = FALSE, !.early = FALSE, !.primed = FALSE]
  /\ Then("main", (IF primary THEN <<"take">> ELSE <<>>)
                    \o (IF sound.paused THEN <<>> ELSE <<"play">> \o Ensure) \o <<"go">>)
  /\ UNCHANGED <<device, bufferCS, primary, program, given>>

\* The end of StartPlay.
Go ==
  /\ At("main", "go")
  /\ bufferCS' = None
  /\ sound' = [sound EXCEPT !.callback = TRUE, !.device = ~sound.paused]
  /\ Done("main")
  /\ UNCHANGED <<device, ring, primary, program, given, heard>>

\* The end of Stop.
Quiet ==
  /\ At("main", "quiet")
  /\ sound' = [sound EXCEPT !.callback = FALSE]
  /\ Done("main")
  /\ UNCHANGED <<device, bufferCS, ring, primary, program, given, heard>>

Play ==
  /\ ~sound.buffer
  /\ program' = TRUE
  /\ Calls(StopPlay \o StartPlay)
  /\ UNCHANGED <<device, bufferCS, sound, ring, primary, given, heard>>

SetSamplePosition ==
  /\ sound.buffer /\ sound.device
  /\ Calls(StopPlay \o StartPlay)
  /\ UNCHANGED <<device, caller, heard>>

Stop ==
  /\ Calls(StopPlay \o <<"quiet">>)
  /\ UNCHANGED <<device, caller, heard>>

\* SetVolumeToSoundBuffer and its like call the device under no lock.
SetVolume ==
  /\ Calls(Ensure)
  /\ UNCHANGED <<device, caller, heard>>

SetPaused ==
  /\ Idle("main")
  /\ bufferCS = None
  /\ sound' = [sound EXCEPT !.paused = ~@]
  /\ UNCHANGED <<device, bufferCS, ring, primary, program, given, todo, heard>>

\* TimerBeatHandler.
TimerBeat ==
  /\ Idle("main")
  /\ sound.callback /\ ~sound.buffer
  /\ sound' = [sound EXCEPT !.callback = FALSE]
  /\ UNCHANGED <<device, bufferCS, ring, primary, program, given, todo, heard>>

\* The decode thread fills the ring ahead.
DecodeAhead ==
  /\ sound.callback
  /\ bufferCS # "main"
  /\ ring.units < Units /\ ~ring.ended
  /\ ring' \in Decoded(ring)
  /\ UNCHANGED <<device, bufferCS, sound, primary, program, given, todo, heard>>

-----------------------------------------------------------------------------
(* The playing thread.                                                      *)

\* A round of Execute: the primary buffer follows the program, which only
\* ever starts it, and when it is time the sound is served.
Round ==
  /\ Idle("player")
  /\ primary' = program
  /\ \E serve \in IF program THEN {<<>>, <<"serve">>} ELSE {<<>>} :
       todo' = [todo EXCEPT !["player"] =
                  (IF primary # program /\ sound.callback THEN <<"restore">> ELSE <<>>) \o serve]
  /\ UNCHANGED <<device, bufferCS, sound, ring, program, given, heard>>

\* SetBufferPaused(false), under no lock.
Restore ==
  /\ At("player", "restore")
  /\ LET plays == ~sound.paused /\ sound.device /\ sound.buffer
     IN  /\ Then("player", IF plays THEN <<"play">> \o Ensure ELSE <<>>)
         /\ heard' = [heard EXCEPT !.restored = @ \/ plays]
  /\ UNCHANGED <<device, caller>>

Serve ==
  /\ At("player", "serve")
  /\ Then("player", IF sound.callback THEN <<"lock", "fill", "unlock">> ELSE <<>>)
  /\ UNCHANGED <<device, caller, heard>>

\* FillBuffer: the pause asked for is brought to the device.
Fill ==
  /\ At("player", "fill")
  /\ Then("player",
       CASE ~sound.buffer -> <<>>
         [] sound.buffer /\ sound.paused ->
              IF sound.device THEN <<"pause">> \o Ensure \o <<"silent">> ELSE <<>>
         [] OTHER ->
              (IF sound.device THEN <<>> ELSE <<"play">> \o Ensure) \o <<"check">>)
  /\ UNCHANGED <<device, caller, heard>>

Silent ==
  /\ At("player", "silent")
  /\ sound' = [sound EXCEPT !.device = FALSE]
  /\ Done("player")
  /\ UNCHANGED <<device, bufferCS, ring, primary, program, given, heard>>

\* Mutant: the sound ends with the last unit that leaves the ring.
AtEndEarly == ring.ended /\ ring.units = 0

AtEnd == ring.ended /\ Remain = 0

\* FillBuffer: the end of the sound is found, or the device has as much as it
\* should, or it is given one more unit.  Which build this is, is left open at
\* every check: the behaviours of each are among those of the model.
Check ==
  /\ At("player", "check")
  /\ \E room \in Rooms :
       Then("player", CASE AtEnd -> <<"pause">> \o Ensure \o <<"stopped">>
                        [] ~AtEnd /\ Remain >= room -> <<>>
                        [] OTHER -> <<"take">>)
  /\ sound' = [sound EXCEPT !.device = TRUE]
  /\ UNCHANGED <<device, bufferCS, ring, primary, program, given, heard>>

-----------------------------------------------------------------------------

Init ==
  /\ source = EmptySource
  /\ index = -1
  /\ playing = FALSE
  /\ sent = FALSE
  /\ mtx = None
  /\ bufferCS = None
  /\ todo = [t \in Threads |-> <<>>]
  /\ seen = [t \in Threads |-> None]
  /\ sound = [buffer |-> FALSE, device |-> FALSE, paused |-> FALSE, callback |-> FALSE]
  /\ ring = [units |-> 0, ended |-> FALSE]
  /\ primary \in BOOLEAN    \* whether another sound was played before this one
  /\ program = primary
  /\ given = 0
  /\ heard = [last |-> 0, dry |-> FALSE, early |-> FALSE, primed |-> FALSE,
              restored |-> FALSE]

\* The steps that either thread may have to do.
Step(t) ==
  \/ EnsureRead(t) \/ EnsureAct(t) \/ Unqueue(t) \/ Queue(t) \/ Flags(t)
  \/ Lock(t) \/ Unlock(t) \/ Take(t) \/ Stopped(t)

MainStep == Step("main") \/ Refill \/ Go \/ Quiet
PlayerStep == Step("player") \/ Restore \/ Serve \/ Fill \/ Silent \/ Check

Next ==
  \/ Mix \/ DecodeAhead
  \/ MainStep \/ TimerBeat
  \/ Play \/ SetSamplePosition \/ Stop \/ SetVolume \/ SetPaused
  \/ PlayerStep \/ Round

Spec == Init /\ [][Next]_vars

\* The mixer of OpenAL and both threads go on, a lock is not kept from a thread
\* for ever, and the playing thread serves the sound again and again.
Fairness ==
  /\ WF_vars(Mix)
  /\ SF_vars(MainStep)
  /\ SF_vars(PlayerStep)
  /\ WF_vars(Round /\ todo'["player"] # <<>>)

FairSpec == Spec /\ Fairness

-----------------------------------------------------------------------------
(* Properties.                                                              *)

TypeOK ==
  /\ source \in [state : States, done : 0 .. Buffers,
                 queue : Seq([buffer : 0 .. Buffers - 1, unit : 1 .. MaxUnits])]
  /\ Len(source.queue) <= Buffers /\ source.done <= Len(source.queue)
  /\ index \in -1 .. Buffers - 1
  /\ playing \in BOOLEAN /\ sent \in BOOLEAN
  /\ mtx \in Threads \cup {None} /\ bufferCS \in Threads \cup {None}
  /\ todo \in [Threads -> Seq(Steps)]
  /\ seen \in [Threads -> States \cup {None}]
  /\ sound \in [buffer : BOOLEAN, device : BOOLEAN, paused : BOOLEAN, callback : BOOLEAN]
  /\ ring \in [units : 0 .. Units, ended : BOOLEAN]
  /\ primary \in BOOLEAN /\ program \in BOOLEAN
  /\ given \in 0 .. MaxUnits
  /\ heard \in [last : 0 .. MaxUnits, dry : BOOLEAN, early : BOOLEAN,
                primed : BOOLEAN, restored : BOOLEAN]

\* A sound of which this can be said: it was started while the primary buffer
\* played, so that StartPlay gave the device a first unit, and SetBufferPaused
\* has never played the device from outside of BufferCS.  The playing thread
\* calls SetBufferPaused once in a program, when the primary buffer begins to
\* play, so that only the sounds made and started before that are left out.
Regular == heard.primed /\ ~heard.restored

\* AppendBuffer never fills a buffer that OpenAL still has in its queue,
\* although it takes the next one by its number: of a Regular sound.
BufferIsFree ==
  \A t \in Threads :
    (At(t, "queue") /\ Len(source.queue) < Buffers /\ Regular) =>
      \A i \in 1 .. Len(source.queue) : source.queue[i].buffer # NextIndex

\* The unit that the mixer plays to its end is the next after the last one heard,
\* whatever is stopped, paused, restarted and set from both threads: of a
\* Regular sound, until the device has run dry since the start.
HeardInOrder ==
  [][Mix /\ Regular /\ ~heard.dry => heard'.last = heard.last + 1]_vars

\* FillBuffer takes a sound for finished only when the last unit decoded was
\* heard: of a Regular sound, unless the device had run dry before the end.
EndAfterLast ==
  (At("player", "check") /\ AtEnd /\ Regular) =>
    heard.early \/ (heard.last = given /\ ring.units = 0)

\* A unit that was appended to the device is heard, also when the device has run
\* dry in between: unless the sound is paused, or stopped or started by the main
\* thread.  That the sound comes to its end is no excuse.
AppendedIsHeard ==
  \A u \in 1 .. MaxUnits :
    (/\ sound.buffer /\ heard.primed /\ index # -1
     /\ \E i \in 1 .. Len(source.queue) : source.queue[i].unit = u)
      ~> heard.last >= u \/ sound.paused \/ At("main", "stop") \/ At("main", "go")
=============================================================================
