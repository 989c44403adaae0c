---------------------------- MODULE WavePlayback ----------------------------
(***************************************************************************)
(* The playback of one sound from Play to its end (WaveImpl.cpp): the main *)
(* thread starts, pauses, seeks and stops it, delivers its label events    *)
(* and notices its end (TimerBeatHandler); the playing thread moves        *)
(* decoded units to the device and asks for label events.                  *)
(*                                                                         *)
(* Two locks matter: TVPWaveSoundBufferVectorCS, under which the playing   *)
(* thread serves every sound, and BufferCS of the sound.  The level-2      *)
(* buffer (module L2Ring) is only the number of units it holds here; the   *)
(* empty units that follow the end of the stream are left out.             *)
(***************************************************************************)
EXTENDS Integers, Sequences

CONSTANTS
  Units,        \* L2BufferUnits
  DeviceUnits,  \* buffers the device queues: L1BufferUnits, or TVPAL_BUFFER_COUNT if
                \* that is less
  Labelled,     \* the units of the stream that carry a label
  PauseValues,  \* bound: what the script may assign to "paused"
  MaxStream     \* bound: the length of the stream in units

ASSUME PlaybackAssumption ==
  /\ Units \in Nat /\ Units >= 2
  /\ DeviceUnits \in Nat \ {0}
  /\ MaxStream \in Nat \ {0}
  /\ Labelled \subseteq 1 .. MaxStream
  /\ PauseValues \subseteq BOOLEAN

None == "none"

VARIABLES
  vectorCS,    \* the holder of TVPWaveSoundBufferVectorCS
  bufferCS,    \* the holder of BufferCS
  main,        \* where the main thread is
  player,      \* where the playing thread is
  status,      \* Status of the sound: "stop" or "play"
  playing,     \* BufferPlaying
  dsPlaying,   \* DSBufferPlaying
  paused,      \* Paused
  callback,    \* ThreadCallbackEnabled
  running,     \* Running of the decode thread
  primary,     \* TVPPrimarySoundBufferPlaying
  given,       \* units moved out of the level-2 buffer since the last start
  l2,          \* units in the level-2 buffer
  ended,       \* L2BufferEnded
  device,      \* units the device still has to play
  labels,      \* LabelEventQueue: the units whose label waits
  fired,       \* history: the labels fired since the last start
  pending,     \* PendingLabelEventExists
  toBeCalled,  \* WndProcToBeCalled
  posted       \* TVP_EV_WAVE_SND_BUF_THREAD events on their way to the main thread

locks   == <<vectorCS, bufferCS>>
pcs     == <<main, player>>
flags   == <<status, playing, dsPlaying, paused, callback, running, primary>>
stream  == <<given, l2, ended, device>>
notices == <<labels, fired, pending, toBeCalled, posted>>
vars    == <<locks, pcs, flags, stream, notices>>

MainLabels   == {"idle", "start", "reset", "fill", "vector", "started", "interrupt"}
PlayerLabels == {"idle", "buffer", "fill"}

-----------------------------------------------------------------------------
(* What both threads do in FillBuffer, with BufferCS.                       *)

\* FillDSBuffer moves the next unit to the device.  The labels of the unit
\* join LabelEventQueue.
Move ==
  /\ l2 > 0
  /\ given' = given + 1
  /\ l2' = l2 - 1
  /\ device' = device + 1
  /\ labels' = IF given + 1 \in Labelled THEN Append(labels, given + 1) ELSE labels

\* FillL2Buffer renders the next unit; it may be the last one, and the unit
\* after MaxStream does not exist.
Render ==
  /\ ~ended
  /\ l2' = l2 + 1
  /\ ended' \in {given + l2 + 1 = MaxStream, TRUE}

-----------------------------------------------------------------------------
(* The playing thread: Execute, with FillBuffer.                            *)

\* Mutant: an event is posted although one is on its way.
RoundPosting(serve) ==
  /\ player = "idle"
  /\ vectorCS = None
  /\ primary' = TRUE
  /\ toBeCalled' = (toBeCalled \/ pending)
  /\ posted' = IF pending THEN posted + 1 ELSE posted
  /\ serve => callback
  /\ IF serve
       THEN vectorCS' = "player" /\ player' = "buffer"
       ELSE UNCHANGED <<vectorCS, player>>
  /\ UNCHANGED <<bufferCS, main, status, playing, dsPlaying, paused, callback,
                 running, stream, labels, fired, pending>>

\* One round of Execute takes TVPWaveSoundBufferVectorCS: it follows the state
\* of the primary buffer and posts an event to the main thread if a label is
\* pending.  It serves the sound only when 60 ms have passed since the last
\* time and the sound asks for it.
Round(serve) ==
  /\ player = "idle"
  /\ vectorCS = None
  /\ primary' = TRUE
  /\ toBeCalled' = (toBeCalled \/ pending)
  /\ posted' = IF pending /\ ~toBeCalled THEN posted + 1 ELSE posted
  /\ serve => callback
  /\ IF serve
       THEN vectorCS' = "player" /\ player' = "buffer"
       ELSE UNCHANGED <<vectorCS, player>>
  /\ UNCHANGED <<bufferCS, main, status, playing, dsPlaying, paused, callback,
                 running, stream, labels, fired, pending>>

\* FillBuffer(false, true) finds nothing to play: not playing, or paused.
ServeNothing ==
  /\ player = "buffer"
  /\ bufferCS = None
  /\ ~playing \/ paused
  /\ dsPlaying' = (dsPlaying /\ ~(playing /\ paused))
  /\ vectorCS' = None
  /\ player' = "idle"
  /\ UNCHANGED <<bufferCS, main, status, playing, paused, callback, running,
                 primary, stream, notices>>

\* Mutants: the labels left are dropped at the end; BufferPlaying is not reset.
ServeEndDropping ==
  /\ player = "buffer"
  /\ bufferCS = None
  /\ playing /\ ~paused
  /\ ended /\ device = 0
  /\ labels' = <<>>
  /\ dsPlaying' = FALSE
  /\ playing' = FALSE
  /\ vectorCS' = None
  /\ player' = "idle"
  /\ UNCHANGED <<bufferCS, main, status, paused, callback, running, primary,
                 stream, fired, pending, toBeCalled, posted>>
ServeEndPlaying ==
  /\ player = "buffer"
  /\ bufferCS = None
  /\ playing /\ ~paused
  /\ ended /\ device = 0
  /\ fired' = fired \o labels
  /\ labels' = <<>>
  /\ dsPlaying' = FALSE
  /\ vectorCS' = None
  /\ player' = "idle"
  /\ UNCHANGED <<bufferCS, main, status, playing, paused, callback, running,
                 primary, stream, pending, toBeCalled, posted>>

\* if (L2BufferEnded) { if (SoundBuffer->GetRemainBuffers() == 0) ... }: the
\* labels left are fired and playback stops.
ServeEnd ==
  /\ player = "buffer"
  /\ bufferCS = None
  /\ playing /\ ~paused
  /\ ended /\ device = 0
  /\ fired' = fired \o labels
  /\ labels' = <<>>
  /\ dsPlaying' = FALSE
  /\ playing' = FALSE
  /\ vectorCS' = None
  /\ player' = "idle"
  /\ UNCHANGED <<bufferCS, main, status, paused, callback, running, primary,
                 stream, pending, toBeCalled, posted>>

\* The device has no room: the round is over.
ServeFull ==
  /\ player = "buffer"
  /\ bufferCS = None
  /\ playing /\ ~paused
  /\ device >= DeviceUnits
  /\ dsPlaying' = TRUE
  /\ vectorCS' = None
  /\ player' = "idle"
  /\ UNCHANGED <<bufferCS, main, status, playing, paused, callback, running,
                 primary, stream, notices>>

\* The device has room: FillBuffer goes on with BufferCS held, and renders a
\* unit itself if the level-2 buffer is empty (PrepareToReadL2Buffer).
ServeBegin ==
  /\ player = "buffer"
  /\ bufferCS = None
  /\ playing /\ ~paused
  /\ ~(ended /\ device = 0)
  /\ device < DeviceUnits
  /\ bufferCS' = "player"
  /\ dsPlaying' = TRUE
  /\ player' = "fill"
  /\ IF l2 = 0 /\ ~ended THEN Render ELSE UNCHANGED <<l2, ended>>
  /\ UNCHANGED <<vectorCS, main, status, playing, paused, callback, running,
                 primary, given, device, notices>>

\* FillDSBuffer, the labels, and TVPReschedulePendingLabelEvent, whose lock
\* the playing thread has already.
ServeMove ==
  /\ player = "fill"
  /\ IF l2 > 0 THEN Move ELSE UNCHANGED <<given, l2, device, labels>>
  /\ pending' = (pending \/ (l2 > 0 /\ given + 1 \in Labelled))
  /\ bufferCS' = None
  /\ vectorCS' = None
  /\ player' = "idle"
  /\ UNCHANGED <<main, flags, ended, fired, toBeCalled, posted>>

Serve == ServeNothing \/ ServeEnd \/ ServeFull \/ ServeBegin \/ ServeMove

-----------------------------------------------------------------------------
(* The decode thread and the device.                                        *)

\* FillL2Buffer(false, true)
Decode ==
  /\ running
  /\ l2 < Units
  /\ main \notin {"reset", "fill", "vector", "started"}   \* L2BufferCS is held there
  /\ Render
  /\ UNCHANGED <<locks, pcs, flags, given, device, notices>>

\* The device has played a unit.
DevicePlays ==
  /\ dsPlaying /\ device > 0
  /\ device' = device - 1
  /\ UNCHANGED <<locks, pcs, flags, given, l2, ended, notices>>

-----------------------------------------------------------------------------
(* The main thread: what the script asks for.                               *)

\* Play: if(BufferPlaying) return; then StartPlay.
Play ==
  /\ main = "idle"
  /\ ~playing
  /\ main' = "start"
  /\ UNCHANGED <<locks, player, flags, stream, notices>>

\* StopPlay, called by Stop or by SetSamplePosition, and what either does next.
\* SetSamplePosition only restarts a sound that is playing.
StopPlay(next) ==
  /\ main = "idle"
  /\ bufferCS = None
  /\ next = "start" => playing /\ dsPlaying
  /\ playing' = FALSE /\ dsPlaying' = FALSE
  /\ device' = 0
  /\ main' = next
  /\ UNCHANGED <<locks, player, status, paused, callback, running, primary,
                 given, l2, ended, notices>>

\* StartPlay takes BufferCS.
StartLock ==
  /\ main = "start"
  /\ bufferCS = None
  /\ bufferCS' = "main"
  /\ main' = "reset"
  /\ UNCHANGED <<vectorCS, player, flags, stream, notices>>

\* CreateSoundBuffer resets the device and the labels; FillL2Buffer(true,
\* false) renders the first unit.
StartReset ==
  /\ main = "reset"
  /\ given' = 0 /\ l2' = 1 /\ device' = 0
  /\ ended' \in {MaxStream = 1, TRUE}
  /\ labels' = <<>> /\ fired' = <<>>
  /\ playing' = TRUE
  /\ main' = "fill"
  /\ UNCHANGED <<locks, player, status, dsPlaying, paused, callback, running,
                 primary, pending, toBeCalled, posted>>

\* FillBuffer(true, false): if (!TVPPrimarySoundBufferPlaying) return true;
\* else the first unit goes to the device.  A label in it needs
\* TVPReschedulePendingLabelEvent.
StartFill ==
  /\ main = "fill"
  /\ IF primary
       THEN Move /\ main' = IF 1 \in Labelled THEN "vector" ELSE "started"
       ELSE main' = "started" /\ UNCHANGED <<given, l2, device, labels>>
  /\ UNCHANGED <<locks, player, flags, ended, fired, pending, toBeCalled, posted>>

\* TVPReschedulePendingLabelEvent takes TVPWaveSoundBufferVectorCS.
StartReschedule ==
  /\ main = "vector"
  /\ vectorCS = None
  /\ pending' = TRUE
  /\ main' = "started"
  /\ UNCHANGED <<locks, player, flags, stream, labels, fired, toBeCalled, posted>>

\* The device is started, the locks are released, the playing thread and the
\* decode thread are told to go on, and the status is set.
StartEnd ==
  /\ main = "started"
  /\ bufferCS' = None
  /\ dsPlaying' = (dsPlaying \/ ~paused)
  /\ callback' = TRUE
  /\ running' = TRUE
  /\ status' = "play"
  /\ main' = "idle"
  /\ UNCHANGED <<vectorCS, player, playing, paused, primary, stream, notices>>

\* Stop, after StopPlay: ThreadCallbackEnabled = false, Interrupt, SetStatus.
StopEnd ==
  /\ main = "interrupt"
  /\ callback' = FALSE
  /\ running' = FALSE
  /\ status' = "stop"
  /\ main' = "idle"
  /\ UNCHANGED <<locks, player, playing, dsPlaying, paused, primary, stream, notices>>

SetPaused(b) ==
  /\ main = "idle"
  /\ bufferCS = None
  /\ paused' = b
  /\ UNCHANGED <<locks, pcs, status, playing, dsPlaying, callback, running,
                 primary, stream, notices>>

\* TimerBeatHandler: if(Status == ssPlay && !BufferPlaying)
TimerBeat ==
  /\ main = "idle"
  /\ status = "play" /\ ~playing
  /\ callback' = FALSE
  /\ running' = FALSE
  /\ status' = "stop"
  /\ UNCHANGED <<locks, pcs, playing, dsPlaying, paused, primary, stream, notices>>

\* UtilWndProc gets the posted event and fires the first "due" labels, those
\* whose time has come; the others stay pending.
Deliver(due) ==
  /\ main = "idle"
  /\ posted > 0
  /\ vectorCS = None /\ bufferCS = None
  /\ posted' = posted - 1
  /\ toBeCalled' = FALSE
  /\ IF playing /\ dsPlaying
       THEN /\ fired' = fired \o SubSeq(labels, 1, due)
            /\ labels' = SubSeq(labels, due + 1, Len(labels))
            /\ pending' = (due < Len(labels))
       ELSE pending' = FALSE /\ UNCHANGED <<labels, fired>>
  /\ UNCHANGED <<locks, pcs, flags, stream>>

Start == StartLock \/ StartReset \/ StartFill \/ StartReschedule \/ StartEnd

Script ==
  \/ Play
  \/ \E next \in {"start", "interrupt"} : StopPlay(next)
  \/ \E b \in PauseValues : SetPaused(b)

-----------------------------------------------------------------------------

Init ==
  /\ vectorCS = None /\ bufferCS = None
  /\ main = "idle" /\ player = "idle"
  /\ status = "stop"
  /\ playing = FALSE /\ dsPlaying = FALSE /\ paused = FALSE
  /\ callback = FALSE /\ running = FALSE /\ primary = FALSE
  /\ given = 0 /\ l2 = 0 /\ ended = FALSE /\ device = 0
  /\ labels = <<>> /\ fired = <<>>
  /\ pending = FALSE /\ toBeCalled = FALSE /\ posted = 0

Next ==
  \/ \E serve \in BOOLEAN : Round(serve)
  \/ Serve
  \/ Decode
  \/ DevicePlays
  \/ Script
  \/ Start
  \/ StopEnd
  \/ TimerBeat
  \/ \E due \in 0 .. Len(labels) : Deliver(due)

Spec == Init /\ [][Next]_vars

\* The playing thread serves the sound again and again and every thread goes
\* on, the device plays, the timer beats and posted events are delivered.
\* Nothing is assumed of the script.
Fairness ==
  /\ SF_vars(Round(TRUE)) /\ WF_vars(Serve)
  /\ WF_vars(DevicePlays) /\ WF_vars(Decode)
  /\ SF_vars(Start) /\ WF_vars(StopEnd)
  /\ SF_vars(TimerBeat)

FairSpec == Spec /\ Fairness

-----------------------------------------------------------------------------
(* Properties.                                                              *)

\* Every variable stays in its type.
TypeOK ==
  /\ vectorCS \in {None, "player"} /\ bufferCS \in {None, "main", "player"}
  /\ main \in MainLabels /\ player \in PlayerLabels
  /\ status \in {"stop", "play"}
  /\ playing \in BOOLEAN /\ dsPlaying \in BOOLEAN /\ paused \in BOOLEAN
  /\ callback \in BOOLEAN /\ running \in BOOLEAN /\ primary \in BOOLEAN
  /\ given \in 0 .. MaxStream /\ l2 \in 0 .. Units /\ ended \in BOOLEAN
  /\ device \in 0 .. DeviceUnits
  /\ labels \in Seq(Labelled) /\ fired \in Seq(Labelled)
  /\ pending \in BOOLEAN /\ toBeCalled \in BOOLEAN /\ posted \in Nat

\* No label of a unit moved to the device is lost, fired twice or fired out of
\* order: each is fired already or waits in LabelEventQueue, once, behind those
\* of the units before it.
LabelsKept ==
  LET all == fired \o labels
  IN  /\ \A i, j \in 1 .. Len(all) : i < j => all[i] < all[j]
      /\ {all[i] : i \in 1 .. Len(all)} = {u \in Labelled : u <= given}

\* The playing thread posts one event and no more until UtilWndProc has run,
\* and while WndProcToBeCalled blocks further events one is on its way.
OneEventPosted == posted = IF toBeCalled THEN 1 ELSE 0

\* A sound that has come to its end is reported as stopped, unless the script
\* restarts or pauses it.
EndIsReported ==
  (status = "play" /\ ended /\ main = "idle")
    ~> (status = "stop" \/ paused \/ main # "idle")

\* "re-schedule label events" (FillBuffer): the call by which StartPlay does so
\* returns.
RescheduleReturns == main = "vector" ~> main # "vector"
=============================================================================
