--------------------------- MODULE SoundLifetime ---------------------------
(***************************************************************************)
(* The life of sounds and of the playing thread (WaveImpl.cpp).  The main  *)
(* thread constructs, opens, plays, stops and invalidates sounds; the      *)
(* first Play makes the playing thread and the removal of the last sound   *)
(* deletes it.  The playing thread serves the sounds of the vector and     *)
(* posts events, which carry a pointer to its event queue, to the main     *)
(* thread (NativeEventQueue.cpp, SDLApplication.cpp).                      *)
(*                                                                         *)
(* TVPWaveSoundBufferVectorCS and the BufferCS of each sound are the only  *)
(* protection of the decoder and the device buffer of a sound.             *)
(***************************************************************************)
EXTENDS Integers, Sequences, FiniteSets

CONSTANTS
  Sounds,      \* the sound objects
  MaxThreads,  \* bound: how many playing threads are made
  QueueLimit   \* bound: how many events the SDL queue holds

ASSUME LifetimeAssumption ==
  /\ IsFiniteSet(Sounds)
  /\ MaxThreads \in Nat \ {0}
  /\ QueueLimit \in Nat \ {0}

None == "none"

VARIABLES
  vector,      \* TVPWaveSoundBufferVector
  decoder,     \* the sounds whose Decoder is not NULL
  device,      \* the sounds whose SoundBuffer is not NULL
  playing,     \* the sounds whose BufferPlaying is set
  callback,    \* the sounds whose ThreadCallbackEnabled is set
  vectorCS,    \* the holder of TVPWaveSoundBufferVectorCS
  bufferCS,    \* the sound whose BufferCS the playing thread holds
  thread,      \* TVPWaveSoundBufferThread: the how-manieth object, 0 for NULL
  made,        \* how many playing threads have been made
  terminated,  \* GetTerminated() of the playing thread
  primary,     \* TVPPrimarySoundBufferPlaying
  pending,     \* PendingLabelEventExists
  toBeCalled,  \* WndProcToBeCalled
  events,      \* the SDL queue: which thread's event queue each event points to
  player,      \* where the playing thread is
  left,        \* the sounds still to be served in this round
  serving,     \* the sound being served
  main,        \* where the main thread is
  target,      \* the sound the main thread works on
  then,        \* the call the main thread is in: "stop", "open" or "invalidate"
  crashed      \* the process died on a deleted object

sounds  == <<vector, decoder, device, playing, callback>>
object  == <<thread, made, terminated, pending, toBeCalled>>
pcs     == <<player, left, serving, main, target, then>>
vars    == <<sounds, vectorCS, bufferCS, object, primary, events, pcs, crashed>>

mainPc   == <<main, target, then>>
playerPc == <<player, left, serving>>

PlayerLabels == {"none", "wait", "lock", "restore", "restoring", "post",
                 "serve", "fill", "done"}
MainLabels   == {"idle", "start", "stopped", "clear", "open", "destroy",
                 "remove", "join"}

-----------------------------------------------------------------------------
(* The main thread.                                                         *)

\* The constructor: TVPAddWaveSoundBuffer
Construct(s) ==
  /\ main = "idle" /\ s \notin vector
  /\ vectorCS = None
  /\ vector' = vector \cup {s}
  /\ UNCHANGED <<decoder, device, playing, callback, vectorCS, bufferCS, object,
                 primary, events, pcs, crashed>>

\* Play: if(!Decoder) return; if(BufferPlaying) return;  StartPlay makes the
\* playing thread if there is none (TVPEnsureWaveSoundBufferWorking).
Play(s) ==
  /\ main = "idle" /\ s \in vector
  /\ s \in decoder /\ s \notin playing
  /\ thread = 0 => made < MaxThreads
  /\ IF thread = 0
       THEN /\ thread' = made + 1 /\ made' = made + 1
            /\ player' = "wait"
       ELSE UNCHANGED <<thread, made, player>>
  /\ main' = "start" /\ target' = s
  /\ UNCHANGED <<sounds, vectorCS, bufferCS, terminated, primary, pending,
                 toBeCalled, events, left, serving, then, crashed>>

\* The locked block of StartPlay and what follows it: the device buffer is
\* made; a label in the first unit may have to be scheduled.
StartPlay ==
  /\ main = "start"
  /\ bufferCS # target
  /\ \/ UNCHANGED pending
     \/ vectorCS = None /\ pending' = TRUE
  /\ device' = device \cup {target}
  /\ playing' = playing \cup {target}
  /\ callback' = callback \cup {target}
  /\ main' = "idle"
  /\ UNCHANGED <<vector, decoder, vectorCS, bufferCS, thread, made, terminated,
                 primary, toBeCalled, events, playerPc, target, then, crashed>>

\* Mutant: StopPlay does not take BufferCS.
StopPlayUnlocked(s, call) ==
  /\ main = "idle" /\ s \in vector
  /\ playing' = playing \ {s}
  /\ main' = "stopped" /\ target' = s /\ then' = call
  /\ UNCHANGED <<vector, decoder, device, callback, vectorCS, bufferCS, object,
                 primary, events, playerPc, crashed>>

\* Stop, Open or Invalidate begins with StopPlay:
\* if(!Decoder) return; if(!SoundBuffer) return; BufferPlaying = false
StopPlay(s, call) ==
  /\ main = "idle" /\ s \in vector
  /\ IF s \in decoder \cap device
       THEN bufferCS # s /\ playing' = playing \ {s}
       ELSE UNCHANGED playing
  /\ main' = "stopped" /\ target' = s /\ then' = call
  /\ UNCHANGED <<vector, decoder, device, callback, vectorCS, bufferCS, object,
                 primary, events, playerPc, crashed>>

\* ThreadCallbackEnabled = false
StopEnd ==
  /\ main = "stopped"
  /\ callback' = callback \ {target}
  /\ main' = IF then = "stop" THEN "idle" ELSE "clear"
  /\ UNCHANGED <<vector, decoder, device, playing, vectorCS, bufferCS, object,
                 primary, events, playerPc, target, then, crashed>>

\* The rest of Clear: delete Decoder; BufferPlaying = false
Clear ==
  /\ main = "clear"
  /\ decoder' = decoder \ {target}
  /\ playing' = playing \ {target}
  /\ main' = IF then = "open" THEN "open" ELSE "destroy"
  /\ UNCHANGED <<vector, device, callback, vectorCS, bufferCS, object, primary,
                 events, playerPc, target, then, crashed>>

\* TVPCreateWaveDecoder makes a decoder or throws.
Open ==
  /\ main = "open"
  /\ decoder' \in {decoder, decoder \cup {target}}
  /\ main' = "idle"
  /\ UNCHANGED <<vector, device, playing, callback, vectorCS, bufferCS, object,
                 primary, events, playerPc, target, then, crashed>>

\* DestroySoundBuffer
Destroy ==
  /\ main = "destroy"
  /\ device' = device \ {target}
  /\ playing' = playing \ {target}
  /\ main' = "remove"
  /\ UNCHANGED <<vector, decoder, callback, vectorCS, bufferCS, object, primary,
                 events, playerPc, target, then, crashed>>

\* Mutant: the destructor does not call Terminate.
RemoveLeaving ==
  /\ main = "remove"
  /\ vectorCS = None
  /\ vector' = vector \ {target}
  /\ main' = IF vector' = {} /\ thread # 0 THEN "join" ELSE "idle"
  /\ UNCHANGED <<decoder, device, playing, callback, vectorCS, bufferCS, object,
                 primary, events, playerPc, target, then, crashed>>

\* TVPRemoveWaveSoundBuffer; for the last sound the destructor of the playing
\* thread begins: Terminate(); Event.Set().
Remove ==
  /\ main = "remove"
  /\ vectorCS = None
  /\ vector' = vector \ {target}
  /\ IF vector' = {} /\ thread # 0
       THEN main' = "join" /\ terminated' = TRUE
       ELSE main' = "idle" /\ UNCHANGED terminated
  /\ UNCHANGED <<decoder, device, playing, callback, vectorCS, bufferCS, thread,
                 made, primary, pending, toBeCalled, events, playerPc, target,
                 then, crashed>>

\* WaitFor(), EventQueue.Deallocate(), which does nothing, and the object is
\* gone.
Join ==
  /\ main = "join"
  /\ player = "done"
  /\ thread' = 0 /\ terminated' = FALSE
  /\ pending' = FALSE /\ toBeCalled' = FALSE
  /\ player' = "none"
  /\ main' = "idle"
  /\ UNCHANGED <<sounds, vectorCS, bufferCS, made, primary, events, left,
                 serving, target, then, crashed>>

\* TimerBeatHandler of a sound that has finished
TimerBeat(s) ==
  /\ main = "idle" /\ s \in vector
  /\ s \in callback \ playing
  /\ callback' = callback \ {s}
  /\ UNCHANGED <<vector, decoder, device, playing, vectorCS, bufferCS, object,
                 primary, events, pcs, crashed>>

\* UtilWndProc of the living thread; labels may stay pending.
UtilWndProc ==
  /\ thread # 0
  /\ vectorCS = None
  /\ toBeCalled' = FALSE
  /\ pending' \in BOOLEAN
  /\ UNCHANGED crashed

\* sdl_process_events: HandleEvent calls the queue the event points to.  If
\* that queue is deleted, the process dies, nothing comes of it, or a thread
\* made in the same memory answers.
Dispatch ==
  /\ main = "idle"
  /\ events # <<>>
  /\ events' = Tail(events)
  /\ \/ UtilWndProc
     \/ /\ Head(events) # thread
        /\ crashed' \in BOOLEAN
        /\ UNCHANGED <<pending, toBeCalled>>
  /\ UNCHANGED <<sounds, vectorCS, bufferCS, thread, made, terminated, primary,
                 pcs>>

-----------------------------------------------------------------------------
(* The playing thread: Execute.                                             *)

\* Event.WaitFor(...) ends: by the event or the time-out.
Wake ==
  /\ player = "wait"
  /\ player' = IF terminated THEN "done" ELSE "lock"
  /\ UNCHANGED <<sounds, vectorCS, bufferCS, object, primary, events, left,
                 serving, mainPc, crashed>>

\* The "thread-protected" block begins.  The first time, playback is restored
\* on every sound that asks for it (SetBufferPaused).
Lock ==
  /\ player = "lock"
  /\ vectorCS = None
  /\ vectorCS' = "player"
  /\ primary' = TRUE
  /\ left' = IF primary THEN {} ELSE vector \cap callback
  /\ player' = "restore"
  /\ UNCHANGED <<sounds, bufferCS, object, events, serving, mainPc, crashed>>

\* SetBufferPaused(false): if (!Decoder || !SoundBuffer) return; and if the
\* sound plays ...
RestoreTest(s) ==
  /\ player = "restore" /\ s \in left
  /\ left' = left \ {s}
  /\ serving' = s
  /\ player' = IF s \in decoder \cap device \cap playing THEN "restoring" ELSE "restore"
  /\ UNCHANGED <<sounds, vectorCS, bufferCS, object, primary, events, mainPc, crashed>>

\* ... SoundBuffer->Play(), with no BufferCS
RestorePlay ==
  /\ player = "restoring"
  /\ player' = "restore"
  /\ crashed' \in (IF serving \in device THEN {FALSE} ELSE BOOLEAN)
  /\ UNCHANGED <<sounds, vectorCS, bufferCS, object, primary, events, left,
                 serving, mainPc>>

RestoreEnd ==
  /\ player = "restore" /\ left = {}
  /\ player' = "post"
  /\ UNCHANGED <<sounds, vectorCS, bufferCS, object, primary, events, left,
                 serving, mainPc, crashed>>

\* if(PendingLabelEventExists) if(!WndProcToBeCalled) PostEvent, which tries
\* again until the SDL queue has room.  The sounds are served if the last
\* time was 60 ms ago.
Post(serve) ==
  /\ player = "post"
  /\ IF pending /\ ~toBeCalled
       THEN /\ Len(events) < QueueLimit
            /\ events' = Append(events, thread)
            /\ toBeCalled' = TRUE
       ELSE UNCHANGED <<events, toBeCalled>>
  /\ left' = IF serve THEN vector ELSE {}
  /\ player' = "serve"
  /\ UNCHANGED <<sounds, vectorCS, bufferCS, thread, made, terminated, pending,
                 primary, serving, mainPc, crashed>>

\* if((*i)->ThreadCallbackEnabled) FillBuffer(): if(!SoundBuffer), if(!Decoder)
\* and if(!BufferPlaying) it returns, else it goes on with BufferCS.
Serve(s) ==
  /\ player = "serve" /\ s \in left
  /\ left' = left \ {s}
  /\ serving' = s
  /\ IF s \in callback \cap device \cap decoder \cap playing
       THEN bufferCS' = s /\ player' = "fill"
       ELSE UNCHANGED <<bufferCS, player>>
  /\ UNCHANGED <<sounds, vectorCS, object, primary, events, mainPc, crashed>>

\* FillBuffer returns: it may have found a label or the end of the sound.
FillEnd ==
  /\ player = "fill"
  /\ pending' \in {pending, TRUE}
  /\ playing' \in {playing, playing \ {serving}}
  /\ bufferCS' = None
  /\ player' = "serve"
  /\ UNCHANGED <<vector, decoder, device, callback, vectorCS, thread, made,
                 terminated, toBeCalled, primary, events, left, serving, mainPc,
                 crashed>>

Release ==
  /\ player = "serve" /\ left = {}
  /\ vectorCS' = None
  /\ player' = "wait"
  /\ UNCHANGED <<sounds, bufferCS, object, primary, events, left, serving,
                 mainPc, crashed>>

-----------------------------------------------------------------------------

Init ==
  /\ vector = {} /\ decoder = {} /\ device = {} /\ playing = {} /\ callback = {}
  /\ vectorCS = None /\ bufferCS = None
  /\ thread = 0 /\ made = 0 /\ terminated = FALSE
  /\ primary = FALSE /\ pending = FALSE /\ toBeCalled = FALSE
  /\ events = <<>>
  /\ player = "none" /\ left = {} /\ serving = None
  /\ main = "idle" /\ target = None /\ then = "stop"
  /\ crashed = FALSE

MainCall ==
  \/ \E s \in Sounds : Construct(s) \/ Play(s) \/ TimerBeat(s)
  \/ \E s \in Sounds, call \in {"stop", "open", "invalidate"} : StopPlay(s, call)

MainStep == StartPlay \/ StopEnd \/ Clear \/ Open \/ Destroy \/ Remove \/ Join

Execute ==
  \/ Wake \/ Lock \/ RestorePlay \/ RestoreEnd \/ FillEnd \/ Release
  \/ \E serve \in BOOLEAN : Post(serve)
  \/ \E s \in Sounds : RestoreTest(s) \/ Serve(s)

Next == ~crashed /\ (MainCall \/ MainStep \/ Dispatch \/ Execute)

Spec == Init /\ [][Next]_vars

\* Both threads go on; the main thread gets a lock that is released again and
\* again.  Nothing is assumed of what the script calls.
Fairness == SF_vars(~crashed /\ MainStep) /\ WF_vars(~crashed /\ Execute)

FairSpec == Spec /\ Fairness

-----------------------------------------------------------------------------
(* Properties.                                                              *)

\* Every variable stays in its type, and there is a thread if and only if
\* there is an object for it.
TypeOK ==
  /\ vector \subseteq Sounds /\ decoder \subseteq Sounds /\ device \subseteq Sounds
  /\ playing \subseteq Sounds /\ callback \subseteq Sounds
  /\ vectorCS \in {None, "player"} /\ bufferCS \in Sounds \cup {None}
  /\ thread \in 0 .. made /\ made \in 0 .. MaxThreads
  /\ terminated \in BOOLEAN /\ primary \in BOOLEAN
  /\ pending \in BOOLEAN /\ toBeCalled \in BOOLEAN
  /\ events \in Seq(1 .. MaxThreads) /\ Len(events) <= QueueLimit
  /\ player \in PlayerLabels /\ left \subseteq Sounds
  /\ serving \in Sounds \cup {None}
  /\ main \in MainLabels /\ target \in Sounds \cup {None}
  /\ then \in {"stop", "open", "invalidate"} /\ crashed \in BOOLEAN
  /\ (thread = 0) = (player = "none")

\* Whatever the main thread stops, reopens or invalidates meanwhile, the
\* decoder and the device that FillBuffer works on exist, and so does the sound.
FillUsesLiveSound ==
  player = "fill" => serving \in vector \cap decoder \cap device

\* Opening, playing, stopping and deleting sounds never hangs: neither on the
\* locks nor on the end of the playing thread.
MainReturns == main # "idle" ~> (main = "idle" \/ crashed)
=============================================================================
