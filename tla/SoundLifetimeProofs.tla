------------------------ MODULE SoundLifetimeProofs ------------------------
(***************************************************************************)
(* Proofs about SoundLifetime, for any number of sounds, of playing        *)
(* threads and of events in the queue.                                     *)
(*                                                                         *)
(* Clear deletes the decoder and DestroySoundBuffer the device of a sound  *)
(* under no lock.  What keeps FillBuffer from using them is what comes     *)
(* before: StopPlay, under the lock that FillBuffer holds while it works,  *)
(* leaves the sound in a state in which FillBuffer returns at once         *)
(* (StopInv).                                                              *)
(***************************************************************************)
EXTENDS SoundLifetime, TLAPS

\* Where Execute holds TVPWaveSoundBufferVectorCS.
InRound == {"restore", "restoring", "post", "serve", "fill"}

\* The sounds that FillBuffer would work on.
Fillable == decoder \cap device \cap playing

\* The round of the playing thread: it holds the lock of the vector, and what
\* it has left to serve is in the vector.
RoundInv ==
  /\ player \in InRound => vectorCS = "player" /\ left \subseteq vector
  /\ player = "fill" =>
       /\ bufferCS = serving
       /\ serving \in vector \cap Fillable

\* The main thread works on a sound, and from StopPlay to the removal of the
\* sound FillBuffer would return at once.
StopInv ==
  /\ main # "idle" => target \in Sounds
  /\ main \in {"stopped", "clear", "destroy", "remove"} => target \notin Fillable

IInv == TypeOK /\ RoundInv /\ StopInv

-----------------------------------------------------------------------------
(* Type correctness.                                                        *)

\* What can be posted, and what is left when an event is taken.
LEMMA QueueType ==
  ASSUME NEW q \in Seq(1 .. MaxThreads), NEW t \in 1 .. MaxThreads
  PROVE  /\ Append(q, t) \in Seq(1 .. MaxThreads)
         /\ Len(Append(q, t)) = Len(q) + 1
         /\ q # <<>> => /\ Tail(q) \in Seq(1 .. MaxThreads)
                        /\ Len(Tail(q)) = Len(q) - 1
  OBVIOUS

\* A step of the script's calls keeps the types.
LEMMA MainCallType == IInv /\ MainCall => TypeOK'
<1> SUFFICES ASSUME IInv, MainCall PROVE TypeOK'
  OBVIOUS
<1> USE DEF IInv, TypeOK, MainLabels, PlayerLabels, sounds, object, pcs, playerPc
<1>1. ASSUME NEW s \in Sounds, Construct(s) PROVE TypeOK'
  BY <1>1 DEF Construct
<1>2. ASSUME NEW s \in Sounds, Play(s) PROVE TypeOK'
  BY <1>2, LifetimeAssumption DEF Play
<1>3. ASSUME NEW s \in Sounds, TimerBeat(s) PROVE TypeOK'
  BY <1>3 DEF TimerBeat
<1>4. ASSUME NEW s \in Sounds, NEW call \in {"stop", "open", "invalidate"},
             StopPlay(s, call)
      PROVE  TypeOK'
  BY <1>4 DEF StopPlay
<1> QED BY <1>1, <1>2, <1>3, <1>4 DEF MainCall

\* A step within a call of the main thread keeps the types.
LEMMA MainStepType == IInv /\ MainStep => TypeOK'
<1> SUFFICES ASSUME IInv, MainStep PROVE TypeOK'
  OBVIOUS
<1> USE DEF IInv, TypeOK, MainLabels, PlayerLabels, sounds, object, pcs, playerPc
<1>1. CASE StartPlay
  <2>1. pending' \in BOOLEAN
    BY <1>1 DEF StartPlay
  <2>2. target \in Sounds
    BY <1>1 DEF StartPlay, StopInv
  <2> QED BY <1>1, <2>1, <2>2 DEF StartPlay
<1>2. CASE StopEnd BY <1>2 DEF StopEnd
<1>3. CASE Clear BY <1>3 DEF Clear
<1>4. CASE Open BY <1>4 DEF Open, StopInv
<1>5. CASE Destroy BY <1>5 DEF Destroy
<1>6. CASE Remove
  <2>1. terminated' \in BOOLEAN /\ main' \in MainLabels
    BY <1>6 DEF Remove
  <2>2. vector' \subseteq Sounds
    BY <1>6 DEF Remove
  <2> QED BY <1>6, <2>1, <2>2 DEF Remove
<1>7. CASE Join
  <2>1. terminated' \in BOOLEAN /\ pending' \in BOOLEAN /\ toBeCalled' \in BOOLEAN
    BY <1>7 DEF Join
  <2>2. thread' \in 0 .. made' /\ (thread' = 0) = (player' = "none")
    BY <1>7, LifetimeAssumption DEF Join
  <2> QED BY <1>7, <2>1, <2>2 DEF Join
<1> QED BY <1>1, <1>2, <1>3, <1>4, <1>5, <1>6, <1>7 DEF MainStep

\* The delivery of an event keeps the types.
LEMMA DispatchType == IInv /\ Dispatch => TypeOK'
<1> SUFFICES ASSUME IInv, Dispatch PROVE TypeOK'
  OBVIOUS
<1>1. events' \in Seq(1 .. MaxThreads) /\ Len(events') <= QueueLimit
  <2>1. events # <<>> /\ events' = Tail(events)
    BY DEF Dispatch
  <2>2. events \in Seq(1 .. MaxThreads) /\ Len(events) <= QueueLimit
    BY DEF IInv, TypeOK
  <2>3. Len(events) \in Nat /\ QueueLimit \in Nat
    BY <2>2, LifetimeAssumption
  <2> QED BY <2>1, <2>2, <2>3
<1>2. pending' \in BOOLEAN /\ toBeCalled' \in BOOLEAN /\ crashed' \in BOOLEAN
  BY DEF Dispatch, UtilWndProc, IInv, TypeOK
<1> QED BY <1>1, <1>2 DEF Dispatch, IInv, TypeOK, sounds, pcs

\* A step of the playing thread keeps the types.
LEMMA ExecuteType == IInv /\ Execute => TypeOK'
<1> SUFFICES ASSUME IInv, Execute PROVE TypeOK'
  OBVIOUS
<1> USE DEF IInv, TypeOK, MainLabels, PlayerLabels, sounds, object, pcs, mainPc
<1>1. CASE Wake BY <1>1 DEF Wake
<1>2. CASE Lock BY <1>2 DEF Lock
<1>3. CASE RestorePlay
  <2>1. crashed' \in BOOLEAN
    BY <1>3 DEF RestorePlay
  <2> QED BY <1>3, <2>1 DEF RestorePlay
<1>4. CASE RestoreEnd BY <1>4 DEF RestoreEnd
<1>5. CASE FillEnd
  <2>1. pending' \in BOOLEAN
    BY <1>5 DEF FillEnd
  <2>2. playing' \subseteq Sounds
    BY <1>5 DEF FillEnd
  <2> QED BY <1>5, <2>1, <2>2 DEF FillEnd
<1>6. CASE Release BY <1>6 DEF Release
<1>7. ASSUME NEW serve \in BOOLEAN, Post(serve) PROVE TypeOK'
  <2>1. events' \in Seq(1 .. MaxThreads) /\ Len(events') <= QueueLimit
    <3>1. thread \in 1 .. MaxThreads
      BY <1>7, LifetimeAssumption DEF Post
    <3>2. events \in Seq(1 .. MaxThreads) /\ Len(events) \in Nat /\ QueueLimit \in Nat
      BY LifetimeAssumption
    <3>3. CASE events' = Append(events, thread) /\ Len(events) < QueueLimit
      BY <3>1, <3>2, <3>3, QueueType
    <3>4. CASE UNCHANGED events
      BY <3>4
    <3> QED BY <1>7, <3>3, <3>4 DEF Post
  <2>2. toBeCalled' \in BOOLEAN
    BY <1>7 DEF Post
  <2> QED BY <1>7, <2>1, <2>2 DEF Post
<1>8. ASSUME NEW s \in Sounds, RestoreTest(s) PROVE TypeOK'
  BY <1>8 DEF RestoreTest
<1>9. ASSUME NEW s \in Sounds, Serve(s) PROVE TypeOK'
  BY <1>9 DEF Serve
<1> QED BY <1>1, <1>2, <1>3, <1>4, <1>5, <1>6, <1>7, <1>8, <1>9 DEF Execute

-----------------------------------------------------------------------------
(* The round of the playing thread and the stopping of a sound.             *)

\* No call of the script takes a sound from a FillBuffer in progress, and
\* StopPlay leaves a sound that FillBuffer returns from.
LEMMA MainCallKeeps == IInv /\ MainCall => RoundInv' /\ StopInv'
<1> SUFFICES ASSUME IInv, MainCall PROVE RoundInv' /\ StopInv'
  OBVIOUS
<1> USE DEF IInv, TypeOK, RoundInv, StopInv, InRound, Fillable, sounds, object,
            pcs, playerPc, None
<1>1. ASSUME NEW s \in Sounds, Construct(s) PROVE RoundInv' /\ StopInv'
  BY <1>1 DEF Construct
<1>2. ASSUME NEW s \in Sounds, Play(s) PROVE RoundInv' /\ StopInv'
  BY <1>2 DEF Play
<1>3. ASSUME NEW s \in Sounds, TimerBeat(s) PROVE RoundInv' /\ StopInv'
  BY <1>3 DEF TimerBeat
<1>4. ASSUME NEW s \in Sounds, NEW call \in {"stop", "open", "invalidate"},
             StopPlay(s, call)
      PROVE  RoundInv' /\ StopInv'
  BY <1>4 DEF StopPlay
<1> QED BY <1>1, <1>2, <1>3, <1>4 DEF MainCall

\* What Clear and DestroySoundBuffer delete under no lock belongs to a sound
\* that was stopped before; the vector is not changed during a round.
LEMMA MainStepKeeps == IInv /\ MainStep => RoundInv' /\ StopInv'
<1> SUFFICES ASSUME IInv, MainStep PROVE RoundInv' /\ StopInv'
  OBVIOUS
<1> USE DEF IInv, TypeOK, RoundInv, StopInv, InRound, Fillable, sounds, object,
            pcs, playerPc, None
<1>1. CASE StartPlay BY <1>1 DEF StartPlay
<1>2. CASE StopEnd BY <1>2 DEF StopEnd
<1>3. CASE Clear BY <1>3 DEF Clear
<1>4. CASE Open BY <1>4 DEF Open
<1>5. CASE Destroy BY <1>5 DEF Destroy
<1>6. CASE Remove BY <1>6 DEF Remove
<1>7. CASE Join BY <1>7 DEF Join
<1> QED BY <1>1, <1>2, <1>3, <1>4, <1>5, <1>6, <1>7 DEF MainStep

\* A round begins with the lock and serves the sounds of the vector.
LEMMA ExecuteKeeps == IInv /\ Execute => RoundInv' /\ StopInv'
<1> SUFFICES ASSUME IInv, Execute PROVE RoundInv' /\ StopInv'
  OBVIOUS
<1> USE DEF IInv, TypeOK, RoundInv, StopInv, InRound, Fillable, sounds, object,
            pcs, mainPc, None
<1>1. CASE Wake BY <1>1 DEF Wake
<1>2. CASE Lock BY <1>2 DEF Lock
<1>3. CASE RestorePlay BY <1>3 DEF RestorePlay
<1>4. CASE RestoreEnd BY <1>4 DEF RestoreEnd
<1>5. CASE FillEnd BY <1>5 DEF FillEnd
<1>6. CASE Release BY <1>6 DEF Release
<1>7. ASSUME NEW serve \in BOOLEAN, Post(serve) PROVE RoundInv' /\ StopInv'
  BY <1>7 DEF Post
<1>8. ASSUME NEW s \in Sounds, RestoreTest(s) PROVE RoundInv' /\ StopInv'
  BY <1>8 DEF RestoreTest
<1>9. ASSUME NEW s \in Sounds, Serve(s) PROVE RoundInv' /\ StopInv'
  BY <1>9 DEF Serve
<1> QED BY <1>1, <1>2, <1>3, <1>4, <1>5, <1>6, <1>7, <1>8, <1>9 DEF Execute

-----------------------------------------------------------------------------

\* The inductive invariant holds in every reachable state, however many sounds
\* and playing threads there are.
THEOREM LifetimeInvariant == Spec => []IInv
<1>1. Init => IInv
  <2> SUFFICES ASSUME Init PROVE IInv
    OBVIOUS
  <2>1. RoundInv /\ StopInv
    BY DEF Init, RoundInv, StopInv, InRound
  <2>2. /\ terminated \in BOOLEAN /\ primary \in BOOLEAN /\ pending \in BOOLEAN
        /\ toBeCalled \in BOOLEAN /\ crashed \in BOOLEAN
    BY DEF Init
  <2>3. /\ thread \in 0 .. made /\ made \in 0 .. MaxThreads
        /\ events \in Seq(1 .. MaxThreads) /\ Len(events) <= QueueLimit
        /\ (thread = 0) = (player = "none")
    BY LifetimeAssumption DEF Init
  <2> QED BY <2>1, <2>2, <2>3 DEF Init, IInv, TypeOK, MainLabels, PlayerLabels
<1>2. IInv /\ [Next]_vars => IInv'
  <2> SUFFICES ASSUME IInv, [Next]_vars PROVE IInv'
    OBVIOUS
  <2>1. CASE MainCall
    BY <2>1, MainCallType, MainCallKeeps DEF IInv
  <2>2. CASE MainStep
    BY <2>2, MainStepType, MainStepKeeps DEF IInv
  <2>3. CASE Dispatch
    <3>1. RoundInv' /\ StopInv'
      BY <2>3 DEF Dispatch, IInv, RoundInv, StopInv, Fillable, sounds, pcs
    <3> QED BY <2>3, <3>1, DispatchType DEF IInv
  <2>4. CASE Execute
    BY <2>4, ExecuteType, ExecuteKeeps DEF IInv
  <2>5. CASE UNCHANGED vars
    BY <2>5 DEF vars, sounds, object, pcs, IInv, TypeOK, RoundInv, StopInv, Fillable
  <2> QED BY <2>1, <2>2, <2>3, <2>4, <2>5 DEF Next
<1> QED BY <1>1, <1>2, PTL DEF Spec

\* Whatever the main thread stops, reopens or invalidates while FillBuffer runs,
\* the sound, its decoder and its device live until FillBuffer returns, for any
\* number of sounds: Clear and DestroySoundBuffer need no lock of their own.
THEOREM FillIsSafe == Spec => []FillUsesLiveSound
<1>1. IInv => FillUsesLiveSound
  BY DEF IInv, RoundInv, Fillable, FillUsesLiveSound
<1> QED BY <1>1, LifetimeInvariant, PTL

\* The types hold, and the playing thread exists exactly as long as its object:
\* the destructor waits for it.
THEOREM LifetimeTypes == Spec => []TypeOK
<1>1. IInv => TypeOK
  BY DEF IInv
<1> QED BY <1>1, LifetimeInvariant, PTL

=============================================================================
