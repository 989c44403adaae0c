-------------------------- MODULE MainThreadProofs --------------------------
(***************************************************************************)
(* Proofs about what runs in the main thread between the calls of SDL:     *)
(* its loop and the saving of files (MainLoop), the thread that tells it   *)
(* when continuous handlers are due (ContinuousLimit), and the windows     *)
(* (WindowLife).  The three specifications share no variable.              *)
(*                                                                         *)
(* MainLoop, for any set of files, any number of changes and any nesting   *)
(* of the loop; ContinuousLimit, for any resolution of the clock and any   *)
(* intervals; WindowLife, for any set of forms, any number of calls that   *)
(* have not returned, and, for the list of forms, any script.              *)
(***************************************************************************)
EXTENDS MainLoop, ContinuousLimit, WindowLife,
        FiniteSetTheorems, SequenceTheorems, TLAPS

-----------------------------------------------------------------------------
-----------------------------------------------------------------------------
(* MainLoop.                                                                *)

LoopInv == LoopTypeOK /\ NothingForgotten

-----------------------------------------------------------------------------
(* Type correctness.                                                        *)

\* The script keeps the types.
LEMMA ScriptType == LoopTypeOK /\ LoopScript => LoopTypeOK'
<1> SUFFICES ASSUME LoopTypeOK, LoopScript PROVE LoopTypeOK'
  OBVIOUS
<1> USE MainLoopAssumption DEF LoopTypeOK, Running, Change, streams, sync, loop
<1>1. ASSUME NEW f \in Files, OpenFile(f) PROVE LoopTypeOK'
  BY <1>1 DEF OpenFile
<1>2. ASSUME NEW f \in Files, WriteFile(f) PROVE LoopTypeOK'
  BY <1>2 DEF WriteFile
<1>3. ASSUME NEW f \in Files, CloseFile(f) PROVE LoopTypeOK'
  <2>1. should' \in BOOLEAN
    BY <1>3 DEF CloseFile
  <2>2. unsaved' \subseteq Files
    BY <1>3 DEF CloseFile
  <2> QED BY <1>3, <2>1, <2>2 DEF CloseFile
<1>4. ASSUME NEW f \in Files, RemoveFile(f) PROVE LoopTypeOK'
  BY <1>4 DEF RemoveFile
<1>5. CASE TerminateAsync
  BY <1>5 DEF TerminateAsync
<1> QED BY <1>1, <1>2, <1>3, <1>4, <1>5 DEF LoopScript

\* Starting a synchronisation keeps the types: none is in progress.
LEMMA SyncType ==
  ASSUME LoopTypeOK, Sync
  PROVE  /\ should' \in BOOLEAN /\ finished' \in BOOLEAN
         /\ syncs' = IF finished' THEN 0 ELSE 1
         /\ toCopy' \subseteq Files /\ (finished' => toCopy' = {})
         /\ unsaved' \subseteq Files
<1>1. CASE should /\ finished
  <2>1. should' \in BOOLEAN /\ finished' \in BOOLEAN
    BY <1>1 DEF Sync
  <2>2. ~finished' /\ syncs' = 1
    BY <1>1 DEF Sync, LoopTypeOK
  <2>3. toCopy' \subseteq Files /\ unsaved' \subseteq Files
    BY <1>1 DEF Sync, Different
  <2> QED BY <2>1, <2>2, <2>3
<1>2. CASE ~(should /\ finished)
  BY <1>2 DEF LoopTypeOK, Sync, sync
<1> QED BY <1>1, <1>2

\* The loop keeps the types.
LEMMA LoopType == LoopTypeOK /\ Loop => LoopTypeOK'
<1> SUFFICES ASSUME LoopTypeOK, Loop PROVE LoopTypeOK'
  OBVIOUS
<1>1. CASE Enter
  BY <1>1, MainLoopAssumption DEF LoopTypeOK, Enter, streams, sync
<1>2. CASE EnterTerminated
  BY <1>2 DEF LoopTypeOK, EnterTerminated, streams, sync
<1>3. CASE Leave
  <2>1. control' \in BOOLEAN /\ ended' \in BOOLEAN
    <3>1. (tarminate /\ depth = 1) \in BOOLEAN
      OBVIOUS
    <3> QED BY <1>3, <3>1 DEF Leave, ReturnsTo, LoopTypeOK
  <2>2. depth' \in 0 .. MaxNesting
    BY <1>3, MainLoopAssumption DEF Leave, Running, LoopTypeOK
  <2>3. Sync
    BY <1>3 DEF Leave
  <2> QED BY <1>3, <2>1, <2>2, <2>3, SyncType DEF Leave, LoopTypeOK, streams
<1>4. CASE Throw
  <2>1. ended' \in BOOLEAN
    BY <1>4 DEF Throw, ReturnsTo, LoopTypeOK
  <2>2. depth' \in 0 .. MaxNesting
    BY <1>4, MainLoopAssumption DEF Throw, Running, LoopTypeOK
  <2> QED BY <1>4, <2>1, <2>2 DEF Throw, LoopTypeOK, streams, sync
<1>5. CASE Quit
  BY <1>5 DEF LoopTypeOK, Quit, streams, sync
<1> QED BY <1>1, <1>2, <1>3, <1>4, <1>5 DEF Loop

\* FS.syncfs keeps the types.
LEMMA SyncFSType == LoopTypeOK /\ SyncFS => LoopTypeOK'
<1> SUFFICES ASSUME LoopTypeOK, SyncFS PROVE LoopTypeOK'
  OBVIOUS
<1> USE DEF LoopTypeOK, streams, loop
<1>1. ASSUME NEW f \in Files, Copy(f) PROVE LoopTypeOK'
  BY <1>1 DEF Copy
<1>2. CASE Finish
  BY <1>2 DEF Finish
<1>3. CASE Fail
  BY <1>3 DEF Fail
<1> QED BY <1>1, <1>2, <1>3 DEF SyncFS

-----------------------------------------------------------------------------
(* No change is forgotten.                                                  *)

\* A change is made while the file is open, and closing or removing a file
\* asks for a synchronisation.
LEMMA ScriptForgetsNothing == LoopInv /\ LoopScript => NothingForgotten'
<1> SUFFICES ASSUME LoopInv, LoopScript,
                    NEW g \in Files, g \notin opened', mem'[g] # store'[g]
             PROVE  should' \/ g \in toCopy' \cup unsaved'
  BY DEF NothingForgotten
<1> USE DEF LoopInv, LoopTypeOK, NothingForgotten, Change, streams, sync, loop
<1>1. ASSUME NEW f \in Files, OpenFile(f) PROVE should' \/ g \in toCopy' \cup unsaved'
  BY <1>1 DEF OpenFile
<1>2. ASSUME NEW f \in Files, WriteFile(f) PROVE should' \/ g \in toCopy' \cup unsaved'
  BY <1>2 DEF WriteFile
<1>3. ASSUME NEW f \in Files, CloseFile(f) PROVE should' \/ g \in toCopy' \cup unsaved'
  <2>1. CASE g = f
    BY <1>3, <2>1 DEF CloseFile
  <2>2. CASE g # f
    BY <1>3, <2>2 DEF CloseFile
  <2> QED BY <2>1, <2>2
<1>4. ASSUME NEW f \in Files, RemoveFile(f) PROVE should' \/ g \in toCopy' \cup unsaved'
  BY <1>4 DEF RemoveFile
<1>5. CASE TerminateAsync
  BY <1>5 DEF TerminateAsync
<1> QED BY <1>1, <1>2, <1>3, <1>4, <1>5 DEF LoopScript

\* Run clears should_sync_savedata_ only together with a start that finds every
\* file that differs.
LEMMA LoopForgetsNothing == LoopInv /\ Loop => NothingForgotten'
<1> SUFFICES ASSUME LoopInv, Loop PROVE NothingForgotten'
  OBVIOUS
<1> USE DEF LoopInv, NothingForgotten, streams, sync
<1>1. CASE Enter BY <1>1 DEF Enter
<1>2. CASE EnterTerminated BY <1>2 DEF EnterTerminated
<1>3. CASE Leave
  <2>1. CASE should /\ finished
    BY <1>3, <2>1 DEF Leave, Sync, Different
  <2>2. CASE ~(should /\ finished)
    BY <1>3, <2>2 DEF Leave, Sync
  <2> QED BY <2>1, <2>2
<1>4. CASE Throw BY <1>4 DEF Throw
<1>5. CASE Quit BY <1>5 DEF Quit
<1> QED BY <1>1, <1>2, <1>3, <1>4, <1>5 DEF Loop

\* A file leaves the list of FS.syncfs when it is copied or given up.
LEMMA SyncFSForgetsNothing == LoopInv /\ SyncFS => NothingForgotten'
<1> SUFFICES ASSUME LoopInv, SyncFS PROVE NothingForgotten'
  OBVIOUS
<1> USE DEF LoopInv, LoopTypeOK, NothingForgotten, streams, loop
<1>1. ASSUME NEW f \in Files, Copy(f) PROVE NothingForgotten'
  BY <1>1 DEF Copy
<1>2. CASE Finish BY <1>2 DEF Finish
<1>3. CASE Fail BY <1>3 DEF Fail
<1> QED BY <1>1, <1>2, <1>3 DEF SyncFS

-----------------------------------------------------------------------------

\* The inductive invariant holds in every reachable state.
THEOREM LoopInvariant == LoopSpec => []LoopInv
<1>1. LoopInit => LoopInv
  <2> SUFFICES ASSUME LoopInit PROVE LoopInv
    OBVIOUS
  <2>1. LoopTypeOK
    <3>1. /\ should \in BOOLEAN /\ finished \in BOOLEAN
          /\ tarminate \in BOOLEAN /\ control \in BOOLEAN /\ ended \in BOOLEAN
      BY DEF LoopInit
    <3>2. mem \in [Files -> 0 .. MaxChanges] /\ store \in [Files -> 0 .. MaxChanges]
      BY MainLoopAssumption DEF LoopInit
    <3> QED BY <3>1, <3>2, MainLoopAssumption DEF LoopInit, LoopTypeOK
  <2>2. NothingForgotten
    BY DEF LoopInit, NothingForgotten
  <2> QED BY <2>1, <2>2 DEF LoopInv
<1>2. LoopInv /\ [LoopNext]_loopVars => LoopInv'
  <2> SUFFICES ASSUME LoopInv, [LoopNext]_loopVars PROVE LoopInv'
    OBVIOUS
  <2>1. CASE LoopScript
    BY <2>1, ScriptType, ScriptForgetsNothing DEF LoopInv
  <2>2. CASE Loop
    BY <2>2, LoopType, LoopForgetsNothing DEF LoopInv
  <2>3. CASE SyncFS
    BY <2>3, SyncFSType, SyncFSForgetsNothing DEF LoopInv
  <2>4. CASE UNCHANGED loopVars
    BY <2>4 DEF loopVars, streams, sync, loop, LoopInv, LoopTypeOK, NothingForgotten
  <2> QED BY <2>1, <2>2, <2>3, <2>4 DEF LoopNext
<1> QED BY <1>1, <1>2, PTL DEF LoopSpec

\* What a script has written and is not in the store is being copied, or will
\* be, for any number of files: no write is lost between SyncSavedata and the
\* clearing of its flag.
THEOREM ForgetsNothing == LoopSpec => []NothingForgotten
<1>1. LoopInv => NothingForgotten
  BY DEF LoopInv
<1> QED BY <1>1, LoopInvariant, PTL

\* Run never starts a second FS.syncfs while one is in progress, however deep
\* process_events is nested.
THEOREM LoopTypes == LoopSpec => []LoopTypeOK
<1>1. LoopInv => LoopTypeOK
  BY DEF LoopInv
<1> QED BY <1>1, LoopInvariant, PTL

-----------------------------------------------------------------------------
-----------------------------------------------------------------------------
(* ContinuousLimit.                                                         *)

\* While the thread posts, with CS, the tick it posts for stays in the past.
DueInv == thread = "post" => enabled /\ nextTick <= cur

LimitInv == LimitTypeOK /\ DueInv /\ SleepsUntilNext

-----------------------------------------------------------------------------
(* Arithmetic.                                                              *)

\* What division by a positive number is.
LEMMA Division ==
  ASSUME NEW a \in Nat, NEW b \in Nat \ {0}
  PROVE  /\ a \div b \in Nat
         /\ (a \div b) * b <= a
         /\ a < (a \div b) * b + b
<1>1. a \div b \in Nat
  OBVIOUS
<1>2. b * (a \div b) <= a /\ a < b * (a \div b) + b
  OBVIOUS
<1> DEFINE q == a \div b
<1> HIDE DEF q
<1>3. q \in Nat /\ b * q <= a /\ a < b * q + b
  BY <1>1, <1>2 DEF q
<1>4. b * q = q * b
  BY <1>3
<1>5. q \in Nat /\ q * b <= a /\ a < q * b + b
  BY <1>3, <1>4
<1> QED BY <1>5 DEF q

\* The catch-up loop ends in the future.
LEMMA CatchUpPasses ==
  ASSUME NEW from \in Nat, NEW to \in Nat, from <= to, interval \in Nat \ {0}
  PROVE  CatchUp(from, to) \in Nat /\ CatchUp(from, to) > to
<1> DEFINE q == (to - from) \div interval
<1>1. to - from \in Nat
  OBVIOUS
<1>2. q \in Nat /\ to - from < q * interval + interval
  BY <1>1, Division
<1> HIDE DEF q
<1>3. q * interval \in Nat /\ (q + 1) * interval = q * interval + interval
  BY <1>2
<1>4. from + (q + 1) * interval \in Nat /\ from + (q + 1) * interval > to
  BY <1>2, <1>3
<1> QED BY <1>4 DEF CatchUp, q

\* The time to sleep, rounded up.
LEMMA RoundUp ==
  ASSUME NEW d \in Nat \ {0}
  PROVE  LET s == (d + Frac - 1) \div Frac
         IN  s \in Nat /\ s > 0 /\ d \in (s - 1) * Frac + 1 .. s * Frac
<1> DEFINE s == (d + Frac - 1) \div Frac
<1>1. Frac \in Nat \ {0} /\ d + Frac - 1 \in Nat
  BY LimitAssumption
<1>2. s \in Nat /\ s * Frac <= d + Frac - 1 /\ d + Frac - 1 < s * Frac + Frac
  BY <1>1, Division
<1> HIDE DEF s
<1>3. s * Frac \in Nat /\ (s - 1) * Frac = s * Frac - Frac
  BY <1>1, <1>2
<1>4. s # 0
  <2>1. SUFFICES ASSUME s = 0 PROVE FALSE
    OBVIOUS
  <2>2. s * Frac = 0
    BY <1>1, <2>1
  <2> QED BY <1>1, <1>2, <2>2
<1>5. s > 0 /\ d \in (s - 1) * Frac + 1 .. s * Frac
  BY <1>1, <1>2, <1>3, <1>4
<1> QED BY <1>2, <1>5 DEF s

\* A tick in the future makes a sleep of the right length.
LEMMA SleepUntilType ==
  ASSUME LimitTypeOK, NEW t \in Nat, t > cur, SleepUntil(t)
  PROVE  /\ sleep' \in Nat /\ wake' \in Nat
         /\ sleep' > 0 /\ t - cur \in (sleep' - 1) * Frac + 1 .. sleep' * Frac
<1>1. cur \in Nat /\ now \in Nat
  BY LimitAssumption DEF LimitTypeOK
<1>2. t - cur \in Nat \ {0}
  BY <1>1
<1>3. sleep' = (t - cur + Frac - 1) \div Frac
  BY DEF SleepUntil
<1>4. sleep' \in Nat /\ sleep' > 0 /\ t - cur \in (sleep' - 1) * Frac + 1 .. sleep' * Frac
  BY <1>2, <1>3, RoundUp
<1>5. wake' \in Nat
  BY <1>1, <1>4 DEF SleepUntil
<1> QED BY <1>4, <1>5

\* The clock in ticks.
LEMMA ClockType ==
  ASSUME LimitTypeOK
  PROVE  now * Frac \in 0 .. MaxTime * Frac /\ now * Frac + 1 \in Nat
<1>1. now \in Nat /\ MaxTime \in Nat /\ Frac \in Nat /\ now <= MaxTime
  BY LimitAssumption DEF LimitTypeOK
<1>2. MaxTime * Frac = now * Frac + (MaxTime - now) * Frac
  BY <1>1
<1>3. (MaxTime - now) * Frac \in Nat /\ now * Frac \in Nat
  BY <1>1
<1> QED BY <1>1, <1>2, <1>3

-----------------------------------------------------------------------------

\* A step of the limit thread keeps the invariant.
LEMMA ExecuteKeeps == LimitInv /\ Execute => LimitInv'
<1> SUFFICES ASSUME LimitInv, Execute PROVE LimitInv'
  OBVIOUS
<1> USE DEF LimitInv, limits
<1>1. CASE ReadClock
  <2>1. cur' \in 0 .. MaxTime * Frac
    BY <1>1, ClockType DEF ReadClock
  <2> QED BY <1>1, <2>1 DEF ReadClock, LimitTypeOK, DueInv, SleepsUntilNext
<1>2. CASE Due
  <2>1. slot' \in Nat
    <3>1. cur \in Nat /\ interval \in Nat \ {0}
      BY LimitAssumption DEF LimitTypeOK
    <3> QED BY <1>2, <3>1, Division DEF Due
  <2> QED BY <1>2, <2>1 DEF Due, LimitTypeOK, DueInv, SleepsUntilNext
<1>3. CASE NotDue
  <2>1. nextTick \in Nat /\ nextTick > cur /\ SleepUntil(nextTick)
    BY <1>3 DEF NotDue, LimitTypeOK
  <2>2. /\ sleep' \in Nat /\ wake' \in Nat
        /\ sleep' > 0 /\ nextTick - cur \in (sleep' - 1) * Frac + 1 .. sleep' * Frac
    BY <2>1, SleepUntilType
  <2>3. thread' = "sleep"
    BY <2>1 DEF SleepUntil
  <2>4. LimitTypeOK'
    BY <1>3, <2>2, <2>3 DEF NotDue, LimitTypeOK
  <2>5. DueInv' /\ SleepsUntilNext'
    BY <1>3, <2>2, <2>3 DEF NotDue, DueInv, SleepsUntilNext
  <2> QED BY <2>4, <2>5
<1>4. CASE SleepDisabled
  <2>1. sleep' \in Nat /\ wake' \in Nat
    BY <1>4, LimitAssumption DEF SleepDisabled, Disabled, LimitTypeOK
  <2> QED BY <1>4, <2>1 DEF SleepDisabled, LimitTypeOK, DueInv, SleepsUntilNext
<1>5. CASE Post
  <2>1. cur \in Nat /\ nextTick \in Nat /\ nextTick <= cur /\ interval \in Nat \ {0}
    BY <1>5, LimitAssumption DEF Post, LimitTypeOK, DueInv
  <2>2. nextTick' \in Nat /\ nextTick' > cur
    BY <1>5, <2>1, CatchUpPasses DEF Post
  <2>3. SleepUntil(nextTick')
    BY <1>5 DEF Post
  <2>4. /\ sleep' \in Nat /\ wake' \in Nat
        /\ sleep' > 0 /\ nextTick' - cur \in (sleep' - 1) * Frac + 1 .. sleep' * Frac
    BY <2>2, <2>3, SleepUntilType
  <2>5. thread' = "sleep"
    BY <2>3 DEF SleepUntil
  <2>6. queued' \in 0 .. QueueLimit
    BY <1>5, LimitAssumption DEF Post, LimitTypeOK
  <2>7. LimitTypeOK'
    BY <1>5, <2>2, <2>4, <2>5, <2>6 DEF Post, LimitTypeOK
  <2>8. DueInv' /\ SleepsUntilNext'
    BY <1>5, <2>4, <2>5 DEF Post, DueInv, SleepsUntilNext
  <2> QED BY <2>7, <2>8
<1>6. CASE Wake
  BY <1>6 DEF Wake, LimitTypeOK, DueInv, SleepsUntilNext
<1> QED BY <1>1, <1>2, <1>3, <1>4, <1>5, <1>6 DEF Execute

\* A step of the main thread or of the clock keeps the invariant: SetEnabled
\* waits for CS, and wakes the thread when it changes the tick.
LEMMA MainKeeps ==
  LimitInv /\ (Call \/ LimitScript \/ Deliver \/ Dispatch \/ Tick) => LimitInv'
<1> SUFFICES ASSUME LimitInv, Call \/ LimitScript \/ Deliver \/ Dispatch \/ Tick PROVE LimitInv'
  OBVIOUS
<1> USE DEF LimitInv, limits, execution
<1>1. CASE Enable
  <2>1. nextTick' \in Nat
    <3>1. now * Frac + 1 \in Nat /\ interval \in Nat \ {0}
      BY ClockType DEF LimitTypeOK
    <3>2. (now * Frac + 1) \div interval \in Nat
      BY <3>1, Division
    <3>3. nextTick' = ((now * Frac + 1) \div interval) * interval
      BY <1>1 DEF Enable
    <3> DEFINE q == (now * Frac + 1) \div interval
    <3> HIDE DEF q
    <3>4. q \in Nat /\ nextTick' = q * interval
      BY <3>2, <3>3 DEF q
    <3> QED BY <3>1, <3>4
  <2> QED BY <1>1, <2>1 DEF Enable, LimitTypeOK, DueInv, SleepsUntilNext
<1>2. CASE Disable
  BY <1>2 DEF Disable, LimitTypeOK, DueInv, SleepsUntilNext
<1>3. CASE Join
  BY <1>3 DEF Join, LimitTypeOK, DueInv, SleepsUntilNext
<1>4. ASSUME NEW i \in Intervals, Begin(i) PROVE LimitInv'
  <2>1. interval' \in Nat \ {0} /\ begins' \in 0 .. MaxBegins
    BY <1>4, LimitAssumption DEF Begin, LimitTypeOK
  <2> QED BY <1>4, <2>1 DEF Begin, LimitTypeOK, DueInv, SleepsUntilNext
<1>5. CASE End
  BY <1>5 DEF End, LimitTypeOK, DueInv, SleepsUntilNext
<1>6. CASE Exit
  BY <1>6 DEF Exit, LimitTypeOK, DueInv, SleepsUntilNext
<1>7. CASE Deliver
  BY <1>7 DEF Deliver, LimitTypeOK, DueInv, SleepsUntilNext
<1>8. CASE Dispatch
  <2>1. queued' \in 0 .. QueueLimit
    BY <1>8, LimitAssumption DEF Dispatch, LimitTypeOK
  <2> QED BY <1>8, <2>1 DEF Dispatch, LimitTypeOK, DueInv, SleepsUntilNext
<1>9. CASE Tick
  <2>1. now' \in 0 .. MaxTime
    BY <1>9, LimitAssumption DEF Tick, LimitTypeOK
  <2> QED BY <1>9, <2>1 DEF Tick, LimitTypeOK, DueInv, SleepsUntilNext
<1> QED BY <1>1, <1>2, <1>3, <1>4, <1>5, <1>6, <1>7, <1>8, <1>9 DEF Call, LimitScript

\* The inductive invariant holds in every reachable state.
THEOREM LimitInvariant == LimitSpec => []LimitInv
<1>1. LimitInit => LimitInv
  <2> SUFFICES ASSUME LimitInit PROVE LimitInv
    OBVIOUS
  <2>1. /\ enabled \in BOOLEAN /\ signalled \in BOOLEAN /\ terminated \in BOOLEAN
        /\ flag \in BOOLEAN
    BY DEF LimitInit
  <2>2. cur \in 0 .. MaxTime * Frac
    <3>1. MaxTime * Frac \in Nat
      BY LimitAssumption
    <3> QED BY <3>1 DEF LimitInit
  <2>3. DueInv /\ SleepsUntilNext
    BY DEF LimitInit, DueInv, SleepsUntilNext
  <2> QED BY <2>1, <2>2, <2>3, LimitAssumption DEF LimitInit, LimitInv, LimitTypeOK
<1>2. LimitInv /\ [LimitNext]_limitVars => LimitInv'
  <2> SUFFICES ASSUME LimitInv, [LimitNext]_limitVars PROVE LimitInv'
    OBVIOUS
  <2>1. CASE Execute
    BY <2>1, ExecuteKeeps
  <2>2. CASE Call \/ LimitScript \/ Deliver \/ Dispatch \/ Tick
    BY <2>2, MainKeeps
  <2>3. CASE UNCHANGED limitVars
    BY <2>3 DEF limitVars, limits, execution, LimitInv, LimitTypeOK, DueInv, SleepsUntilNext
  <2> QED BY <2>1, <2>2, <2>3 DEF LimitNext
<1> QED BY <1>1, <1>2, PTL DEF LimitSpec

\* Type correctness, for every interval, resolution of the clock and bound.
THEOREM LimitTypes == LimitSpec => []LimitTypeOK
<1>1. LimitInv => LimitTypeOK
  BY DEF LimitInv
<1> QED BY <1>1, LimitInvariant, PTL

\* The enabled thread sleeps to the next tick and less than a millisecond
\* longer, or it has been woken, for every resolution of the clock and every
\* interval, although Execute reads the clock and SetInterval writes Interval
\* with no lock.
THEOREM SleepIsRight == LimitSpec => []SleepsUntilNext
<1>1. LimitInv => SleepsUntilNext
  BY DEF LimitInv
<1> QED BY <1>1, LimitInvariant, PTL

-----------------------------------------------------------------------------
(* The limit.                                                               *)

\* Outside SetInterval and SetEnabled the next tick is a multiple of Interval.
TickInv == mainAt # "enable" => \E k \in Nat : nextTick = k * interval

\* The next tick is after the interval in which the flag was set last, but for
\* the thread that has just set it.
SlotInv ==
  mainAt # "enable" /\ slot # -1 =>
    IF thread = "post" THEN slot = cur \div interval
                       ELSE nextTick >= (slot + 1) * interval

KInv == LimitInv /\ TickInv /\ SlotInv

\* A multiple above another one is at least the following one.
LEMMA NextMultiple ==
  ASSUME NEW a \in Nat, NEW b \in Nat, NEW c \in Nat \ {0}, a * c > b * c
  PROVE  a * c >= (b + 1) * c
<1>1. a > b
  <2>1. SUFFICES ASSUME a <= b PROVE FALSE
    OBVIOUS
  <2>2. b * c = a * c + (b - a) * c /\ (b - a) * c \in Nat
    BY <2>1
  <2> QED BY <2>2
<1>2. a * c = (b + 1) * c + (a - b - 1) * c /\ (a - b - 1) * c \in Nat
  BY <1>1
<1>3. a * c \in Nat /\ (b + 1) * c \in Nat
  OBVIOUS
<1> QED BY <1>2, <1>3

\* A tick in a later interval is divided to a larger number.
LEMMA LaterInterval ==
  ASSUME NEW a \in Nat, NEW b \in Nat, NEW c \in Nat \ {0}, a >= (b + 1) * c
  PROVE  a \div c # b
<1>1. a \div c \in Nat /\ a < (a \div c) * c + c
  BY Division
<1>2. (b + 1) * c = b * c + c
  OBVIOUS
<1> QED BY <1>1, <1>2

\* The catch-up loop goes from a multiple to a multiple.
LEMMA CatchUpMultiple ==
  ASSUME NEW k \in Nat, interval \in Nat \ {0}, NEW to \in Nat, k * interval <= to
  PROVE  \E j \in Nat : CatchUp(k * interval, to) = j * interval
<1> DEFINE q == (to - k * interval) \div interval
<1>1. k * interval \in Nat
  OBVIOUS
<1>2. to - k * interval \in Nat
  BY <1>1
<1>3. q \in Nat
  BY <1>2, Division
<1> HIDE DEF q
<1>4. k * interval + (q + 1) * interval = (k + q + 1) * interval
  BY <1>3
<1>5. CatchUp(k * interval, to) = (k + q + 1) * interval
  BY <1>4 DEF CatchUp, q
<1>6. k + q + 1 \in Nat
  BY <1>3
<1> DEFINE m == k + q + 1
<1> HIDE DEF m
<1>7. m \in Nat /\ CatchUp(k * interval, to) = m * interval
  BY <1>5, <1>6 DEF m
<1> QED BY <1>7

\* After the catch-up loop the next tick is after the current interval.
LEMMA PostKeepsSlot == KInv /\ Post => TickInv' /\ SlotInv'
<1> SUFFICES ASSUME KInv, Post PROVE TickInv' /\ SlotInv'
  OBVIOUS
<1>1. /\ cur \in Nat /\ nextTick \in Nat /\ nextTick <= cur /\ interval \in Nat \ {0}
      /\ slot \in Nat \cup {-1}
  BY LimitAssumption DEF KInv, LimitInv, Post, LimitTypeOK, DueInv
<1>2. /\ nextTick' = CatchUp(nextTick, cur) /\ thread' = "sleep"
      /\ UNCHANGED <<interval, cur, slot, mainAt>>
  BY DEF Post, SleepUntil
<1>3. nextTick' \in Nat /\ nextTick' > cur
  BY <1>1, <1>2, CatchUpPasses
<1>4. SUFFICES ASSUME mainAt # "enable" PROVE TickInv' /\ SlotInv'
  BY <1>2 DEF TickInv, SlotInv
<1>5. PICK k \in Nat : nextTick = k * interval
  BY <1>4 DEF KInv, TickInv
<1>6. \E j \in Nat : CatchUp(nextTick, cur) = j * interval
  BY <1>1, <1>5, CatchUpMultiple
<1>7. PICK j \in Nat : nextTick' = j * interval
  BY <1>2, <1>6
<1>8. ASSUME slot # -1 PROVE nextTick' >= (slot + 1) * interval
  <2>1. slot \in Nat /\ slot = cur \div interval
    BY <1>1, <1>4, <1>8 DEF KInv, SlotInv, Post
  <2>2. slot * interval <= cur
    BY <1>1, <2>1, Division
  <2>3. slot * interval \in Nat
    BY <1>1, <2>1
  <2>4. j * interval > slot * interval
    BY <1>1, <1>3, <1>7, <2>2, <2>3
  <2> QED BY <1>1, <1>7, <2>1, <2>4, NextMultiple
<1> QED BY <1>2, <1>7, <1>8 DEF TickInv, SlotInv

\* No other step moves the tick back into the interval of the flag.
LEMMA StepKeepsSlot == KInv /\ LimitNext => TickInv' /\ SlotInv'
<1> SUFFICES ASSUME KInv, LimitNext PROVE TickInv' /\ SlotInv'
  OBVIOUS
<1> USE DEF KInv, limits, execution
<1>1. CASE ReadClock
  BY <1>1 DEF ReadClock, TickInv, SlotInv
<1>2. CASE Due
  BY <1>2 DEF Due, TickInv, SlotInv
<1>3. CASE NotDue
  BY <1>3 DEF NotDue, SleepUntil, TickInv, SlotInv
<1>4. CASE SleepDisabled
  BY <1>4 DEF SleepDisabled, TickInv, SlotInv
<1>5. CASE Post
  BY <1>5, PostKeepsSlot
<1>6. CASE Wake
  BY <1>6 DEF Wake, TickInv, SlotInv
<1>7. CASE Enable
  <2>1. (now * Frac + 1) \div interval \in Nat
    BY ClockType, Division DEF LimitInv, LimitTypeOK
  <2>2. TickInv'
    BY <1>7, <2>1 DEF Enable, TickInv
  <2> QED BY <1>7, <2>2 DEF Enable, SlotInv
<1>8. CASE Disable
  BY <1>8 DEF Disable, TickInv, SlotInv
<1>9. CASE Join
  BY <1>9 DEF Join, TickInv, SlotInv
<1>10. ASSUME NEW i \in Intervals, Begin(i) PROVE TickInv' /\ SlotInv'
  BY <1>10 DEF Begin, TickInv, SlotInv
<1>11. CASE End
  BY <1>11 DEF End, TickInv, SlotInv
<1>12. CASE Exit
  BY <1>12 DEF Exit, TickInv, SlotInv
<1>13. CASE Deliver \/ Dispatch \/ Tick
  BY <1>13 DEF Deliver, Dispatch, Tick, TickInv, SlotInv
<1> QED BY <1>1, <1>2, <1>3, <1>4, <1>5, <1>6, <1>7, <1>8, <1>9, <1>10, <1>11,
           <1>12, <1>13 DEF LimitNext, Execute, Call, LimitScript

\* From one SetEnabled(true) to the next SetInterval the flag is set once in an
\* interval at most, for every interval and however late the thread is.
THEOREM LimitHolds == LimitSpec => LimitKept
<1>1. LimitInit => TickInv /\ SlotInv
  <2> SUFFICES ASSUME LimitInit PROVE TickInv /\ SlotInv
    OBVIOUS
  <2>1. interval \in Nat /\ nextTick = 0
    BY LimitAssumption DEF LimitInit
  <2>2. 0 \in Nat /\ nextTick = 0 * interval
    BY <2>1
  <2> QED BY <2>2 DEF LimitInit, TickInv, SlotInv
<1>2. LimitInv /\ TickInv /\ SlotInv /\ [LimitNext]_limitVars => TickInv' /\ SlotInv'
  <2>1. ASSUME KInv, UNCHANGED limitVars PROVE TickInv' /\ SlotInv'
    BY <2>1 DEF limitVars, limits, execution, KInv, TickInv, SlotInv
  <2> QED BY <2>1, StepKeepsSlot DEF KInv
<1>3. LimitInv /\ TickInv /\ SlotInv /\ [LimitNext]_limitVars =>
        [thread = "lock" /\ thread' = "post" /\ mainAt # "enable"
           => cur \div interval # slot]_limitVars
  <2> SUFFICES ASSUME LimitInv, TickInv, SlotInv, [LimitNext]_limitVars,
                      thread = "lock", thread' = "post", mainAt # "enable"
               PROVE  cur \div interval # slot
    OBVIOUS
  <2>1. nextTick <= cur
    BY DEF LimitNext, Execute, Call, LimitScript, ReadClock, Due, NotDue, SleepDisabled,
           SleepUntil, Post, Wake, Enable, Disable, Join, Begin, End, Exit,
           Deliver, Dispatch, Tick, execution, limits, limitVars
  <2>2. /\ cur \in Nat /\ nextTick \in Nat /\ interval \in Nat \ {0}
        /\ slot \in Nat \cup {-1}
    BY LimitAssumption DEF LimitInv, LimitTypeOK
  <2>3. CASE slot = -1
    <3>1. cur \div interval \in Nat
      BY <2>2, Division
    <3> QED BY <2>3, <3>1
  <2>4. CASE slot # -1
    <3>1. slot \in Nat /\ nextTick >= (slot + 1) * interval
      BY <2>2, <2>4 DEF SlotInv
    <3>2. (slot + 1) * interval \in Nat
      BY <2>2, <3>1
    <3>3. cur >= (slot + 1) * interval
      BY <2>1, <2>2, <3>1, <3>2
    <3> QED BY <2>2, <3>1, <3>3, LaterInterval
  <2> QED BY <2>3, <2>4
<1> QED BY <1>1, <1>2, <1>3, LimitInvariant, PTL DEF LimitSpec, LimitKept

-----------------------------------------------------------------------------
-----------------------------------------------------------------------------
(* WindowLife.                                                              *)

Made == {v \in Windows : born[v] > 0}

\* What the list is made of: places in the order of creation are used once.
ListType ==
  /\ born \in [Windows -> Nat]
  /\ listed \subseteq Made
  /\ prev \in [Windows -> Windows \cup {None}]
  /\ next \in [Windows -> Windows \cup {None}]
  /\ last \in Windows \cup {None}
  /\ \A v \in Windows : born[v] <= Cardinality(Made)
  /\ \A v, u \in Made : born[v] = born[u] => v = u

\* The list itself, the current form left aside.
Linked ==
  /\ \A w \in listed :
       /\ IF prev[w] = None THEN \A v \in listed \ {w} : Before(w, v)
          ELSE /\ prev[w] \in listed /\ Before(prev[w], w)
               /\ \A v \in listed : ~(Before(prev[w], v) /\ Before(v, w))
       /\ IF next[w] = None THEN \A v \in listed \ {w} : Before(v, w)
          ELSE next[w] \in listed /\ prev[next[w]] = w
  /\ IF last = None THEN listed = {} ELSE last \in listed /\ next[last] = None

ListInv == ListType /\ Linked

-----------------------------------------------------------------------------
(* The list of forms.                                                       *)

\* The forms made are finitely many.
LEMMA MadeFinite ==
  ASSUME ListType
  PROVE  /\ IsFiniteSet(Made) /\ Cardinality(Made) \in Nat
         /\ Cardinality(Made) <= Cardinality(Windows)
<1>1. Made \subseteq Windows
  BY DEF Made
<1> QED BY <1>1, FS_Subset, FS_CardinalityType, WindowAssumption

\* The two pointers between neighbours agree.
LEMMA NextOfPrev ==
  ASSUME ListInv, NEW w \in listed, prev[w] # None
  PROVE  next[prev[w]] = w
<1> DEFINE u == prev[w]
<1>1. u \in listed /\ Before(u, w) /\ w \in Windows /\ u \in Windows
  BY DEF ListInv, ListType, Linked, Made
<1>2. next[u] # None
  BY <1>1 DEF ListInv, ListType, Linked, Before, Made
<1>3. next[u] \in listed /\ prev[next[u]] = u
  BY <1>1, <1>2 DEF ListInv, Linked
<1>4. Before(u, next[u]) /\ ~(Before(u, w) /\ Before(w, next[u]))
  BY <1>1, <1>3, WindowAssumption DEF ListInv, Linked, ListType
<1>5. ~(Before(u, next[u]) /\ Before(next[u], w))
  BY <1>1, <1>3 DEF ListInv, Linked
<1>6. born[w] = born[next[u]]
  BY <1>1, <1>3, <1>4, <1>5 DEF Before, ListInv, ListType, Made
<1> QED BY <1>1, <1>3, <1>6 DEF ListInv, ListType

\* A form that is made goes to the end of the list.
LEMMA LinkKeeps ==
  ASSUME ListInv, NEW w \in Windows, born[w] = 0, Link(w)
  PROVE  ListInv' /\ listed' = listed \cup {w}
<1> DEFINE N == Cardinality(Made)
<1>1. N \in Nat /\ IsFiniteSet(Made)
  BY MadeFinite DEF ListInv
<1>2. /\ born' = [born EXCEPT ![w] = N + 1]
      /\ listed' = listed \cup {w}
      /\ prev' = [prev EXCEPT ![w] = last]
      /\ next' = [v \in Windows |-> IF v = last THEN w ELSE IF v = w THEN None ELSE next[v]]
      /\ last' = w
  BY DEF Link, Made
<1>3. w \notin Made /\ w \notin listed /\ Made' = Made \cup {w}
  BY <1>1, <1>2, SMTT(30) DEF Made, ListInv, ListType
<1>4. Cardinality(Made') = N + 1
  BY <1>1, <1>3, FS_AddElement
<1> HIDE DEF N
<1>5. ListType'
  <2>1. /\ born' \in [Windows -> Nat] /\ listed' \subseteq Made'
        /\ prev' \in [Windows -> Windows \cup {None}]
        /\ next' \in [Windows -> Windows \cup {None}]
        /\ last' \in Windows \cup {None}
    BY <1>1, <1>2, <1>3 DEF ListInv, ListType
  <2>2. \A v \in Windows : born[v] <= N
    BY DEF ListInv, ListType, N
  <2>3. \A v \in Windows : born'[v] <= N + 1
    BY <1>1, <1>2, <2>2 DEF ListInv, ListType
  <2>4. ASSUME NEW v \in Made', NEW u \in Made', born'[v] = born'[u] PROVE v = u
    BY <1>1, <1>2, <1>3, <2>2, <2>4 DEF ListInv, ListType, Made
  <2> QED BY <1>4, <2>1, <2>3, <2>4 DEF ListType
<1>6. \A v \in listed : born[v] <= N /\ born'[v] = born[v] /\ v # w /\ v \in Windows
  BY <1>2, <1>3 DEF ListInv, ListType, Made, N
<1>7. born'[w] = N + 1
  BY <1>2 DEF ListInv, ListType
<1>8. last' \in listed' /\ next'[last'] = None /\ last' # None
  BY <1>2, <1>3, WindowAssumption DEF ListInv, ListType, Linked
<1>9. ASSUME NEW v \in listed'
      PROVE  IF prev'[v] = None THEN \A u \in listed' \ {v} : Before(v, u)'
             ELSE /\ prev'[v] \in listed' /\ Before(prev[v], v)'
                  /\ \A u \in listed' : ~(Before(prev[v], u)' /\ Before(u, v)')
  <2>1. CASE v = w
    <3>1. prev'[w] = last
      BY <1>2 DEF ListInv, ListType
    <3>2. last = None => listed = {}
      BY DEF ListInv, Linked
    <3>3. last # None => last \in listed /\ \A u \in listed \ {last} : Before(u, last)
      BY DEF ListInv, Linked
    <3> QED BY <1>1, <1>2, <1>6, <1>7, <2>1, <3>1, <3>2, <3>3 DEF Before, ListInv, ListType
  <2>2. CASE v # w
    <3>1. v \in listed /\ prev'[v] = prev[v]
      BY <1>2, <1>3, <2>2 DEF ListInv, ListType
    <3> QED BY <1>1, <1>2, <1>6, <1>7, <2>2, <3>1 DEF Before, ListInv, ListType, Linked
  <2> QED BY <2>1, <2>2
<1>10. ASSUME NEW v \in listed'
       PROVE  IF next'[v] = None THEN \A u \in listed' \ {v} : Before(u, v)'
              ELSE next'[v] \in listed' /\ prev'[next'[v]] = v
  <2>1. CASE v = w
    <3>1. next'[w] = None
      BY <1>2, <1>3 DEF ListInv, ListType, Linked
    <3> QED BY <1>1, <1>2, <1>6, <1>7, <2>1, <3>1 DEF Before, ListInv, ListType
  <2>2. CASE v = last /\ v # w
    <3>1. next'[v] = w /\ prev'[w] = v
      BY <1>2, <1>6, <2>2 DEF ListInv, ListType
    <3> QED BY <1>2, <3>1, WindowAssumption
  <2>3. CASE v # last /\ v # w
    <3>1. v \in listed /\ next'[v] = next[v] /\ v \in Windows
      BY <1>2, <1>6, <2>3
    <3>2. next[v] # None
      <4>1. last \in listed /\ prev[last] \in Windows \cup {None}
        BY <3>1 DEF ListInv, Linked, ListType
      <4>2. next[last] = None
        BY <3>1 DEF ListInv, Linked
      <4>3. Before(v, last)
        BY <2>3, <3>1, <4>1, <4>2 DEF ListInv, Linked
      <4>4. next[v] = None => Before(last, v)
        BY <2>3, <3>1, <4>1 DEF ListInv, Linked
      <4> QED BY <1>6, <3>1, <4>1, <4>3, <4>4 DEF Before, ListInv, ListType
    <3>3. next[v] \in listed /\ prev[next[v]] = v
      BY <3>1, <3>2 DEF ListInv, Linked
    <3> QED BY <1>2, <1>6, <3>1, <3>2, <3>3 DEF ListInv, ListType
  <2> QED BY <2>1, <2>2, <2>3
<1>11. Linked'
  BY <1>8, <1>9, <1>10 DEF Linked, Before
<1> QED BY <1>2, <1>5, <1>11 DEF ListInv

\* A form that is deleted leaves its neighbours linked.
LEMMA UnlinkKeeps ==
  ASSUME ListInv, NEW w \in listed, Unlink(w)
  PROVE  /\ ListInv' /\ listed' = listed \ {w}
         /\ last' \in listed' \cup {None} /\ (last' = None => listed' = {})
<1>1. /\ listed' = listed \ {w}
      /\ last' = IF last = w THEN prev[w] ELSE last
      /\ prev' = [v \in Windows |-> CASE v = w -> None [] v = next[w] -> prev[w] [] OTHER -> prev[v]]
      /\ next' = [v \in Windows |-> CASE v = w -> None [] v = prev[w] -> next[w] [] OTHER -> next[v]]
      /\ born' = born /\ Made' = Made
  BY DEF Unlink, Made
<1>2. w \in Windows /\ listed \subseteq Windows /\ listed \subseteq Made
  BY DEF ListInv, ListType, Made
<1>3. ListType'
  <2>1. prev[w] \in Windows \cup {None} /\ next[w] \in Windows \cup {None}
    BY <1>2 DEF ListInv, ListType
  <2>2. prev' \in [Windows -> Windows \cup {None}] /\ next' \in [Windows -> Windows \cup {None}]
    BY <1>1, <2>1 DEF ListInv, ListType
  <2>3. last' \in Windows \cup {None}
    BY <1>1, <2>1 DEF ListInv, ListType
  <2> QED BY <1>1, <2>2, <2>3 DEF ListInv, ListType
<1>4. \A v \in listed : born[v] \in Nat
  BY <1>2 DEF ListInv, ListType
<1>5. \A v, u \in listed : born[v] = born[u] => v = u
  BY <1>2 DEF ListInv, ListType
<1>6. \A v \in listed' : prev'[v] = (IF v = next[w] THEN prev[w] ELSE prev[v])
  BY <1>1, <1>2
<1>7. \A v \in listed' : next'[v] = (IF v = prev[w] THEN next[w] ELSE next[v])
  BY <1>1, <1>2
<1>8. prev[w] # None => prev[w] \in listed' /\ Before(prev[w], w)
  BY <1>1, <1>4 DEF ListInv, Linked, Before
<1>9. next[w] # None => next[w] \in listed' /\ prev[next[w]] = w /\ Before(w, next[w])
  <2> SUFFICES ASSUME next[w] # None PROVE next[w] \in listed' /\ prev[next[w]] = w /\ Before(w, next[w])
    OBVIOUS
  <2>1. next[w] \in listed /\ prev[next[w]] = w
    BY DEF ListInv, Linked
  <2>2. Before(w, next[w])
    BY <1>2, <2>1, WindowAssumption DEF ListInv, Linked
  <2> QED BY <1>1, <1>4, <2>1, <2>2 DEF Before
<1>10. ASSUME NEW v \in listed'
       PROVE  IF prev'[v] = None THEN \A u \in listed' \ {v} : Before(v, u)
              ELSE /\ prev'[v] \in listed' /\ Before(prev'[v], v)
                   /\ \A u \in listed' : ~(Before(prev'[v], u) /\ Before(u, v))
  <2>1. CASE v = next[w]
    <3>1. prev'[v] = prev[w] /\ prev[v] = w /\ v \in listed /\ v # w
      BY <1>1, <1>6, <1>9, <2>1, <1>2, WindowAssumption
    <3>2. Before(w, v) /\ \A u \in listed : ~(Before(w, u) /\ Before(u, v))
      BY <1>2, <3>1, WindowAssumption DEF ListInv, Linked
    <3>3. \A u \in listed : u # w /\ u # v => Before(u, w) \/ Before(v, u)
      BY <1>4, <1>5, <3>1, <3>2 DEF Before
    <3>4. CASE prev[w] = None
      <4>1. \A u \in listed \ {w} : Before(w, u)
        BY <3>4 DEF ListInv, Linked
      <4>2. \A u \in listed' \ {v} : u \in listed /\ u # w /\ ~Before(u, w)
        BY <1>1, <1>4, <4>1 DEF Before
      <4> QED BY <3>1, <3>3, <3>4, <4>2
    <3>5. CASE prev[w] # None
      <4>1. \A u \in listed : ~(Before(prev[w], u) /\ Before(u, w))
        BY <3>5 DEF ListInv, Linked
      <4>2. prev[w] \in listed' /\ Before(prev[w], v)
        BY <1>1, <1>4, <1>8, <3>1, <3>2, <3>5 DEF Before
      <4>3. \A u \in listed' : ~(Before(prev[w], u) /\ Before(u, v))
        BY <1>1, <1>4, <3>1, <3>3, <4>1 DEF Before
      <4> QED BY <3>1, <3>5, <4>2, <4>3
    <3> QED BY <3>4, <3>5
  <2>2. CASE v # next[w]
    <3>1. prev'[v] = prev[v] /\ v \in listed /\ v # w
      BY <1>1, <1>6, <2>2
    <3>2. prev[v] # w
      <4>1. w # None
        BY <1>2, WindowAssumption
      <4> QED BY <2>2, <3>1, <4>1, NextOfPrev
    <3> QED BY <1>1, <3>1, <3>2 DEF ListInv, Linked
  <2> QED BY <2>1, <2>2
<1>11. ASSUME NEW v \in listed'
       PROVE  IF next'[v] = None THEN \A u \in listed' \ {v} : Before(u, v)
              ELSE next'[v] \in listed' /\ prev'[next'[v]] = v
  <2>1. CASE v = prev[w]
    <3>1. next'[v] = next[w] /\ v \in listed /\ v # w /\ Before(v, w) /\ prev[w] # None
      BY <1>1, <1>2, <1>7, <1>8, <2>1, WindowAssumption
    <3>2. CASE next[w] = None
      <4>1. \A u \in listed \ {w} : Before(u, w)
        BY <3>2 DEF ListInv, Linked
      <4>2. \A u \in listed : ~(Before(v, u) /\ Before(u, w))
        BY <2>1, <3>1 DEF ListInv, Linked
      <4>3. \A u \in listed' \ {v} : Before(u, v)
        BY <1>1, <1>4, <1>5, <3>1, <4>1, <4>2 DEF Before
      <4> QED BY <3>1, <3>2, <4>3
    <3>3. CASE next[w] # None
      <4>1. next[w] \in listed' /\ prev'[next[w]] = prev[w]
        BY <1>6, <1>9, <3>3
      <4> QED BY <2>1, <3>1, <3>3, <4>1
    <3> QED BY <3>2, <3>3
  <2>2. CASE v # prev[w]
    <3>1. next'[v] = next[v] /\ v \in listed /\ v # w
      BY <1>1, <1>7, <2>2
    <3>2. CASE next[v] = None
      BY <1>1, <3>1, <3>2 DEF ListInv, Linked
    <3>3. CASE next[v] # None
      <4>1. next[v] \in listed /\ prev[next[v]] = v
        BY <3>1, <3>3 DEF ListInv, Linked
      <4>2. next[v] # w /\ next[v] \in listed'
        BY <1>1, <2>2, <4>1
      <4>3. next[v] # next[w]
        BY <1>9, <3>1, <3>3, <4>1
      <4> QED BY <1>6, <3>1, <3>3, <4>1, <4>2, <4>3
    <3> QED BY <3>2, <3>3
  <2> QED BY <2>1, <2>2
<1>12. IF last' = None THEN listed' = {} ELSE last' \in listed' /\ next'[last'] = None
  <2>1. last # None /\ last \in listed /\ next[last] = None
    BY DEF ListInv, Linked
  <2>2. CASE last = w /\ prev[w] = None
    <3>1. listed = {w}
      BY <1>4, <2>1, <2>2 DEF ListInv, Linked, Before
    <3> QED BY <1>1, <2>2, <3>1
  <2>3. CASE last = w /\ prev[w] # None
    BY <1>1, <1>7, <1>8, <2>1, <2>3
  <2>4. CASE last # w
    <3>1. last' = last /\ last \in listed'
      BY <1>1, <2>1, <2>4
    <3>2. last # prev[w]
      BY <2>1, <2>4, <1>2, NextOfPrev, WindowAssumption
    <3> QED BY <1>7, <2>1, <3>1, <3>2
  <2> QED BY <2>2, <2>3, <2>4
<1>13. \A v, u : Before(v, u)' <=> Before(v, u)
  BY <1>1 DEF Before
<1>14. Linked'
  BY <1>1, <1>10, <1>11, <1>12 DEF Linked, Before
<1> QED BY <1>1, <1>3, <1>12, <1>14 DEF ListInv

\* Hiding a form makes another living one the current one, if there is one.
LEMMA HiddenIsLive ==
  ASSUME ListInv, NEW w \in listed, NEW was \in listed \cup {None}
  PROVE  /\ CurrentHidden(w, was) \in listed \cup {None}
         /\ CurrentHidden(w, was) = None /\ was # None => listed = {w} /\ was = w /\ form[w].ready
<1>1. prev[w] # None => prev[w] \in listed
  BY DEF ListInv, Linked
<1>2. next[w] # None => next[w] \in listed
  BY DEF ListInv, Linked
<1>3. \A v \in listed : born[v] \in Nat
  BY DEF ListInv, ListType, Made
<1>4. prev[w] = None /\ next[w] = None => listed = {w}
  BY <1>3 DEF ListInv, Linked, Before
<1> QED BY <1>1, <1>2, <1>4 DEF CurrentHidden

-----------------------------------------------------------------------------
(* Type correctness, and the list in every state.                           *)

Calls == [call : {"close", "modal"}, form : Windows]

StateType ==
  /\ form \in [Windows -> Fields]
  /\ object = {w \in listed : form[w].instance = TRUE}
  /\ \A w \in Windows : form[w].dying = TRUE => form[w].instance = FALSE
  /\ main \in Windows \cup {None}
  /\ ticks \subseteq object /\ asked \subseteq object
  /\ stack \in Seq(Calls) /\ Len(stack) <= MaxDepth

CurrentLives == current \in listed \cup {None}

TypeInv == ListInv /\ CurrentLives /\ StateType

\* A form whose fields change one by one still has its type.
LEMMA NewFormType == NewForm \in Fields /\ Gone \in Fields
BY DEF NewForm, Gone, Fields, Results

\* The links stay when nothing touches them.
LEMMA LinksStay ==
  ASSUME ListInv, UNCHANGED links
  PROVE  ListInv' /\ listed' = listed
BY DEF ListInv, ListType, Linked, Before, Made, links

LEMMA ConstructType ==
  ASSUME TypeInv, NEW w \in Windows, Construct(w)
  PROVE  TypeInv'
<1>1. ListInv' /\ listed' = listed \cup {w}
  BY LinkKeeps DEF TypeInv, Construct
<1>2. CurrentLives'
  BY <1>1 DEF TypeInv, CurrentLives, Construct
<1>3. w \notin listed
  BY DEF TypeInv, ListInv, ListType, Made, Construct
<1>4. form' \in [Windows -> Fields]
  BY NewFormType DEF TypeInv, StateType, Construct
<1>5. object' = {v \in listed' : form'[v].instance = TRUE}
  <2>1. object' = object \cup {w} /\ form' = [form EXCEPT ![w] = NewForm]
    BY DEF Construct
  <2>2. form'[w].instance = TRUE
    BY <2>1 DEF TypeInv, StateType, NewForm
  <2>3. \A v \in listed : form'[v] = form[v]
    BY <1>3, <2>1 DEF TypeInv, StateType, ListInv, ListType, Made
  <2>4. object = {v \in listed : form[v].instance = TRUE}
    BY DEF TypeInv, StateType
  <2> QED BY <1>1, <2>1, <2>2, <2>3, <2>4
<1>6. /\ main' \in Windows \cup {None}
      /\ ticks' \subseteq object' /\ asked' \subseteq object'
      /\ stack' \in Seq(Calls) /\ Len(stack') <= MaxDepth
  BY DEF TypeInv, StateType, Construct, script
<1>7. \A v \in Windows : form'[v].dying = TRUE => form'[v].instance = FALSE
  BY DEF TypeInv, StateType, Construct, NewForm
<1> QED BY <1>1, <1>2, <1>4, <1>5, <1>6, <1>7 DEF TypeInv, StateType

LEMMA ConstructThrowsType ==
  ASSUME TypeInv, NEW w \in Windows, ConstructThrows(w)
  PROVE  TypeInv'
<1>1. ListInv' /\ listed' = listed \cup {w}
  BY LinkKeeps DEF TypeInv, ConstructThrows
<1>2. CurrentLives'
  BY <1>1 DEF TypeInv, CurrentLives, ConstructThrows
<1>3. w \notin listed
  BY DEF TypeInv, ListInv, ListType, Made, ConstructThrows
<1>4. form' \in [Windows -> Fields]
  BY NewFormType DEF TypeInv, StateType, ConstructThrows
<1>5. object' = {v \in listed' : form'[v].instance = TRUE}
  <2>1. object' = object /\ form' = [form EXCEPT ![w] = Gone]
    BY DEF ConstructThrows
  <2>2. form'[w].instance = FALSE
    BY <2>1 DEF TypeInv, StateType, Gone, NewForm
  <2>3. \A v \in listed : form'[v] = form[v]
    BY <1>3, <2>1 DEF TypeInv, StateType, ListInv, ListType, Made
  <2>4. object = {v \in listed : form[v].instance = TRUE}
    BY DEF TypeInv, StateType
  <2> QED BY <1>1, <2>1, <2>2, <2>3, <2>4
<1>6. /\ main' \in Windows \cup {None}
      /\ ticks' \subseteq object' /\ asked' \subseteq object'
      /\ stack' \in Seq(Calls) /\ Len(stack') <= MaxDepth
  BY DEF TypeInv, StateType, ConstructThrows, script
<1>7. \A v \in Windows : form'[v].dying = TRUE => form'[v].instance = FALSE
  BY DEF TypeInv, StateType, ConstructThrows, Gone, NewForm
<1> QED BY <1>1, <1>2, <1>4, <1>5, <1>6, <1>7 DEF TypeInv, StateType

\* No form gets or loses its object, and none is marked to be deleted.
SameObjects ==
  \A v \in Windows : /\ form'[v].instance = form[v].instance
                     /\ form'[v].dying = form[v].dying

\* An action that changes fields of one form, but not its object, and that has
\* to do with living forms only.
LEMMA FieldsType ==
  ASSUME TypeInv, NEW w \in Windows, UNCHANGED links, UNCHANGED object,
         form' \in [Windows -> Fields],
         SameObjects,
         current' \in listed \cup {None},
         main' = main, ticks' \subseteq object, asked' \subseteq object,
         stack' \in Seq(Calls), Len(stack') <= MaxDepth
  PROVE  TypeInv'
<1>1. ListInv' /\ listed' = listed /\ listed \subseteq Windows
  BY LinksStay DEF TypeInv, ListInv, ListType, Made
<1>2. object' = {v \in listed' : form'[v].instance = TRUE}
  <2>1. object = {v \in listed : form[v].instance = TRUE}
    BY DEF TypeInv, StateType
  <2> QED BY <1>1, <2>1 DEF SameObjects
<1> QED BY <1>1, <1>2 DEF TypeInv, CurrentLives, StateType, SameObjects

LEMMA SetVisibleType ==
  ASSUME TypeInv, NEW w \in Windows, SetVisible(w)
  PROVE  TypeInv'
<1>1. PICK shown \in BOOLEAN :
        /\ form' = [form EXCEPT ![w].shown = shown]
        /\ IF shown /\ form[w].ready
             THEN Front(w)
             ELSE current' = IF shown THEN current ELSE CurrentHidden(w, current)
  BY DEF SetVisible
<1>2. form' \in [Windows -> Fields] /\ SameObjects
  BY <1>1 DEF TypeInv, StateType, Fields, SameObjects
<1>3. w \in listed /\ current \in listed \cup {None}
  BY DEF TypeInv, StateType, SetVisible, CurrentLives
<1>4. current' \in listed \cup {None}
  BY <1>1, <1>3, HiddenIsLive DEF Front, TypeInv
<1> QED BY <1>2, <1>4, FieldsType DEF SetVisible, script, TypeInv, StateType

LEMMA BringToFrontType ==
  ASSUME TypeInv, NEW w \in Windows, BringToFront(w)
  PROVE  TypeInv'
<1>1. current' \in listed \cup {None}
  BY DEF BringToFront, Front, TypeInv, StateType
<1>2. UNCHANGED form /\ UNCHANGED links /\ UNCHANGED <<object, main, ticks, asked, stack>>
  BY DEF BringToFront, script
<1> QED BY <1>1, <1>2, FieldsType DEF TypeInv, StateType, SameObjects

LEMMA ShowModalType ==
  ASSUME TypeInv, NEW w \in Windows, ShowModal(w)
  PROVE  TypeInv'
<1>1. current' \in listed \cup {None}
  BY DEF ShowModal, Front, TypeInv, StateType
<1>2. form' \in [Windows -> Fields] /\ SameObjects
  <2>1. form' \in [Windows -> Fields]
    <3>1. form \in [Windows -> Fields] /\ form' = [form EXCEPT ![w] = [@ EXCEPT !.modal = TRUE, !.result = "none"]]
      BY DEF ShowModal, TypeInv, StateType
    <3> QED BY <3>1 DEF Fields, Results
  <2>2. SameObjects
    BY DEF ShowModal, TypeInv, StateType, Fields, SameObjects
  <2> QED BY <2>1, <2>2
<1>3. stack' \in Seq(Calls) /\ Len(stack') <= MaxDepth
  BY WindowAssumption DEF ShowModal, TypeInv, StateType, Calls
<1> QED BY <1>1, <1>2, <1>3, FieldsType DEF ShowModal, TypeInv, StateType, SameObjects

\* A call on the stack, and the stack without its top.
LEMMA StackTop ==
  ASSUME StateType, stack # <<>>
  PROVE  /\ Top \in Calls /\ Pop \in Seq(Calls) /\ Len(Pop) = Len(stack) - 1
         /\ Len(stack) \in Nat /\ Len(stack) > 0
         /\ \A i \in 1 .. Len(Pop) : Pop[i] = stack[i]
<1>1. stack \in Seq(Calls) /\ Len(stack) \in Nat
  BY DEF StateType
<1>2. Len(stack) > 0
  BY <1>1, EmptySeq
<1>3. Top \in Calls
  BY <1>1, <1>2, ElementOfSeq DEF Top
<1>4. /\ Pop \in Seq(Calls) /\ Len(Pop) = Len(stack) - 1
      /\ \A i \in 1 .. Len(Pop) : Pop[i] = stack[i]
  <2> DEFINE n == Len(stack) - 1
  <2>1. n \in Nat /\ 1 \in Int /\ n \in Int
    BY <1>1, <1>2
  <2>2. \A i \in 1 .. n : stack[i] \in Calls
    BY <1>1, <2>1, ElementOfSeq
  <2>3. /\ SubSeq(stack, 1, n) \in Seq(Calls)
        /\ Len(SubSeq(stack, 1, n)) = IF 1 <= n THEN n - 1 + 1 ELSE 0
        /\ \A i \in 1 .. n - 1 + 1 : SubSeq(stack, 1, n)[i] = stack[1 + i - 1]
    BY <2>1, <2>2, SubSeqProperties
  <2>4. Pop = SubSeq(stack, 1, n)
    BY DEF Pop
  <2>5. Len(Pop) = n
    <3>1. \A k \in Nat : k - 1 + 1 = k /\ (~(1 <= k) => k = 0)
      BY SMT
    <3> HIDE DEF n
    <3> QED BY <2>1, <2>3, <2>4, <3>1
  <2>6. ASSUME NEW i \in 1 .. n PROVE Pop[i] = stack[i]
    <3>1. i \in 1 .. n - 1 + 1 /\ 1 + i - 1 = i
      BY <2>1
    <3> QED BY <2>3, <2>4, <3>1
  <2> QED BY <2>3, <2>4, <2>5, <2>6
<1> QED BY <1>1, <1>2, <1>3, <1>4

LEMMA ModalEndsType ==
  ASSUME TypeInv, ModalEnds
  PROVE  TypeInv'
<1> DEFINE w == Top.form
<1>1. w \in Windows /\ stack' \in Seq(Calls) /\ Len(stack') <= MaxDepth
  <2>1. StateType /\ stack # <<>> /\ stack' = Pop
    BY DEF ModalEnds, TypeInv
  <2>2. Top \in Calls /\ Pop \in Seq(Calls) /\ Len(Pop) < Len(stack) /\ Len(stack) \in Nat /\ Len(Pop) \in Nat
    BY <2>1, StackTop
  <2>3. w \in Windows
    BY <2>2 DEF Calls
  <2>4. Len(Pop) <= MaxDepth
    BY <2>1, <2>2, WindowAssumption DEF StateType
  <2> QED BY <2>1, <2>2, <2>3, <2>4
<1>2. form' = [form EXCEPT ![w].modal = FALSE]
  BY DEF ModalEnds
<1> HIDE DEF w
<1>3. form' \in [Windows -> Fields] /\ SameObjects
  <2>1. form' \in [Windows -> Fields]
    BY <1>1, <1>2, ZenonT(30) DEF TypeInv, StateType, Fields
  <2>2. SameObjects
    BY <1>1, <1>2 DEF TypeInv, StateType, Fields, SameObjects
  <2> QED BY <2>1, <2>2
<1> QED BY <1>1, <1>3, FieldsType DEF ModalEnds, TypeInv, CurrentLives, StateType, SameObjects

LEMMA QueryThrowsType ==
  ASSUME TypeInv, QueryThrows
  PROVE  TypeInv'
<1> DEFINE w == Top.form
<1>1. w \in Windows /\ stack' \in Seq(Calls) /\ Len(stack') <= MaxDepth
  <2>1. StateType /\ stack # <<>> /\ stack' = Pop
    BY DEF QueryThrows, TypeInv
  <2>2. Top \in Calls /\ Pop \in Seq(Calls) /\ Len(Pop) < Len(stack) /\ Len(stack) \in Nat /\ Len(Pop) \in Nat
    BY <2>1, StackTop
  <2>3. w \in Windows
    BY <2>2 DEF Calls
  <2>4. Len(Pop) <= MaxDepth
    BY <2>1, <2>2, WindowAssumption DEF StateType
  <2> QED BY <2>1, <2>2, <2>3, <2>4
<1>2. form' = [form EXCEPT ![w].closing = FALSE]
  BY DEF QueryThrows
<1> HIDE DEF w
<1>3. form' \in [Windows -> Fields] /\ SameObjects
  <2>1. form' \in [Windows -> Fields]
    BY <1>1, <1>2, ZenonT(30) DEF TypeInv, StateType, Fields
  <2>2. SameObjects
    BY <1>1, <1>2 DEF TypeInv, StateType, Fields, SameObjects
  <2> QED BY <2>1, <2>2
<1> QED BY <1>1, <1>3, FieldsType DEF QueryThrows, TypeInv, CurrentLives, StateType, SameObjects

LEMMA TickBeatType ==
  ASSUME TypeInv, NEW w \in Windows, TickBeat(w)
  PROVE  TypeInv'
<1>1. w \in listed /\ current \in listed \cup {None}
  BY DEF TickBeat, TypeInv, StateType, CurrentLives
<1>2. prev[w] \in listed \cup {None} /\ next[w] \in listed \cup {None}
  BY <1>1 DEF TypeInv, ListInv, Linked
<1>3. current' \in listed \cup {None}
  BY <1>1, <1>2 DEF TickBeat, Front
<1>4. form' \in [Windows -> Fields] /\ SameObjects
  BY ZenonT(30) DEF TickBeat, TypeInv, StateType, Fields, SameObjects
<1> QED BY <1>3, <1>4, FieldsType DEF TickBeat, TypeInv, StateType

LEMMA RunType ==
  ASSUME TypeInv, Run
  PROVE  TypeInv'
<1>1. listed' = listed /\ ListInv'
  BY LinksStay DEF Run, TypeInv
<1>2. ticks' \subseteq object'
  BY DEF Run
<1> QED BY <1>1, <1>2 DEF Run, TypeInv, CurrentLives, StateType

\* Deleting a form keeps the list, the current form and the objects in order.
LEMMA DeletedType ==
  ASSUME TypeInv, NEW w \in listed, NEW was \in listed \cup {None}, Unlink(w),
         current' = CurrentAfter(w, was), form' = [form EXCEPT ![w] = Gone]
  PROVE  /\ ListInv' /\ listed' = listed \ {w} /\ CurrentLives'
         /\ form' \in [Windows -> Fields]
         /\ object \ {w} = {v \in listed' : form'[v].instance = TRUE}
         /\ \A v \in Windows : form'[v].dying = TRUE => form'[v].instance = FALSE
<1>1. ListInv' /\ listed' = listed \ {w} /\ last' \in listed' \cup {None}
  BY UnlinkKeeps DEF TypeInv
<1>2. CurrentLives'
  BY <1>1 DEF CurrentAfter, CurrentLives
<1>3. form' \in [Windows -> Fields]
  BY NewFormType DEF TypeInv, StateType
<1>4. \A v \in listed' : form'[v] = form[v]
  BY <1>1 DEF TypeInv, StateType, ListInv, ListType, Made
<1>5. object = {v \in listed : form[v].instance = TRUE}
  BY DEF TypeInv, StateType
<1>6. \A v \in Windows : form'[v].dying = TRUE => form'[v].instance = FALSE
  BY DEF TypeInv, StateType, NewForm, Gone
<1> QED BY <1>1, <1>2, <1>3, <1>4, <1>5, <1>6

LEMMA DestroyedType ==
  ASSUME TypeInv, NEW w \in object, Unlink(w),
         current' = CurrentAfter(w, CurrentHidden(w, current)),
         form' = [form EXCEPT ![w] = Gone], object' = object \ {w},
         asked' \subseteq object', UNCHANGED <<main, ticks, stack>>, Script
  PROVE  TypeInv'
<1>1. w \in listed /\ CurrentHidden(w, current) \in listed \cup {None}
  BY HiddenIsLive DEF TypeInv, StateType, CurrentLives
<1>2. /\ ListInv' /\ CurrentLives' /\ form' \in [Windows -> Fields]
      /\ object' = {v \in listed' : form'[v].instance = TRUE}
      /\ \A v \in Windows : form'[v].dying = TRUE => form'[v].instance = FALSE
  BY <1>1, DeletedType
<1> QED BY <1>2 DEF TypeInv, StateType, Script

LEMMA InvalidateType ==
  ASSUME TypeInv, NEW w \in Windows, Invalidate(w)
  PROVE  TypeInv'
<1>1. asked' \subseteq object'
  BY DEF Invalidate, Destroy, TypeInv, StateType
<1> QED BY <1>1, DestroyedType DEF Invalidate, Destroy

\* What Close does once it was let.
LEMMA ClosedType ==
  ASSUME TypeInv, NEW w \in listed, NEW closing \in BOOLEAN, Closed(w, closing),
         UNCHANGED links, UNCHANGED main, Script, ticks' = ticks,
         stack' \in Seq(Calls), Len(stack') <= MaxDepth
  PROVE  TypeInv'
<1> DEFINE f == form[w]
           closes == closing /\ f.instance
           hides == closes \/ f.result # "none"
           a == f.instance /\ ~closes
           b == f.shown /\ ~hides
           c == f.dying \/ (closes /\ w # main)
           g == [f EXCEPT !.instance = a, !.shown = b, !.dying = c,
                          !.closing = FALSE, !.consent = FALSE]
<1>1. w \in Windows /\ ListInv' /\ listed' = listed
  BY LinksStay DEF TypeInv, ListInv, ListType, Made
<1>2. CurrentLives'
  <2>1. current \in listed \cup {None} /\ CurrentHidden(w, current) \in listed \cup {None}
    BY HiddenIsLive DEF TypeInv, CurrentLives
  <2> QED BY <1>1, <2>1 DEF Closed, CurrentLives
<1>3. form' = [form EXCEPT ![w] = g]
  BY DEF Closed
<1>4. f \in Fields /\ a \in BOOLEAN /\ b \in BOOLEAN /\ c \in BOOLEAN /\ closes \in BOOLEAN
  BY <1>1 DEF TypeInv, StateType
<1>h. g \in Fields /\ g.instance = a /\ g.dying = c
  <2> HIDE DEF f, a, b, c
  <2>1. g = [f EXCEPT !.instance = a, !.shown = b, !.dying = c,
                      !.closing = FALSE, !.consent = FALSE]
    BY DEF g
  <2> HIDE DEF g
  <2> QED BY <1>4, <2>1, ZenonT(30) DEF Fields
<1>5. form' \in [Windows -> Fields]
  BY <1>1, <1>3, <1>h DEF TypeInv, StateType
<1>6. (form'[w].instance = TRUE) <=> (form[w].instance = TRUE /\ ~closes)
  <2>1. form'[w] = g
    BY <1>1, <1>3 DEF TypeInv, StateType
  <2>2. f.instance \in BOOLEAN
    BY <1>4 DEF Fields
  <2> HIDE DEF g
  <2> QED BY <1>h, <2>1, <2>2
<1>7. \A v \in Windows \ {w} : form'[v] = form[v]
  BY <1>1, <1>3 DEF TypeInv, StateType
<1>8. object' = (IF closes THEN object \ {w} ELSE object) /\ asked' = (IF closes THEN asked \ {w} ELSE asked)
  BY DEF Closed, closes
<1>9. object = {v \in listed : form[v].instance = TRUE} /\ listed \subseteq Windows
  BY DEF TypeInv, StateType, ListInv, ListType, Made
<1>10. object' = {v \in listed' : form'[v].instance = TRUE}
  BY <1>1, <1>6, <1>7, <1>8, <1>9
<1>11. asked' \subseteq object' /\ ticks' \subseteq object'
  BY <1>8 DEF TypeInv, StateType, Script
<1>12. c = TRUE => a = FALSE
  <2>1. f.dying = TRUE => f.instance = FALSE
    BY <1>1 DEF TypeInv, StateType
  <2>2. f.dying \in BOOLEAN /\ f.instance \in BOOLEAN
    BY <1>4 DEF Fields
  <2> HIDE DEF f, closes
  <2> QED BY <1>4, <2>1, <2>2
<1>13. \A v \in Windows : form'[v].dying = TRUE => form'[v].instance = FALSE
  <2>1. form'[w] = g
    BY <1>1, <1>3 DEF TypeInv, StateType
  <2> HIDE DEF g
  <2>2. \A v \in Windows \ {w} : form[v].dying = TRUE => form[v].instance = FALSE
    BY DEF TypeInv, StateType
  <2> QED BY <1>7, <1>h, <1>12, <2>1, <2>2
<1> QED BY <1>1, <1>2, <1>5, <1>10, <1>11, <1>13 DEF TypeInv, StateType

LEMMA CloseType ==
  ASSUME TypeInv, NEW w \in Windows, Close(w)
  PROVE  TypeInv'
<1>1. w \in listed /\ UNCHANGED links /\ UNCHANGED <<main, ticks>> /\ Script
  BY DEF Close, TypeInv, StateType
<1>2. CASE /\ form[w].modal
           /\ form' = [form EXCEPT ![w] = [@ EXCEPT !.result = "cancel", !.closing = FALSE]]
           /\ UNCHANGED <<current, object, asked, stack>>
  <2>1. form' \in [Windows -> Fields] /\ SameObjects
    <3>1. form' \in [Windows -> Fields]
      <4>1. form \in [Windows -> Fields]
        BY DEF TypeInv, StateType
      <4> QED BY <1>2, <4>1 DEF Fields, Results
    <3>2. SameObjects
      BY <1>2 DEF TypeInv, StateType, Fields, SameObjects
    <3> QED BY <3>1, <3>2
  <2> QED BY <1>1, <1>2, <2>1, FieldsType DEF TypeInv, StateType, CurrentLives, SameObjects
<1>3. CASE Closed(w, TRUE) /\ UNCHANGED stack
  BY <1>1, <1>3, ClosedType DEF TypeInv, StateType
<1>4. CASE /\ Len(stack) < MaxDepth
           /\ form' = [form EXCEPT ![w] = [@ EXCEPT !.closing = TRUE, !.consent = TRUE]]
           /\ stack' = Append(stack, [call |-> "close", form |-> w])
           /\ UNCHANGED <<current, object, asked>>
  <2>1. form' \in [Windows -> Fields] /\ SameObjects
    <3>1. form' \in [Windows -> Fields]
      BY <1>4, ZenonT(30) DEF TypeInv, StateType, Fields
    <3>2. SameObjects
      BY <1>4 DEF TypeInv, StateType, Fields, SameObjects
    <3> QED BY <3>1, <3>2
  <2>2. stack' \in Seq(Calls) /\ Len(stack') <= MaxDepth
    BY <1>4, WindowAssumption DEF TypeInv, StateType, Calls
  <2> QED BY <1>1, <1>4, <2>1, <2>2, FieldsType DEF TypeInv, StateType, CurrentLives
<1> QED BY <1>2, <1>3, <1>4 DEF Close

LEMMA QueryReturnsType ==
  ASSUME TypeInv, QueryReturns
  PROVE  TypeInv'
<1> DEFINE w == Top.form
<1>1. w \in listed /\ UNCHANGED links /\ UNCHANGED <<main, ticks>> /\ Script
  BY DEF QueryReturns, Live
<1>2. stack' \in Seq(Calls) /\ Len(stack') <= MaxDepth /\ w \in Windows
  <2>1. StateType /\ stack # <<>> /\ stack' = Pop
    BY DEF QueryReturns, TypeInv
  <2>2. Top \in Calls /\ Pop \in Seq(Calls) /\ Len(Pop) < Len(stack) /\ Len(stack) \in Nat /\ Len(Pop) \in Nat
    BY <2>1, StackTop
  <2>3. Len(Pop) <= MaxDepth /\ w \in Windows
    BY <2>1, <2>2, WindowAssumption DEF StateType, Calls
  <2> QED BY <2>1, <2>2, <2>3
<1>3. form[w].closing \in BOOLEAN
  BY <1>2 DEF TypeInv, StateType, Fields, SameObjects
<1>4. \/ Closed(w, form[w].closing)
      \/ form' = [form EXCEPT ![w].closing = FALSE] /\ UNCHANGED <<current, object, asked>>
  BY DEF QueryReturns
<1> HIDE DEF w
<1>5. CASE Closed(w, form[w].closing)
  BY <1>1, <1>2, <1>3, <1>5, ClosedType
<1>6. CASE form' = [form EXCEPT ![w].closing = FALSE] /\ UNCHANGED <<current, object, asked>>
  <2>1. form' \in [Windows -> Fields] /\ SameObjects
    <3>1. form' = [form EXCEPT ![w].closing = FALSE] /\ form \in [Windows -> Fields] /\ w \in Windows
      BY <1>2, <1>6 DEF TypeInv, StateType
    <3> QED BY <3>1 DEF Fields, SameObjects
  <2> QED BY <1>1, <1>2, <1>6, <2>1, FieldsType DEF TypeInv, StateType, CurrentLives, SameObjects
<1> QED BY <1>4, <1>5, <1>6

\* What an answer of the handler changes.
LEMMA AnsweredType ==
  ASSUME TypeInv, NEW w \in object, NEW yes \in BOOLEAN, Answered(w, yes),
         asked' \subseteq asked, asked' \subseteq object',
         UNCHANGED <<main, ticks, stack>>, Script
  PROVE  TypeInv'
<1>1. w \in listed /\ w \in Windows
  BY DEF TypeInv, StateType, ListInv, ListType, Made
<1>2. CASE form[w].closing
  <2>1. form' = [form EXCEPT ![w].consent = yes] /\ UNCHANGED <<links, current, object>>
    BY <1>2 DEF Answered
  <2>2. form' \in [Windows -> Fields] /\ SameObjects
    BY <1>1, <2>1 DEF TypeInv, StateType, Fields, SameObjects
  <2> QED BY <1>1, <2>1, <2>2, FieldsType DEF TypeInv, StateType, CurrentLives
<1>3. CASE ~form[w].closing /\ ~yes
  <2>1. UNCHANGED <<links, current, form, object>>
    BY <1>3 DEF Answered
  <2> QED BY <1>1, <2>1, FieldsType DEF TypeInv, StateType, CurrentLives, SameObjects
<1>4. CASE ~form[w].closing /\ yes /\ w = main
  BY <1>4, DestroyedType DEF Answered
<1>5. CASE ~form[w].closing /\ yes /\ w # main
  <2>1. /\ form' = [form EXCEPT ![w] =
              IF @.modal THEN [@ EXCEPT !.result = "ok"] ELSE [@ EXCEPT !.shown = FALSE]]
        /\ current' = IF form[w].modal THEN current ELSE CurrentHidden(w, current)
        /\ UNCHANGED <<links, object>>
    BY <1>5 DEF Answered
  <2>2. form' \in [Windows -> Fields] /\ SameObjects
    <3>1. CASE form[w].modal
      <4>1. form' = [form EXCEPT ![w].result = "ok"]
        BY <2>1, <3>1
      <4>2. form \in [Windows -> Fields] /\ "ok" \in Results
        BY DEF TypeInv, StateType, Results
      <4>3. form' \in [Windows -> Fields]
        BY <1>1, <4>1, <4>2 DEF Fields
      <4>4. SameObjects
        BY <1>1, <4>1, <4>2 DEF Fields, SameObjects
      <4> QED BY <4>3, <4>4
    <3>2. CASE ~form[w].modal
      <4>1. form' = [form EXCEPT ![w].shown = FALSE]
        BY <2>1, <3>2
      <4>2. form' \in [Windows -> Fields]
        BY <1>1, <4>1, ZenonT(30) DEF TypeInv, StateType, Fields
      <4>3. SameObjects
        BY <1>1, <4>1 DEF TypeInv, StateType, Fields, SameObjects
      <4> QED BY <4>2, <4>3
    <3> QED BY <3>1, <3>2
  <2>3. current' \in listed \cup {None}
    BY <1>1, <2>1, HiddenIsLive DEF TypeInv, CurrentLives
  <2> QED BY <1>1, <2>1, <2>2, <2>3, FieldsType DEF TypeInv, StateType
<1> QED BY <1>2, <1>3, <1>4, <1>5

LEMMA AnswerQueryType ==
  ASSUME TypeInv, AnswerQuery
  PROVE  TypeInv'
<1>1. PICK yes \in BOOLEAN : Answered(Top.form, yes)
  BY DEF AnswerQuery
<1> QED BY <1>1, AnsweredType DEF AnswerQuery

LEMMA DeliverCloseType ==
  ASSUME TypeInv, NEW w \in Windows, DeliverClose(w)
  PROVE  TypeInv'
<1>1. w \in object /\ asked' = asked \ {w} /\ Script /\ UNCHANGED <<main, ticks, stack>>
  BY DEF DeliverClose, TypeInv, StateType
<1>2. CASE \E yes \in BOOLEAN : Answered(w, yes)
  <2>1. PICK yes \in BOOLEAN : Answered(w, yes)
    BY <1>2
  <2>2. asked' \subseteq object'
    <3>1. object' = object \/ object' = object \ {w}
      BY <2>1 DEF Answered
    <3> QED BY <1>1, <3>1 DEF TypeInv, StateType
  <2> QED BY <1>1, <2>1, <2>2, AnsweredType
<1>3. CASE UNCHANGED <<links, current, form, object>>
  BY <1>1, <1>3, FieldsType DEF TypeInv, StateType, CurrentLives, SameObjects
<1> QED BY <1>2, <1>3 DEF DeliverClose

LEMMA EventType ==
  ASSUME TypeInv, NEW w \in Windows, Event(w)
  PROVE  TypeInv'
<1> DEFINE r == Receiver(w)
<1>1. /\ r \in listed /\ Script /\ UNCHANGED <<object, main, ticks, stack>>
      /\ \/ /\ form[r].dying
            /\ Unlink(r)
            /\ current' = CurrentAfter(r, current)
            /\ form' = [form EXCEPT ![r] = Gone]
            /\ UNCHANGED asked
         \/ /\ ~form[r].dying /\ form[r].instance
            /\ asked' = asked \cup {r}
            /\ UNCHANGED <<links, current, form>>
  BY DEF Event, Live
<1> HIDE DEF r
<1>2. r \in Windows /\ form[r] \in Fields /\ form \in [Windows -> Fields]
  BY <1>1 DEF TypeInv, StateType, ListInv, ListType, Made
<1>3. object = {v \in listed : form[v].instance = TRUE}
  BY DEF TypeInv, StateType
<1>4. CASE /\ form[r].dying
           /\ Unlink(r)
           /\ current' = CurrentAfter(r, current)
           /\ form' = [form EXCEPT ![r] = Gone]
           /\ UNCHANGED asked
  <2>1. form[r].dying = TRUE
    BY <1>2, <1>4 DEF Fields
  <2>2. form[r].instance = FALSE
    BY <1>2, <2>1 DEF TypeInv, StateType
  <2>3. object \ {r} = object
    BY <1>3, <2>2
  <2>4. current \in listed \cup {None}
    BY DEF TypeInv, CurrentLives
  <2>5. /\ ListInv' /\ CurrentLives' /\ form' \in [Windows -> Fields]
        /\ object = {v \in listed' : form'[v].instance = TRUE}
        /\ \A v \in Windows : form'[v].dying = TRUE => form'[v].instance = FALSE
    BY <1>1, <1>4, <2>3, <2>4, DeletedType
  <2> QED BY <1>1, <1>4, <2>5 DEF TypeInv, StateType, Script
<1>5. CASE /\ ~form[r].dying /\ form[r].instance
           /\ asked' = asked \cup {r}
           /\ UNCHANGED <<links, current, form>>
  <2>1. form[r].instance = TRUE
    BY <1>2, <1>5 DEF Fields
  <2>2. asked' \subseteq object
    BY <1>1, <1>3, <1>5, <2>1 DEF TypeInv, StateType
  <2> QED BY <1>1, <1>2, <1>5, <2>2, FieldsType DEF TypeInv, StateType, CurrentLives, SameObjects
<1> QED BY <1>1, <1>4, <1>5

LEMMA InitType == Init => TypeInv
<1> SUFFICES ASSUME Init PROVE TypeInv
  OBVIOUS
<1>1. Made = {}
  BY DEF Init, Made
<1>2. Cardinality(Made) = 0
  BY <1>1, FS_EmptySet
<1>3. ListInv
  BY <1>1, <1>2 DEF Init, ListInv, ListType, Linked
<1>4. StateType
  <2>1. form \in [Windows -> Fields]
    BY NewFormType DEF Init
  <2>2. stack \in Seq(Calls) /\ Len(stack) <= MaxDepth
    BY WindowAssumption DEF Init
  <2>3. \A v \in Windows : form[v].dying = TRUE => form[v].instance = FALSE
    BY DEF Init, Gone, NewForm
  <2> QED BY <2>1, <2>2, <2>3 DEF Init, StateType
<1> QED BY <1>3, <1>4 DEF TypeInv, CurrentLives, Init

LEMMA StepType == TypeInv /\ [Next]_vars => TypeInv'
<1> SUFFICES ASSUME TypeInv, [Next]_vars PROVE TypeInv'
  OBVIOUS
<1>1. ASSUME NEW w \in Windows,
             \/ Construct(w) \/ ConstructThrows(w) \/ SetVisible(w) \/ BringToFront(w) \/ Invalidate(w)
             \/ Close(w) \/ ShowModal(w) \/ DeliverClose(w)
             \/ TickBeat(w) \/ Event(w)
      PROVE  TypeInv'
  BY <1>1, ConstructType, ConstructThrowsType, SetVisibleType, BringToFrontType, InvalidateType, CloseType,
     ShowModalType, DeliverCloseType, TickBeatType, EventType
<1>2. CASE QueryReturns \/ QueryThrows \/ AnswerQuery \/ ModalEnds \/ Run
  BY <1>2, QueryReturnsType, QueryThrowsType, AnswerQueryType, ModalEndsType, RunType
<1>3. CASE UNCHANGED vars
  <2>1. ListInv' /\ listed' = listed
    BY <1>3, LinksStay DEF TypeInv, vars
  <2> QED BY <1>3, <2>1 DEF vars, links, script, TypeInv, CurrentLives, StateType
<1> QED BY <1>1, <1>2, <1>3 DEF Next

\* A form that its constructor has freed is the last of the list, and neither an
\* object nor a call that has not returned belongs to it.
LostInv ==
  /\ lost \subseteq listed \cap {last}
  /\ object \cap lost = {}
  /\ \A i \in 1 .. Len(stack) : stack[i].form \in Made \ lost

\* What a step does to the stack.
StackShrinks == \A i \in 1 .. Len(stack') : i \in 1 .. Len(stack) /\ stack'[i] = stack[i]

StackGrows ==
  \E w \in object, c \in {"close", "modal"} : stack' = Append(stack, [call |-> c, form |-> w])

\* A step that makes no form and deletes none.
LEMMA LostStays ==
  ASSUME TypeInv, LostInv, UNCHANGED links, object' \subseteq object,
         StackShrinks \/ StackGrows
  PROVE  LostInv'
<1>1. /\ lost' = lost /\ listed' = listed /\ last' = last /\ Made' = Made
  BY DEF links, Made
<1>2. object \subseteq Made \ lost
  BY DEF LostInv, TypeInv, StateType, ListInv, ListType
<1>3. CASE StackShrinks
  BY <1>1, <1>3 DEF LostInv, StackShrinks
<1>4. CASE StackGrows
  <2>1. PICK w \in object, c \in {"close", "modal"} : stack' = Append(stack, [call |-> c, form |-> w])
    BY <1>4 DEF StackGrows
  <2>2. w \in Windows
    BY DEF TypeInv, StateType, ListInv, ListType, Made
  <2>3. /\ Len(stack) \in Nat /\ Len(stack') = Len(stack) + 1
        /\ \A i \in 1 .. Len(stack) : stack'[i] = stack[i]
        /\ stack'[Len(stack) + 1].form = w
    BY <2>1, <2>2 DEF TypeInv, StateType, Calls
  <2>4. \A i \in 1 .. Len(stack') : i \in 1 .. Len(stack) \/ i = Len(stack) + 1
    BY <2>3
  <2> QED BY <1>1, <1>2, <2>3, <2>4 DEF LostInv
<1> QED BY <1>3, <1>4

\* A step that deletes a form.
LEMMA LostDelete ==
  ASSUME TypeInv, LostInv, NEW w \in listed \ lost, Unlink(w), stack' = stack,
         object' \subseteq object
  PROVE  LostInv'
<1>1. /\ lost' = lost /\ listed' = listed \ {w} /\ Made' = Made
      /\ last' = IF last = w THEN prev[w] ELSE last
  BY DEF Unlink, Made
<1>2. last = w => lost = {}
  BY DEF LostInv
<1> QED BY <1>1, <1>2 DEF LostInv

\* A step that makes a form.
LEMMA LostMake ==
  ASSUME TypeInv, LostInv, NEW w \in Windows, Construct(w) \/ ConstructThrows(w)
  PROVE  LostInv'
<1>1. born[w] = 0 /\ Link(w) /\ stack' = stack /\ last \notin lost
  BY DEF Construct, ConstructThrows, Link, script
<1>2. listed' = listed \cup {w} /\ w \notin listed /\ last' = w /\ w \notin Made
  BY <1>1, LinkKeeps DEF TypeInv, ListInv, ListType, Made, Link
<1>3. Made \subseteq Made'
  <2>1. ListType'
    BY <1>1, LinkKeeps DEF TypeInv, ListInv
  <2>2. \A v \in Made : born'[v] = born[v]
    BY <1>1, <1>2 DEF Link, Made, TypeInv, ListInv, ListType
  <2> QED BY <2>2 DEF Made
<1>4. lost = {} /\ object \subseteq listed
  BY <1>1 DEF LostInv, TypeInv, StateType
<1>5. \A i \in 1 .. Len(stack') : stack'[i].form \in Made' \ {w}
  BY <1>1, <1>2, <1>3 DEF LostInv
<1>6. \/ lost' = {}
      \/ lost' = {w} /\ object' = object
  BY <1>4 DEF Construct, ConstructThrows
<1> QED BY <1>2, <1>4, <1>5, <1>6 DEF LostInv

LEMMA LostStep == TypeInv /\ LostInv /\ [Next]_vars => LostInv'
<1> SUFFICES ASSUME TypeInv, LostInv, [Next]_vars PROVE LostInv'
  OBVIOUS
<1>0. object \subseteq listed \ lost
  BY DEF LostInv, TypeInv, StateType
<1>1. stack' = stack => StackShrinks
  BY DEF StackShrinks
<1>2. ASSUME NEW w \in Windows, Construct(w) \/ ConstructThrows(w) PROVE LostInv'
  BY <1>2, LostMake
<1>3. ASSUME NEW w \in Windows,
             SetVisible(w) \/ BringToFront(w) \/ Close(w) \/ ShowModal(w) \/ TickBeat(w)
      PROVE  LostInv'
  <2>1. UNCHANGED links /\ object' \subseteq object
    BY <1>3 DEF SetVisible, BringToFront, Close, Closed, ShowModal, TickBeat
  <2>2. StackShrinks \/ StackGrows
    BY <1>1, <1>3 DEF SetVisible, BringToFront, Close, ShowModal, TickBeat, script, StackGrows
  <2> QED BY <2>1, <2>2, LostStays
<1>4. ASSUME NEW w \in Windows, Invalidate(w) PROVE LostInv'
  BY <1>0, <1>4, LostDelete DEF Invalidate, Destroy
<1>5. ASSUME NEW w \in object, NEW yes \in BOOLEAN, Answered(w, yes), stack' = stack PROVE LostInv'
  <2>1. \/ UNCHANGED links /\ object' = object
        \/ Unlink(w) /\ object' = object \ {w}
    BY <1>5 DEF Answered
  <2> QED BY <1>0, <1>1, <1>5, <2>1, LostStays, LostDelete
<1>6. ASSUME NEW w \in Windows, DeliverClose(w) PROVE LostInv'
  <2>1. w \in object /\ stack' = stack
    BY <1>6 DEF DeliverClose, TypeInv, StateType
  <2> QED BY <1>1, <1>5, <1>6, <2>1, LostStays DEF DeliverClose
<1>7. ASSUME NEW w \in Windows, Event(w) PROVE LostInv'
  <2>1. PICK r \in Live : Unlink(r) \/ UNCHANGED links
    BY <1>7 DEF Event
  <2>2. stack' = stack /\ object' = object
    BY <1>7 DEF Event
  <2> QED BY <1>1, <2>1, <2>2, LostStays, LostDelete DEF Live
<1>8. CASE AnswerQuery
  BY <1>5, <1>8 DEF AnswerQuery
<1>9. CASE QueryReturns \/ QueryThrows \/ ModalEnds
  <2>1. stack # <<>> /\ stack' = Pop /\ object' \subseteq object /\ UNCHANGED links
    BY <1>9 DEF QueryReturns, QueryThrows, ModalEnds, Closed
  <2>2. StackShrinks
    BY <2>1, StackTop DEF TypeInv, StackShrinks
  <2> QED BY <2>1, <2>2, LostStays
<1>10. CASE Run \/ UNCHANGED vars
  <2>1. stack' = stack /\ object' = object /\ UNCHANGED links
    BY <1>10 DEF Run, vars, script
  <2> QED BY <1>1, <2>1, LostStays
<1> QED BY <1>2, <1>3, <1>4, <1>6, <1>7, <1>8, <1>9, <1>10 DEF Next

LEMMA LostAlways == Spec => []LostInv
<1>1. Init => LostInv
  BY DEF Init, LostInv
<1> QED BY <1>1, InitType, StepType, LostStep, PTL DEF Spec

\* The variables keep their types: in particular events are posted to window
\* objects only that have a form, and a form with an object is allocated.
THEOREM WindowTypes == Spec => []TypeOK
<1>1. TypeInv /\ LostInv => TypeOK
  <2> SUFFICES ASSUME TypeInv, LostInv PROVE TypeOK
    OBVIOUS
  <2>1. born \in [Windows -> 0 .. Cardinality(Windows)]
    <3>1. /\ Cardinality(Made) \in Nat /\ Cardinality(Made) <= Cardinality(Windows)
          /\ Cardinality(Windows) \in Nat
      BY MadeFinite, FS_CardinalityType, WindowAssumption DEF TypeInv, ListInv
    <3>2. born \in [Windows -> Nat] /\ \A v \in Windows : born[v] <= Cardinality(Made)
      BY DEF TypeInv, ListInv, ListType
    <3> QED BY <3>1, <3>2
  <2>2. /\ listed \subseteq Windows
        /\ prev \in [Windows -> Windows \cup {None}]
        /\ next \in [Windows -> Windows \cup {None}]
        /\ last \in Windows \cup {None} /\ current \in Windows \cup {None}
    BY DEF TypeInv, CurrentLives, ListInv, ListType, Made
  <2>3. stack \in Seq([call : {"close", "modal"}, form : Windows]) /\ Len(stack) <= MaxDepth
    BY DEF TypeInv, StateType, Calls
  <2>4. lost \subseteq listed /\ object \subseteq Live
    BY DEF TypeInv, StateType, LostInv, Live
  <2> QED BY <2>1, <2>2, <2>3, <2>4 DEF TypeOK, TypeInv, StateType
<1> QED BY <1>1, InitType, StepType, LostAlways, PTL DEF Spec

\* The list of forms is whole in every state, for any number of windows, any
\* script and any nesting of calls, and the current form is in it; a form whose
\* constructor threw is still in it too, at its end.
THEOREM ListStaysWhole == Spec => []ListIsWhole
<1>1. TypeInv /\ LostInv => ListIsWhole
  BY DEF TypeInv, ListInv, Linked, CurrentLives, LostInv, ListIsWhole
<1> QED BY <1>1, InitType, StepType, LostAlways, PTL DEF Spec

-----------------------------------------------------------------------------
(* The calls that have not returned.                                        *)

Runs(c, w) == \E i \in 1 .. Len(stack) : stack[i] = [call |-> c, form |-> w]

\* Events wait only while no window is shown as modal.
AskedInv == \A i \in 1 .. Len(stack) : stack[i].call = "modal" => asked = {}

\* With a careful script every form has one call at most, lives until it
\* returns, and its flags tell which call it is.
CallsInv ==
  /\ \A i, j \in 1 .. Len(stack) : stack[i].form = stack[j].form => i = j
  /\ \A i \in 1 .. Len(stack) : stack[i].form \in listed
  /\ \A w \in listed : /\ form[w].closing = TRUE <=> Runs("close", w)
                       /\ form[w].modal = TRUE <=> Runs("modal", w)

\* What a call that returns leaves on the stack.
LEMMA PopRuns ==
  ASSUME StateType, CallsInv, stack # <<>>, stack' = Pop
  PROVE  /\ \A i, j \in 1 .. Len(stack') : stack'[i].form = stack'[j].form => i = j
         /\ \A i \in 1 .. Len(stack') : i \in 1 .. Len(stack) /\ stack'[i] = stack[i]
         /\ \A w \in Windows : Runs("close", w)' <=> Runs("close", w) /\ w # Top.form
         /\ \A w \in Windows : Runs("modal", w)' <=> Runs("modal", w) /\ w # Top.form
<1>1. /\ Len(stack) \in Nat /\ Len(stack) > 0 /\ Len(stack') = Len(stack) - 1
      /\ \A i \in 1 .. Len(stack') : stack'[i] = stack[i]
  BY StackTop
<1>2. Top = stack[Len(stack)]
  BY DEF Top
<1>3. \A i, j \in 1 .. Len(stack) : stack[i].form = stack[j].form => i = j
  BY DEF CallsInv
<1>4. \A i \in 1 .. Len(stack') : i \in 1 .. Len(stack) /\ stack'[i] = stack[i] /\ stack[i].form # Top.form
  BY <1>1, <1>2, <1>3
<1>5. ASSUME NEW w \in Windows, NEW c \in {"close", "modal"}
      PROVE  Runs(c, w)' <=> Runs(c, w) /\ w # Top.form
  <2>1. \A i \in 1 .. Len(stack) : stack[i] = [call |-> c, form |-> w] => stack[i].form = w
    OBVIOUS
  <2>2. Runs(c, w)' => Runs(c, w) /\ w # Top.form
    BY <1>4, <2>1 DEF Runs
  <2>3. ASSUME Runs(c, w), w # Top.form PROVE Runs(c, w)'
    <3>1. PICK i \in 1 .. Len(stack) : stack[i] = [call |-> c, form |-> w]
      BY <2>3 DEF Runs
    <3>2. i # Len(stack)
      BY <1>2, <2>1, <2>3, <3>1
    <3>3. i \in 1 .. Len(stack')
      BY <1>1, <3>2
    <3> QED BY <1>4, <3>1, <3>3 DEF Runs
  <2> QED BY <2>2, <2>3
<1> QED BY <1>3, <1>4, <1>5

\* What a call that begins puts on the stack.
LEMMA PushRuns ==
  ASSUME StateType, CallsInv, NEW c \in {"close", "modal"}, NEW v \in Windows, ~OnStack(v),
         stack' = Append(stack, [call |-> c, form |-> v])
  PROVE  /\ \A i, j \in 1 .. Len(stack') : stack'[i].form = stack'[j].form => i = j
         /\ \A i \in 1 .. Len(stack') :
              (i \in 1 .. Len(stack) /\ stack'[i] = stack[i]) \/ stack'[i] = [call |-> c, form |-> v]
         /\ \A w \in Windows : Runs("close", w)' <=> Runs("close", w) \/ (c = "close" /\ w = v)
         /\ \A w \in Windows : Runs("modal", w)' <=> Runs("modal", w) \/ (c = "modal" /\ w = v)
<1> DEFINE e == [call |-> c, form |-> v]
<1>1. /\ Len(stack) \in Nat /\ Len(stack') = Len(stack) + 1
      /\ \A i \in 1 .. Len(stack) : stack'[i] = stack[i]
      /\ stack'[Len(stack) + 1] = e
  BY DEF StateType, Calls
<1>2. \A i \in 1 .. Len(stack') : i \in 1 .. Len(stack) \/ i = Len(stack) + 1
  BY <1>1
<1>3. \A i \in 1 .. Len(stack) : i \in 1 .. Len(stack') /\ stack[i].form # v
  BY <1>1 DEF OnStack
<1>4. e.form = v /\ Len(stack) + 1 \in 1 .. Len(stack')
  BY <1>1
<1>5. \A i, j \in 1 .. Len(stack') : stack'[i].form = stack'[j].form => i = j
  BY <1>1, <1>2, <1>3, <1>4 DEF CallsInv
<1>6. ASSUME NEW w \in Windows, NEW d \in {"close", "modal"}
      PROVE  Runs(d, w)' <=> Runs(d, w) \/ (c = d /\ w = v)
  <2>1. e = [call |-> d, form |-> w] <=> c = d /\ w = v
    OBVIOUS
  <2> HIDE DEF e
  <2> QED BY <1>1, <1>2, <1>3, <1>4, <2>1 DEF Runs
<1>7. \A i \in 1 .. Len(stack') : (i \in 1 .. Len(stack) /\ stack'[i] = stack[i]) \/ stack'[i] = e
  BY <1>1, <1>2
<1> QED BY <1>5, <1>6, <1>7

LEMMA AskedShrinks ==
  ASSUME AskedInv, stack' = stack, asked' \subseteq asked
  PROVE  AskedInv'
BY DEF AskedInv

LEMMA AskedStep == TypeInv /\ AskedInv /\ [Next]_vars => AskedInv'
<1> SUFFICES ASSUME TypeInv, AskedInv, [Next]_vars PROVE AskedInv'
  OBVIOUS
<1>1. ASSUME NEW w \in Windows,
             \/ Construct(w) \/ ConstructThrows(w) \/ SetVisible(w) \/ BringToFront(w) \/ Invalidate(w)
             \/ DeliverClose(w) \/ TickBeat(w)
      PROVE  AskedInv'
  <2>1. stack' = stack /\ asked' \subseteq asked
    BY <1>1 DEF Construct, ConstructThrows, SetVisible, BringToFront, Invalidate, Destroy,
                DeliverClose, TickBeat, script
  <2> QED BY <2>1, AskedShrinks
<1>2. ASSUME NEW w \in Windows, Close(w) PROVE AskedInv'
  <2>1. CASE stack' = stack /\ asked' \subseteq asked
    BY <2>1, AskedShrinks
  <2>2. CASE stack' = Append(stack, [call |-> "close", form |-> w]) /\ asked' = asked
    <3>1. /\ Len(stack) \in Nat /\ Len(stack') = Len(stack) + 1
          /\ \A i \in 1 .. Len(stack) : stack'[i] = stack[i]
          /\ stack'[Len(stack) + 1].call = "close"
      BY <1>2, <2>2 DEF TypeInv, StateType, Calls
    <3>2. \A i \in 1 .. Len(stack') : i \in 1 .. Len(stack) \/ i = Len(stack) + 1
      BY <3>1
    <3> QED BY <2>2, <3>1, <3>2 DEF AskedInv
  <2> QED BY <1>2, <2>1, <2>2 DEF Close, Closed
<1>3. ASSUME NEW w \in Windows, ShowModal(w) PROVE AskedInv'
  BY <1>3 DEF ShowModal, AskedInv
<1>4. ASSUME NEW w \in Windows, Event(w) PROVE AskedInv'
  BY <1>4 DEF Event, AskedInv
<1>5. CASE AnswerQuery \/ Run
  <2>1. stack' = stack /\ asked' \subseteq asked
    BY <1>5 DEF AnswerQuery, Run
  <2> QED BY <2>1, AskedShrinks
<1>6. CASE QueryReturns \/ QueryThrows \/ ModalEnds
  <2>1. stack # <<>> /\ stack' = Pop /\ asked' \subseteq asked
    BY <1>6 DEF QueryReturns, QueryThrows, ModalEnds, Closed
  <2>2. \A i \in 1 .. Len(stack') : i \in 1 .. Len(stack) /\ stack'[i] = stack[i]
    BY <2>1, StackTop DEF TypeInv
  <2> QED BY <2>1, <2>2 DEF AskedInv
<1>7. CASE UNCHANGED vars
  BY <1>7, AskedShrinks DEF vars, script
<1> QED BY <1>1, <1>2, <1>3, <1>4, <1>5, <1>6, <1>7 DEF Next

\* A step that leaves the stack and the flags alone.
LEMMA CallsStay ==
  ASSUME CallsInv, stack' = stack,
         \A i \in 1 .. Len(stack) : stack[i].form \in listed',
         \A w \in listed' : /\ w \in listed
                           /\ form'[w].closing = form[w].closing
                           /\ form'[w].modal = form[w].modal
  PROVE  CallsInv'
BY DEF CallsInv, Runs

\* A form that is deleted has no call that could miss it.
LEMMA CallsDelete ==
  ASSUME TypeInv, CallsInv, NEW w \in listed, ~OnStack(w), stack' = stack,
         listed' = listed \ {w}, form' = [form EXCEPT ![w] = Gone]
  PROVE  CallsInv'
<1>1. \A v \in listed' : v \in listed /\ form'[v] = form[v]
  BY DEF TypeInv, StateType, ListInv, ListType, Made
<1>2. \A i \in 1 .. Len(stack) : stack[i].form \in listed'
  BY DEF OnStack, CallsInv
<1> QED BY <1>1, <1>2, CallsStay

\* What an answer changes besides.
LEMMA CallsAnswered ==
  ASSUME TypeInv, CallsInv, NEW w \in object, NEW yes \in BOOLEAN, Answered(w, yes),
         stack' = stack, w = main => form[w].closing \/ ~OnStack(w)
  PROVE  CallsInv'
<1>1. w \in listed /\ w \in Windows /\ form \in [Windows -> Fields] /\ listed \subseteq Windows
  BY DEF TypeInv, StateType, ListInv, ListType, Made
<1>2. CASE ~form[w].closing /\ yes /\ w = main
  <2>1. listed' = listed \ {w} /\ form' = [form EXCEPT ![w] = Gone] /\ ~OnStack(w)
    BY <1>2 DEF Answered, Unlink
  <2> QED BY <1>1, <2>1, CallsDelete
<1>3. CASE ~(~form[w].closing /\ yes /\ w = main)
  <2>1. listed' = listed
    BY <1>3 DEF Answered, links
  <2>2. \/ form' = form
        \/ form' = [form EXCEPT ![w].consent = yes]
        \/ form' = [form EXCEPT ![w].result = "ok"]
        \/ form' = [form EXCEPT ![w].shown = FALSE]
    BY <1>3 DEF Answered
  <2>3. \A v \in listed : form'[v].closing = form[v].closing /\ form'[v].modal = form[v].modal
    BY <1>1, <2>2 DEF Fields
  <2> QED BY <2>1, <2>3, CallsStay DEF CallsInv
<1> QED BY <1>2, <1>3

LEMMA CallsConstruct ==
  ASSUME TypeInv, CallsInv, NEW w \in Windows, Construct(w)
  PROVE  CallsInv'
<1>1. /\ listed' = listed \cup {w} /\ w \notin listed /\ stack' = stack
      /\ form' = [form EXCEPT ![w] = NewForm]
  BY LinkKeeps DEF TypeInv, ListInv, ListType, Made, Construct, script
<1>2. form'[w].closing = FALSE /\ form'[w].modal = FALSE
  BY <1>1 DEF TypeInv, StateType, NewForm
<1>3. ~Runs("close", w)' /\ ~Runs("modal", w)'
  BY <1>1 DEF Runs, CallsInv
<1>4. \A v \in listed : form'[v] = form[v]
  BY <1>1 DEF TypeInv, StateType, ListInv, ListType, Made
<1> QED BY <1>1, <1>2, <1>3, <1>4 DEF CallsInv, Runs

LEMMA CallsConstructThrows ==
  ASSUME TypeInv, CallsInv, NEW w \in Windows, ConstructThrows(w)
  PROVE  CallsInv'
<1>1. /\ listed' = listed \cup {w} /\ w \notin listed /\ stack' = stack
      /\ form' = [form EXCEPT ![w] = Gone]
  BY LinkKeeps DEF TypeInv, ListInv, ListType, Made, ConstructThrows, script
<1>2. form'[w].closing = FALSE /\ form'[w].modal = FALSE
  BY <1>1 DEF TypeInv, StateType, Gone, NewForm
<1>3. ~Runs("close", w)' /\ ~Runs("modal", w)'
  BY <1>1 DEF Runs, CallsInv
<1>4. \A v \in listed : form'[v] = form[v]
  BY <1>1 DEF TypeInv, StateType, ListInv, ListType, Made
<1> QED BY <1>1, <1>2, <1>3, <1>4 DEF CallsInv, Runs

\* What showing and the main loop change has nothing to do with calls.
LEMMA CallsShown ==
  ASSUME TypeInv, CallsInv, NEW w \in Windows, SetVisible(w) \/ BringToFront(w) \/ TickBeat(w) \/ Run
  PROVE  CallsInv'
<1>1. stack' = stack /\ listed' = listed /\ form \in [Windows -> Fields] /\ listed \subseteq Windows
  BY DEF SetVisible, BringToFront, TickBeat, Run, links, script, TypeInv, StateType, ListInv, ListType, Made
<1>2. \/ form' = form
      \/ \E b \in BOOLEAN : form' = [form EXCEPT ![w].shown = b]
      \/ form' = [form EXCEPT ![w].ready = TRUE]
  BY DEF SetVisible, BringToFront, TickBeat, Run
<1>3. \A v \in listed : form'[v].closing = form[v].closing /\ form'[v].modal = form[v].modal
  BY <1>1, <1>2 DEF Fields
<1> QED BY <1>1, <1>3, CallsStay DEF CallsInv

LEMMA CallsClose ==
  ASSUME Careful, TypeInv, CallsInv, NEW w \in Windows, Close(w)
  PROVE  CallsInv'
<1>1. /\ w \in listed /\ listed' = listed /\ listed \subseteq Windows
      /\ form \in [Windows -> Fields] /\ StateType
  BY DEF Close, links, TypeInv, StateType, ListInv, ListType, Made
<1>2. \A i \in 1 .. Len(stack) : stack[i] \in Calls
  BY <1>1 DEF StateType
<1>3. ~OnStack(w) => ~Runs("close", w) /\ ~Runs("modal", w)
  BY DEF OnStack, Runs
<1>4. CASE /\ form[w].modal
           /\ form' = [form EXCEPT ![w] = [@ EXCEPT !.result = "cancel", !.closing = FALSE]]
           /\ UNCHANGED stack
  <2>1. form[w].modal = TRUE
    BY <1>1, <1>4 DEF Fields
  <2>2. PICK i \in 1 .. Len(stack) : stack[i] = [call |-> "modal", form |-> w]
    BY <1>1, <2>1 DEF CallsInv, Runs
  <2>3. ~Runs("close", w)
    <3>1. \A j \in 1 .. Len(stack) : stack[j].form = w => stack[j].call = "modal"
      BY <2>2 DEF CallsInv
    <3> QED BY <3>1 DEF Runs
  <2>4. form[w].closing = FALSE
    BY <1>1, <2>3 DEF CallsInv, Fields
  <2>5. \A v \in listed : form'[v].closing = form[v].closing /\ form'[v].modal = form[v].modal
    BY <1>1, <1>4, <2>4 DEF Fields
  <2> QED BY <1>1, <1>4, <2>5, CallsStay DEF CallsInv
<1>5. CASE ~form[w].modal /\ Closed(w, TRUE) /\ UNCHANGED stack
  <2>1. ~OnStack(w)
    BY <1>5 DEF Close, MayTouch
  <2>2. form[w].closing = FALSE
    BY <1>1, <1>3, <2>1 DEF CallsInv, Fields
  <2>3. form'[w].closing = FALSE /\ form'[w].modal = form[w].modal
    BY <1>1, <1>5 DEF Closed, Fields
  <2>4. \A v \in listed \ {w} : form'[v] = form[v]
    BY <1>1, <1>5 DEF Closed
  <2> QED BY <1>1, <1>5, <2>2, <2>3, <2>4, CallsStay DEF CallsInv
<1>6. CASE /\ ~form[w].modal
           /\ form' = [form EXCEPT ![w] = [@ EXCEPT !.closing = TRUE, !.consent = TRUE]]
           /\ stack' = Append(stack, [call |-> "close", form |-> w])
  <2>1. ~OnStack(w)
    BY <1>6 DEF Close, MayTouch
  <2>2. /\ \A i, j \in 1 .. Len(stack') : stack'[i].form = stack'[j].form => i = j
        /\ \A i \in 1 .. Len(stack') :
             (i \in 1 .. Len(stack) /\ stack'[i] = stack[i]) \/ stack'[i] = [call |-> "close", form |-> w]
        /\ \A v \in Windows : Runs("close", v)' <=> Runs("close", v) \/ v = w
        /\ \A v \in Windows : Runs("modal", v)' <=> Runs("modal", v)
    BY <1>1, <1>6, <2>1, PushRuns
  <2>3. form'[w].closing = TRUE /\ form'[w].modal = form[w].modal
    BY <1>1, <1>6 DEF Fields
  <2>4. \A v \in listed \ {w} : form'[v] = form[v]
    BY <1>1, <1>6
  <2>5. \A i \in 1 .. Len(stack') : stack'[i].form \in listed'
    BY <1>1, <2>2 DEF CallsInv
  <2>6. ASSUME NEW v \in listed' PROVE /\ form'[v].closing = TRUE <=> Runs("close", v)'
                                       /\ form'[v].modal = TRUE <=> Runs("modal", v)'
    BY <1>1, <2>2, <2>3, <2>4 DEF CallsInv
  <2>7. \A i, j \in 1 .. Len(stack') : stack'[i].form = stack'[j].form => i = j
    BY <2>2
  <2> QED BY <2>5, <2>6, <2>7 DEF CallsInv
<1> QED BY <1>4, <1>5, <1>6 DEF Close

LEMMA CallsShowModal ==
  ASSUME Careful, TypeInv, CallsInv, NEW w \in Windows, ShowModal(w)
  PROVE  CallsInv'
<1>1. /\ w \in listed /\ listed' = listed /\ listed \subseteq Windows
      /\ form \in [Windows -> Fields] /\ StateType /\ ~OnStack(w)
      /\ form' = [form EXCEPT ![w] = [@ EXCEPT !.modal = TRUE, !.result = "none"]]
      /\ stack' = Append(stack, [call |-> "modal", form |-> w])
  BY DEF ShowModal, MayTouch, links, TypeInv, StateType, ListInv, ListType, Made
<1>2. /\ \A i, j \in 1 .. Len(stack') : stack'[i].form = stack'[j].form => i = j
      /\ \A i \in 1 .. Len(stack') :
           (i \in 1 .. Len(stack) /\ stack'[i] = stack[i]) \/ stack'[i] = [call |-> "modal", form |-> w]
      /\ \A v \in Windows : Runs("close", v)' <=> Runs("close", v)
      /\ \A v \in Windows : Runs("modal", v)' <=> Runs("modal", v) \/ v = w
  BY <1>1, PushRuns
<1>3. form'[w].modal = TRUE /\ form'[w].closing = form[w].closing
  BY <1>1 DEF Fields
<1>4. \A v \in listed \ {w} : form'[v] = form[v]
  BY <1>1
<1>5. \A i \in 1 .. Len(stack') : stack'[i].form \in listed'
  BY <1>1, <1>2 DEF CallsInv
<1>6. ASSUME NEW v \in listed' PROVE /\ form'[v].closing = TRUE <=> Runs("close", v)'
                                     /\ form'[v].modal = TRUE <=> Runs("modal", v)'
  BY <1>1, <1>2, <1>3, <1>4 DEF CallsInv
<1>7. \A i, j \in 1 .. Len(stack') : stack'[i].form = stack'[j].form => i = j
  BY <1>2
<1> QED BY <1>5, <1>6, <1>7 DEF CallsInv

\* A call that returns has reset the flag that told of it.
LEMMA CallsReturn ==
  ASSUME TypeInv, CallsInv, QueryReturns \/ QueryThrows \/ ModalEnds
  PROVE  CallsInv'
<1> DEFINE w == Top.form
<1>1. /\ StateType /\ stack # <<>> /\ stack' = Pop /\ listed' = listed /\ w \in listed
      /\ listed \subseteq Windows /\ form \in [Windows -> Fields]
  BY DEF Live, QueryReturns, QueryThrows, ModalEnds, links, TypeInv, StateType, ListInv, ListType, Made
<1>2. /\ \A i, j \in 1 .. Len(stack') : stack'[i].form = stack'[j].form => i = j
      /\ \A i \in 1 .. Len(stack') : i \in 1 .. Len(stack) /\ stack'[i] = stack[i]
      /\ \A v \in Windows : Runs("close", v)' <=> Runs("close", v) /\ v # w
      /\ \A v \in Windows : Runs("modal", v)' <=> Runs("modal", v) /\ v # w
  BY <1>1, PopRuns
<1>3. Top = stack[Len(stack)] /\ Len(stack) \in 1 .. Len(stack) /\ Top \in Calls
  BY <1>1, StackTop DEF Top
<1>4. \A i \in 1 .. Len(stack) : stack[i].form = w => i = Len(stack)
  BY <1>3 DEF CallsInv
<1>5. \/ Top.call = "close" /\ form'[w].closing = FALSE /\ form'[w].modal = form[w].modal
      \/ Top.call = "modal" /\ form'[w].modal = FALSE /\ form'[w].closing = form[w].closing
  <2> HIDE DEF w
  <2>1. CASE Top.call = "close" /\ form' = [form EXCEPT ![w].closing = FALSE]
    BY <1>1, <2>1 DEF Fields
  <2>2. CASE Top.call = "close" /\ Closed(w, form[w].closing)
    BY <1>1, <2>2 DEF Closed, Fields
  <2>3. CASE Top.call = "modal" /\ form' = [form EXCEPT ![w].modal = FALSE]
    BY <1>1, <2>3 DEF Fields
  <2> QED BY <2>1, <2>2, <2>3 DEF QueryReturns, QueryThrows, ModalEnds, w
<1>6. \A v \in listed \ {w} : form'[v] = form[v]
  <2>1. \/ form' = [form EXCEPT ![w].closing = FALSE]
        \/ Closed(w, form[w].closing)
        \/ form' = [form EXCEPT ![w].modal = FALSE]
    BY DEF QueryReturns, QueryThrows, ModalEnds
  <2> HIDE DEF w
  <2> QED BY <1>1, <2>1 DEF Closed
<1>7. Top = [call |-> Top.call, form |-> w]
  BY <1>3 DEF Calls
<1>8. (Top.call = "close" => ~Runs("modal", w)) /\ (Top.call = "modal" => ~Runs("close", w))
  <2>1. \A i \in 1 .. Len(stack) : stack[i].form = w => stack[i].call = Top.call
    BY <1>3, <1>4
  <2> HIDE DEF w
  <2> QED BY <2>1 DEF Runs
<1>9. form'[w].closing # TRUE /\ form'[w].modal # TRUE
  <2> HIDE DEF w
  <2> QED BY <1>1, <1>5, <1>8 DEF CallsInv
<1> HIDE DEF w
<1>10. \A i \in 1 .. Len(stack') : stack'[i].form \in listed'
  BY <1>1, <1>2 DEF CallsInv
<1>11. ASSUME NEW v \in listed'
       PROVE  /\ form'[v].closing = TRUE <=> Runs("close", v)'
              /\ form'[v].modal = TRUE <=> Runs("modal", v)'
  BY <1>1, <1>2, <1>6, <1>9 DEF CallsInv
<1>12. \A i, j \in 1 .. Len(stack') : stack'[i].form = stack'[j].form => i = j
  BY <1>2
<1> QED BY <1>10, <1>11, <1>12 DEF CallsInv

LEMMA CallsStep == Careful /\ TypeInv /\ AskedInv /\ CallsInv /\ [Next]_vars => CallsInv'
<1> SUFFICES ASSUME Careful, TypeInv, AskedInv, CallsInv, [Next]_vars PROVE CallsInv'
  OBVIOUS
<1>1. ASSUME NEW w \in Windows,
             \/ Construct(w) \/ ConstructThrows(w) \/ SetVisible(w) \/ BringToFront(w)
             \/ TickBeat(w) \/ Close(w) \/ ShowModal(w)
      PROVE  CallsInv'
  BY <1>1, CallsConstruct, CallsConstructThrows, CallsShown, CallsClose, CallsShowModal
<1>2. ASSUME NEW w \in Windows, Invalidate(w) PROVE CallsInv'
  <2>1. /\ w \in listed /\ ~OnStack(w) /\ stack' = stack
        /\ listed' = listed \ {w} /\ form' = [form EXCEPT ![w] = Gone]
    BY <1>2 DEF Invalidate, Destroy, Unlink, MayTouch, TypeInv, StateType
  <2> QED BY <2>1, CallsDelete
<1>3. ASSUME NEW w \in Windows, DeliverClose(w) PROVE CallsInv'
  <2>1. w \in asked /\ w \in object /\ stack' = stack /\ w \in listed
    BY <1>3 DEF DeliverClose, TypeInv, StateType
  <2>2. \A i \in 1 .. Len(stack) : stack[i] \in Calls /\ stack[i].call # "modal"
    BY <2>1 DEF AskedInv, TypeInv, StateType
  <2>3. OnStack(w) => form[w].closing = TRUE
    <3>1. OnStack(w) => Runs("close", w)
      BY <2>2 DEF OnStack, Runs, Calls
    <3> QED BY <2>1, <3>1 DEF CallsInv
  <2>4. CASE \E yes \in BOOLEAN : Answered(w, yes)
    BY <2>1, <2>3, <2>4, CallsAnswered
  <2>5. CASE UNCHANGED <<links, current, form, object>>
    BY <2>1, <2>5, CallsStay DEF links, CallsInv
  <2> QED BY <1>3, <2>4, <2>5 DEF DeliverClose
<1>4. ASSUME NEW w \in Windows, Event(w) PROVE CallsInv'
  <2> DEFINE r == Receiver(w)
  <2>1. /\ r \in listed /\ stack = <<>> /\ stack' = stack
        /\ \/ Unlink(r) /\ form' = [form EXCEPT ![r] = Gone]
           \/ UNCHANGED <<links, current, form>>
    BY <1>4 DEF Event, Live
  <2> HIDE DEF r
  <2>2. ~OnStack(r)
    BY <2>1 DEF OnStack
  <2>3. CASE Unlink(r) /\ form' = [form EXCEPT ![r] = Gone]
    <3>1. listed' = listed \ {r}
      BY <2>3 DEF Unlink
    <3> QED BY <2>1, <2>2, <2>3, <3>1, CallsDelete
  <2>4. CASE UNCHANGED <<links, current, form>>
    BY <2>1, <2>4, CallsStay DEF links, CallsInv
  <2> QED BY <2>1, <2>3, <2>4
<1>5. CASE AnswerQuery
  <2>1. PICK yes \in BOOLEAN : Answered(Top.form, yes)
    BY <1>5 DEF AnswerQuery
  <2>2. Top.form \in object /\ stack' = stack /\ stack # <<>> /\ Top.call = "close" /\ Top.form \in listed
    BY <1>5 DEF AnswerQuery, TypeInv, StateType
  <2>3. form[Top.form].closing = TRUE
    <3>1. Top = stack[Len(stack)] /\ Len(stack) \in 1 .. Len(stack) /\ Top \in Calls
      BY <2>2, StackTop DEF Top, TypeInv
    <3>2. Top = [call |-> "close", form |-> Top.form]
      BY <2>2, <3>1 DEF Calls
    <3>3. Runs("close", Top.form)
      BY <3>1, <3>2 DEF Runs
    <3> QED BY <2>2, <3>3 DEF CallsInv
  <2> QED BY <2>1, <2>2, <2>3, CallsAnswered
<1>6. CASE QueryReturns \/ QueryThrows \/ ModalEnds
  BY <1>6, CallsReturn
<1>7. CASE Run
  <2>1. stack' = stack /\ listed' = listed /\ form' = form
    BY <1>7 DEF Run, links
  <2> QED BY <2>1, CallsStay DEF CallsInv
<1>8. CASE UNCHANGED vars
  <2>1. stack' = stack /\ listed' = listed /\ form' = form
    BY <1>8 DEF vars, links, script
  <2> QED BY <2>1, CallsStay DEF CallsInv
<1> QED BY <1>1, <1>2, <1>3, <1>4, <1>5, <1>6, <1>7, <1>8 DEF Next

LEMMA CallsAlways == Spec => [](Careful => CallsInv)
<1>1. Init => AskedInv /\ (Careful => CallsInv)
  BY DEF Init, AskedInv, CallsInv, Runs
<1>2. TypeInv /\ AskedInv /\ (Careful => CallsInv) /\ [Next]_vars => AskedInv' /\ (Careful => CallsInv)'
  BY AskedStep, CallsStep
<1> QED BY <1>1, <1>2, InitType, StepType, PTL DEF Spec

\* Close and ShowWindowAsModal find their form alive, however they are nested
\* and whatever the user closes in between, for every careful script.
THEOREM CallersStayLive == Spec => []CallersLive
<1>1. LostInv /\ (Careful => CallsInv) => CallersLive
  BY DEF CallersLive, CallsInv, LostInv, Live
<1> QED BY <1>1, CallsAlways, LostAlways, PTL

\* ProgramClosing and in_mode_ tell the calls that run, for every such script.
THEOREM FlagsTell == Spec => []FlagsTellCalls
<1>1. TypeInv /\ (Careful => CallsInv) => FlagsTellCalls
  <2> SUFFICES ASSUME TypeInv, Careful, CallsInv, NEW w \in listed
               PROVE  /\ form[w].closing <=> Runs("close", w)
                      /\ form[w].modal <=> Runs("modal", w)
    BY DEF FlagsTellCalls, Runs, Live
  <2>1. form[w] \in Fields
    BY DEF TypeInv, StateType, ListInv, ListType, Made
  <2> QED BY <2>1 DEF CallsInv, Fields
<1> QED BY <1>1, CallsAlways, InitType, StepType, PTL DEF Spec

-----------------------------------------------------------------------------
(* While a window is shown there is a current form.                         *)

Reach == current = None => \A w \in object : form[w].ready = TRUE /\ form[w].shown = FALSE

\* A step that hides a window, or leaves shown what is.
LEMMA ReachHidden ==
  ASSUME TypeInv, Reach, NEW w \in listed, object' \subseteq object,
         \A v \in object \ {w} : form'[v] = form[v],
         form'[w].ready = form[w].ready,
         form'[w].shown = form[w].shown \/ form'[w].shown = FALSE,
         \/ current' = current
         \/ current' = CurrentHidden(w, current) /\ form'[w].shown = FALSE
  PROVE  Reach'
<1>1. CASE current' = current
  BY <1>1 DEF Reach
<1>2. CASE current' = CurrentHidden(w, current) /\ form'[w].shown = FALSE
  <2>1. CASE current = None
    BY <1>2, <2>1, WindowAssumption DEF Reach, CurrentHidden, TypeInv, ListInv, ListType, Made
  <2>2. CASE current # None /\ current' = None
    <3>1. listed = {w} /\ form[w].ready
      BY <1>2, <2>2, HiddenIsLive DEF TypeInv, CurrentLives
    <3>2. form[w].ready = TRUE
      BY <3>1 DEF TypeInv, StateType, Fields, ListInv, ListType, Made
    <3>3. object \subseteq {w}
      BY <3>1 DEF TypeInv, StateType
    <3> QED BY <1>2, <3>2, <3>3 DEF Reach
  <2> QED BY <2>1, <2>2 DEF Reach
<1> QED BY <1>1, <1>2

\* A step that deletes a window.
LEMMA ReachDeleted ==
  ASSUME TypeInv, Reach, NEW w \in listed, Unlink(w), form' = [form EXCEPT ![w] = Gone],
         object' \subseteq listed' \cap object,
         \/ current' = CurrentAfter(w, CurrentHidden(w, current))
         \/ current' = CurrentAfter(w, current)
  PROVE  Reach'
<1>1. listed' = listed \ {w} /\ (last' = None => listed' = {})
  BY UnlinkKeeps DEF TypeInv
<1>2. \A v \in listed' : form'[v] = form[v]
  BY <1>1 DEF TypeInv, StateType, ListInv, ListType, Made
<1>3. CurrentHidden(w, current) = None /\ current # None => listed = {w}
  BY HiddenIsLive DEF TypeInv, CurrentLives
<1>4. CASE current = None
  BY <1>1, <1>2, <1>4 DEF Reach
<1>5. CASE current # None /\ current' = None
  <2>1. listed' = {}
    BY <1>1, <1>3, <1>5 DEF CurrentAfter
  <2> QED BY <2>1 DEF Reach
<1> QED BY <1>4, <1>5 DEF Reach

\* The steps that make, show or tick.
LEMMA ReachShown ==
  ASSUME TypeInv, Reach, NEW w \in Windows,
         \/ Construct(w) \/ ConstructThrows(w) \/ SetVisible(w) \/ BringToFront(w) \/ TickBeat(w) \/ ShowModal(w)
  PROVE  Reach'
<1>1. w # None /\ form \in [Windows -> Fields] /\ object \subseteq listed /\ listed \subseteq Windows
  BY WindowAssumption DEF TypeInv, StateType, ListInv, ListType, Made
<1>2. CASE Construct(w) \/ ConstructThrows(w) \/ BringToFront(w) \/ ShowModal(w)
  <2>1. current' # None
    BY <1>1, <1>2 DEF Construct, ConstructThrows, BringToFront, ShowModal, Front
  <2> QED BY <2>1 DEF Reach
<1>3. CASE SetVisible(w)
  <2>1. PICK shown \in BOOLEAN :
          /\ form' = [form EXCEPT ![w].shown = shown]
          /\ IF shown /\ form[w].ready
               THEN Front(w)
               ELSE current' = IF shown THEN current ELSE CurrentHidden(w, current)
    BY <1>3 DEF SetVisible
  <2>2. w \in object /\ object' = object /\ w \in listed
    BY <1>1, <1>3 DEF SetVisible
  <2>3. CASE shown /\ form[w].ready
    BY <1>1, <2>1, <2>3 DEF Front, Reach
  <2>4. CASE shown /\ ~form[w].ready
    BY <2>1, <2>2, <2>4 DEF Reach
  <2>5. CASE ~shown
    <3>1. form' = [form EXCEPT ![w].shown = FALSE] /\ current' = CurrentHidden(w, current)
      BY <2>1, <2>5
    <3>2. form'[w].ready = form[w].ready /\ form'[w].shown = FALSE
      BY <1>1, <3>1 DEF Fields
    <3>3. \A v \in object \ {w} : form'[v] = form[v]
      BY <1>1, <3>1
    <3> QED BY <2>2, <3>1, <3>2, <3>3, ReachHidden
  <2> QED BY <2>3, <2>4, <2>5
<1>4. CASE TickBeat(w)
  <2>1. w \in object /\ object' = object /\ w \in listed /\ form' = [form EXCEPT ![w].ready = TRUE]
    BY <1>4 DEF TickBeat, TypeInv, StateType
  <2>2. CASE form[w].shown
    BY <1>1, <1>4, <2>2 DEF TickBeat, Front, Reach
  <2>3. CASE ~form[w].shown
    <3>1. form'[w].ready = TRUE /\ form'[w].shown = FALSE
      <4>1. form[w] \in Fields /\ form[w].shown = FALSE
        BY <1>1, <2>3 DEF Fields
      <4> QED BY <1>1, <2>1, <4>1 DEF Fields
    <3>2. \A v \in object \ {w} : form'[v] = form[v]
      BY <1>1, <2>1
    <3>3. CASE current' = current
      BY <2>1, <3>1, <3>2, <3>3 DEF Reach
    <3>4. CASE current' = None /\ current # None
      <4>1. prev[w] = None /\ next[w] = None
        BY <1>4, <2>3, <3>4 DEF TickBeat
      <4>2. \A v \in listed : born[v] \in Nat
        BY DEF TypeInv, ListInv, ListType, Made
      <4>3. listed = {w}
        BY <2>1, <4>1, <4>2 DEF TypeInv, ListInv, Linked, Before
      <4> QED BY <1>1, <2>1, <3>1, <4>3 DEF Reach
    <3> QED BY <3>3, <3>4 DEF Reach
  <2> QED BY <2>2, <2>3
<1> QED BY <1>2, <1>3, <1>4

\* What Close does once it was let.
LEMMA ReachClosed ==
  ASSUME TypeInv, Reach, NEW w \in listed, NEW closing \in BOOLEAN, Closed(w, closing)
  PROVE  Reach'
<1> DEFINE f == form[w]
           closes == closing /\ f.instance
           hides == closes \/ f.result # "none"
<1>1. /\ form \in [Windows -> Fields] /\ w \in Windows /\ f \in Fields
      /\ object \subseteq Windows
  BY DEF TypeInv, StateType, ListInv, ListType, Made
<1>2. /\ form' = [form EXCEPT ![w] =
           [f EXCEPT !.instance = f.instance /\ ~closes,
                     !.shown = f.shown /\ ~hides,
                     !.dying = f.dying \/ (closes /\ w # main),
                     !.closing = FALSE,
                     !.consent = FALSE]]
      /\ current' = IF hides THEN CurrentHidden(w, current) ELSE current
      /\ object' \subseteq object
  BY DEF Closed
<1>3. form'[w].ready = f.ready /\ form'[w].shown = (f.shown /\ ~hides)
  <2> HIDE DEF hides, closes
  <2> QED BY <1>1, <1>2 DEF Fields
<1>4. f.shown \in BOOLEAN
  BY <1>1 DEF Fields
<1>5. \A v \in object \ {w} : form'[v] = form[v]
  BY <1>1, <1>2
<1> HIDE DEF hides
<1>6. CASE hides
  <2>1. form'[w].shown = FALSE
    BY <1>3, <1>6
  <2> QED BY <1>2, <1>3, <1>5, <1>6, <2>1, ReachHidden
<1>7. CASE ~hides
  <2>1. form'[w].shown = form[w].shown
    BY <1>3, <1>4, <1>7
  <2> QED BY <1>2, <1>3, <1>5, <1>7, <2>1, ReachHidden
<1> QED BY <1>6, <1>7

\* A step that neither shows nor hides.
LEMMA ReachStays ==
  ASSUME Reach, current' = current, object' = object,
         \A v \in object : form'[v].ready = form[v].ready /\ form'[v].shown = form[v].shown
  PROVE  Reach'
BY DEF Reach

LEMMA ReachAnswered ==
  ASSUME TypeInv, Reach, NEW w \in object, NEW yes \in BOOLEAN, Answered(w, yes)
  PROVE  Reach'
<1>1. /\ form \in [Windows -> Fields] /\ w \in Windows /\ w \in listed
      /\ object \subseteq Windows /\ object \subseteq listed
  BY DEF TypeInv, StateType, ListInv, ListType, Made
<1>2. CASE ~form[w].closing /\ yes /\ w = main
  <2>1. /\ Unlink(w) /\ current' = CurrentAfter(w, CurrentHidden(w, current))
        /\ form' = [form EXCEPT ![w] = Gone] /\ object' = object \ {w}
    BY <1>2 DEF Answered
  <2>2. listed' = listed \ {w}
    BY <2>1 DEF Unlink
  <2>3. object' \subseteq listed' \cap object
    BY <1>1, <2>1, <2>2
  <2> QED BY <1>1, <2>1, <2>3, ReachDeleted
<1>3. CASE ~form[w].closing /\ yes /\ w # main /\ ~form[w].modal
  <2>1. /\ form' = [form EXCEPT ![w].shown = FALSE] /\ object' = object
        /\ current' = CurrentHidden(w, current)
    BY <1>3 DEF Answered
  <2>2. form'[w].ready = form[w].ready /\ form'[w].shown = FALSE
    BY <1>1, <2>1 DEF Fields
  <2>3. \A v \in object \ {w} : form'[v] = form[v]
    BY <1>1, <2>1
  <2> QED BY <1>1, <2>1, <2>2, <2>3, ReachHidden
<1>4. CASE form[w].closing \/ ~yes \/ (w # main /\ form[w].modal)
  <2>1. /\ current' = current /\ object' = object
        /\ \/ form' = form
           \/ form' = [form EXCEPT ![w].consent = yes]
           \/ form' = [form EXCEPT ![w].result = "ok"]
    BY <1>4 DEF Answered
  <2>2. \A v \in object : form'[v].ready = form[v].ready /\ form'[v].shown = form[v].shown
    BY <1>1, <2>1 DEF Fields
  <2> QED BY <2>1, <2>2, ReachStays
<1> QED BY <1>2, <1>3, <1>4

LEMMA ReachStep == TypeInv /\ Reach /\ [Next]_vars => Reach'
<1> SUFFICES ASSUME TypeInv, Reach, [Next]_vars PROVE Reach'
  OBVIOUS
<1>0. /\ form \in [Windows -> Fields] /\ object \subseteq listed /\ listed \subseteq Windows
      /\ object = {v \in listed : form[v].instance = TRUE}
  BY DEF TypeInv, StateType, ListInv, ListType, Made
<1>1. ASSUME NEW w \in Windows,
             \/ Construct(w) \/ ConstructThrows(w) \/ SetVisible(w) \/ BringToFront(w) \/ TickBeat(w) \/ ShowModal(w)
      PROVE  Reach'
  BY <1>1, ReachShown
<1>2. ASSUME NEW w \in Windows, Invalidate(w) PROVE Reach'
  <2>1. /\ w \in listed /\ Unlink(w) /\ current' = CurrentAfter(w, CurrentHidden(w, current))
        /\ form' = [form EXCEPT ![w] = Gone] /\ object' = object \ {w} /\ listed' = listed \ {w}
    BY <1>0, <1>2 DEF Invalidate, Destroy, Unlink
  <2>2. object' \subseteq listed' \cap object
    BY <1>0, <2>1
  <2> QED BY <2>1, <2>2, ReachDeleted
<1>3. ASSUME NEW w \in Windows, Close(w) PROVE Reach'
  <2>1. w \in listed /\ w \in object
    BY <1>0, <1>3 DEF Close
  <2>2. CASE Closed(w, TRUE)
    BY <2>1, <2>2, ReachClosed
  <2>3. CASE form' = [form EXCEPT ![w] = [@ EXCEPT !.result = "cancel", !.closing = FALSE]] /\ UNCHANGED <<current, object>>
    <3>1. \A v \in object : form'[v].ready = form[v].ready /\ form'[v].shown = form[v].shown
      BY <1>0, <2>3 DEF Fields
    <3> QED BY <2>3, <3>1, ReachStays
  <2>4. CASE form' = [form EXCEPT ![w] = [@ EXCEPT !.closing = TRUE, !.consent = TRUE]] /\ UNCHANGED <<current, object>>
    <3>1. \A v \in object : form'[v].ready = form[v].ready /\ form'[v].shown = form[v].shown
      BY <1>0, <2>4 DEF Fields
    <3> QED BY <2>4, <3>1, ReachStays
  <2> QED BY <1>3, <2>2, <2>3, <2>4 DEF Close
<1>4. ASSUME NEW w \in Windows, DeliverClose(w) PROVE Reach'
  <2>1. w \in object
    BY <1>4 DEF DeliverClose, TypeInv, StateType
  <2>2. CASE \E yes \in BOOLEAN : Answered(w, yes)
    BY <2>1, <2>2, ReachAnswered
  <2>3. CASE UNCHANGED <<links, current, form, object>>
    BY <2>3, ReachStays
  <2> QED BY <1>4, <2>2, <2>3 DEF DeliverClose
<1>5. ASSUME NEW w \in Windows, Event(w) PROVE Reach'
  <2> DEFINE r == Receiver(w)
  <2>1. /\ r \in listed /\ object' = object
        /\ \/ /\ form[r].dying /\ Unlink(r) /\ form' = [form EXCEPT ![r] = Gone]
              /\ current' = CurrentAfter(r, current)
           \/ UNCHANGED <<current, form>>
    BY <1>5 DEF Event, Live
  <2> HIDE DEF r
  <2>2. CASE /\ form[r].dying /\ Unlink(r) /\ form' = [form EXCEPT ![r] = Gone]
             /\ current' = CurrentAfter(r, current)
    <3>1. form[r].dying = TRUE
      BY <1>0, <2>1, <2>2 DEF Fields
    <3>2. form[r].instance = FALSE
      BY <1>0, <2>1, <3>1 DEF TypeInv, StateType
    <3>3. object' \subseteq listed' \cap object
      BY <1>0, <2>1, <2>2, <3>2 DEF Unlink
    <3> QED BY <2>1, <2>2, <3>3, ReachDeleted
  <2>3. CASE UNCHANGED <<current, form>>
    BY <2>1, <2>3, ReachStays
  <2> QED BY <2>1, <2>2, <2>3
<1>6. CASE AnswerQuery
  BY <1>6, ReachAnswered DEF AnswerQuery
<1>7. CASE QueryReturns \/ QueryThrows \/ ModalEnds
  <2> DEFINE w == Top.form
  <2>1. /\ w \in listed /\ w \in Windows
        /\ \/ Closed(w, form[w].closing)
           \/ form' = [form EXCEPT ![w].closing = FALSE] /\ UNCHANGED <<current, object>>
           \/ form' = [form EXCEPT ![w].modal = FALSE] /\ UNCHANGED <<current, object>>
    BY <1>0, <1>7 DEF Live, QueryReturns, QueryThrows, ModalEnds
  <2> HIDE DEF w
  <2>2. form[w].closing \in BOOLEAN
    BY <1>0, <2>1 DEF Fields
  <2>3. CASE Closed(w, form[w].closing)
    BY <2>1, <2>2, <2>3, ReachClosed
  <2>4. CASE /\ \/ form' = [form EXCEPT ![w].closing = FALSE]
                \/ form' = [form EXCEPT ![w].modal = FALSE]
             /\ UNCHANGED <<current, object>>
    <3>1. \A v \in object : form'[v].ready = form[v].ready /\ form'[v].shown = form[v].shown
      BY <1>0, <2>4 DEF Fields
    <3> QED BY <2>4, <3>1, ReachStays
  <2> QED BY <2>1, <2>3, <2>4
<1>8. CASE Run
  BY <1>8, ReachStays DEF Run
<1>9. CASE UNCHANGED vars
  BY <1>9, ReachStays DEF vars
<1> QED BY <1>1, <1>2, <1>3, <1>4, <1>5, <1>6, <1>7, <1>8, <1>9 DEF Next

\* While a window that is ready is shown, some form is the current one, for any
\* number of windows and any script.
THEOREM ShownKeepsCurrent == Spec => []ShownHasCurrent
<1>1. Init => Reach
  BY DEF Init, Reach
<1>2. TypeInv /\ Reach => ShownHasCurrent
  BY DEF TypeInv, StateType, ListInv, ListType, Made, Fields, Reach, ShownHasCurrent
<1> QED BY <1>1, <1>2, InitType, StepType, ReachStep, PTL DEF Spec

=============================================================================
