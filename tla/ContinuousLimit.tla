-------------------------- MODULE ContinuousLimit --------------------------
(***************************************************************************)
(* The thread that limits how often continuous handlers are called         *)
(* (EventImpl.cpp), with the SDL queue it posts to (NativeEventQueue.cpp). *)
(* Ticks are milliseconds times Frac, in which fractions of a millisecond  *)
(* can be counted.                                                         *)
(* Names that other modules of the main thread have too begin with Limit,  *)
(* so that MainThreadProofs can extend them all.                           *)
(***************************************************************************)
EXTENDS Integers

CONSTANTS
  Frac,        \* 1 << TVP_SUBMILLI_FRAC_BITS
  Intervals,   \* what SetInterval is called with
  QueueLimit,  \* how many events the SDL queue holds
  MaxTime,     \* bound: the clock stops
  MaxBegins    \* bound: how often TVPBeginContinuousEvent is called

\* A frequency above the tick rate makes an Interval of 0; it is left out.
ASSUME LimitAssumption ==
  /\ Frac \in Nat \ {0} /\ QueueLimit \in Nat \ {0}
  /\ Intervals \subseteq Nat \ {0} /\ Intervals # {}
  /\ MaxTime \in Nat /\ MaxBegins \in Nat

\* How long to sleep when disabled does not matter.
Disabled == 10000

VARIABLES
  now,         \* the clock, in milliseconds
  nextTick,    \* NextEventTick
  interval,    \* Interval
  enabled,     \* Enabled
  signalled,   \* Event is set
  terminated,  \* GetTerminated()
  thread,      \* where the thread is; it holds CS at "post"
  cur,         \* curtick of Execute
  sleep,       \* sleeptime
  wake,        \* when WaitFor times out
  flag,        \* TVPProcessContinuousHandlerEventFlag
  slot,        \* in which interval the thread set the flag last, since it
               \* was enabled
  queued,      \* how many events are in the SDL queue
  mainAt,      \* where the main thread is
  begins       \* how often TVPBeginContinuousEvent was called

limits == <<nextTick, interval, enabled>>
execution == <<thread, cur, sleep, wake>>
limitVars == <<now, limits, signalled, terminated, execution, flag, slot, queued,
               mainAt, begins>>

-----------------------------------------------------------------------------
(* The limit thread: Execute.                                               *)

\* curtick is read before the lock is taken.
ReadClock ==
  /\ thread = "read"
  /\ cur' = now * Frac
  /\ thread' = "lock"
  /\ UNCHANGED <<now, limits, signalled, terminated, sleep, wake, flag, slot,
                 queued, mainAt, begins>>

\* The rest of the locked block and WaitFor, for the tick t: the sleep is
\* rounded up to milliseconds.
SleepUntil(t) ==
  /\ sleep' = (t - cur + Frac - 1) \div Frac
  /\ wake' = now + sleep'
  /\ thread' = "sleep"

\* Mutant: the thread posts whenever it is woken.
DueAlways ==
  /\ thread = "lock" /\ enabled
  /\ flag' = TRUE
  /\ slot' = cur \div interval
  /\ thread' = "post"
  /\ UNCHANGED <<now, limits, signalled, terminated, cur, sleep, wake, queued,
                 mainAt, begins>>

\* The thread has CS, is enabled, and the tick has come: it sets the flag and
\* posts.
Due ==
  /\ thread = "lock" /\ enabled /\ nextTick <= cur
  /\ flag' = TRUE
  /\ slot' = cur \div interval
  /\ thread' = "post"
  /\ UNCHANGED <<now, limits, signalled, terminated, cur, sleep, wake, queued,
                 mainAt, begins>>

NotDue ==
  /\ thread = "lock" /\ enabled /\ nextTick > cur
  /\ SleepUntil(nextTick)
  /\ UNCHANGED <<now, limits, signalled, terminated, cur, flag, slot, queued,
                 mainAt, begins>>

SleepDisabled ==
  /\ thread = "lock" /\ ~enabled
  /\ sleep' = Disabled /\ wake' = now + Disabled
  /\ thread' = "sleep"
  /\ UNCHANGED <<now, limits, signalled, terminated, cur, flag, slot, queued,
                 mainAt, begins>>

\* while(NextEventTick <= curtick) NextEventTick += Interval
CatchUp(from, to) == from + ((to - from) \div interval + 1) * interval

\* PostEvent tries again, with CS, until the queue has room.
Post ==
  /\ thread = "post"
  /\ queued < QueueLimit
  /\ queued' = queued + 1
  /\ nextTick' = CatchUp(nextTick, cur)
  /\ SleepUntil(nextTick')
  /\ UNCHANGED <<now, interval, enabled, signalled, terminated, cur, flag, slot,
                 mainAt, begins>>

\* Event.WaitFor(sleeptime) returns; while(!GetTerminated())
Wake ==
  /\ thread = "sleep"
  /\ signalled \/ now >= wake
  /\ signalled' = FALSE
  /\ thread' = IF terminated THEN "done" ELSE "read"
  /\ UNCHANGED <<now, limits, terminated, cur, sleep, wake, flag, slot, queued,
                 mainAt, begins>>

-----------------------------------------------------------------------------
(* The main thread.                                                         *)

\* TVPBeginContinuousEvent, with a limit: the thread is made if there is none;
\* SetInterval takes no lock.
Begin(i) ==
  /\ mainAt = "idle" /\ ~terminated
  /\ begins < MaxBegins
  /\ begins' = begins + 1
  /\ interval' = i
  /\ thread' = IF thread = "none" THEN "read" ELSE thread
  /\ mainAt' = "enable"
  /\ UNCHANGED <<now, nextTick, enabled, signalled, terminated, cur, sleep, wake,
                 flag, slot, queued>>

\* Mutant: the thread is not woken.
EnableSilent ==
  /\ mainAt = "enable" /\ thread # "post"
  /\ enabled' = TRUE
  /\ nextTick' = ((now * Frac + 1) \div interval) * interval
  /\ mainAt' = "idle"
  /\ slot' = -1
  /\ UNCHANGED <<now, interval, signalled, terminated, execution, flag, queued,
                 begins>>

\* SetEnabled(true)
Enable ==
  /\ mainAt = "enable" /\ thread # "post"
  /\ enabled' = TRUE
  /\ nextTick' = ((now * Frac + 1) \div interval) * interval
  /\ signalled' = TRUE
  /\ mainAt' = "idle"
  /\ slot' = -1
  /\ UNCHANGED <<now, interval, terminated, execution, flag, queued, begins>>

\* TVPEndContinuousEvent: SetEnabled(false)
End ==
  /\ mainAt = "idle" /\ thread \notin {"none", "done"}
  /\ mainAt' = "disable"
  /\ UNCHANGED <<now, limits, signalled, terminated, execution, flag, slot,
                 queued, begins>>

Disable ==
  /\ mainAt = "disable" /\ thread # "post"
  /\ enabled' = FALSE
  /\ mainAt' = "idle"
  /\ UNCHANGED <<now, nextTick, interval, signalled, terminated, execution, flag,
                 slot, queued, begins>>

\* Mutant: the destructor does not wake the thread.
ExitSilent ==
  /\ mainAt = "idle" /\ thread # "none" /\ ~terminated
  /\ terminated' = TRUE
  /\ mainAt' = "join"
  /\ UNCHANGED <<now, limits, signalled, execution, flag, slot, queued, begins>>

\* At exit the thread is deleted: Terminate(); Event.Set(); WaitFor()
Exit ==
  /\ mainAt = "idle" /\ thread # "none" /\ ~terminated
  /\ terminated' = TRUE /\ signalled' = TRUE
  /\ mainAt' = "join"
  /\ UNCHANGED <<now, limits, execution, flag, slot, queued, begins>>

Join ==
  /\ mainAt = "join" /\ thread = "done"
  /\ mainAt' = "idle"
  /\ UNCHANGED <<now, limits, signalled, terminated, execution, flag, slot,
                 queued, begins>>

\* TVPDeliverAllEvents, on idle, calls the continuous handlers if the flag is
\* set.
Deliver ==
  /\ mainAt = "idle" /\ flag
  /\ flag' = FALSE
  /\ UNCHANGED <<now, limits, signalled, terminated, execution, slot, queued,
                 mainAt, begins>>

\* An event leaves the SDL queue; WndProc does nothing.
Dispatch ==
  /\ mainAt = "idle" /\ queued > 0
  /\ queued' = queued - 1
  /\ UNCHANGED <<now, limits, signalled, terminated, execution, flag, slot,
                 mainAt, begins>>

Tick ==
  /\ now < MaxTime
  /\ now' = now + 1
  /\ UNCHANGED <<limits, signalled, terminated, execution, flag, slot, queued,
                 mainAt, begins>>

-----------------------------------------------------------------------------

LimitInit ==
  /\ now = 0 /\ nextTick = 0 /\ interval \in Intervals /\ enabled = FALSE
  /\ signalled = FALSE /\ terminated = FALSE
  /\ thread = "none" /\ cur = 0 /\ sleep = 0 /\ wake = 0
  /\ flag = FALSE /\ slot = -1 /\ queued = 0
  /\ mainAt = "idle" /\ begins = 0

Execute == ReadClock \/ Due \/ NotDue \/ SleepDisabled \/ Post \/ Wake

Call == Enable \/ Disable \/ Join

LimitScript == (\E i \in Intervals : Begin(i)) \/ End \/ Exit

LimitNext == Execute \/ Call \/ LimitScript \/ Deliver \/ Dispatch \/ Tick

LimitSpec == LimitInit /\ [][LimitNext]_limitVars

\* The limit thread runs, and a call of the main thread that can go on does.
\* The script need not call anything, and the queue need not be emptied.
LimitFairness == WF_limitVars(Execute) /\ SF_limitVars(Call)

LimitFairSpec == LimitSpec /\ LimitFairness

-----------------------------------------------------------------------------
(* Properties.                                                              *)

\* Every variable stays in its type; the difference of NextEventTick and
\* curtick, which is unsigned, never goes below zero.
LimitTypeOK ==
  /\ now \in 0 .. MaxTime /\ nextTick \in Nat /\ interval \in Nat \ {0}
  /\ enabled \in BOOLEAN /\ signalled \in BOOLEAN /\ terminated \in BOOLEAN
  /\ thread \in {"none", "read", "lock", "post", "sleep", "done"}
  /\ cur \in 0 .. MaxTime * Frac /\ sleep \in Nat /\ wake \in Nat
  /\ flag \in BOOLEAN /\ slot \in Nat \cup {-1}
  /\ queued \in 0 .. QueueLimit
  /\ mainAt \in {"idle", "enable", "disable", "join"} /\ begins \in 0 .. MaxBegins

\* Unless it has been woken, the enabled thread sleeps from curtick to
\* NextEventTick and less than a millisecond longer, also when NextEventTick
\* was set by SetEnabled while it slept or between its reading of the clock and
\* its taking of the lock.  It never sleeps for 0, which would be for ever.
SleepsUntilNext ==
  thread = "sleep" /\ enabled /\ ~signalled =>
    /\ sleep > 0
    /\ nextTick - cur \in (sleep - 1) * Frac + 1 .. sleep * Frac

\* Enabling, disabling and deleting the thread does not hang.
MainReturns == mainAt # "idle" ~> mainAt = "idle"

\* From one SetEnabled(true) to the next SetInterval the flag is set once in an
\* interval at most, however late the thread is.
LimitKept ==
  [][thread = "lock" /\ thread' = "post" /\ mainAt # "enable"
       => cur \div interval # slot]_limitVars
=============================================================================
