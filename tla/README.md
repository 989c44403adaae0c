# Verification of MaterialKiri

MaterialKiri is a port of the Kirikiri Z visual-novel engine to SDL2, OpenAL and
Emscripten. This directory holds TLA+ models of the parts of it where several
threads, callbacks and asynchronous calls meet, or where long sequences of calls
build up state; the TLC runs that check them on small instances; and proofs
checked by TLAPS. Paths below are relative to the
repository; `core` stands for `src/core`.

## 1. Inventory

The engine proper (TJS2, the generic classes of sound, events and layers, the
loop manager) is the submodule `external/krkrz`, whose files are not part of the
repository. What is here is the platform half and a set of plug-ins.

| component | state | operations | hard behaviour |
|---|---|---|---|
| level-2 sound buffer (`core/sound/sdl2/WaveImpl.cpp`) | a ring of rendered units: read and write position, count, samples, segments | `FillL2Buffer`, `ReadL2Buffer`, `FillBuffer`, `StartPlay`, `StopPlay` | three threads, three locks per sound; one side reads with no lock |
| decode thread (`WaveImpl.cpp`) | `Running`, an event, `OneLoopCS` | `Execute`, `Interrupt`, `Continue`, destructor | flags tested with no lock, lost wake-ups, objects deleted under it |
| playing thread and label events (`WaveImpl.cpp`) | sounds being served, `LabelEventQueue`, `PendingLabelEventExists` | `Execute`, `UtilWndProc`, `ReschedulePendingLabelEvent` | lock order against `StartPlay`, pause, end of a sound |
| audio devices (`OpenALWaveMixer.cpp`, `FAudioDevice.cpp`, `NullAudioDevice.cpp`) | queued and played buffers | `AppendBuffer`, `Play`, `Pause`, `GetRemainBuffers` | called by two threads, recycling of buffers |
| event queues (`core/base/sdl2/NativeEventQueue.*`, `EventImpl.cpp`) | posted events with a pointer to their queue; the limit thread's next tick | `PostEvent`, `HandleEvent`, `Execute`, `SetEnabled` | full queue, posting under a lock, events that outlive their queue |
| application loop and save data (`core/environ/sdl2/Application.*`, `SystemControl.*`) | a dirty flag, a sync in flight | `Run`, `SyncSavedata`, `FinishedSyncSavedata`, `Terminate` | asynchronous completion, writes during a sync, failure, exit |
| SDL windows (`core/sdl2/SDLApplication.cpp`, `core/visual/sdl2/WindowImpl.cpp`) | a doubly linked list of forms, the current form, modal and closing flags | event dispatch, `Close`, `SetVisible`, `ShowWindowAsModal`, `Invalidate` | nested loops in which the script runs, windows deleted while used |
| bitmap memory (`core/visual/sdl2/BitmapBitsAlloc.cpp`) | one allocator and a count | `Alloc`, `Free` | none: the allocator keeps no state |
| storage and archives (`core/base/sdl2/StorageImpl.cpp`, `SusieArchive.cpp`) | open streams, archive cache | open, read, list | a lock object that is a temporary |
| video overlay, drawing, OpenGL, bitmap completion, graphics loading | pixels | drawing calls | sequential |
| system, start-up, scripts, plug-in loading, messages | options, tables | start-up sequence | sequential |
| KAG parser (`src/plugins/KAGParserEx`) | a position, stacks of calls, conditions and macro arguments, macros, labels | `GetNextTag`, and the methods that move, store and restore it | long sequences of legal calls; callbacks and exceptions in the middle |
| text layout (`src/plugins/textrender.cpp`) | placed characters, an open group, the font of the one rasterizer | `render`, `done`, `clear`, `setRenderSize`, `setDefault` | a group that outlives calls and changes of font |
| csvParser | a line being split | a loop with one flag | boundary values |
| extrans, motionplayer, psbfile, win32dialog, menu, scriptsEx, addFont, kremscripten, cxdec | - | pixel arithmetic, file formats, wrappers | sequential |

How they meet: the script calls sound objects on the main thread; every sound
has a decode thread of its own; one playing thread serves all sounds and posts
events to the main thread's SDL queue; the main loop dispatches them and runs
continuous handlers, for which the limit thread sets a flag; the file layer
marks save data dirty and the main loop starts the synchronisation. A window that
is closed or shown as modal runs the main loop inside of its call, so that other
handlers of the script come in between. The scenario parser and the text layout
are called by the script alone; what makes them hard is what the script may call
in between, and what an exception leaves half done.

Correctness, by component: the reader and the renderer of a ring never share a
slot, no unit is lost or heard twice, no call hangs, every unit is heard (ring);
a stopped thread is stopped, a started one runs (decode thread); labels are
delivered once and in order, and the end is reported (playing thread); until it runs
dry, what is queued in the device is heard once and in order, and no queued buffer is
written (device); an event is handled once (event queues); what was written reaches the
store (save data); the list of forms is whole and a call of a form comes back to a
living one (windows); text is shown exactly where its conditions hold, a return
leads behind its call and a macro pops its own arguments (KAG parser); no
character is lost, and lines are broken where they must be and nowhere else
(text layout).

## 2. Modules

| module | models |
|---|---|
| `AudioFifo` | the promise of the level-2 buffer: a bounded first-in first-out queue that can be restarted |
| `L2Ring` | the level-2 buffer of one sound with its three threads and its locks |
| `L2RingProofs` | theorems about `L2Ring`, for every number of units; that it implements `AudioFifo` |
| `DecodeThread` | the decode thread, and how the main thread starts, stops and deletes it |
| `WavePlayback` | one sound from `Play` to its end: main thread, playing thread, device, label events |
| `SoundLifetime` | several sounds made, opened, stopped and deleted, and the playing thread that is made and deleted with them |
| `SoundLifetimeProofs` | theorems about `SoundLifetime`, for any number of sounds |
| `ContinuousLimit` | the thread that limits continuous handlers, its clock, its lock and the SDL queue |
| `MainLoop` | `process_events` and its nesting, termination, file streams, the synchronisation of save data |
| `DecodeThreadProofs`, `WavePlaybackProofs` | theorems about these two, for every number of units and every stream |
| `OpenALStream` | the device of one sound: a source of OpenAL, its buffers, and the calls of two threads |
| `OpenALStreamProofs` | theorems about it, for any number of buffers and any stream |
| `WindowLife` | windows made, shown, closed, shown as modal and destroyed, with nested loops |
| `MainThreadProofs` | theorems about `ContinuousLimit`, `MainLoop` and `WindowLife`, for any clock and intervals, any files, any windows |
| `KagConditions` | what a scenario may rely on about `[if]`, `[elsif]`, `[else]` and `[endif]` |
| `KagParser` | the scenario parser: `getNextTag` and every method that moves, stores or restores it |
| `KagParserProofs` | that it implements `KagConditions`, its types, its returns and its macro arguments, for every set of scenarios |
| `TextRender` | the text layout of `textrender.cpp` |
| `TextRenderProofs` | theorems about it, for any text, boxes and fonts |
| `MC...` | instances for TLC |

`AudioFifo` is the abstract specification of `L2Ring`, `KagConditions` that of
`KagParser`. `L2Ring`, `DecodeThread`, `WavePlayback`, `OpenALStream` and
`SoundLifetime` look at the same sound from five sides: the ring's contents, the
thread that fills it, the labels in it, the device it goes to, and how long the
objects live. Where one needs a neighbour it takes its promise: `WavePlayback`
has a ring that is a queue, `OpenALStream` has a ring that is a number of units,
`SoundLifetime` has calls of `FillBuffer` that end. `WindowLife` and `MainLoop` share
`process_events`: the one has its nesting through windows, the other what it does
with termination and save data. `MainThreadProofs` extends these two and
`ContinuousLimit`, so names that would meet carry a prefix there (`Loop...`,
`Limit...`).

### L2Ring

`pc[t]` says where each of "main", "player" and "decoder" is; each access of the
ring is a begin and an end action, so that two threads can be inside at once.
`L2BufferRemain` is read, incremented and decremented under `L2BufferRemainCS`,
so each of these is one step, and the copy `bufferremain` is one step with the
choice it decides. A unit of sound is its number in the stream, 0 is silence.
`samples` keeps of a unit's length only whether it is whole, short or empty,
since the code tests no more. `FillEnd` is nondeterministic in what the decoder
returns: any unit may be the last, and a decoder that throws counts as the end,
as in `Decode`.

| action | code |
|---|---|
| `FillCheck`, `FillBegin`, `FillEnd`, `FillIncrement` | `FillL2Buffer`, by any thread |
| `DecoderLoop`, `DecoderEnter` | the loop of the decode thread up to the lock in `FillL2Buffer` |
| `PlayerLoop`, `PlayerReturn`, `PlayerEnter`, `FinishBegin`, `FinishEnd` | the playing thread and the first half of `FillBuffer` |
| `Sample`, `Prepare`, `Refill`, `LockToRead` | the second half of `FillBuffer`, `PrepareToReadL2Buffer` |
| `ReadBegin`, `ReadSkip`, `ReadEnd`, `ReadDecrement` | `FillDSBuffer`, `ReadL2Buffer` |
| `StartEnter`, `StartLock`, `StartReset`, `StartUnready`, `Continue` | `Play` or `SetSamplePosition`, `StartPlay` |
| `StopEnter`, `StopLock`, `Interrupt` | `Stop`, `StopPlay`, `TimerBeatHandler` |

### DecodeThread

The labels of `decode` are the tests of `Execute` in program order: each read of
`Running` or `GetTerminated()` is a step of its own. `OneLoopCS` is held exactly
while `decode = "fill"`, and so is `L2BufferCS`. The variable `wait` of `Execute`
is not initialised in the code when `Running` changes between its two tests; it
takes any value. A fill on a deleted decoder either ends the process (`crashed`)
or returns anything. `lateFills` counts the fills that begin between an `Interrupt` and
the next `Continue`, which a comment of the code says do not exist (section 3).

### WavePlayback

One sound, the lock of the vector of sounds and the lock of the sound. The
label arithmetic in milliseconds is replaced by `due`, how many of the queued
labels have come due when an event is delivered. A round of the playing thread
that serves the sound holds `TVPWaveSoundBufferVectorCS` from `Round` to the end
of `FillBuffer`.

### SoundLifetime

A sound is in `vector` from its constructor to its destructor, in `decoder` and
`device` while these objects exist. The main thread's calls are cut where locks
are taken or objects deleted: `StopPlay`, `StopEnd` (the rest of `Stop`), `Clear`,
`Open`, `Destroy` (`DestroySoundBuffer`), `Remove` and `Join` (the last two are
`TVPRemoveWaveSoundBuffer` and the destructor of the playing thread). The playing
thread's round is `Lock`, `RestoreTest` and `RestorePlay` (`SetBufferPaused`), `Post`,
`Serve` to `FillEnd` (`FillBuffer`), `Release`. An event in the SDL queue is the
number of the playing thread whose queue it points to. The lock that `StartPlay`
may wait for with `BufferCS` in its hand is not waited for here: that deadlock is
the run `playback_reschedule`.

### ContinuousLimit

Ticks are milliseconds times `Frac`. `CS` is held by the limit thread exactly at
"post", the only point of its locked block where it can wait; the rest of the
block is one step, with the reading of the clock before it and `WaitFor` after it
as steps of their own. `SetInterval` is a step without the lock. The catch-up
loop is its closed form. `Deliver` stands for the engine's `TVPDeliverAllEvents`.

### MainLoop

`depth` is the number of `process_events` calls inside `ApplicationIdle`: the
script, which runs there, may nest another one. The content of a file is a fresh
number at every change; `opened` and `written` are its stream. `FS.syncfs` copies
file by file and only while the program is not running, as a single-threaded
Emscripten build does. `unsaved` collects what the code takes no care of: files of
a failed synchronisation, and files emptied by opening them to which nothing was
written.

### OpenALStream

A call of a thread is the list of its steps in `todo[t]`, cut where the other
thread or the mixer may come in: `EnsurePlayState` is `EnsureRead`, which reads the
state of the source, and `EnsureAct`, which acts on what was read; `AppendBuffer`
is `Unqueue` and `Queue` under `_buffer_mtx`, after `IsBufferValid` outside of it.
`_bufferSize` is never written in the code, so the number of samples played is any
value; only whether `_sentSamples` differs from zero is kept. Two constants limit the
queue: `Buffers` is `_bufferCount`, which is `L1BufferUnits` (8, or what `-wsl1len` says),
by which `_bufferIdx` wraps and `IsBufferValid` decides; `Rooms` has the values that
`TVPAL_BUFFER_COUNT` may have (4, or 16 with Emscripten), with which `FillBuffer` compares
`GetRemainBuffers`. It may be above `Buffers`, and then `FillBuffer` comes to
`FillDSBuffer` with `IsBufferValid` false, having decoded a unit (`Check`, `Take`).

`Regular` names the sounds the safety properties speak of: started while the primary
buffer plays (`heard.primed`), so that `StartPlay` has given the device a first unit, and
with a device that `SetBufferPaused` has never played (`~heard.restored`). The playing
thread calls `SetBufferPaused` once in a program, when the primary buffer begins to play,
so only sounds made before that are left out, but those until their device is
deleted.

The mixer (`Mix`), `alSourcePlay` and the like are external, with the states OpenAL
gives a source.

### WindowLife

All in one thread. `stack` holds the calls of `Close` and `ShowWindowAsModal` that
have not returned; `AnswerQuery`, `QueryReturns`, `QueryThrows` and `ModalEnds` go
on with the innermost. `object` are the windows of the script, `listed` the forms in
the list: a form may outlive its object until an event or a tick deletes it. The
constructor of a form links it into the list, and makes it the current one if there
is none, before it makes the SDL window; when that fails it throws
(`ConstructThrows`), no destructor runs, and the list keeps a pointer to freed
memory: `lost`. `Live` are the others. `ticks` are the windows
`tTVPApplication::Run` has still to tick, `asked` the close events posted and not
delivered. A step of the code that would go through a null or deleted pointer is not
taken: what it does is undefined. After a constructor has thrown, the steps that would
touch its form are therefore left out: making another one, deleting its neighbour in the
list, and the events, if it became the current one. `Careful` says that the script
does not invalidate, hide or close again a window whose `Close` or modal loop has
not returned (closing a modal one excepted); the two properties about calls hold
only then.

### KagParser

A line is a record of its kind and its tags; a character is a tag too. One action
for each exit of the loop of `GetNextTag` (`LineEnds`, `Character`, `If`, `Macro`,
`Jump`, ...) and one for each method. `cond` has `ExcludeLevel`, `IfLevel` and their
two stacks as the code has them, `args` the depth and base of the stack of macro
arguments, `calls` the frames that `PushCallStack` makes. `callback` is the parser
inside of `onLabel` or `onScript`, where the script may call any method; `asked` is
the parser inside of `onJump`, `onCall` or `onReturn` (`Ask`), and `returned` inside
of `onAfterReturn` (`AfterReturn`). What an expression yields is any value, also an
exception (`ExpressionThrows`), which leaves what was changed before it; `TagThrows`
is an exception of an attribute (`cond`, an entity) or a syntax error. `cached` is
whether the label names of the scenario are known: the loop over label lines has
them computed once, when it begins, so that after a `loadScenario` in `onLabel` or
`onScript` it may read a table that is empty. Then the program ends (`crashed`) or,
at best, the label has no name. `Store` and `Restore` go through the strings of
digits the code writes (`StoreIntStackToDic`, `RestoreIntStackFromStr`).

What is assumed of the script: a scenario is loaded before anything else; after an
exception it only loads a scenario, goes to a label, clears or restores; it clears
the call stack only outside of macro text; the handlers `onJump`, `onCall` and `onReturn`
may store, interrupt and clear the call stack, but do not move the parser; handlers
return, and neither expressions nor the callbacks of loading a scenario call the parser.
The first label of a scenario has a name.

### TextRender

A call of `render` is `Render`, one action for each character or control code, and
`RenderEnd`, which is also what an exception does. A character is its number, its
kind (leading, normal, following) and its advance, which comes from the font the
rasterizer has at that moment: another user of it may have changed it (`OtherFont`).
`PushCharacter` appends to the group and places it when it is complete. `Flush` is
one loop over the group in the code; here `Put` is its body, and the recursive
functions in `Pens` and `Widths` give the pen before each character and the width of
what is placed, so that one character is tied to the next and proofs can speak of
it. `Done` flushes, `Clear` does not: `cleared` remembers how many characters it
left in the group.

A size of font is any number, as in the code: `%0;` and small percentages make it zero
(`Scaled`). What the rasterizer makes of it is external (`Extent`); assumed is only that it
measures no negative advance. Other assumptions: the line spacing stays above zero (it
is 6 until a script sets it), so that lines differ in height, and numbers do not
overflow. The height of the box, and with it `renderOver`, is left out: nothing of the
layout depends on it.

## 3. Runs

| run | bounds | shows |
|---|---|---|
| `l2ring` | 3 slots, streams of at most 4 units, count down to -1 | no slot is read and rendered at once, nothing is lost, repeated or overtaken; implements `AudioFifo`; the main thread's calls return; a waiting unit is heard |
| `threads` | decode thread: 3 units; limit thread: half milliseconds, intervals of 1.5 and 2 ms, 4 ms, 2 calls of begin; main loop: 2 files, 4 changes, 2 nested loops | decode thread: calls return, no lost wake-up; limit thread: the flag is set once in an interval, the thread sleeps to its next tick, calls return; main loop: no change is forgotten, one synchronisation at a time, everything is stored |
| `decode_stop` (violation) | 3 units | a fill begins after `Interrupt` has returned |
| `playback` | 2 units in the ring, 2 in the device, 4 in the stream, labels on 1, 2, 4 | labels fired once and in order, one event on its way, the end is reported |
| `playback_reschedule` (violation) | a label on the first unit | `StartPlay` and the playing thread wait for each other |
| `device` | 2 buffers, a room limit of 1 or 3, a ring of 1 unit, 3 units in all | of a `Regular` sound: no queued buffer is written; units are heard in order until the device runs dry; it ends after its last unit, or has run dry before. What was appended is heard |
| `lifetime` | 2 sounds, 2 playing threads in turn | what `FillBuffer` works on lives; calls return |
| `windows` | 3 windows, 2 calls that have not returned | the list is whole, with no freed form but one whose constructor threw; while a window is shown some form is current; calls come back to living forms; flags tell which calls run |
| `kag` | every line of 3 tags out of 6, and 3 scenarios with up to 2 moves of the script | implements `KagConditions`; macros pop their own arguments, which exist; returns lead behind their calls; `getNextTag` ends in scenarios that do not lead back to themselves |
| `kag_restore` (violation) | the same, storing inside of skipped text | a restored state has other conditions |
| `text` | 4 characters, 3 control codes or calls, boxes of width 4 and 5, characters of width 1 (a font of size 0), 2 and 3 | the characters since the last `clear`, and those it left, are all there once and in order; lines stay in the box, keep a group together and are not broken early |
| `text_clear` (violation) | the same | a character pushed before a `clear` is laid out after it |

`threads` looks at three modules that share no variable, one at a time: the variable
`part` of `MCThreads` says at which, and the others stand still.

Why the bounds are enough. The ring wraps with three slots and four units;
three slots are the smallest ring in which the unlocked read (two or more units
left) leaves room for the renderer. A count of -1 lets the reader pass the
writer; the theorems about the ring hold for all bounds. The other models of sound
have no state that grows with the stream except the labels, and streams of two to
four units contain the first, an inner and the last unit with and without labels.
A device of two buffers wraps with three units and runs dry between two; room limits
of one and three are below and above the number of its buffers, as 4 and 16 are with
the usual eight.

Two sounds show one being deleted while the other is served, two threads in turn
show events of the first reaching the second. Four changes let a file be
emptied, written, closed and changed again during a copy. Four milliseconds
hold two ticks and a late thread.

Three windows are a first, an inner and a last element of the list, two nested
calls every pair of `Close` and modal loop. A line of three tags opens, changes
and closes an `[if]` in every order, inside a macro, a call and a second label of
the same name; two moves of the script store and restore, or leave and come back.
Four characters make two lines with a group that is cut; pitches of -1 and 1 narrow
and widen characters of one and two.

The bounds are `MaxStream` (length of the stream), `MaxLag` (how far
`L2BufferRemain` may fall below zero), `Labelled` and `PauseValues` (what the
stream carries and what the script may do), `MaxUnits`, `MaxThreads`, `MaxTime`,
`MaxBegins`, `MaxChanges`, `MaxNesting` (nested loops), `MaxDepth` (window calls that
have not returned), `moves` of a plan, `MaxPushed` and `MaxCommands`. `QueueLimit` is never
reached in the passing runs: the SDL queue holds 65535 events, and with a full one
`PostEvent` waits with the lock that the main thread needs.

Deadlock is checked in the run of `L2Ring`. Each part of `threads` may stop: the
decode thread is deleted in the end; `WavePlayback.cfg`, with a label on the first
unit, allows the deadlock that `playback_reschedule` shows, so `EndIsReported`
speaks of a main thread that is not inside a call. The processes of `SoundLifetime`
and `MainLoop` may end, the clock of `ContinuousLimit` stops at its bound, a device
has played all the units there are, all windows may have been made and destroyed, a
scenario may end, and the bounds of `TextRender` may be used up.

The type invariants of `L2Ring`, `DecodeThread`, `WavePlayback`, `SoundLifetime`,
`ContinuousLimit`, `WindowLife` and `TextRender` are in no run: they are proved (section 4).

### Fairness

Threads are scheduled: a thread that can go on does (weak fairness), and one that
waits for a lock that is released again and again obtains it (strong fairness, which
C++ mutexes promise in practice and not in writing). The audio device plays what it
is given, so that it has room again and again. Posted events need no fairness: no
liveness property rests on them. Nothing is assumed of what the script calls, only
that a call which has begun goes on. In `MainLoop` SDL goes on calling
`SDL_AppIterate`, the browser goes on with `FS.syncfs`, and the script returns from
every nested loop, not for ever with an exception: an exception skips the
synchronisation of its iteration. In `OpenALStream` the mixer plays on, a call that
has begun goes on (strong fairness again for the locks), and the playing thread,
which makes a round every few milliseconds, serves a sound it has begun to serve. In
`KagParser` `getNextTag` goes on and the handlers it calls return; `WindowLife` and
`TextRender` have safety properties alone and assume nothing.

### What the runs found

1. `RescheduleReturns`: a label in the first unit of a sound that is sought, or
   played again before the timer has noticed its end, blocks the main thread and
   the playing thread for ever.
2. `RestoresConditions`: `RestoreIntStackFromStr` reads the eight digits of element
   `i` at `str[i]` and not at `str[i * 8]`. A stack of which every element is -1
   survives this, since all digits are `f`; any other comes back with other numbers, and
   `[endif]` then shows or skips the wrong text. `ImplementsConditions` holds, and is
   proved, for scripts that store no state inside of skipped text.
3. `InterruptStopsDecoding`: a comment in `Interrupt` says that it "stops the decoding",
   and `Clear` deletes the decoder relying on it; but the decode thread tests `Running`
   before it takes `OneLoopCS` and not after, so that a fill may begin after
   `Interrupt` has returned. `OneLateFill` (section 4) proves that it is one at most.
4. `ClearedIsGone`: `clear` of the text layout says "clear character buffer and format"
   and leaves `m_buffer`, the buffer that `done` flushes: an opening bracket that waits
   there is laid out on the new page.

`TagIsRead` holds under a condition that the code does not check, and that
`readme.txt` (lines 90 and 91) states for `[emb]`: what the text of a macro or an `[emb]`
yields must not lead back to itself, and no chain of `[jump]`s or handlers may go
round without a tag of the script's own. The scenarios of the run are such;
`getNextTag` runs for ever otherwise.

Seen while modelling, contained in the models, and with no run of their own:

- A pause at the wrong moment clears `PendingLabelEventExists` with labels queued:
  they wait for the next label or the end of the sound.
- `NativeEventQueue::Deallocate` is empty in this port, and an event posted by the
  playing thread keeps a pointer into it after it is deleted with the last sound.
- After `System.terminate`, a modal window or a close query in the same script
  deletes `TVPSystemControl` under its own `ApplicationIdle`.
- Past the end of the stream `ReadL2Buffer` reads a ring that holds nothing, although
  its comment promises a rendered unit. It is harmless because an emptied slot is
  silent and marked empty, which is what `NoUnitLost` checks.
- `FillBuffer` does nothing until the playing thread has made a round, so the first
  sound of a program starts a device with nothing to play, where the comment in
  `StartPlay` speaks of first samples.
- `SetBufferPaused` plays a device buffer under the lock of the vector while the main
  thread stops, seeks or releases it under none: units already played are heard
  again. `BufferIsFree`, `HeardInOrder` and `EndAfterLast` all except such a device, for
  the rest of its life (`Regular`). `FillBuffer` is
  safe from the same (`FillUsesLiveSound`, proved).
- The volume of a device that has run dry starts it again with what was played; a
  restart whose first unit is empty plays the tail of the sound before.
- Adding a continuous handler while the limit thread runs enables it again, and the
  flag is set again within the interval. `LimitKept` therefore speaks of the time
  between two enablings.
- An event walks from the current form only to forms made before it: a close click
  on a later window closes an earlier one. `GetVisible` answers yes for hidden
  windows. A nested `Close` of one window resets `ProgramClosing`, and a
  `modal_result_` left from an earlier call makes a later `Close` skip its query. To
  hide the current form may make a dying form the current one.
- The constructor of a form puts it into the list and then may throw, when SDL cannot
  make the window, its context or its renderer: the list, and maybe the current form,
  keep a pointer to freed memory. `ListIsWhole` says that this is the one such case.
- `Close` and `ShowWindowAsModal` use `this` after the script ran: it must not have
  invalidated the window (`Careful`).
- `LoadScenario` leaves `CurLabel`; a bare "*" counts for `FindNearestLabel` and not for
  the label cache; the alias of a repeated label may be the name of another;
  `[macropop]` is left out in skipped text and by a return to another place;
  `PopCallStack` keeps a reference to the frame while callbacks run; the condition of
  `[elsif]` is evaluated while a macro is recorded; a jump in `onLabel` skips the line
  it leads to; an `[if]` whose expression throws has been counted already.
- `SkipCommentOrLabel` has the table of label names filled once, before its loop; an
  `onLabel` or `onScript` that loads another scenario makes it go on with one whose table
  may be empty, and read behind its end (`SkipLabel`).
- In the text layout, `renderOver` is computed before `done` may add a line. A
  group wider than the box leaves an empty line before it. Following characters may
  start a line: their class only ends a group.

## 4. Proofs

Every safety invariant and every action property of the passing runs, and both
refinements, are theorems: they hold for every value of the constants that
satisfies the assumptions named here, of which TLC evaluates every one on the
instances it checks. This section ends with what is only model-checked.

### The level-2 buffer (`L2RingProofs`)

For every `Units >= 2`, `MaxStream` and `MaxLag`, from `L2RingAssumption` alone:

- `TypeCorrect`: `Spec => []TypeOK`;
- `Invariant`: `Spec => []IInv`;
- `NoRace`, `UnlockedReads`, `RingBounded`: `NoSlotRace`, `UnlockedReadIsSafe` and
  `NoOverfill`, from `IInv`;
- `UnitsKept`: `NoUnitLost`;
- `RingImplementsFifo`: `Spec => ImplementsFifo`.

Why an inductive invariant. That the reader and the renderer are in different
slots follows from no single step: the reader chose not to lock long before.
`IInv` is `TypeOK` and three parts. `LockInv` says which lock each thread holds at
each label, hence that there is one renderer and one reader at most. `CountInv`
bounds `L2BufferRemain` by what each thread is about to do with it: a renderer
has found room, an unlocked reader has found two units, and neither can be
undone by the other. `PositionInv` says that the write position is the read
position plus the units held, modulo the ring, for the count including the unit
whose increment or decrement is outstanding. Two positions that differ by more
than nothing and less than the ring are different slots, which is `NoSlotRace`.
The modular arithmetic is in lemmas of its own (`AdvanceType`, `WholeRings`,
`AddUnit`, `TakeUnit`); each part of the invariant has its own preservation lemma
(`LocksKept`, `CountsKept`, `PositionKept`), one step per action.

`UnitsKept` says that every slot holds exactly the unit that will be read from it. Its
second invariant, `LossInv`, adds to the property how far the decoder is ahead of the
device while the stream has not ended, and that a count below zero means that it has
(`StreamInv`). The two steps that matter are a fill (`FillKeepsUnits`), which changes
the one slot that is as far ahead of the reader as units are held (`WriteIsAhead`,
`AheadIsDistinct`), and a read (`ReadKeepsUnits`), after which every slot is one nearer;
the others change nothing the property speaks of (`QuietStep`).

The refinement maps the queue of `AudioFifo` to the slots ahead of the reader
(`Queue`), as many as were decoded and not heard. By `NoUnitLost` this is the
sequence of their numbers (`QueueAfter`), so a fill appends one, a read takes the
first, `StartReset` empties it, and every other step of the three threads leaves
it alone.

### The threads of a sound

`SoundLifetimeProofs` proves `FillIsSafe` (`FillUsesLiveSound`) and `LifetimeTypes`,
for any finite set of sounds, from `LifetimeAssumption`. `Clear` and
`DestroySoundBuffer` take no lock, so the property rests on the past: `StopPlay`,
under the lock `FillBuffer` holds, has left the sound in a state that `FillBuffer`
returns from, and nothing until the removal changes that (`StopInv`); and a round
holds the lock that the removal needs (`RoundInv`).

`DecodeThreadProofs` proves `DecodeTypes` (`DecodeTypeOK`) and `OneLateFill`: what the
comment of `Interrupt` says does not hold (`decode_stop`), but one fill at most begins
late (`AtMostOneLateFill`). By `LateInv` a thread that has begun a late fill is at no
point from which it begins another before it has seen `Running` set again.

`WavePlaybackProofs` proves `PlaybackTypes` and `OneEvent` (`OneEventPosted`) from
`LockInv` (who holds which lock at which label), `StreamInv` (the ring and what was
given of it never exceed the stream) and `RoomInv` (who is about to give a unit has
found room in the device); and `LabelsStay` (`LabelsKept`), for any set of labelled
units: what was fired and what waits are together the labels of the units moved to
the device, in their order, with the time each is due.

### The device (`OpenALStreamProofs`)

`StreamTypes`, `FilledBufferIsFree` (`BufferIsFree`), `UnitsHeardInOrder`
(`HeardInOrder`) and `SoundEndsAfterLast` (`EndAfterLast`), for any number of buffers,
any limits of room, any capacity of the ring and any stream. The last three are about
`Regular` sounds, and the order and the end about what happens until the device has run
dry.

What a thread has still to do is a sequence of steps, so an invariant has to speak of
the future of a call. It asks of the sequence only which steps come before which
others (`Before`): a call that will release `BufferCS` holds it (`Locked`), one that will
refill and not reset any more has reset the device (`ResetDone`), one that will start the
source has given it the first unit (`FirstGiven`), and so on. `Formed` says which
sequences the code can have left; the lemmas after it answer `Before` for a sequence from
its first step and its rest, and each action is then judged by its first step alone.

The inductive invariant `IInv` is `TypeInv` and, unless `heard.restored`, `Inv`. `Inv` has
one part for each thing the proof needs: what a thread in the middle of a call
implies for the flags and locks (`CallInv`, `MainInv`, `PlayerInv`), what a device
contains that was not started (`UnprimedInv`, `FirstInv`), that the buffer to be filled is
free (`BufferInv`), that a source that was started has units or has played what there
was (`StartedInv`), and that the queue holds the last units given, in order
(`OrderInv`). `heard.restored` excludes the one call that comes from outside of
`BufferCS`, `SetBufferPaused` while the main thread is inside a call (section 3,
"Seen while modelling").

### The main thread (`MainThreadProofs`)

`MainLoop`: `ForgetsNothing` (`NothingForgotten`) and `LoopTypes` (`LoopTypeOK`), which
includes that one synchronisation at most is in progress, for any set of files. Their
conjunction is inductive.

`ContinuousLimit`: `SleepIsRight` (`SleepsUntilNext`), from the arithmetic of the
catch-up loop (`CatchUpPasses`) and of the rounding (`RoundUp`), and from `DueInv`: while
the thread posts with `CS`, nobody moves its tick; and `LimitHolds` (`LimitKept`), from
two more invariants: the tick is a multiple of `Interval` whenever no call is changing
it (`TickInv`), and it lies after the interval in which the flag was set last
(`SlotInv`). `LimitTypes` are its types.

`WindowLife`, for any finite set of windows: `WindowTypes`, `ListStaysWhole`
(`ListIsWhole`), `CallersStayLive` (`CallersLive`), `FlagsTell` (`FlagsTellCalls`)
and `ShownKeepsCurrent` (`ShownHasCurrent`). `ListInv` says that the pointers are
those of the list in the order of creation, where each place is used once: unlinking
keeps it although neighbours change. `CallsInv` ties the stack to the fields of the
forms (a call that has not returned sets its flag, one call of a kind for each
form), with `AskedInv`: while a modal loop runs, no close event is waiting.
`LostInv` says that a form whose constructor threw is the last of the list and that
no call and no object has it. `Reach` is `ShownHasCurrent` in the form that is
preserved; it says that SDL's events arrive at some form, not that they come to the
one that is shown. The two about calls assume `Careful` inside of the property; the
others hold for any script.

### The scenario parser (`KagParserProofs`)

`ConditionsImplemented`: for every set of scenarios and every behaviour of a script
that stores no state in skipped text, each step of `KagParser` is a step of
`KagConditions` or a stutter. The invariant is `KInv`: outside of an exception the
stacks are as deep as `IfLevel`, and either every open `[if]` is in its chosen branch
or text is skipped from level `ExcludeLevel` on, with the outer ones chosen and the
inner ones never reached; the same of every frame of the call stack and of the
stored state. This theorem assumes nothing of the scenarios.

The others have hypotheses, which `ScenariosAreUsual` in `MCKagParser` makes TLC evaluate
on the scenarios of the runs:

- `WellFormed`, of all four: a scenario has a line, a tag ends in the scenario it
  begins in, and no label is spelt like the alias that another one is given because
  it is repeated;
- `Disciplined`, of the two about macros: `[macropop]`, which the parser puts at the end
  of a macro, and tags without a name are not written in a scenario; a `[call]` names
  a place; what an `[emb]` yields does not contain a `[macro]`. The last one matters:
  a recording that begins in text embedded in a macro swallows the `[macropop]` of
  that macro.

`ParserTypes` (`TypeOK`) rests on `TInv`: the position is inside the text that is being
read, of the scenario or of the line buffer, and so is that of every frame and of
the stored state. The table of labels is a recursive function over the lines of a
file; that it exists, and that its entries lead to lines of the file, is proved by
induction over the set of line numbers for which it does (`CacheOK`). `ReturnsFindCall`
(`ReturnsToCall`) follows from it: what a frame keeps is a place the scenario still has.
`MacrosPopOwnArgs` (`PopsOwnArgs`) and `ArgumentsExist` (`ArgsExist`) rest on `AInv`: there
are no more `[macropop]`s ahead in the text than macros entered since the last call;
the frames lie below each other in the stack of arguments, each with the same of
its own text; the text of every macro ends in its one `[macropop]`, and while one is
recorded none is ahead. `Splice` is how a macro's body comes into the text; its
lemmas say which `[macropop]`s are then ahead.

### The text layout (`TextRenderProofs`)

`LayoutTypes` (`TypeOK`), `CharactersInOrder` (`InOrder`), `LeadingStaysKept`
(`LeadingKept`), `LinesInsideBox` (`InsideBox`) and `LinesFilled` (`LinesAreFilled`), for any
text, sizes of box, fonts and pitches, from `SizesAssumption`: the line spacing is above
zero and no character has a negative width. Sizes of fonts may be zero or negative.

That the recursive functions in `Pens` and `Widths` exist is proved first, and then
only `Chain` is used: each character stands behind the one before it, or begins a
line when it must. `Inside`, `Kept` and `Filled` are the properties of lines, stated
of any sequence of characters; `JoinInside`, `JoinKept` and `JoinFilled` say that
they survive when a chain is joined, which is what `Flush` does with a group. The
invariants are `OrderInv` (the placed characters and the group are the last ones
pushed, as many as were pushed since the last `clear` and left by it, in their
order), `LineInv` (what is placed is inside and kept, the pen stands behind it) and
`FillInv`.

The last two theorems assume `PitchesAreMild`: no pitch takes back more than the width
of its character. A negative pitch larger than that lets the pen go back, and the
next character stands on a line whose first character is already too wide for the
box: the code makes no such promise then. `MCTextRender` assumes it too, so that TLC
evaluates it on the run's pitches, of which one is negative.

### Only model-checked

The liveness properties, `Stored` of `MainLoop` among them: fairness speaks of
`ENABLED`, which the prover does not handle. The four runs that expect a violation are
counterexamples and need no proof. Induction theorems of the library take an
operator as a parameter and cannot be used; where an induction was needed it is over
a set of numbers, from the well-foundedness of `<` on them.

## 5. Not modelled

Pixels, samples and file formats; wrappers of SDL, OpenGL and the Win32 dialogs;
generated stubs and tables, which are the larger part of the repository's lines; code that
is compiled out in this port; TJS2 and the other files of the submodule, which are
seen only through their use. The E-mote player evaluates timelines and layers of
one file in one call a frame: floating point, with no promise of order that a
model could check. Menus, fonts and scripts are thin wrappers. `csvParser` is one loop
with a flag, and no text says what it should accept.

In the modelled parts: thread priorities, the visualisation buffer, pan and
frequency, the environment noise; the FAudio and Null devices; the translation of
SDL's keys, mouse and text input (`window_receive_event`), sizes, zoom and cursors of
windows; the attributes of tags, parameter macros, `popMacroArgs()` as a method and
`assign()` of the parser, callbacks that run while a scenario is loaded, and handlers
of `onJump`, `onCall` and `onReturn` that move it; delays, vertical text, the height of
the box and the setters of single properties of the text layout.

## 6. Plan

Done: the sound system with its device, the life of sounds, the limit thread, the
main loop and saving, windows, the scenario parser and the text layout; and every
safety property of the passing runs as a theorem. What is left:

1. an abstract `Player` (stopped, playing, paused) that `WavePlayback` implements;
2. the input of windows: capture, focus and the text composition of
   `window_receive_event`;
3. an arithmetic of labels in samples, in place of `due`, for seeks into a loop.
