----------------------------- MODULE MainLoop -----------------------------
(***************************************************************************)
(* The main loop and the saving of files (Application.cpp, SDLEntrypoint,  *)
(* SystemControl.cpp, StorageImpl.cpp).  SDL calls SDL_AppIterate, which   *)
(* runs the script; the script may come back to process_events through a   *)
(* modal window or a close query.  Files are written to a file system in   *)
(* memory, and the end of an iteration starts FS.syncfs, which copies them *)
(* to the store of the browser while the program is not running.           *)
(*                                                                         *)
(* Names that WindowLife has too begin with Loop, so that MainThreadProofs *)
(* can extend both.                                                        *)
(***************************************************************************)
EXTENDS Integers, FiniteSets

CONSTANTS
  Files,       \* the files a script writes
  MaxChanges,  \* bound: how often the content of a file changes
  MaxNesting   \* bound: how deep calls of process_events are nested (the
               \* code allows 32)

ASSUME MainLoopAssumption ==
  /\ MaxChanges \in Nat
  /\ MaxNesting \in Nat \ {0}

VARIABLES
  mem,         \* the content of each file in memory, a number; 0 for no file
  store,       \* the content of each file in the store
  changes,     \* the last number used
  opened,      \* the files a stream is open on, for writing
  written,     \* the streams whose "written" is set
  should,      \* should_sync_savedata_
  finished,    \* syncfs_is_finished_
  syncs,       \* how many FS.syncfs are in progress
  toCopy,      \* the files FS.syncfs still has to copy
  unsaved,     \* files the code takes no care of: see CloseFile
               \* and Fail
  depth,       \* how many calls of process_events are in ApplicationIdle
  tarminate,   \* tarminate_
  control,     \* TVPSystemControl is not deleted
  ended        \* the application is over

streams  == <<opened, written>>
sync     == <<should, finished, syncs, toCopy>>
loop     == <<depth, tarminate, control, ended>>
loopVars == <<mem, store, changes, streams, sync, unsaved, loop>>

\* The files whose content in memory is not that of the store.
Different == {f \in Files : mem[f] # store[f]}

\* The content of a file changes to a new one.
Change(f) ==
  /\ changes < MaxChanges
  /\ changes' = changes + 1
  /\ mem' = [mem EXCEPT ![f] = changes + 1]

-----------------------------------------------------------------------------
(* The script, in ApplicationIdle.                                          *)

Running == depth > 0 /\ ~ended

\* tTVPLocalFileStream with TJS_BS_WRITE: the file is truncated.
OpenFile(f) ==
  /\ Running /\ f \notin opened
  /\ Change(f)
  /\ opened' = opened \cup {f}
  /\ UNCHANGED <<store, written, sync, unsaved, loop>>

WriteFile(f) ==
  /\ Running /\ f \in opened
  /\ Change(f)
  /\ written' = written \cup {f}
  /\ UNCHANGED <<store, opened, sync, unsaved, loop>>

\* Mutant: the destructor asks for no synchronisation while one is running.
CloseFileLazily(f) ==
  /\ Running /\ f \in opened
  /\ opened' = opened \ {f} /\ written' = written \ {f}
  /\ should' = (should \/ (f \in written /\ finished))
  /\ unsaved' = IF f \in written THEN unsaved \ {f} ELSE unsaved \cup {f}
  /\ UNCHANGED <<mem, store, changes, finished, syncs, toCopy, loop>>

\* The destructor: a stream to which nothing was written asks for nothing,
\* although opening it has changed the file.
CloseFile(f) ==
  /\ Running /\ f \in opened
  /\ opened' = opened \ {f} /\ written' = written \ {f}
  /\ should' = (should \/ f \in written)
  /\ unsaved' = IF f \in written THEN unsaved \ {f} ELSE unsaved \cup {f}
  /\ UNCHANGED <<mem, store, changes, finished, syncs, toCopy, loop>>

\* TVPRemoveFile
RemoveFile(f) ==
  /\ Running /\ f \notin opened /\ mem[f] # 0
  /\ mem' = [mem EXCEPT ![f] = 0]
  /\ should' = TRUE
  /\ unsaved' = unsaved \ {f}
  /\ UNCHANGED <<store, changes, streams, finished, syncs, toCopy, loop>>

\* TVPTerminateAsync: Application->Terminate()
TerminateAsync ==
  /\ Running
  /\ tarminate' = TRUE
  /\ UNCHANGED <<mem, store, changes, streams, sync, unsaved, depth, control, ended>>

-----------------------------------------------------------------------------
(* The loop.                                                                *)

\* process_events is called, by SDL_AppIterate or by the script, and Run calls
\* ApplicationIdle.
Enter ==
  /\ ~ended /\ ~tarminate
  /\ depth < MaxNesting
  /\ depth' = depth + 1
  /\ UNCHANGED <<mem, store, changes, streams, sync, unsaved, tarminate,
                 control, ended>>

\* After Terminate, Run returns at once: TVPSystemUninit, and TVPSystemControl
\* is deleted.  SDL_AppIterate then ends the application.
EnterTerminated ==
  /\ ~ended /\ tarminate
  /\ control' = FALSE
  /\ ended' = (depth = 0)
  /\ UNCHANGED <<mem, store, changes, streams, sync, unsaved, depth, tarminate>>

\* ApplicationIdle returns to a TVPSystemControl that is deleted: the process
\* may die.
ReturnsTo(over) == ended' \in (IF control THEN {over} ELSE {over, TRUE})

\* Mutant: a synchronisation is started although one is in progress.
SyncTwice ==
  IF should
    THEN /\ should' = FALSE /\ finished' = FALSE
         /\ syncs' = syncs + 1
         /\ toCopy' = Different
         /\ unsaved' = {}
    ELSE UNCHANGED <<sync, unsaved>>

\* Mutant: no synchronisation while a stream is open.
SyncWhenClosed ==
  IF should /\ finished /\ opened = {}
    THEN /\ should' = FALSE /\ finished' = FALSE
         /\ syncs' = syncs + 1
         /\ toCopy' = Different
         /\ unsaved' = {}
    ELSE UNCHANGED <<sync, unsaved>>

\* Run, after ApplicationIdle: if (should_sync_savedata_ && syncfs_is_finished_)
\* FS.syncfs finds what to copy by comparing times.
Sync ==
  IF should /\ finished
    THEN /\ should' = FALSE /\ finished' = FALSE
         /\ syncs' = syncs + 1
         /\ toCopy' = Different
         /\ unsaved' = {}
    ELSE UNCHANGED <<sync, unsaved>>

\* ApplicationIdle and Run end; process_events looks at IsTarminate().
Leave ==
  /\ Running
  /\ Sync
  /\ depth' = depth - 1
  /\ control' = (control /\ ~tarminate)
  /\ ReturnsTo(tarminate /\ depth = 1)
  /\ UNCHANGED <<mem, store, changes, streams, tarminate>>

\* The script throws: process_events shows the message and goes on.
Throw ==
  /\ Running
  /\ depth' = depth - 1
  /\ ReturnsTo(FALSE)
  /\ UNCHANGED <<mem, store, changes, streams, sync, unsaved, tarminate, control>>

\* SDL_AppEvent: SDL_EVENT_QUIT ends the application at once.
Quit ==
  /\ ~ended /\ depth = 0
  /\ ended' = TRUE
  /\ UNCHANGED <<mem, store, changes, streams, sync, unsaved, depth, tarminate,
                 control>>

-----------------------------------------------------------------------------
(* FS.syncfs, which goes on while the program has returned to the browser.  *)

Copy(f) ==
  /\ depth = 0 \/ ended
  /\ f \in toCopy
  /\ store' = [store EXCEPT ![f] = mem[f]]
  /\ toCopy' = toCopy \ {f}
  /\ UNCHANGED <<mem, changes, streams, should, finished, syncs, unsaved, loop>>

\* The call back with no error: emscripten_syncfs_is_finished
Finish ==
  /\ depth = 0 \/ ended
  /\ syncs > 0 /\ toCopy = {}
  /\ syncs' = syncs - 1
  /\ finished' = TRUE
  /\ UNCHANGED <<mem, store, changes, streams, should, toCopy, unsaved, loop>>

\* The call back with an error, which function (err) does not look at.
Fail ==
  /\ depth = 0 \/ ended
  /\ syncs > 0 /\ toCopy # {}
  /\ syncs' = syncs - 1
  /\ finished' = TRUE
  /\ unsaved' = unsaved \cup toCopy
  /\ toCopy' = {}
  /\ UNCHANGED <<mem, store, changes, streams, should, loop>>

-----------------------------------------------------------------------------

LoopInit ==
  /\ mem = [f \in Files |-> 0] /\ store = mem /\ changes = 0
  /\ opened = {} /\ written = {}
  /\ should = FALSE /\ finished = TRUE /\ syncs = 0 /\ toCopy = {}
  /\ unsaved = {}
  /\ depth = 0 /\ tarminate = FALSE /\ control = TRUE /\ ended = FALSE

LoopScript ==
  \/ \E f \in Files : OpenFile(f) \/ WriteFile(f) \/ CloseFile(f) \/ RemoveFile(f)
  \/ TerminateAsync

Loop == Enter \/ EnterTerminated \/ Leave \/ Throw \/ Quit

SyncFS == (\E f \in Files : Copy(f)) \/ Finish \/ Fail

LoopNext == LoopScript \/ Loop \/ SyncFS

LoopSpec == LoopInit /\ [][LoopNext]_loopVars

\* SDL goes on calling SDL_AppIterate, the browser goes on with FS.syncfs, and
\* the script returns from every call of process_events, and not for ever with
\* an exception.
LoopFairness ==
  /\ WF_loopVars(depth = 0 /\ Enter)
  /\ \A d \in 1 .. MaxNesting : SF_loopVars(depth = d /\ Leave)
  /\ SF_loopVars(SyncFS)

LoopFairSpec == LoopSpec /\ LoopFairness

-----------------------------------------------------------------------------
(* Properties.                                                              *)

\* Every variable stays in its type, and there is at most one FS.syncfs in
\* progress: two would write to the same store.
LoopTypeOK ==
  /\ mem \in [Files -> 0 .. MaxChanges] /\ store \in [Files -> 0 .. MaxChanges]
  /\ changes \in 0 .. MaxChanges
  /\ written \subseteq opened /\ opened \subseteq Files
  /\ should \in BOOLEAN /\ finished \in BOOLEAN
  /\ syncs = IF finished THEN 0 ELSE 1
  /\ toCopy \subseteq Files /\ (finished => toCopy = {})
  /\ unsaved \subseteq Files
  /\ depth \in 0 .. MaxNesting
  /\ tarminate \in BOOLEAN /\ control \in BOOLEAN /\ ended \in BOOLEAN

\* A closed file whose content is not in the store is about to be copied, or
\* another synchronisation is asked for, whatever was written while the last
\* one was running (SyncSavedata, Run).
NothingForgotten ==
  \A f \in Files \ opened : mem[f] # store[f] => should \/ f \in toCopy \cup unsaved

\* What a script has written gets to the store, unless it is written again,
\* the synchronisation fails or the application ends.
Stored ==
  \A f \in Files :
    f \notin opened /\ mem[f] # store[f] ~>
      mem[f] = store[f] \/ f \in opened \cup unsaved \/ tarminate \/ ended
=============================================================================
