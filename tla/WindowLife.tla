----------------------------- MODULE WindowLife -----------------------------
(***************************************************************************)
(* The life of windows: TVPWindowWindow (SDLApplication.cpp), called a     *)
(* form here, and the window object of the script, tTJSNI_Window           *)
(* (WindowImpl.cpp).  Forms are linked into a list; one of them is the     *)
(* current one, where every event of SDL arrives.                          *)
(*                                                                         *)
(* Everything runs in one thread, but Close and ShowWindowAsModal call     *)
(* process_events, in which other handlers of the script run: the stack    *)
(* holds the calls that have not returned.  SDL delivers its events only   *)
(* when the stack is empty.                                                *)
(*                                                                         *)
(* The constructor of a form puts it into the list before it makes its SDL *)
(* window, and throws when that fails: the form is freed and stays in the  *)
(* list.  What the program does with a null or deleted pointer is not      *)
(* modelled: a step that uses one is not taken.                            *)
(***************************************************************************)
EXTENDS Integers, Sequences, FiniteSets

CONSTANTS
  Windows,   \* the forms that may be made
  None,      \* nullptr
  Careful,   \* whether the script leaves a window alone while its Close or
             \* ShowWindowAsModal runs, but for closing a modal one
  MaxDepth   \* bound: calls that have not returned

ASSUME WindowAssumption ==
  /\ IsFiniteSet(Windows)
  /\ None \notin Windows
  /\ Careful \in BOOLEAN
  /\ MaxDepth \in Nat

VARIABLES
  born,      \* the place of a form in the order of creation; 0: not made
  listed,    \* the forms that are in the list
  lost,      \* those of them that their constructor, by throwing, has freed
  prev,      \* _prevWindow
  next,      \* _nextWindow
  last,      \* _lastWindowWindow
  current,   \* _currentWindowWindow
  form,      \* the other fields of a form
  object,    \* the window objects that have a Form
  main,      \* TVPMainWindow
  ticks,     \* the window objects that Run has still to call TickBeat of
  asked,     \* close events posted to a window object and not yet delivered
  stack      \* the calls of Close and ShowWindowAsModal that have not returned

links  == <<born, listed, lost, prev, next, last>>
script == <<ticks, asked, stack>>
vars   == <<links, current, form, object, main, script>>

\* The forms that are allocated.
Live == listed \ lost

\* modal_result_
Results == {"none", "ok", "cancel"}

Fields == [instance : BOOLEAN,   \* TJSNativeInstance
           shown    : BOOLEAN,   \* isVisible
           ready    : BOOLEAN,   \* visibilityHasInitialized
           dying    : BOOLEAN,   \* isBeingDeleted
           modal    : BOOLEAN,   \* in_mode_
           result   : Results,   \* modal_result_
           closing  : BOOLEAN,   \* ProgramClosing
           consent  : BOOLEAN]   \* CanCloseWork

NewForm == [instance |-> TRUE, shown |-> TRUE, ready |-> FALSE, dying |-> FALSE,
            modal |-> FALSE, result |-> "none", closing |-> FALSE, consent |-> FALSE]

Gone == [NewForm EXCEPT !.instance = FALSE]

-----------------------------------------------------------------------------
(* The list of forms.                                                       *)

\* What the constructor does before anything can fail.
Link(w) ==
  /\ last \notin lost
  /\ born' = [born EXCEPT ![w] = Cardinality({v \in Windows : born[v] > 0}) + 1]
  /\ listed' = listed \cup {w}
  /\ prev' = [prev EXCEPT ![w] = last]
  /\ next' = [v \in Windows |-> IF v = last THEN w ELSE IF v = w THEN None ELSE next[v]]
  /\ last' = w

\* Mutant: the form that followed keeps its pointer to the deleted form.
UnlinkForward(w) ==
  /\ {prev[w], next[w]} \cap lost = {}
  /\ listed' = listed \ {w}
  /\ last' = IF last = w THEN prev[w] ELSE last
  /\ prev' = prev
  /\ next' = [v \in Windows |-> CASE v = w -> None [] v = prev[w] -> next[w] [] OTHER -> next[v]]
  /\ UNCHANGED <<born, lost>>

\* The destructor.
Unlink(w) ==
  /\ {prev[w], next[w]} \cap lost = {}
  /\ listed' = listed \ {w}
  /\ last' = IF last = w THEN prev[w] ELSE last
  /\ prev' = [v \in Windows |-> CASE v = w -> None [] v = next[w] -> prev[w] [] OTHER -> prev[v]]
  /\ next' = [v \in Windows |-> CASE v = w -> None [] v = prev[w] -> next[w] [] OTHER -> next[v]]
  /\ UNCHANGED <<born, lost>>

\* _currentWindowWindow after the destructor, last' being known.
CurrentAfter(w, cur) == IF cur = w THEN last' ELSE cur

\* Mutant: only a form that was made before becomes the current one.
CurrentHiddenBack(w, cur) ==
  IF form[w].ready /\ cur = w THEN prev[w] ELSE cur

\* SetVisible(false): the form before it, or else the one behind it.
CurrentHidden(w, cur) ==
  IF form[w].ready /\ cur = w
    THEN IF prev[w] # None THEN prev[w] ELSE next[w]
    ELSE cur

\* SetVisible(false) raises the form that it makes the current one.
CanHide(w) == CurrentHidden(w, current) \in lost => CurrentHidden(w, current) = current

\* BringToFront, which calls the object of the form that was current.
Front(w) ==
  /\ current \notin {w, None} => form[current].instance
  /\ current' = w

-----------------------------------------------------------------------------
(* The script runs in the main loop, or in the process_events of the top of *)
(* the stack.                                                               *)

Script == ticks = {}

Top == stack[Len(stack)]
Pop == SubSeq(stack, 1, Len(stack) - 1)
OnStack(w) == \E i \in 1 .. Len(stack) : stack[i].form = w
MayTouch(w) == Careful => ~OnStack(w)

Construct(w) ==
  /\ Script
  /\ born[w] = 0
  /\ Link(w)
  /\ current' = IF current = None THEN w ELSE current
  /\ form' = [form EXCEPT ![w] = NewForm]
  /\ object' = object \cup {w}
  /\ main' = IF object = {} THEN w ELSE main
  /\ UNCHANGED <<lost, script>>

\* The constructor of the form throws: no destructor runs, the window object has
\* no Form, and nothing takes the form out of the list.
ConstructThrows(w) ==
  /\ Script
  /\ born[w] = 0
  /\ Link(w)
  /\ lost' = lost \cup {w}
  /\ current' = IF current = None THEN w ELSE current
  /\ form' = [form EXCEPT ![w] = Gone]
  /\ main' = IF object = {} THEN w ELSE main
  /\ UNCHANGED <<object, script>>

\* SetVisible of the object.
SetVisible(w) ==
  /\ Script
  /\ w \in object
  /\ \E shown \in BOOLEAN :
       /\ form' = [form EXCEPT ![w].shown = shown]
       /\ IF shown /\ form[w].ready
            THEN Front(w)
            ELSE /\ shown \/ CanHide(w)
                 /\ current' = IF shown THEN current ELSE CurrentHidden(w, current)
  /\ UNCHANGED <<links, object, main, script>>

BringToFront(w) ==
  /\ Script
  /\ w \in object
  /\ Front(w)
  /\ UNCHANGED <<links, form, object, main, script>>

\* What Invalidate of an object and InvalidateClose of its form do.
Destroy(w) ==
  /\ CanHide(w)
  /\ Unlink(w)
  /\ current' = CurrentAfter(w, CurrentHidden(w, current))
  /\ form' = [form EXCEPT ![w] = Gone]
  /\ object' = object \ {w}
  /\ asked' = asked \ {w}

\* The script invalidates the object.
Invalidate(w) ==
  /\ Script
  /\ w \in object
  /\ Destroy(w)
  /\ MayTouch(w)
  /\ UNCHANGED <<main, ticks, stack>>

-----------------------------------------------------------------------------
(* Closing.                                                                 *)

\* OnClose and the switch of Close, once the query was answered with yes.  A
\* window closed by the program loses its object; its form is deleted by the
\* next event that reaches it, unless it is the main window.
Closed(w, closing) ==
  LET f      == form[w]
      closes == closing /\ f.instance
      hides  == closes \/ f.result # "none"
  IN  /\ hides => CanHide(w)
      /\ form' = [form EXCEPT ![w] =
           [f EXCEPT !.instance = f.instance /\ ~closes,
                     !.shown = f.shown /\ ~hides,
                     !.dying = f.dying \/ (closes /\ w # main),
                     !.closing = FALSE,
                     !.consent = FALSE]]
      /\ current' = IF hides THEN CurrentHidden(w, current) ELSE current
      /\ object' = IF closes THEN object \ {w} ELSE object
      /\ asked' = IF closes THEN asked \ {w} ELSE asked

\* Close of the object.  A modal window only leaves its loop.  A window that
\* was left with consent is not asked again.
Close(w) ==
  /\ Script
  /\ w \in object
  /\ form[w].modal \/ MayTouch(w)
  /\ \/ /\ form[w].modal
        /\ form' = [form EXCEPT ![w] = [@ EXCEPT !.result = "cancel", !.closing = FALSE]]
        /\ UNCHANGED <<current, object, asked, stack>>
     \/ /\ ~form[w].modal /\ form[w].result = "ok"
        /\ Closed(w, TRUE)
        /\ UNCHANGED stack
     \/ /\ ~form[w].modal /\ form[w].result # "ok"
        /\ Len(stack) < MaxDepth
        /\ form' = [form EXCEPT ![w] = [@ EXCEPT !.closing = TRUE, !.consent = TRUE]]
        /\ stack' = Append(stack, [call |-> "close", form |-> w])
        /\ UNCHANGED <<current, object, asked>>
  /\ UNCHANGED <<links, main, ticks>>

\* The process_events of OnCloseQuery returns, and Close goes on.
QueryReturns ==
  /\ Script
  /\ stack # <<>> /\ Top.call = "close" /\ Top.form \in Live
  /\ stack' = Pop
  /\ \/ /\ form[Top.form].consent
        /\ Closed(Top.form, form[Top.form].closing)
     \/ /\ ~form[Top.form].consent
        /\ form' = [form EXCEPT ![Top.form].closing = FALSE]
        /\ UNCHANGED <<current, object, asked>>
  /\ UNCHANGED <<links, main, ticks>>

\* Mutant: no catch resets ProgramClosing.
QueryThrowsUnreset ==
  /\ Script
  /\ stack # <<>> /\ Top.call = "close" /\ Top.form \in Live
  /\ stack' = Pop
  /\ UNCHANGED <<links, current, form, object, main, ticks, asked>>

\* The handler of onCloseQuery throws.
QueryThrows ==
  /\ Script
  /\ stack # <<>> /\ Top.call = "close" /\ Top.form \in Live
  /\ stack' = Pop
  /\ form' = [form EXCEPT ![Top.form].closing = FALSE]
  /\ UNCHANGED <<links, current, object, main, ticks, asked>>

\* OnCloseQueryCalled: the handler of onCloseQuery has answered.  When the user
\* asked, a yes hides the window or ends its modal loop, and the main window is
\* invalidated.
Answered(w, yes) ==
  CASE form[w].closing ->
         /\ form' = [form EXCEPT ![w].consent = yes]
         /\ UNCHANGED <<links, current, object>>
    [] ~form[w].closing /\ ~yes -> UNCHANGED <<links, current, form, object>>
    [] ~form[w].closing /\ yes /\ w = main ->
         /\ CanHide(w)
         /\ Unlink(w)
         /\ current' = CurrentAfter(w, CurrentHidden(w, current))
         /\ form' = [form EXCEPT ![w] = Gone]
         /\ object' = object \ {w}
    [] OTHER ->
         /\ form[w].modal \/ CanHide(w)
         /\ form' = [form EXCEPT ![w] =
              IF @.modal THEN [@ EXCEPT !.result = "ok"] ELSE [@ EXCEPT !.shown = FALSE]]
         /\ current' = IF form[w].modal THEN current ELSE CurrentHidden(w, current)
         /\ UNCHANGED <<links, object>>

\* The handler that the query of Close calls.
AnswerQuery ==
  /\ Script
  /\ stack # <<>> /\ Top.call = "close" /\ Top.form \in object
  /\ \E yes \in BOOLEAN : Answered(Top.form, yes)
  /\ asked' = asked \cap object'
  /\ UNCHANGED <<main, ticks, stack>>

\* The handler of a close event.  It may also not answer at all.
DeliverClose(w) ==
  /\ Script
  /\ w \in asked
  /\ \/ \E yes \in BOOLEAN : Answered(w, yes)
     \/ UNCHANGED <<links, current, form, object>>
  /\ asked' = asked \ {w}
  /\ UNCHANGED <<main, ticks, stack>>

-----------------------------------------------------------------------------
(* Modal windows.                                                           *)

\* Mutant: the events asked for before are not cancelled.
ShowModalUncleared(w) ==
  /\ Script
  /\ w \in object
  /\ Len(stack) < MaxDepth
  /\ MayTouch(w)
  /\ stack' = Append(stack, [call |-> "modal", form |-> w])
  /\ form' = [form EXCEPT ![w] = [@ EXCEPT !.modal = TRUE, !.result = "none"]]
  /\ Front(w)
  /\ UNCHANGED <<links, object, main, ticks, asked>>

\* ShowModal of the object and ShowWindowAsModal, up to its loop.
ShowModal(w) ==
  /\ Script
  /\ w \in object
  /\ Len(stack) < MaxDepth
  /\ MayTouch(w)
  /\ asked' = {}
  /\ stack' = Append(stack, [call |-> "modal", form |-> w])
  /\ form' = [form EXCEPT ![w] = [@ EXCEPT !.modal = TRUE, !.result = "none"]]
  /\ Front(w)
  /\ UNCHANGED <<links, object, main, ticks>>

\* The loop ends when another window has become the current one, or with a
\* result.
ModalEnds ==
  /\ Script
  /\ stack # <<>> /\ Top.call = "modal" /\ Top.form \in Live
  /\ current # Top.form \/ form[Top.form].result # "none"
  /\ stack' = Pop
  /\ form' = [form EXCEPT ![Top.form].modal = FALSE]
  /\ UNCHANGED <<links, current, object, main, ticks, asked>>

-----------------------------------------------------------------------------
(* The main loop.                                                           *)

\* Run of the application calls TickBeat of every window object; the first one
\* brings a shown window to the front.
Run ==
  /\ Script
  /\ ticks' = {w \in object : ~form[w].ready}
  /\ ticks' # {}
  /\ UNCHANGED <<links, current, form, object, main, asked, stack>>

TickBeat(w) ==
  /\ w \in ticks /\ \A v \in ticks : born[w] <= born[v]
  /\ ticks' = ticks \ {w}
  /\ form' = [form EXCEPT ![w].ready = TRUE]
  /\ IF form[w].shown
       THEN Front(w)
       ELSE LET hidden == IF prev[w] # None THEN prev[w] ELSE next[w]
            IN  /\ current = w => hidden \notin lost
                /\ current' = IF current = w THEN hidden ELSE current
  /\ UNCHANGED <<links, object, main, asked, stack>>

\* An event for the window w arrives at the current form and goes back through
\* the list until a form takes it: its own, one to be deleted, or the first.
Receiver(w) ==
  LET hop[n \in 0 .. Cardinality(Windows)] ==
        IF n = 0 THEN current
        ELSE LET x == hop[n - 1]
             IN  IF x \in lost \/ form[x].dying \/ x = w \/ prev[x] = None THEN x ELSE prev[x]
  IN  hop[Cardinality(Windows)]

\* window_receive_event: of a close request or of any other event.
Event(w) ==
  /\ Script
  /\ stack = <<>>
  /\ w \in Live /\ current # None
  /\ LET r == Receiver(w)
     IN  /\ r \in Live
         /\ \/ /\ form[r].dying
               /\ Unlink(r)
               /\ current' = CurrentAfter(r, current)
               /\ form' = [form EXCEPT ![r] = Gone]
               /\ UNCHANGED asked
            \/ /\ ~form[r].dying /\ form[r].instance
               /\ asked' = asked \cup {r}
               /\ UNCHANGED <<links, current, form>>
  /\ UNCHANGED <<object, main, ticks, stack>>

-----------------------------------------------------------------------------

Init ==
  /\ born = [w \in Windows |-> 0]
  /\ listed = {}
  /\ lost = {}
  /\ prev = [w \in Windows |-> None]
  /\ next = [w \in Windows |-> None]
  /\ last = None
  /\ current = None
  /\ form = [w \in Windows |-> Gone]
  /\ object = {}
  /\ main = None
  /\ ticks = {}
  /\ asked = {}
  /\ stack = <<>>

Next ==
  \/ \E w \in Windows :
       \/ Construct(w) \/ ConstructThrows(w) \/ SetVisible(w) \/ BringToFront(w) \/ Invalidate(w)
       \/ Close(w) \/ ShowModal(w) \/ DeliverClose(w)
       \/ TickBeat(w) \/ Event(w)
  \/ QueryReturns \/ QueryThrows \/ AnswerQuery \/ ModalEnds \/ Run

Spec == Init /\ [][Next]_vars

-----------------------------------------------------------------------------
(* Properties.                                                              *)

TypeOK ==
  /\ born \in [Windows -> 0 .. Cardinality(Windows)]
  /\ listed \subseteq Windows /\ lost \subseteq listed /\ object \subseteq Live
  /\ prev \in [Windows -> Windows \cup {None}]
  /\ next \in [Windows -> Windows \cup {None}]
  /\ last \in Windows \cup {None} /\ current \in Windows \cup {None}
  /\ main \in Windows \cup {None}
  /\ form \in [Windows -> Fields]
  /\ ticks \subseteq object /\ asked \subseteq object
  /\ stack \in Seq([call : {"close", "modal"}, form : Windows]) /\ Len(stack) <= MaxDepth

Before(v, w) == born[v] < born[w]

\* The pointers between the forms, through which every event goes, and those to
\* the last and the current one, hold all forms of the list in the order of
\* their creation, whatever is closed, deleted or shown while other calls have
\* not returned.  They lead to living forms, but for one case: a form whose
\* constructor threw is freed and stays in the list, until the program ends, as
\* its last form and maybe its current one.
ListIsWhole ==
  /\ \A w \in listed :
       /\ IF prev[w] = None THEN \A v \in listed \ {w} : Before(w, v)
          ELSE /\ prev[w] \in listed /\ Before(prev[w], w)
               /\ \A v \in listed : ~(Before(prev[w], v) /\ Before(v, w))
       /\ IF next[w] = None THEN \A v \in listed \ {w} : Before(v, w)
          ELSE next[w] \in listed /\ prev[next[w]] = w
  /\ IF last = None THEN listed = {} ELSE last \in listed /\ next[last] = None
  /\ current \in listed \cup {None}
  /\ lost \subseteq {last}

\* While a window that is ready is shown, some form is the current one, so that
\* SDL's events have a form to arrive at.  It need not be a form from which they
\* come to that window: they only go back through the list.
ShownHasCurrent ==
  current = None => \A w \in object : form[w].ready /\ ~form[w].shown

\* Close and ShowWindowAsModal find their form alive when their process_events
\* returns, for a script that leaves a window alone while they run: also when
\* the user asks to close a window in between.
CallersLive ==
  Careful => \A i \in 1 .. Len(stack) : stack[i].form \in Live

\* ProgramClosing and in_mode_ tell which calls have not returned, whatever
\* handlers threw in between: the answer to a query is taken for that of Close
\* only while a Close runs, and Close only ends a modal loop that runs.
FlagsTellCalls ==
  Careful => \A w \in Live :
    /\ form[w].closing <=> \E i \in 1 .. Len(stack) : stack[i] = [call |-> "close", form |-> w]
    /\ form[w].modal <=> \E i \in 1 .. Len(stack) : stack[i] = [call |-> "modal", form |-> w]
=============================================================================
