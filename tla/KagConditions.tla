---------------------------- MODULE KagConditions ----------------------------
(***************************************************************************)
(* What a KAG scenario may rely on about [if], [elsif], [else] and [endif]: *)
(* text comes through exactly while every [if] around it is in a branch    *)
(* that was chosen, at most one branch of an [if] is chosen, a call starts *)
(* with no open [if], a return brings back those of the caller, and a      *)
(* restored state has those of the stored one.                             *)
(***************************************************************************)
EXTENDS Integers, Sequences

VARIABLES
  conds,   \* the open [if]s, the outermost first
  frames,  \* for each unfinished call, the open [if]s of the caller
  saved,   \* the stored states: at most one, a pair <<conds, frames>>
  ret      \* what the last request for a tag returned

vars == <<conds, frames, saved, ret>>

\* "in" a chosen branch; "wait": no branch chosen so far; "done": past the
\* chosen branch; "skip": the [if] itself was never reached.
Branch == {"in", "wait", "done", "skip"}

Shown(c) == \A i \in DOMAIN c : c[i] = "in"

Init == conds = <<>> /\ frames = <<>> /\ saved = <<>> /\ ret = "none"

If(b) ==
  /\ conds' = Append(conds, IF ~Shown(conds) THEN "skip" ELSE IF b THEN "in" ELSE "wait")
  /\ UNCHANGED <<frames, saved, ret>>

\* [elsif] with a condition that is b, or [else] with b = TRUE
Elsif(b) ==
  /\ conds # <<>>
  /\ conds' = [conds EXCEPT ![Len(conds)] =
                 CASE @ = "in"   -> "done"
                   [] @ = "wait" -> IF b THEN "in" ELSE "wait"
                   [] OTHER      -> @]
  /\ UNCHANGED <<frames, saved, ret>>

Endif ==
  /\ conds # <<>>
  /\ conds' = SubSeq(conds, 1, Len(conds) - 1)
  /\ UNCHANGED <<frames, saved, ret>>

\* A jump, a loaded scenario, a cleared buffer.
Break == conds' = <<>> /\ UNCHANGED <<frames, saved, ret>>

\* A call to a place breaks the conditions, one that goes nowhere keeps them.
Call ==
  /\ frames' = Append(frames, conds)
  /\ conds' \in {<<>>, conds}
  /\ UNCHANGED <<saved, ret>>

Return ==
  /\ frames # <<>>
  /\ frames' = SubSeq(frames, 1, Len(frames) - 1)
  /\ conds' \in {<<>>, frames[Len(frames)]}
  /\ UNCHANGED <<saved, ret>>

ClearCalls == frames' = <<>> /\ conds' \in {<<>>, conds} /\ UNCHANGED <<saved, ret>>

Store == saved' = <<<<conds, frames>>>> /\ UNCHANGED <<conds, frames, ret>>

\* A state whose scenario is gone is restored without its conditions.
Restore ==
  /\ saved # <<>>
  /\ frames' = saved[1][2]
  /\ conds' \in {<<>>, saved[1][1]}
  /\ UNCHANGED <<saved, ret>>

Ask    == ret' = "none" /\ UNCHANGED <<conds, frames, saved>>
Show   == Shown(conds) /\ ret' \in {"tag", "r"} /\ UNCHANGED <<conds, frames, saved>>
NoShow == ret' \in {"end", "interrupt"} /\ UNCHANGED <<conds, frames, saved>>

Next == \/ \E b \in BOOLEAN : If(b) \/ Elsif(b)
        \/ Endif \/ Break \/ Call \/ Return \/ ClearCalls \/ Store \/ Restore
        \/ Ask \/ Show \/ NoShow

Spec == Init /\ [][Next]_vars
=============================================================================
