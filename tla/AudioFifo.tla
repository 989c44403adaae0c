----------------------------- MODULE AudioFifo -----------------------------
(***************************************************************************)
(* What the level-2 buffer of a sound promises, with no ring, no locks and *)
(* no threads: the decoder gives the units of the sound in order, at most  *)
(* Capacity of them wait, and they are heard in the order they were given. *)
(* A restart drops what waits and begins again with the first unit.        *)
(***************************************************************************)
EXTENDS Integers, Sequences

CONSTANT Capacity   \* how many units may wait, a natural number

VARIABLES
  given,   \* how many units the decoder has given since the last restart
  queue,   \* the units that wait
  heard    \* the units given to the device, in order

vars == <<given, queue, heard>>

Init ==
  /\ given = 0
  /\ queue = <<>>
  /\ heard = <<>>

\* The decoder gives the next unit.
Give ==
  /\ Len(queue) < Capacity
  /\ given' = given + 1
  /\ queue' = Append(queue, given + 1)
  /\ UNCHANGED heard

\* The device takes the unit that has waited longest.
Take ==
  /\ queue # <<>>
  /\ heard' = Append(heard, Head(queue))
  /\ queue' = Tail(queue)
  /\ UNCHANGED given

Restart ==
  /\ given' = 0
  /\ queue' = <<>>
  /\ heard' = <<>>

Next == Give \/ Take \/ Restart

Spec == Init /\ [][Next]_vars
=============================================================================
