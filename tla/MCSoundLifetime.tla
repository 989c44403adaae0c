---------------------------- MODULE MCSoundLifetime ----------------------------
(* SoundLifetime with two sounds, for TLC. *)
EXTENDS SoundLifetime
=============================================================================
