---------------------------- MODULE MCWavePlayback ----------------------------
(* WavePlayback with a short stream, for TLC. *)
EXTENDS WavePlayback
=============================================================================
