--------------------------- MODULE MCOpenALStream ---------------------------
(* Instances of OpenALStream for TLC. *)
EXTENDS OpenALStream
=============================================================================
