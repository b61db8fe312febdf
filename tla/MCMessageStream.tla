--------------------------- MODULE MCMessageStream ---------------------------
(* MessageStream for TLC. *)
EXTENDS MessageStream
=============================================================================
