-------------------------- MODULE MCEmbeddedWorker --------------------------
(* EmbeddedWorker for TLC. *)
EXTENDS EmbeddedWorker
=============================================================================
