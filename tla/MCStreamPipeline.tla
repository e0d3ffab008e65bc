--------------------------- MODULE MCStreamPipeline ---------------------------
(* Instances of StreamPipeline for TLC; the constants are given in the .cfg files. *)
EXTENDS StreamPipeline
=============================================================================
