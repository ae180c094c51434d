---------------------------- MODULE MCStreamCalls ----------------------------
(* An instance of StreamCalls for TLC: a request or a command waits on a stream. *)
EXTENDS StreamCalls
=============================================================================
