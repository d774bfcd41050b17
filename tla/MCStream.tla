------------------------------- MODULE MCStream -------------------------------
(* Two lines to a stream, pipes and a channel of one: every place to block.   *)
EXTENDS ComposeStream
=============================================================================
