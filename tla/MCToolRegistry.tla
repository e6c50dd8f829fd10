----------------------------- MODULE MCToolRegistry -----------------------------
(* An opening batch of three calls on a pool of two threads, a follow-up call, a second
   batch that does not fit the tool cap; a call that is malformed, one id repeated
   within a batch and one reused by a later batch. *)
EXTENDS ToolRegistry

MCBatches == {<<"a", "b", "c">>, <<"d">>, <<"d", "e">>, <<"a">>, <<"e", "e">>, <<"bad">>}
===============================================================================
