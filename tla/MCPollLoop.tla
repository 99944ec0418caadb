---------------------------- MODULE MCPollLoop ------------------------------
(***************************************************************************)
(* PollLoop for TLC: a debounce window of two ticks, polls of up to two    *)
(* ticks and an interval longer than both together, as the defaults are    *)
(* (30 s, 5 s and seconds).  PollLoopProofs has no such condition.         *)
(***************************************************************************)
EXTENDS PollLoop
=============================================================================
