----------------------------- MODULE MCConsole -----------------------------
(***************************************************************************)
(* Instances of Console for TLC: the info command of an operation that     *)
(* needs no lease, the reset of a device recovery, and one stream whose    *)
(* channel holds a single chunk, so that chunks are dropped.               *)
(***************************************************************************)
EXTENDS Console

CONSTANTS info, reset, tail
=============================================================================
