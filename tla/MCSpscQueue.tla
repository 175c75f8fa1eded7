---------------------------- MODULE MCSpscQueue ----------------------------
(***************************************************************************)
(* Small instances of SpscQueue: the controller's queue (push, pop), the   *)
(* queue of a stream client (try_push, pop), and all calls mixed.          *)
(***************************************************************************)
EXTENDS SpscQueue, TLC
=============================================================================
