-------------------------- MODULE MCEventPipeline --------------------------
(***************************************************************************)
(* A small instance of EventPipeline: a ring and a queue of two places,    *)
(* and more opens than both can hold with one event in each thread's hand. *)
(***************************************************************************)
EXTENDS EventPipeline

MCItem == 1..MaxOpens
=============================================================================
