---------------------------- MODULE BoundedFifo ----------------------------
(***************************************************************************)
(* What the event queue promises its two ends: a bounded first-in          *)
(* first-out buffer that can be closed.  Items put before the close come   *)
(* out, once each and in order; nothing goes in after it.                  *)
(***************************************************************************)
EXTENDS Naturals, Sequences

CONSTANTS Item, Bound

VARIABLES
    q,        \* items in the buffer, oldest first
    got,      \* items taken out, in order
    closed

fifoVars == <<q, got, closed>>

FifoInit == q = <<>> /\ got = <<>> /\ closed = FALSE

Put(x) ==
    /\ ~closed
    /\ Len(q) < Bound
    /\ q' = Append(q, x)
    /\ UNCHANGED <<got, closed>>

Get ==
    /\ q # <<>>
    /\ got' = Append(got, Head(q))
    /\ q' = Tail(q)
    /\ UNCHANGED closed

Close ==
    /\ closed' = TRUE
    /\ UNCHANGED <<q, got>>

FifoNext == (\E x \in Item : Put(x)) \/ Get \/ Close

Fifo == FifoInit /\ [][FifoNext]_fifoVars
=============================================================================
