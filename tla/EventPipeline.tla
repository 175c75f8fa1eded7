--------------------------- MODULE EventPipeline ---------------------------
(***************************************************************************)
(* The way of an event from the LSM hook to the sinks, and the start and   *)
(* the orderly stop of the controller that carries it.                     *)
(*                                                                         *)
(* The hook reserves and submits records in the kernel ring; the ring      *)
(* thread polls it and pushes each event into the core queue; the consumer *)
(* thread pops the events and writes them to the sinks; request_stop ends  *)
(* both threads and detaches the program.  The core queue is the bounded   *)
(* FIFO that SpscQueue implements, at the grain of its calls.  Events are  *)
(* numbered in the order of the opens that raised them.                    *)
(***************************************************************************)
EXTENDS Integers, SequencesExt, BoundedFifo

CONSTANTS
    RingCap,        \* records the kernel ring has room for
    MaxOpens,       \* bound: protected opens
    PollMayFail     \* ring_buffer__poll may return an error (EINTR)

ASSUME PipelineAssumption ==
    /\ Bound \in Nat \ {0} /\ RingCap \in Nat \ {0} /\ MaxOpens \in Nat
    /\ Item = 1..MaxOpens
    /\ PollMayFail \in BOOLEAN

VARIABLES
    attached,   \* skel_ and ring_ exist, the program is attached
    opens,      \* protected opens so far
    ring,       \* records the poller has not passed: [id, busy], oldest first
    poller,     \* ring_thread_
    ringStop,   \* its stop token
    consumer,   \* consumer_thread_
    written,    \* events written to the sinks
    ctl,        \* where start or request_stop stands
    reserved,   \* ghost: events that got a ring record
    dropped     \* ghost: events push gave up

vars == <<q, got, closed, attached, opens, ring, poller, ringStop, consumer,
          written, ctl, reserved, dropped>>

Init ==
    /\ FifoInit
    /\ attached = FALSE
    /\ opens = 0 /\ ring = <<>>
    /\ poller = "none" /\ ringStop = FALSE /\ consumer = "none"
    /\ written = <<>>
    /\ ctl = "new"
    /\ reserved = <<>> /\ dropped = <<>>

-----------------------------------------------------------------------------
(* The hook's part: reserve, and later submit.  A full ring costs the      *)
(* event, not the decision.                                                *)

Reserve ==
    /\ attached
    /\ opens < MaxOpens
    /\ Len(ring) < RingCap
    /\ opens' = opens + 1
    /\ ring' = Append(ring, [id |-> opens', busy |-> TRUE])
    /\ reserved' = Append(reserved, opens')
    /\ UNCHANGED <<q, got, closed, attached, poller, ringStop, consumer, written,
                   ctl, dropped>>

RingFull ==
    /\ attached
    /\ opens < MaxOpens
    /\ Len(ring) = RingCap
    /\ opens' = opens + 1
    /\ UNCHANGED <<q, got, closed, attached, ring, poller, ringStop, consumer,
                   written, ctl, reserved, dropped>>

Submit ==
    /\ \E i \in DOMAIN ring :
          /\ ring[i].busy
          /\ ring' = [ring EXCEPT ![i].busy = FALSE]
    /\ UNCHANGED <<q, got, closed, attached, opens, poller, ringStop, consumer,
                   written, ctl, reserved, dropped>>

-----------------------------------------------------------------------------
(* Controller::start.                                                      *)

StartLoad ==
    /\ ctl = "new"
    /\ \/ attached' = TRUE /\ ctl' = "loaded"
       \/ attached' = FALSE /\ ctl' = "failed"
    /\ UNCHANGED <<q, got, closed, opens, ring, poller, ringStop, consumer,
                   written, reserved, dropped>>

\* The startup policy may be refused, and start then leaves the program
\* attached and the threads unborn.
StartThreads ==
    /\ ctl = "loaded"
    /\ \/ ctl' = "running" /\ poller' = "check" /\ consumer' = "pop"
       \/ ctl' = "failed" /\ UNCHANGED <<poller, consumer>>
    /\ UNCHANGED <<q, got, closed, attached, opens, ring, ringStop, written,
                   reserved, dropped>>

-----------------------------------------------------------------------------
(* The ring thread: LinuxEBPFEnforcer::run and ring_buffer__poll.          *)

PollerFrame == <<got, closed, attached, opens, ringStop, consumer, written, ctl,
                 reserved>>

RunCheck ==
    /\ poller = "check"
    /\ poller' = IF ringStop THEN "ended" ELSE "wait"
    /\ UNCHANGED <<PollerFrame, q, ring, dropped>>

PollError ==
    /\ PollMayFail
    /\ poller = "wait"
    /\ poller' = "ended"
    /\ UNCHANGED <<PollerFrame, q, ring, dropped>>

PollWait ==
    /\ poller = "wait"
    /\ poller' = "consume"
    /\ UNCHANGED <<PollerFrame, q, ring, dropped>>

\* Mutant: a record is read before it is submitted.
Consume_IgnoresBusy ==
    /\ poller = "consume"
    /\ poller' = IF ring # <<>> THEN "push" ELSE "check"
    /\ UNCHANGED <<PollerFrame, q, ring, dropped>>

\* A record still busy ends the round as an empty ring does.
Consume ==
    /\ poller = "consume"
    /\ poller' = IF ring # <<>> /\ ~Head(ring).busy THEN "push" ELSE "check"
    /\ UNCHANGED <<PollerFrame, q, ring, dropped>>

\* Mutant: try_push instead of push.
EmitEvent_TryPush ==
    /\ poller = "push"
    /\ \/ Put(Head(ring).id) /\ UNCHANGED dropped
       \/ /\ closed \/ Len(q) = Bound
          /\ dropped' = Append(dropped, Head(ring).id)
          /\ UNCHANGED <<q, got, closed>>
    /\ poller' = "advance"
    /\ UNCHANGED <<attached, opens, ring, ringStop, consumer, written, ctl, reserved>>

\* ring_callback and emit_event: push blocks on a full queue, and returns
\* without the item once the queue was stopped.
EmitEvent ==
    /\ poller = "push"
    /\ \/ Put(Head(ring).id) /\ UNCHANGED dropped
       \/ /\ closed
          /\ dropped' = Append(dropped, Head(ring).id)
          /\ UNCHANGED <<q, got, closed>>
    /\ poller' = "advance"
    /\ UNCHANGED <<attached, opens, ring, ringStop, consumer, written, ctl, reserved>>

\* libbpf frees the record when the callback has returned.
Advance ==
    /\ poller = "advance"
    /\ ring' = Tail(ring)
    /\ poller' = "consume"
    /\ UNCHANGED <<PollerFrame, q, dropped>>

PollerStep ==
    \/ RunCheck
    \/ PollError
    \/ PollWait
    \/ Consume
    \/ EmitEvent
    \/ Advance

-----------------------------------------------------------------------------
(* The consumer thread.                                                    *)

\* Mutant: pop returns false as soon as the queue is stopped.
ConsumerPop_EndsOnStop ==
    /\ consumer = "pop"
    /\ IF closed THEN consumer' = "ended" /\ UNCHANGED <<q, got, closed>>
                 ELSE Get /\ consumer' = "write"
    /\ UNCHANGED <<attached, opens, ring, poller, ringStop, written, ctl, reserved,
                   dropped>>

\* Mutant: a pop woken by the stop advances tail_ before it reads.
ConsumerPop_SkipsOnStop ==
    /\ consumer = "pop"
    /\ \/ /\ closed /\ Len(q) > 1
          /\ got' = Append(got, q[2])
          /\ q' = Tail(Tail(q))
          /\ consumer' = "write"
          /\ UNCHANGED closed
       \/ ~closed /\ Get /\ consumer' = "write"
       \/ /\ closed /\ Len(q) <= 1
          /\ consumer' = "ended"
          /\ UNCHANGED <<q, got, closed>>
    /\ UNCHANGED <<attached, opens, ring, poller, ringStop, written, ctl, reserved,
                   dropped>>

\* Mutant: pop waits for full() instead of !empty().
ConsumerPop_WaitsForFull ==
    /\ consumer = "pop"
    /\ \/ (closed \/ Len(q) = Bound) /\ Get /\ consumer' = "write"
       \/ /\ closed /\ q = <<>>
          /\ consumer' = "ended"
          /\ UNCHANGED <<q, got, closed>>
    /\ UNCHANGED <<attached, opens, ring, poller, ringStop, written, ctl, reserved,
                   dropped>>

ConsumerPop ==
    /\ consumer = "pop"
    /\ \/ Get /\ consumer' = "write"
       \/ /\ closed /\ q = <<>>
          /\ consumer' = "ended"
          /\ UNCHANGED <<q, got, closed>>
    /\ UNCHANGED <<attached, opens, ring, poller, ringStop, written, ctl, reserved,
                   dropped>>

ConsumerWrite ==
    /\ consumer = "write"
    /\ written' = Append(written, Last(got))
    /\ consumer' = "pop"
    /\ UNCHANGED <<q, got, closed, attached, opens, ring, poller, ringStop, ctl,
                   reserved, dropped>>

ConsumerStep == ConsumerPop \/ ConsumerWrite

-----------------------------------------------------------------------------
(* Controller::request_stop, in its order; it also follows a failed start. *)

StopFrame == <<opens, poller, consumer, written, reserved, dropped>>

StopQueue ==
    /\ ctl \in {"running", "failed"}
    /\ Close
    /\ ctl' = "stopRing"
    /\ UNCHANGED <<StopFrame, attached, ring, ringStop>>

\* Mutant: the ring thread's token is not requested.
StopRing_Forgotten ==
    /\ ctl = "stopRing"
    /\ ctl' = "joinRing"
    /\ UNCHANGED <<StopFrame, q, got, closed, attached, ring, ringStop>>

StopRing ==
    /\ ctl = "stopRing"
    /\ ringStop' = (poller # "none")
    /\ ctl' = "joinRing"
    /\ UNCHANGED <<StopFrame, q, got, closed, attached, ring>>

\* Mutant: the ring thread is not joined.
JoinRing_NoWait ==
    /\ ctl = "joinRing"
    /\ ctl' = "joinConsumer"
    /\ UNCHANGED <<StopFrame, q, got, closed, attached, ring, ringStop>>

JoinRing ==
    /\ ctl = "joinRing"
    /\ poller \in {"none", "ended"}
    /\ ctl' = "joinConsumer"
    /\ UNCHANGED <<StopFrame, q, got, closed, attached, ring, ringStop>>

JoinConsumer ==
    /\ ctl = "joinConsumer"
    /\ consumer \in {"none", "ended"}
    /\ ctl' = "detach"
    /\ UNCHANGED <<StopFrame, q, got, closed, attached, ring, ringStop>>

\* The ring is freed with whatever was left in it; then the sinks' flush.
DetachAndFlush ==
    /\ ctl = "detach"
    /\ attached' = FALSE
    /\ ring' = <<>>
    /\ ctl' = "done"
    /\ UNCHANGED <<StopFrame, q, got, closed, ringStop>>

StopStep ==
    \/ StopRing
    \/ JoinRing
    \/ JoinConsumer
    \/ DetachAndFlush

-----------------------------------------------------------------------------
Next ==
    \/ Reserve
    \/ RingFull
    \/ Submit
    \/ StartLoad
    \/ StartThreads
    \/ PollerStep
    \/ ConsumerStep
    \/ StopQueue
    \/ StopStep

Spec == Init /\ [][Next]_vars

\* The hook runs to its end, the threads are scheduled, and request_stop goes
\* on once called; nobody is obliged to call it or to open a file.
FairSpec ==
    /\ Spec
    /\ WF_vars(Submit)
    /\ WF_vars(PollerStep)
    /\ WF_vars(ConsumerStep)
    /\ WF_vars(StopStep)

-----------------------------------------------------------------------------
RingRecord == [id : Item, busy : BOOLEAN]

TypeOK ==
    /\ q \in Seq(Item) /\ Len(q) <= Bound
    /\ got \in Seq(Item) /\ written \in Seq(Item)
    /\ reserved \in Seq(Item) /\ dropped \in Seq(Item)
    /\ closed \in BOOLEAN /\ attached \in BOOLEAN /\ ringStop \in BOOLEAN
    /\ opens \in 0..MaxOpens
    /\ ring \in Seq(RingRecord) /\ Len(ring) <= RingCap
    /\ poller \in {"none", "check", "wait", "consume", "push", "advance", "ended"}
    /\ consumer \in {"none", "pop", "write", "ended"}
    /\ ctl \in {"new", "loaded", "running", "failed", "stopRing", "joinRing",
                "joinConsumer", "detach", "done"}
    /\ poller = "push" => ring # <<>> /\ ~Head(ring).busy
    /\ poller = "advance" => ring # <<>>
    /\ consumer = "write" => got # <<>>

\* Records whose event has not been handed to the queue.
Unread ==
    LET rs == IF poller = "advance" THEN Tail(ring) ELSE ring
    IN  [i \in DOMAIN rs |-> rs[i].id]

\* The event the consumer has popped and not yet written.
InHand == IF consumer = "write" THEN <<Last(got)>> ELSE <<>>

\* Until the queue is stopped, the events that got a record are, in order,
\* those written, the one in the consumer's hand, those queued and those in the
\* ring: none is lost, doubled or overtaken (ring_buffer__poll to consumer_loop).
NothingLost ==
    ~closed => reserved = written \o InHand \o q \o Unread

\* Also during a stop, the events are those written, held and queued, then
\* those push gave up, then what stays in the ring: nothing that comes before a
\* logged event is missing from the log.
LogIsPrefix == IsPrefix(written \o InHand \o q \o dropped, reserved)

\* "a drained queue" (docs/07-cpp-design.md:73): when request_stop returns all
\* that the queue accepted has reached the sinks.
Drained == ctl = "done" => q = <<>> /\ written = got

\* "Ordering guarantees no use-after-free" (docs/07-cpp-design.md:73): while the
\* ring thread may touch ring_, detach has not freed it.
NoUseAfterFree ==
    poller \in {"wait", "consume", "push", "advance"} => attached

\* request_stop returns, also with the poller blocked on a full queue, with a
\* record left busy, after a poll error and after a failed start.
StopReturns == ctl = "stopRing" ~> ctl = "done"

\* An event that got a record while the threads are up is written, or a stop
\* begins, or polling has failed and ended the ring thread.
EventsLogged ==
    \A n \in Item :
       (ctl = "running" /\ Contains(reserved, n))
           ~> (Contains(written, n) \/ closed \/ poller = "ended")
=============================================================================
