----------------------------- MODULE SpscQueue -----------------------------
(***************************************************************************)
(* SpscQueue<T> at the grain of its shared accesses: one producer thread   *)
(* P, one consumer thread C and the thread S that calls request_stop.      *)
(* push and pop work under mtx_, try_push and try_pop without it.          *)
(*                                                                         *)
(* The items are numbered in the order of the producer's calls.  A thread  *)
(* blocked in cv.wait is at "waiting"; a notification sends it back to     *)
(* "lock", and so may a spurious wakeup.                                   *)
(***************************************************************************)
EXTENDS Integers, Sequences, SequencesExt

CONSTANTS
    Cap,        \* slots_.size()
    Uses,       \* how the queue is used, see PushOps and PopOps
    MaxItems,   \* bound: calls of the producer
    Nothing     \* a moved-from or default-constructed slot

ASSUME QueueAssumption ==
    /\ Cap \in Nat /\ Cap >= 2
    /\ Uses \subseteq {"controller", "stream", "any"}
    /\ MaxItems \in Nat
    /\ Nothing \notin Nat

VARIABLES
    use,         \* whose queue this is; never changes
    slots, head, tail, stop,
    mtx,         \* holder of mtx_: "P", "C" or "free"
    p,           \* producer: program counter and the item of its latest call
    c,           \* consumer: program counter
    s,           \* stopper: what it does next
    accepted,    \* ghost: items stored, in order
    delivered    \* ghost: items handed out, in order

vars == <<use, slots, head, tail, stop, mtx, p, c, s, accepted, delivered>>

Item == 1..MaxItems
Slot == 0..(Cap - 1)

\* What the producer and the consumer call: the controller's queue, the queue
\* of a stream client, and any mixture of the calls.
PushOps == CASE use = "controller" -> {"push"}
             [] use = "stream" -> {"try_push"}
             [] use = "any" -> {"push", "try_push"}

PopOps == IF use = "any" THEN {"pop", "try_pop"} ELSE {"pop"}

\* Mutant: the index does not wrap.
next_NoWrap(i) == i + 1

next(i) == (i + 1) % Cap

empty == head = tail

full == next(head) = tail

Init ==
    /\ use \in Uses
    /\ slots = [i \in Slot |-> Nothing]
    /\ head = 0 /\ tail = 0 /\ stop = FALSE
    /\ mtx = "free"
    /\ p = [pc |-> "idle", item |-> 0]
    /\ c = "idle"
    /\ s = "idle"
    /\ accepted = <<>> /\ delivered = <<>>

-----------------------------------------------------------------------------
(* The producer.                                                           *)

PushBegin ==
    /\ p.pc = "idle"
    /\ p.item < MaxItems
    /\ \E op \in PushOps :
          p' = [p EXCEPT !.pc = IF op = "push" THEN "lock" ELSE "load",
                         !.item = @ + 1]
    /\ UNCHANGED <<use, slots, head, tail, stop, mtx, c, s,
                   accepted, delivered>>

PushLock ==
    /\ p.pc = "lock"
    /\ mtx = "free"
    /\ mtx' = "P"
    /\ p' = [p EXCEPT !.pc = "test"]
    /\ UNCHANGED <<use, slots, head, tail, stop, c, s, accepted, delivered>>

\* Mutant: push ignores stop_.
PushTest_NoStop ==
    /\ p.pc = "test"
    /\ p' = [p EXCEPT !.pc = IF full THEN "sleep" ELSE "write"]
    /\ UNCHANGED <<use, slots, head, tail, stop, mtx, c, s,
                   accepted, delivered>>

\* The wait predicate; a stopped queue swallows the item.
PushTest ==
    /\ p.pc = "test"
    /\ IF stop THEN mtx' = "free" /\ p' = [p EXCEPT !.pc = "idle"]
       ELSE /\ p' = [p EXCEPT !.pc = IF full THEN "sleep" ELSE "write"]
            /\ UNCHANGED mtx
    /\ UNCHANGED <<use, slots, head, tail, stop, c, s, accepted, delivered>>

\* cv_producer_.wait gives the mutex up and starts waiting in one step.
PushSleep ==
    /\ p.pc = "sleep"
    /\ mtx' = "free"
    /\ p' = [p EXCEPT !.pc = "waiting"]
    /\ UNCHANGED <<use, slots, head, tail, stop, c, s, accepted, delivered>>

\* Mutant: try_push does not test for a full ring.
TryPushLoad_NoFull ==
    /\ p.pc = "load"
    /\ p' = [p EXCEPT !.pc = "write"]
    /\ UNCHANGED <<use, slots, head, tail, stop, mtx, c, s,
                   accepted, delivered>>

\* try_push: the acquire load of tail_, and the test against it.
TryPushLoad ==
    /\ p.pc = "load"
    /\ p' = [p EXCEPT !.pc = IF full THEN "idle" ELSE "write"]
    /\ UNCHANGED <<use, slots, head, tail, stop, mtx, c, s,
                   accepted, delivered>>

PushWrite ==
    /\ p.pc = "write"
    /\ slots' = [slots EXCEPT ![head] = p.item]
    /\ p' = [p EXCEPT !.pc = "store"]
    /\ UNCHANGED <<use, head, tail, stop, mtx, c, s, accepted, delivered>>

\* The release store of head_, and for push the end of the locked block.
PushStore ==
    /\ p.pc = "store"
    /\ head' = next(head)
    /\ mtx' = IF mtx = "P" THEN "free" ELSE mtx
    /\ p' = [p EXCEPT !.pc = "notify"]
    /\ accepted' = Append(accepted, p.item)
    /\ UNCHANGED <<use, slots, tail, stop, c, s, delivered>>

\* Mutant: the consumer is not notified.
PushNotify_Forgotten ==
    /\ p.pc = "notify"
    /\ p' = [p EXCEPT !.pc = "idle"]
    /\ UNCHANGED <<use, slots, head, tail, stop, mtx, c, s,
                   accepted, delivered>>

\* cv_consumer_.notify_one(), outside the mutex.
PushNotify ==
    /\ p.pc = "notify"
    /\ p' = [p EXCEPT !.pc = "idle"]
    /\ c' = IF c = "waiting" THEN "lock" ELSE c
    /\ UNCHANGED <<use, slots, head, tail, stop, mtx, s, accepted, delivered>>

PushStep ==
    \/ PushLock
    \/ PushTest
    \/ PushSleep
    \/ TryPushLoad
    \/ PushWrite
    \/ PushStore
    \/ PushNotify

-----------------------------------------------------------------------------
(* The consumer; it calls pop again until pop returns false.               *)

PopBegin ==
    /\ c = "idle"
    /\ \E op \in PopOps :
          c' = IF op = "pop" THEN "lock" ELSE "load"
    /\ UNCHANGED <<use, slots, head, tail, stop, mtx, p, s,
                   accepted, delivered>>

PopLock ==
    /\ c = "lock"
    /\ mtx = "free"
    /\ mtx' = "C"
    /\ c' = "test"
    /\ UNCHANGED <<use, slots, head, tail, stop, p, s, accepted, delivered>>

PopTest ==
    /\ c = "test"
    /\ c' = IF stop \/ ~empty THEN "check" ELSE "sleep"
    /\ UNCHANGED <<use, slots, head, tail, stop, mtx, p, s,
                   accepted, delivered>>

PopSleep ==
    /\ c = "sleep"
    /\ mtx' = "free"
    /\ c' = "waiting"
    /\ UNCHANGED <<use, slots, head, tail, stop, p, s, accepted, delivered>>

\* Mutant: pop tests stop_ instead of empty().
PopCheck_StopFirst ==
    /\ c = "check"
    /\ IF stop THEN mtx' = "free" /\ c' = "ended"
               ELSE mtx' = mtx /\ c' = "read"
    /\ UNCHANGED <<use, slots, head, tail, stop, p, s, accepted, delivered>>

\* if (empty()) return false: stopped and drained.
PopCheck ==
    /\ c = "check"
    /\ IF empty THEN mtx' = "free" /\ c' = "ended"
                ELSE mtx' = mtx /\ c' = "read"
    /\ UNCHANGED <<use, slots, head, tail, stop, p, s, accepted, delivered>>

\* Mutant: try_pop does not test for an empty ring.
TryPopLoad_NoEmpty ==
    /\ c = "load"
    /\ c' = "read"
    /\ UNCHANGED <<use, slots, head, tail, stop, mtx, p, s,
                   accepted, delivered>>

\* try_pop: the acquire load of head_, and the test against it.
TryPopLoad ==
    /\ c = "load"
    /\ c' = IF empty THEN "idle" ELSE "read"
    /\ UNCHANGED <<use, slots, head, tail, stop, mtx, p, s,
                   accepted, delivered>>

\* out = std::move(slots_[tail]).
PopRead ==
    /\ c = "read"
    /\ c' = "store"
    /\ slots' = [slots EXCEPT ![tail] = Nothing]
    /\ delivered' = Append(delivered, slots[tail])
    /\ UNCHANGED <<use, head, tail, stop, mtx, p, s, accepted>>

PopStore ==
    /\ c = "store"
    /\ tail' = next(tail)
    /\ mtx' = IF mtx = "C" THEN "free" ELSE mtx
    /\ c' = "notify"
    /\ UNCHANGED <<use, slots, head, stop, p, s, accepted, delivered>>

\* Mutant: the producer is not notified.
PopNotify_Forgotten ==
    /\ c = "notify"
    /\ c' = "idle"
    /\ UNCHANGED <<use, slots, head, tail, stop, mtx, p, s,
                   accepted, delivered>>

PopNotify ==
    /\ c = "notify"
    /\ c' = "idle"
    /\ p' = IF p.pc = "waiting" THEN [p EXCEPT !.pc = "lock"] ELSE p
    /\ UNCHANGED <<use, slots, head, tail, stop, mtx, s, accepted, delivered>>

PopStep ==
    \/ PopBegin
    \/ PopLock
    \/ PopTest
    \/ PopSleep
    \/ PopCheck
    \/ TryPopLoad
    \/ PopRead
    \/ PopStore
    \/ PopNotify

-----------------------------------------------------------------------------
(* request_stop: the flag under the mutex, then the two notify_all.        *)

StopSet ==
    /\ s = "idle"
    /\ mtx = "free"
    /\ stop' = TRUE
    /\ s' = "producer"
    /\ UNCHANGED <<use, slots, head, tail, mtx, p, c, accepted, delivered>>

StopNotifyProducer ==
    /\ s = "producer"
    /\ s' = "consumer"
    /\ p' = IF p.pc = "waiting" THEN [p EXCEPT !.pc = "lock"] ELSE p
    /\ UNCHANGED <<use, slots, head, tail, stop, mtx, c, accepted, delivered>>

\* Mutant: the consumer is not woken.
StopNotifyConsumer_Forgotten ==
    /\ s = "consumer"
    /\ s' = "done"
    /\ UNCHANGED <<use, slots, head, tail, stop, mtx, p, c,
                   accepted, delivered>>

StopNotifyConsumer ==
    /\ s = "consumer"
    /\ s' = "done"
    /\ c' = IF c = "waiting" THEN "lock" ELSE c
    /\ UNCHANGED <<use, slots, head, tail, stop, mtx, p, accepted, delivered>>

StopStep == StopNotifyProducer \/ StopNotifyConsumer

\* A condition variable may wake a thread for no reason.
Spurious ==
    /\ \/ /\ p.pc = "waiting" /\ p' = [p EXCEPT !.pc = "lock"]
          /\ UNCHANGED c
       \/ /\ c = "waiting" /\ c' = "lock"
          /\ UNCHANGED p
    /\ UNCHANGED <<use, slots, head, tail, stop, mtx, s, accepted, delivered>>

Next ==
    \/ PushBegin
    \/ PushStep
    \/ PopStep
    \/ StopSet
    \/ StopStep
    \/ Spurious

Spec == Init /\ [][Next]_vars

\* Each thread keeps running once inside a call, and a lock() that is free
\* over and over again is granted; the consumer keeps asking for items.
FairSpec ==
    /\ Spec
    /\ WF_vars(PushStep) /\ SF_vars(PushLock)
    /\ WF_vars(PopStep) /\ SF_vars(PopLock)
    /\ WF_vars(StopStep)

-----------------------------------------------------------------------------
TypeOK ==
    /\ use \in Uses
    /\ slots \in [Slot -> Nat \cup {Nothing}]
    /\ head \in Slot /\ tail \in Slot
    /\ stop \in BOOLEAN
    /\ mtx \in {"free", "P", "C"}
    /\ p \in [pc : {"idle", "lock", "test", "sleep", "waiting", "load", "write",
                    "store", "notify"},
              item : Nat]
    /\ c \in {"idle", "lock", "test", "sleep", "waiting", "load", "check",
              "read", "store", "notify", "ended"}
    /\ s \in {"idle", "producer", "consumer", "done"}
    /\ accepted \in Seq(Nat)
    /\ delivered \in Seq(Nat \cup {Nothing})

\* The two threads never touch the same slot at once (the slots are not
\* atomic), and the producer never overwrites an item not yet taken.
NoSlotRace ==
    /\ ~(p.pc \in {"write", "store"} /\ c \in {"read", "store"} /\ head = tail)
    /\ p.pc = "write" => slots[head] = Nothing

\* Items come out once each, in the order they went in, and only those.
InOrder == IsPrefix(delivered, accepted)

\* When pop has returned false every item accepted by push was delivered
\* (try_push takes items even from a stopped queue).
Drained == use = "controller" /\ c = "ended" => delivered = accepted

\* What is in the ring, oldest first; a slot being moved out has left it.
Contents ==
    LET first == IF c = "store" THEN next(tail) ELSE tail
        n     == (head - first) % Cap
    IN  [i \in 1..n |-> slots[(first + i - 1) % Cap]]

\* SpscQueue implements the bounded FIFO whatever is called, one slot always
\* staying unused.  Only a queue without try_push counts as closed by a stop:
\* try_push does not look at stop_.
Abstract == INSTANCE BoundedFifo WITH Bound <- Cap - 1, q <- Contents,
                                      got <- delivered,
                                      closed <- stop /\ use = "controller"
ImplementsFifo == Abstract!Fifo

\* A push returns, even from a full ring: the notify of pop is not lost.
PushReturns == use # "any" /\ p.pc # "idle" ~> p.pc = "idle"

\* Whatever the ring holds is delivered: the notify of push is not lost.
ItemsDelivered ==
    \A n \in 1..MaxItems :
        use = "controller" /\ Len(accepted) >= n ~> Len(delivered) >= n

\* After request_stop a consumer that calls pop drains the ring and leaves, be
\* it the controller's, or a stream's writer whose last wakeup was lost.
StopEnds == use # "any" /\ stop ~> c = "ended"

\* "Blocks while the ring is empty" (include/fileguard/event_queue.hpp:60): a
\* consumer asleep in pop does not stay asleep while the ring holds an item.
PopBlocksOnlyWhenEmpty == (c = "waiting" /\ ~empty) ~> c # "waiting"
=============================================================================
