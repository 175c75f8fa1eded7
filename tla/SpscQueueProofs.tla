--------------------------- MODULE SpscQueueProofs ---------------------------
(***************************************************************************)
(* Proofs about SpscQueue, for any capacity of at least two, any number of *)
(* items and each way of using the queue.                                  *)
(***************************************************************************)
EXTENDS SpscQueue, SeqLemmas

\* The oldest slot that still holds its item: the consumer has moved the item
\* out of tail before it advances tail_.
First == IF c = "store" THEN next(tail) ELSE tail

\* The items between First and head, and where slot k stands among them.
Count == IF First <= head THEN head - First ELSE head - First + Cap
Pos(k) == IF First <= k THEN k - First + 1 ELSE k - First + Cap + 1

\* A call has an item to store.
ItemInv == p.item <= MaxItems /\ (p.pc # "idle" => p.item >= 1)

\* mtx_ is held from the test of push to the store of head_ and from the test of
\* pop to its return; only try_push and try_pop touch a slot without it.
LockInv ==
    /\ p.pc \in {"test", "sleep"} => mtx = "P"
    /\ c \in {"test", "sleep", "check"} => mtx = "C"
    /\ mtx = "P" => p.pc \in {"test", "sleep", "write", "store"}
    /\ mtx = "C" => c \in {"test", "sleep", "check", "read", "store"}
    /\ use = "controller" =>
          /\ p.pc # "load" /\ c # "load"
          /\ p.pc \in {"write", "store"} => mtx = "P"

\* A test stays true until the thread that made it acts on it: room for the
\* producer, an item for the consumer.
RoomInv ==
    /\ p.pc \in {"write", "store"} => ~full
    /\ c \in {"read", "store"} => ~empty

\* The slots from First to head hold what was accepted and not delivered, in
\* order; the others are empty, save the one the producer has just written.
RingInv ==
    /\ Len(accepted) = Len(delivered) + Count
    /\ \A i \in 1..Len(delivered) : delivered[i] = accepted[i]
    /\ \A k \in Slot : Pos(k) <= Count => slots[k] = accepted[Len(delivered) + Pos(k)]
    /\ \A k \in Slot : Pos(k) > Count /\ ~(k = head /\ p.pc = "store") =>
          slots[k] = Nothing
    /\ p.pc = "store" => slots[head] = p.item

\* stop_ is set under mtx_, so a push that works under it is over; a pop that
\* found nothing to wait for finds an item or the stop.
StopInv ==
    /\ stop <=> s # "idle"
    /\ c = "check" => stop \/ ~empty
    /\ use = "controller" /\ stop => p.pc \notin {"write", "store"}
    /\ use = "controller" /\ c = "ended" => stop /\ empty

IInv == TypeOK /\ ItemInv /\ LockInv /\ RoomInv /\ RingInv /\ StopInv
-----------------------------------------------------------------------------
\* An index below twice the capacity wraps at most once.
LEMMA ModCap ==
    ASSUME NEW a \in Int, -Cap <= a, a < 2 * Cap
    PROVE  a % Cap = IF a < 0 THEN a + Cap ELSE IF a < Cap THEN a ELSE a - Cap
BY QueueAssumption

\* next() wraps from the last slot to the first.
LEMMA NextWraps ==
    ASSUME NEW k \in Slot
    PROVE  next(k) \in Slot /\ next(k) = IF k = Cap - 1 THEN 0 ELSE k + 1
BY QueueAssumption, ModCap DEF next, Slot

\* The start satisfies the invariant.
LEMMA InitInv == Init => IInv
<1> SUFFICES ASSUME Init PROVE IInv
  OBVIOUS
<1>1. TypeOK
  <2>1. slots \in [Slot -> Nat \cup {Nothing}]
    BY DEF Init
  <2>2. head \in Slot /\ tail \in Slot
    BY QueueAssumption DEF Init, Slot
  <2>3. p \in [pc : {"idle", "lock", "test", "sleep", "waiting", "load", "write",
                     "store", "notify"}, item : Nat]
    BY DEF Init
  <2>4. QED
    BY <2>1, <2>2, <2>3 DEF Init, TypeOK
<1>2. ItemInv /\ LockInv /\ RoomInv
  BY QueueAssumption DEF Init, ItemInv, LockInv, RoomInv
<1>3. StopInv
  BY DEF Init, StopInv
<1>4. RingInv
  BY QueueAssumption DEF Init, RingInv, Count, Pos, First, Slot
<1>5. QED
  BY <1>1, <1>2, <1>3, <1>4 DEF IInv

\* The variables keep their types.
LEMMA TypeStep ==
    ASSUME TypeOK, [Next]_vars
    PROVE  TypeOK'
<1> USE DEF TypeOK
<1>1. CASE UNCHANGED vars
  BY <1>1 DEF vars
<1>2. CASE PushBegin
  <2>1. PICK op \in PushOps : p' = [p EXCEPT !.pc = IF op = "push" THEN "lock" ELSE "load",
                                         !.item = p.item + 1]
    BY <1>2 DEF PushBegin
  <2>2. p' = [pc |-> IF op = "push" THEN "lock" ELSE "load", item |-> p.item + 1]
    BY <2>1
  <2>3. QED
    BY <1>2, <2>2 DEF PushBegin
<1>3. CASE PushLock
  BY <1>3, NextWraps DEF PushLock
<1>4. CASE PushTest
  BY <1>4, NextWraps DEF PushTest
<1>5. CASE PushSleep
  BY <1>5, NextWraps DEF PushSleep
<1>6. CASE TryPushLoad
  BY <1>6, NextWraps DEF TryPushLoad
<1>7. CASE PushWrite
  BY <1>7, NextWraps DEF PushWrite
<1>8. CASE PushStore
  <2>1. head' \in Slot
    BY <1>8, NextWraps DEF PushStore
  <2>2. accepted' \in Seq(Nat)
    BY <1>8, AppendProperties DEF PushStore
  <2>3. QED
    BY <1>8, <2>1, <2>2 DEF PushStore
<1>9. CASE PushNotify
  BY <1>9, NextWraps DEF PushNotify
<1>10. CASE PopBegin
  BY <1>10, NextWraps DEF PopBegin, PopOps
<1>11. CASE PopLock
  BY <1>11, NextWraps DEF PopLock
<1>12. CASE PopTest
  BY <1>12, NextWraps DEF PopTest
<1>13. CASE PopSleep
  BY <1>13, NextWraps DEF PopSleep
<1>14. CASE PopCheck
  BY <1>14, NextWraps DEF PopCheck
<1>15. CASE TryPopLoad
  BY <1>15, NextWraps DEF TryPopLoad
<1>16. CASE PopRead
  <2>1. slots[tail] \in Nat \cup {Nothing}
    OBVIOUS
  <2>2. delivered' \in Seq(Nat \cup {Nothing})
    BY <1>16, <2>1, AppendProperties DEF PopRead
  <2>3. QED
    BY <1>16, <2>2 DEF PopRead
<1>17. CASE PopStore
  BY <1>17, NextWraps DEF PopStore
<1>18. CASE PopNotify
  BY <1>18, NextWraps DEF PopNotify
<1>19. CASE StopSet
  BY <1>19, NextWraps DEF StopSet
<1>20. CASE StopNotifyProducer
  BY <1>20, NextWraps DEF StopNotifyProducer
<1>21. CASE StopNotifyConsumer
  BY <1>21, NextWraps DEF StopNotifyConsumer
<1>22. CASE Spurious
  BY <1>22, NextWraps DEF Spurious
<1>23. QED
  BY <1>1, <1>2, <1>3, <1>4, <1>5, <1>6, <1>7, <1>8, <1>9, <1>10, <1>11, <1>12,
     <1>13, <1>14, <1>15, <1>16, <1>17, <1>18, <1>19, <1>20, <1>21, <1>22
     DEF Next, PushStep, PopStep, StopStep

\* The item of the latest call is within the bound.
LEMMA ItemStep ==
    ASSUME TypeOK, ItemInv, [Next]_vars
    PROVE  ItemInv'
<1> USE DEF TypeOK, ItemInv
<1>1. CASE UNCHANGED vars
  BY <1>1 DEF vars
<1>2. CASE PushBegin
  BY <1>2, QueueAssumption DEF PushBegin, PushOps
<1>3. CASE PushLock
  BY <1>3, QueueAssumption DEF PushLock
<1>4. CASE PushTest
  BY <1>4, QueueAssumption DEF PushTest
<1>5. CASE PushSleep
  BY <1>5, QueueAssumption DEF PushSleep
<1>6. CASE TryPushLoad
  BY <1>6, QueueAssumption DEF TryPushLoad
<1>7. CASE PushWrite
  BY <1>7, QueueAssumption DEF PushWrite
<1>8. CASE PushStore
  BY <1>8, QueueAssumption DEF PushStore
<1>9. CASE PushNotify
  BY <1>9, QueueAssumption DEF PushNotify
<1>10. CASE PopBegin
  BY <1>10, QueueAssumption DEF PopBegin, PopOps
<1>11. CASE PopLock
  BY <1>11, QueueAssumption DEF PopLock
<1>12. CASE PopTest
  BY <1>12, QueueAssumption DEF PopTest
<1>13. CASE PopSleep
  BY <1>13, QueueAssumption DEF PopSleep
<1>14. CASE PopCheck
  BY <1>14, QueueAssumption DEF PopCheck
<1>15. CASE TryPopLoad
  BY <1>15, QueueAssumption DEF TryPopLoad
<1>16. CASE PopRead
  BY <1>16, QueueAssumption DEF PopRead
<1>17. CASE PopStore
  BY <1>17, QueueAssumption DEF PopStore
<1>18. CASE PopNotify
  BY <1>18, QueueAssumption DEF PopNotify
<1>19. CASE StopSet
  BY <1>19, QueueAssumption DEF StopSet
<1>20. CASE StopNotifyProducer
  BY <1>20, QueueAssumption DEF StopNotifyProducer
<1>21. CASE StopNotifyConsumer
  BY <1>21, QueueAssumption DEF StopNotifyConsumer
<1>22. CASE Spurious
  BY <1>22, QueueAssumption DEF Spurious
<1>23. QED
  BY <1>1, <1>2, <1>3, <1>4, <1>5, <1>6, <1>7, <1>8, <1>9, <1>10, <1>11, <1>12,
     <1>13, <1>14, <1>15, <1>16, <1>17, <1>18, <1>19, <1>20, <1>21, <1>22
     DEF Next, PushStep, PopStep, StopStep

\* The mutex keeps the locked parts apart.
LEMMA LockStep ==
    ASSUME TypeOK, LockInv, [Next]_vars
    PROVE  LockInv'
<1> USE DEF TypeOK, LockInv
<1>1. CASE UNCHANGED vars
  BY <1>1 DEF vars
<1>2. CASE PushBegin
  BY <1>2 DEF PushBegin, PushOps
<1>3. CASE PushLock
  BY <1>3 DEF PushLock
<1>4. CASE PushTest
  BY <1>4 DEF PushTest
<1>5. CASE PushSleep
  BY <1>5 DEF PushSleep
<1>6. CASE TryPushLoad
  BY <1>6 DEF TryPushLoad
<1>7. CASE PushWrite
  BY <1>7 DEF PushWrite
<1>8. CASE PushStore
  BY <1>8 DEF PushStore
<1>9. CASE PushNotify
  BY <1>9 DEF PushNotify
<1>10. CASE PopBegin
  BY <1>10 DEF PopBegin, PopOps
<1>11. CASE PopLock
  BY <1>11 DEF PopLock
<1>12. CASE PopTest
  BY <1>12 DEF PopTest
<1>13. CASE PopSleep
  BY <1>13 DEF PopSleep
<1>14. CASE PopCheck
  BY <1>14 DEF PopCheck
<1>15. CASE TryPopLoad
  BY <1>15 DEF TryPopLoad
<1>16. CASE PopRead
  BY <1>16 DEF PopRead
<1>17. CASE PopStore
  BY <1>17 DEF PopStore
<1>18. CASE PopNotify
  BY <1>18 DEF PopNotify
<1>19. CASE StopSet
  BY <1>19 DEF StopSet
<1>20. CASE StopNotifyProducer
  BY <1>20 DEF StopNotifyProducer
<1>21. CASE StopNotifyConsumer
  BY <1>21 DEF StopNotifyConsumer
<1>22. CASE Spurious
  BY <1>22 DEF Spurious
<1>23. QED
  BY <1>1, <1>2, <1>3, <1>4, <1>5, <1>6, <1>7, <1>8, <1>9, <1>10, <1>11, <1>12,
     <1>13, <1>14, <1>15, <1>16, <1>17, <1>18, <1>19, <1>20, <1>21, <1>22
     DEF Next, PushStep, PopStep, StopStep

\* The other thread never takes away the room or the item a thread has seen.
LEMMA RoomStep ==
    ASSUME TypeOK, RoomInv, [Next]_vars
    PROVE  RoomInv'
<1> USE DEF TypeOK, RoomInv, full, empty
<1>1. CASE UNCHANGED vars
  BY <1>1 DEF vars
<1>2. CASE PushBegin
  BY <1>2, NextWraps, QueueAssumption DEF PushBegin, PushOps
<1>3. CASE PushLock
  BY <1>3, NextWraps, QueueAssumption DEF PushLock
<1>4. CASE PushTest
  BY <1>4, NextWraps, QueueAssumption DEF PushTest
<1>5. CASE PushSleep
  BY <1>5, NextWraps, QueueAssumption DEF PushSleep
<1>6. CASE TryPushLoad
  BY <1>6, NextWraps, QueueAssumption DEF TryPushLoad
<1>7. CASE PushWrite
  BY <1>7, NextWraps, QueueAssumption DEF PushWrite
<1>8. CASE PushStore
  BY <1>8, NextWraps, QueueAssumption DEF PushStore, Slot
<1>9. CASE PushNotify
  BY <1>9, NextWraps, QueueAssumption DEF PushNotify
<1>10. CASE PopBegin
  BY <1>10, NextWraps, QueueAssumption DEF PopBegin, PopOps
<1>11. CASE PopLock
  BY <1>11, NextWraps, QueueAssumption DEF PopLock
<1>12. CASE PopTest
  BY <1>12, NextWraps, QueueAssumption DEF PopTest
<1>13. CASE PopSleep
  BY <1>13, NextWraps, QueueAssumption DEF PopSleep
<1>14. CASE PopCheck
  BY <1>14, NextWraps, QueueAssumption DEF PopCheck
<1>15. CASE TryPopLoad
  BY <1>15, NextWraps, QueueAssumption DEF TryPopLoad
<1>16. CASE PopRead
  BY <1>16, NextWraps, QueueAssumption DEF PopRead
<1>17. CASE PopStore
  <2>0. head \in Slot /\ tail \in Slot /\ tail' = next(tail)
    BY <1>17 DEF PopStore
  <2>1. (next(tail) # next(head) /\ tail' = next(tail)) \/ empty
    <3>1. /\ next(head) = IF head = Cap - 1 THEN 0 ELSE head + 1
          /\ next(tail) = IF tail = Cap - 1 THEN 0 ELSE tail + 1
      BY <2>0, NextWraps
    <3>2. head \in 0..(Cap - 1) /\ tail \in 0..(Cap - 1) /\ Cap \in Nat
      BY <2>0, QueueAssumption DEF Slot
    <3>3. head # tail => next(tail) # next(head)
      BY <3>1, <3>2
    <3> QED BY <2>0, <3>3
  <2>2. ~empty
    BY <1>17 DEF PopStore
  <2>3. QED
    BY <1>17, <2>1, <2>2 DEF PopStore, next
<1>18. CASE PopNotify
  BY <1>18, NextWraps, QueueAssumption DEF PopNotify
<1>19. CASE StopSet
  BY <1>19, NextWraps, QueueAssumption DEF StopSet
<1>20. CASE StopNotifyProducer
  BY <1>20, NextWraps, QueueAssumption DEF StopNotifyProducer
<1>21. CASE StopNotifyConsumer
  BY <1>21, NextWraps, QueueAssumption DEF StopNotifyConsumer
<1>22. CASE Spurious
  BY <1>22, NextWraps, QueueAssumption DEF Spurious
<1>23. QED
  BY <1>1, <1>2, <1>3, <1>4, <1>5, <1>6, <1>7, <1>8, <1>9, <1>10, <1>11, <1>12,
     <1>13, <1>14, <1>15, <1>16, <1>17, <1>18, <1>19, <1>20, <1>21, <1>22
     DEF Next, PushStep, PopStep, StopStep

\* A stop is seen by the push after it, and pop returns false on an empty ring.
LEMMA StopStepInv ==
    ASSUME TypeOK, LockInv, RoomInv, StopInv, [Next]_vars
    PROVE  StopInv'
<1> USE DEF TypeOK, LockInv, RoomInv, StopInv, full, empty
<1>1. CASE UNCHANGED vars
  BY <1>1 DEF vars
<1>2. CASE PushBegin
  BY <1>2, NextWraps, QueueAssumption DEF PushBegin, PushOps
<1>3. CASE PushLock
  BY <1>3, NextWraps, QueueAssumption DEF PushLock
<1>4. CASE PushTest
  BY <1>4, NextWraps, QueueAssumption DEF PushTest
<1>5. CASE PushSleep
  BY <1>5, NextWraps, QueueAssumption DEF PushSleep
<1>6. CASE TryPushLoad
  BY <1>6, NextWraps, QueueAssumption DEF TryPushLoad
<1>7. CASE PushWrite
  BY <1>7, NextWraps, QueueAssumption DEF PushWrite
<1>8. CASE PushStore
  BY <1>8, NextWraps, QueueAssumption DEF PushStore, Slot
<1>9. CASE PushNotify
  BY <1>9, NextWraps, QueueAssumption DEF PushNotify
<1>10. CASE PopBegin
  BY <1>10, NextWraps, QueueAssumption DEF PopBegin, PopOps
<1>11. CASE PopLock
  BY <1>11, NextWraps, QueueAssumption DEF PopLock
<1>12. CASE PopTest
  BY <1>12, NextWraps, QueueAssumption DEF PopTest
<1>13. CASE PopSleep
  BY <1>13, NextWraps, QueueAssumption DEF PopSleep
<1>14. CASE PopCheck
  BY <1>14, NextWraps, QueueAssumption DEF PopCheck
<1>15. CASE TryPopLoad
  BY <1>15, NextWraps, QueueAssumption DEF TryPopLoad
<1>16. CASE PopRead
  BY <1>16, NextWraps, QueueAssumption DEF PopRead
<1>17. CASE PopStore
  BY <1>17 DEF PopStore
<1>18. CASE PopNotify
  BY <1>18, NextWraps, QueueAssumption DEF PopNotify
<1>19. CASE StopSet
  BY <1>19, NextWraps, QueueAssumption DEF StopSet
<1>20. CASE StopNotifyProducer
  BY <1>20, NextWraps, QueueAssumption DEF StopNotifyProducer
<1>21. CASE StopNotifyConsumer
  BY <1>21, NextWraps, QueueAssumption DEF StopNotifyConsumer
<1>22. CASE Spurious
  BY <1>22, NextWraps, QueueAssumption DEF Spurious
<1>23. QED
  BY <1>1, <1>2, <1>3, <1>4, <1>5, <1>6, <1>7, <1>8, <1>9, <1>10, <1>11, <1>12,
     <1>13, <1>14, <1>15, <1>16, <1>17, <1>18, <1>19, <1>20, <1>21, <1>22
     DEF Next, PushStep, PopStep, StopStep

\* What the positions are: within the ring, one per slot, and head's the first
\* behind the items.
LEMMA Positions ==
    ASSUME TypeOK
    PROVE  /\ First \in Slot /\ Count \in 0..(Cap - 1)
           /\ \A k \in Slot : Pos(k) \in 1..Cap
           /\ Pos(head) = Count + 1
           /\ \A k \in Slot : Pos(k) = Count + 1 => k = head
<1>1. First \in Slot
  BY NextWraps DEF TypeOK, First
<1> HIDE DEF First
<1>2. QED
  BY <1>1, QueueAssumption DEF TypeOK, Count, Pos, Slot

\* A step that leaves the ring alone.
LEMMA RingFrame ==
    ASSUME RingInv, UNCHANGED <<slots, head, tail, accepted, delivered>>,
           c' = "store" <=> c = "store", p'.pc = "store" <=> p.pc = "store",
           p.pc = "store" => p'.item = p.item
    PROVE  RingInv'
<1>1. First' = First
  BY DEF First
<1>2. Count' = Count /\ \A k : Pos(k)' = Pos(k)
  BY <1>1 DEF Count, Pos
<1>3. QED
  BY <1>2 DEF RingInv

\* What the ring holds is what was accepted and not delivered.
LEMMA RingStep ==
    ASSUME TypeOK, RoomInv, RingInv, [Next]_vars
    PROVE  RingInv'
<1>1. CASE UNCHANGED vars
  BY <1>1, RingFrame DEF vars
<1>2. CASE PushBegin
  BY <1>2, RingFrame DEF PushBegin
<1>3. CASE PushLock
  BY <1>3, RingFrame DEF PushLock
<1>4. CASE PushTest
  <2>1. p.pc = "test" /\ p'.pc # "store"
    BY <1>4 DEF PushTest, TypeOK
  <2>2. UNCHANGED <<slots, head, tail, accepted, delivered, c>>
    BY <1>4 DEF PushTest
  <2>3. QED
    BY <2>1, <2>2, RingFrame
<1>5. CASE PushSleep
  BY <1>5, RingFrame DEF PushSleep
<1>6. CASE TryPushLoad
  BY <1>6, RingFrame DEF TryPushLoad
<1>7. CASE PushWrite
  <2>1. First' = First /\ head' = head /\ Count' = Count /\ \A k : Pos(k)' = Pos(k)
    BY <1>7 DEF PushWrite, First, Count, Pos
  <2>2. slots' = [slots EXCEPT ![head] = p.item] /\ p'.pc = "store" /\ p'.item = p.item
    BY <1>7 DEF PushWrite
  <2>3. UNCHANGED <<accepted, delivered>> /\ p.pc = "write"
    BY <1>7 DEF PushWrite
  <2>4. QED
    BY <2>1, <2>2, <2>3, Positions DEF TypeOK, RingInv
<1>8. CASE PushStore
  <2>1. First' = First /\ \A k : Pos(k)' = Pos(k)
    BY <1>8 DEF PushStore, First, Pos
  <2>2. Count' = Count + 1
    <3>1. head' = IF head = Cap - 1 THEN 0 ELSE head + 1
      BY <1>8, NextWraps DEF PushStore, TypeOK
    <3>2. head' # tail
      BY <1>8 DEF PushStore, RoomInv, full
    <3>3. c = "store" => head # tail
      BY DEF RoomInv, empty
    <3>4. First = IF c = "store" THEN (IF tail = Cap - 1 THEN 0 ELSE tail + 1) ELSE tail
      BY NextWraps DEF First, TypeOK
    <3>5. head' # First
      BY <3>1, <3>2, <3>3, <3>4, QueueAssumption DEF TypeOK, Slot
    <3>6. QED
      <4>1. Count' = IF First <= head' THEN head' - First ELSE head' - First + Cap
        BY <2>1 DEF Count
      <4>2. First \in Slot
        BY Positions
      <4>3. QED
        BY <3>1, <3>5, <4>1, <4>2, QueueAssumption DEF Count, TypeOK, Slot
  <2>3. accepted' = Append(accepted, p.item) /\ UNCHANGED <<slots, delivered>>
    BY <1>8 DEF PushStore
  <2>4. /\ accepted' \in Seq(Nat) /\ Len(accepted') = Len(accepted) + 1
        /\ \A i \in 1..Len(accepted) : accepted'[i] = accepted[i]
        /\ accepted'[Len(accepted) + 1] = p.item
    BY <2>3, AppendProperties DEF TypeOK
  <2>5. p.pc = "store" /\ p'.pc = "notify"
    BY <1>8 DEF PushStore, TypeOK
  <2>6. Len(accepted') = Len(delivered') + Count'
    BY <2>2, <2>3, <2>4, Positions DEF RingInv, TypeOK
  <2>7. \A i \in 1..Len(delivered') : delivered'[i] = accepted'[i]
    BY <2>3, <2>4, Positions DEF RingInv, TypeOK
  <2>8. ASSUME NEW k \in Slot, Pos(k)' <= Count'
        PROVE  slots'[k] = accepted'[Len(delivered') + Pos(k)']
    <3>1. CASE Pos(k) <= Count
      <4>1. Len(delivered) + Pos(k) \in 1..Len(accepted)
        BY <3>1, Positions DEF RingInv, TypeOK
      <4>2. slots[k] = accepted[Len(delivered) + Pos(k)]
        BY <3>1 DEF RingInv
      <4>3. QED
        BY <2>1, <2>3, <2>4, <4>1, <4>2
    <3>2. CASE Pos(k) = Count + 1
      BY <2>1, <2>3, <2>4, <2>5, <3>2, Positions DEF RingInv, TypeOK
    <3>3. QED
      BY <2>1, <2>2, <2>8, <3>1, <3>2, Positions
  <2>9. ASSUME NEW k \in Slot, Pos(k)' > Count' PROVE slots'[k] = Nothing
    BY <2>1, <2>2, <2>3, <2>9, Positions DEF RingInv, TypeOK
  <2>10. QED
    BY <2>5, <2>6, <2>7, <2>8, <2>9 DEF RingInv
<1>9. CASE PushNotify
  BY <1>9, RingFrame DEF PushNotify
<1>10. CASE PopBegin
  BY <1>10, RingFrame DEF PopBegin
<1>11. CASE PopLock
  BY <1>11, RingFrame DEF PopLock
<1>12. CASE PopTest
  BY <1>12, RingFrame DEF PopTest
<1>13. CASE PopSleep
  BY <1>13, RingFrame DEF PopSleep
<1>14. CASE PopCheck
  BY <1>14, RingFrame DEF PopCheck
<1>15. CASE TryPopLoad
  BY <1>15, RingFrame DEF TryPopLoad
<1>16. CASE PopRead
  <2>1. First = tail /\ First' = next(tail)
    BY <1>16 DEF PopRead, First
  <2>2. head # tail /\ UNCHANGED <<head, tail, accepted, p>>
    BY <1>16 DEF PopRead, RoomInv, empty
  <2>3. next(tail) = IF tail = Cap - 1 THEN 0 ELSE tail + 1
    BY NextWraps DEF TypeOK
  <2>4. Count >= 1 /\ Count' = Count - 1
    BY <2>1, <2>2, <2>3, QueueAssumption DEF Count, TypeOK, Slot
  <2>5. Pos(tail) = 1 /\ Pos(tail)' = Cap
    BY <2>1, <2>2, <2>3, QueueAssumption DEF Pos, TypeOK, Slot
  <2>6. ASSUME NEW k \in Slot, k # tail PROVE Pos(k)' = Pos(k) - 1
    BY <2>1, <2>2, <2>3, <2>6, QueueAssumption DEF Pos, TypeOK, Slot
  <2>7. /\ slots' = [slots EXCEPT ![tail] = Nothing]
        /\ delivered' = Append(delivered, slots[tail])
    BY <1>16 DEF PopRead
  <2>8. slots[tail] = accepted[Len(delivered) + 1]
    BY <2>4, <2>5 DEF RingInv, TypeOK
  <2>9. /\ Len(delivered') = Len(delivered) + 1 /\ Len(delivered) \in Nat
        /\ \A i \in 1..Len(delivered) : delivered'[i] = delivered[i]
        /\ delivered'[Len(delivered) + 1] = slots[tail]
    BY <2>7, AppendProperties DEF TypeOK
  <2>10. Len(accepted') = Len(delivered') + Count'
    BY <2>2, <2>4, <2>9, Positions DEF RingInv
  <2>11. \A i \in 1..Len(delivered') : delivered'[i] = accepted'[i]
    BY <2>2, <2>8, <2>9 DEF RingInv
  <2>12. ASSUME NEW k \in Slot, Pos(k)' <= Count'
         PROVE  slots'[k] = accepted'[Len(delivered') + Pos(k)']
    <3>1. k # tail
      <4>1. First' \in Slot /\ Count \in 0..(Cap - 1)
        BY <2>1, Positions, NextWraps DEF TypeOK
      <4>2. Pos(k)' \in Int
        BY <4>1, QueueAssumption DEF Pos, Slot
      <4>3. Pos(k)' <= Cap - 2
        BY <2>4, <2>12, <4>1, <4>2, QueueAssumption
      <4>4. QED
        BY <2>1, <2>2, <2>3, <4>3, QueueAssumption DEF Pos, TypeOK, Slot
    <3>2. Pos(k) <= Count /\ Pos(k)' = Pos(k) - 1
      BY <2>4, <2>6, <2>12, <3>1, Positions
    <3>3. slots'[k] = accepted[Len(delivered) + Pos(k)]
      BY <2>7, <3>1, <3>2 DEF RingInv, TypeOK
    <3>4. Len(delivered') + Pos(k)' = Len(delivered) + Pos(k)
      BY <2>9, <3>2, Positions
    <3>5. QED
      BY <2>2, <3>3, <3>4
  <2>13. ASSUME NEW k \in Slot, Pos(k)' > Count', ~(k = head' /\ p'.pc = "store")
         PROVE  slots'[k] = Nothing
    <3>1. CASE k = tail
      BY <2>7, <3>1 DEF TypeOK
    <3>2. CASE k # tail
      <4>1. Pos(k) > Count
        BY <2>4, <2>6, <2>13, <3>2, Positions
      <4>2. QED
        BY <2>2, <2>7, <2>13, <3>2, <4>1 DEF RingInv, TypeOK
    <3>3. QED
      BY <3>1, <3>2
  <2>14. p'.pc = "store" => slots'[head'] = p'.item
    BY <2>2, <2>7 DEF RingInv, TypeOK
  <2>15. QED
    BY <2>10, <2>11, <2>12, <2>13, <2>14 DEF RingInv
<1>17. CASE PopStore
  <2>1. First' = First
    BY <1>17 DEF PopStore, First
  <2>2. Count' = Count /\ \A k : Pos(k)' = Pos(k)
    BY <1>17, <2>1 DEF PopStore, Count, Pos
  <2>3. QED
    BY <1>17, <2>2 DEF PopStore, RingInv
<1>18. CASE PopNotify
  BY <1>18, RingFrame DEF PopNotify
<1>19. CASE StopSet
  BY <1>19, RingFrame DEF StopSet
<1>20. CASE StopNotifyProducer
  BY <1>20, RingFrame DEF StopNotifyProducer
<1>21. CASE StopNotifyConsumer
  BY <1>21, RingFrame DEF StopNotifyConsumer
<1>22. CASE Spurious
  <2>1. /\ p'.pc = "store" <=> p.pc = "store"
        /\ p.pc = "store" => p'.item = p.item
        /\ c' = "store" <=> c = "store"
    BY <1>22 DEF Spurious, TypeOK
  <2>2. UNCHANGED <<slots, head, tail, accepted, delivered>>
    BY <1>22 DEF Spurious
  <2>3. QED
    BY <2>1, <2>2, RingFrame
<1>23. QED
  BY <1>1, <1>2, <1>3, <1>4, <1>5, <1>6, <1>7, <1>8, <1>9, <1>10, <1>11, <1>12,
     <1>13, <1>14, <1>15, <1>16, <1>17, <1>18, <1>19, <1>20, <1>21, <1>22
     DEF Next, PushStep, PopStep, StopStep

-----------------------------------------------------------------------------
\* The invariant is inductive.
LEMMA InvStep == IInv /\ [Next]_vars => IInv'
BY TypeStep, ItemStep, LockStep, RoomStep, StopStepInv, RingStep DEF IInv

\* The invariant holds throughout.
LEMMA Invariance == Spec => []IInv
BY InitInv, InvStep, PTL DEF Spec

\* head_ and tail_ stay within the ring, whatever its capacity.
THEOREM TypeCorrect == Spec => []TypeOK
BY Invariance, PTL DEF IInv

\* push, try_push, pop and try_pop never work on one slot at once, and no item is
\* overwritten before it was taken, although the slots are not atomic and
\* try_push and try_pop take no lock.
THEOREM SlotsNotShared == Spec => []NoSlotRace
<1>1. IInv => NoSlotRace
  <2> SUFFICES ASSUME IInv PROVE NoSlotRace
    OBVIOUS
  <2>1. ~(c \in {"read", "store"} /\ head = tail)
    BY DEF IInv, RoomInv, empty
  <2>2. p.pc = "write" => slots[head] = Nothing
    BY Positions DEF IInv, RingInv, TypeOK
  <2>3. QED
    BY <2>1, <2>2 DEF NoSlotRace
<1>2. QED
  BY <1>1, Invariance, PTL

\* Items come out of the ring once each and in the order they went in, for any
\* mixture of the calls.
THEOREM FirstInFirstOut == Spec => []InOrder
<1>1. IInv => InOrder
  <2> SUFFICES ASSUME IInv PROVE InOrder
    OBVIOUS
  <2>1. accepted \in Seq(Nat \cup {Nothing}) /\ delivered \in Seq(Nat \cup {Nothing})
    BY DEF IInv, TypeOK
  <2>2. Len(delivered) <= Len(accepted)
    BY Positions DEF IInv, TypeOK, RingInv
  <2>3. \A i \in 1..Len(delivered) : delivered[i] = accepted[i]
    BY DEF IInv, RingInv
  <2>4. QED
    BY <2>1, <2>2, <2>3, PrefixByElements DEF InOrder
<1>2. QED
  BY <1>1, Invariance, PTL

\* A pop that returns false leaves nothing behind in the controller's queue.
THEOREM PopDrains == Spec => []Drained
<1>1. IInv => Drained
  <2> SUFFICES ASSUME IInv, use = "controller", c = "ended" PROVE delivered = accepted
    BY DEF Drained
  <2>1. head = tail /\ First = tail
    BY DEF IInv, StopInv, First, empty
  <2>2. Count = 0
    BY <2>1 DEF IInv, TypeOK, Count, Slot
  <2>3. Len(accepted) = Len(delivered)
    BY <2>2 DEF IInv, RingInv, TypeOK
  <2>4. accepted \in Seq(Nat \cup {Nothing}) /\ delivered \in Seq(Nat \cup {Nothing})
    BY DEF IInv, TypeOK
  <2>5. \A i \in 1..Len(delivered) : delivered[i] = accepted[i]
    BY DEF IInv, RingInv
  <2>6. QED
    BY <2>3, <2>4, <2>5, SeqEqual
<1>2. QED
  BY <1>1, Invariance, PTL

-----------------------------------------------------------------------------
(* Wakeups.                                                                *)

\* A thread asleep in cv.wait has nothing to do, or its notification is still to
\* come: from the other side, which notifies after it has let go of mtx_, or from
\* request_stop.  The two sides are never both asleep.
NoLostWakeup ==
    /\ p.pc = "waiting" /\ stop => s = "producer"
    /\ c = "waiting" /\ stop => s \in {"producer", "consumer"}
    /\ use = "controller" =>
          /\ p.pc = "waiting" /\ ~full => c = "notify"
          /\ c = "waiting" /\ ~empty => p.pc = "notify"
          /\ ~(p.pc = "waiting" /\ c = "waiting")

\* What is true at the wait was true at the test, for mtx_ is held between them
\* and whoever could change it needs mtx_ too.
WakeInv ==
    /\ use = "controller" /\ c \in {"read", "store"} => mtx = "C"
    /\ p.pc = "sleep" => ~stop /\ (use = "controller" => full)
    /\ c = "sleep" => ~stop /\ (use = "controller" => empty)
    /\ p.pc = "waiting" /\ stop => s = "producer"
    /\ c = "waiting" /\ stop => s \in {"producer", "consumer"}
    /\ use = "controller" =>
          /\ p.pc = "waiting" /\ ~full => c = "notify"
          /\ c = "waiting" /\ ~empty => p.pc = "notify"

\* The invariant is inductive.
LEMMA WakeStep ==
    ASSUME TypeOK, LockInv, RoomInv, StopInv, WakeInv, [Next]_vars
    PROVE  WakeInv'
<1> USE DEF TypeOK, LockInv, RoomInv, StopInv, WakeInv, full, empty
<1>1. CASE UNCHANGED vars
  BY <1>1 DEF vars
<1>2. CASE PushBegin
  BY <1>2 DEF PushBegin, PushOps
<1>3. CASE PushLock
  BY <1>3 DEF PushLock
<1>4. CASE PushTest
  BY <1>4 DEF PushTest
<1>5. CASE PushSleep
  BY <1>5 DEF PushSleep
<1>6. CASE TryPushLoad
  BY <1>6 DEF TryPushLoad
<1>7. CASE PushWrite
  BY <1>7 DEF PushWrite
<1>8. CASE PushStore
  BY <1>8 DEF PushStore
<1>9. CASE PushNotify
  BY <1>9 DEF PushNotify
<1>10. CASE PopBegin
  BY <1>10 DEF PopBegin, PopOps
<1>11. CASE PopLock
  BY <1>11 DEF PopLock
<1>12. CASE PopTest
  BY <1>12 DEF PopTest
<1>13. CASE PopSleep
  BY <1>13 DEF PopSleep
<1>14. CASE PopCheck
  BY <1>14 DEF PopCheck
<1>15. CASE TryPopLoad
  BY <1>15 DEF TryPopLoad
<1>16. CASE PopRead
  BY <1>16 DEF PopRead
<1>17. CASE PopStore
  BY <1>17 DEF PopStore
<1>18. CASE PopNotify
  BY <1>18 DEF PopNotify
<1>19. CASE StopSet
  BY <1>19 DEF StopSet
<1>20. CASE StopNotifyProducer
  BY <1>20 DEF StopNotifyProducer
<1>21. CASE StopNotifyConsumer
  BY <1>21 DEF StopNotifyConsumer
<1>22. CASE Spurious
  BY <1>22 DEF Spurious
<1>23. QED
  BY <1>1, <1>2, <1>3, <1>4, <1>5, <1>6, <1>7, <1>8, <1>9, <1>10, <1>11, <1>12,
     <1>13, <1>14, <1>15, <1>16, <1>17, <1>18, <1>19, <1>20, <1>21, <1>22
     DEF Next, PushStep, PopStep, StopStep

\* push and pop never sleep through what they wait for: with the calls of the
\* controller no notification is lost although it is sent outside mtx_, and a stop
\* reaches every sleeper, for any capacity.
THEOREM WakeupsKept == Spec => []NoLostWakeup
<1>1. Init => WakeInv
  BY DEF Init, WakeInv
<1>2. IInv /\ WakeInv /\ [Next]_vars => WakeInv'
  BY WakeStep DEF IInv
<1>3. IInv /\ WakeInv => NoLostWakeup
  <2> SUFFICES ASSUME IInv, WakeInv PROVE NoLostWakeup
    OBVIOUS
  <2>1. ~(full /\ empty)
    <3>1. head \in Slot
      BY DEF IInv, TypeOK
    <3>2. next(head) = IF head = Cap - 1 THEN 0 ELSE head + 1
      BY <3>1, NextWraps
    <3>3. next(head) # head
      BY <3>1, <3>2, QueueAssumption DEF Slot
    <3> QED BY <3>3 DEF full, empty
  <2> QED BY <2>1 DEF WakeInv, NoLostWakeup
<1> QED BY <1>1, <1>2, <1>3, Invariance, PTL DEF Spec

-----------------------------------------------------------------------------
(* The refinement of BoundedFifo.                                          *)

\* The abstract buffer is what was accepted and not yet delivered.
Buffered ==
    /\ Contents \in Seq(Nat) /\ Len(Contents) = Count
    /\ Len(accepted) = Len(delivered) + Count
    /\ \A i \in 1..Count : Contents[i] = accepted[Len(delivered) + i]

\* The slots of the ring spell the buffer out.
LEMMA ContentsAre == IInv => Buffered
<1> SUFFICES ASSUME IInv PROVE Buffered
  OBVIOUS
<1> DEFINE at(i) == (First + i - 1) % Cap
<1>1. First \in Slot /\ head \in Slot /\ Count \in 0..(Cap - 1)
  BY Positions DEF IInv, TypeOK
<1>2. (head - First) % Cap = Count
  <2>1. head - First \in Int /\ -Cap <= head - First /\ head - First < Cap
    BY <1>1, QueueAssumption DEF Slot
  <2>2. (head - First) % Cap = IF head - First < 0 THEN head - First + Cap ELSE head - First
    BY <2>1, ModCap, QueueAssumption
  <2>3. QED
    BY <1>1, <2>2, QueueAssumption DEF Count, Slot
<1>3. Contents = [i \in 1..Count |-> slots[at(i)]]
  BY <1>2 DEF Contents, First
<1>4. ASSUME NEW i \in 1..Count PROVE at(i) \in Slot /\ Pos(at(i)) = i
  <2>1. at(i) = IF First + i - 1 < Cap THEN First + i - 1 ELSE First + i - 1 - Cap
    BY <1>1, ModCap, QueueAssumption DEF Slot
  <2> HIDE DEF at
  <2>2. QED
    BY <1>1, <2>1, QueueAssumption DEF Pos, Slot
<1> HIDE DEF at
<1>5. ASSUME NEW i \in 1..Count PROVE slots[at(i)] = accepted[Len(delivered) + i]
  <2>1. at(i) \in Slot /\ Pos(at(i)) = i /\ i <= Count
    BY <1>1, <1>4
  <2>2. QED
    BY <2>1 DEF IInv, RingInv
<1>6. Len(accepted) = Len(delivered) + Count
  BY DEF IInv, RingInv
<1>7. ASSUME NEW i \in 1..Count PROVE accepted[Len(delivered) + i] \in Nat
  BY <1>1, <1>6 DEF IInv, TypeOK
<1>8. Contents \in [1..Count -> Nat]
  BY <1>3, <1>5, <1>7
<1>9. QED
  BY <1>1, <1>3, <1>5, <1>6, <1>8, FunctionIsSeq DEF Buffered

\* One slot always stays empty.
LEMMA CountType == TypeOK => Count \in Nat /\ Count <= Cap - 1
BY Positions, QueueAssumption

\* As long as nothing is accepted or delivered the buffer does not change.
LEMMA ContentsFrame ==
    ASSUME TypeOK, Buffered, Buffered', UNCHANGED <<accepted, delivered>>
    PROVE  Contents' = Contents
<1>1. Count' = Count
  BY Positions DEF Buffered, TypeOK
<1>2. QED
  BY <1>1, SeqEqual DEF Buffered

\* Storing head_ puts the producer's item into the buffer.
LEMMA PushStorePuts ==
    ASSUME IInv, TypeOK', Buffered, Buffered', PushStore
    PROVE  /\ Contents' = Append(Contents, p.item)
           /\ Len(Contents) < Cap - 1
<1>1. accepted' = Append(accepted, p.item) /\ delivered' = delivered
  BY DEF PushStore
<1>2. /\ Len(accepted') = Len(accepted) + 1
      /\ \A i \in 1..Len(accepted) : accepted'[i] = accepted[i]
      /\ accepted'[Len(accepted) + 1] = p.item
  BY <1>1, AppendProperties DEF IInv, TypeOK
<1>3. Count \in Nat /\ Count' \in Nat /\ Count' <= Cap - 1
  <2>1. TypeOK' => (Count \in Nat /\ Count <= Cap - 1)'
    BY CountType, PTL
  <2>2. QED
    BY <2>1, CountType DEF IInv
<1>4. Count' = Count + 1
  BY <1>1, <1>2, <1>3 DEF IInv, TypeOK, Buffered
<1>5. Len(Append(Contents, p.item)) = Count + 1 /\ Append(Contents, p.item) \in Seq(Nat)
  BY AppendProperties DEF IInv, TypeOK, Buffered
<1>6. ASSUME NEW i \in 1..Count + 1 PROVE Contents'[i] = Append(Contents, p.item)[i]
  <2>1. Contents'[i] = accepted'[Len(delivered) + i]
    BY <1>1, <1>4 DEF Buffered
  <2>2. CASE i <= Count
    <3>1. Append(Contents, p.item)[i] = Contents[i] /\ i \in 1..Count
      BY <1>3, <2>2, AppendProperties DEF IInv, TypeOK, Buffered
    <3>2. Contents[i] = accepted[Len(delivered) + i]
      BY <3>1 DEF Buffered
    <3>3. Len(delivered) + i \in 1..Len(accepted)
      BY <1>3, <2>2 DEF IInv, TypeOK, Buffered
    <3>4. QED
      BY <1>2, <2>1, <3>1, <3>2, <3>3
  <2>3. CASE i = Count + 1
    <3>1. Append(Contents, p.item)[i] = p.item
      <4>1. Append(Contents, p.item)[Len(Contents) + 1] = p.item
        BY AppendProperties DEF IInv, TypeOK, Buffered
      <4>2. QED
        BY <2>3, <4>1 DEF Buffered
    <3>2. Len(delivered) + i = Len(accepted) + 1
      BY <1>3, <2>3 DEF IInv, TypeOK, Buffered
    <3>3. QED
      BY <1>2, <2>1, <3>1, <3>2
  <2>4. i <= Count \/ i = Count + 1
    BY <1>3
  <2>5. QED
    BY <2>2, <2>3, <2>4
<1>7. Contents' = Append(Contents, p.item)
  BY <1>4, <1>5, <1>6, SeqEqual DEF Buffered
<1>8. QED
  BY <1>3, <1>4, <1>7, QueueAssumption DEF Buffered

\* Moving an item out of its slot takes it from the front of the buffer.
LEMMA PopReadGets ==
    ASSUME IInv, TypeOK', Buffered, Buffered', PopRead
    PROVE  /\ Contents # <<>> /\ Contents' = Tail(Contents)
           /\ delivered' = Append(delivered, Head(Contents))
<1>1. accepted' = accepted /\ delivered' = Append(delivered, slots[tail])
  BY DEF PopRead
<1>2. Len(delivered') = Len(delivered) + 1
  BY <1>1, AppendProperties DEF IInv, TypeOK
<1>3. Count \in Nat /\ Count' \in Nat /\ Count' <= Cap - 1
  <2>1. TypeOK' => (Count \in Nat /\ Count <= Cap - 1)'
    BY CountType, PTL
  <2>2. QED
    BY <2>1, CountType DEF IInv
<1>4. Count' = Count - 1
  BY <1>1, <1>2, <1>3 DEF IInv, TypeOK, Buffered
<1>5. Contents # <<>> /\ Head(Contents) = Contents[1]
  BY <1>3, <1>4 DEF Buffered
<1>6. slots[tail] = accepted[Len(delivered) + 1]
  <2>1. Pos(tail) = 1
    BY DEF PopRead, Pos, First, IInv, TypeOK, Slot
  <2>2. tail \in Slot /\ Pos(tail) <= Count
    BY <1>3, <1>4, <2>1 DEF IInv, TypeOK
  <2>3. QED
    BY <2>1, <2>2 DEF IInv, RingInv
<1>7. Contents[1] = accepted[Len(delivered) + 1]
  <2>1. 1 \in 1..Count
    BY <1>3, <1>4
  <2>2. QED
    BY <2>1 DEF Buffered
<1>8. Tail(Contents) \in Seq(Nat) /\ Len(Tail(Contents)) = Count'
  BY <1>3, <1>4, <1>5, HeadTailProperties DEF Buffered
<1>9. ASSUME NEW i \in 1..Count' PROVE Contents'[i] = Tail(Contents)[i]
  <2>1. Contents'[i] = accepted[Len(delivered') + i]
    BY <1>1 DEF Buffered
  <2>2. Tail(Contents)[i] = Contents[i + 1]
    BY <1>5, <1>8, HeadTailProperties DEF Buffered
  <2>3. i + 1 \in 1..Count
    BY <1>3, <1>4
  <2>4. Contents[i + 1] = accepted[Len(delivered) + (i + 1)]
    BY <2>3 DEF Buffered
  <2>5. Len(delivered) + (i + 1) = Len(delivered') + i
    BY <1>2, <1>3 DEF IInv, TypeOK
  <2>6. QED
    BY <2>1, <2>2, <2>4, <2>5
<1>10. Contents' = Tail(Contents)
  BY <1>8, <1>9, SeqEqual DEF Buffered
<1>11. QED
  BY <1>1, <1>5, <1>6, <1>7, <1>10

\* Every step of the queue is a step of the bounded FIFO, or none.
LEMMA FifoStep ==
    ASSUME IInv, IInv', Buffered, Buffered', [Next]_vars
    PROVE  [Abstract!FifoNext]_Abstract!fifoVars
<1> DEFINE shut == stop /\ use = "controller"
<1>1. CASE PushStore
  <2>1. p.item \in Item /\ ~shut
    BY <1>1 DEF PushStore, IInv, TypeOK, ItemInv, StopInv, Item
  <2>2. Contents' = Append(Contents, p.item) /\ Len(Contents) < Cap - 1
    BY <1>1, PushStorePuts DEF IInv
  <2>3. delivered' = delivered /\ shut' = shut
    BY <1>1 DEF PushStore
  <2>4. Abstract!Put(p.item)
    BY <2>1, <2>2, <2>3 DEF Abstract!Put
  <2>5. QED
    BY <2>1, <2>4 DEF Abstract!FifoNext
<1>2. CASE PopRead
  <2>1. shut' = shut
    BY <1>2 DEF PopRead
  <2>2. Abstract!Get
    BY <1>2, <2>1, PopReadGets DEF IInv, Abstract!Get
  <2>3. QED
    BY <2>2 DEF Abstract!FifoNext
<1>3. ASSUME UNCHANGED <<accepted, delivered>> PROVE Contents' = Contents /\ delivered' = delivered
  BY <1>3, ContentsFrame DEF IInv
<1>4. CASE StopSet
  <2>1. UNCHANGED <<accepted, delivered>> /\ stop' = TRUE /\ use' = use
    BY <1>4 DEF StopSet
  <2>2. CASE use = "controller"
    <3>1. Abstract!Close
      BY <1>3, <2>1, <2>2 DEF Abstract!Close
    <3>2. QED
      BY <3>1 DEF Abstract!FifoNext
  <2>3. CASE use # "controller"
    BY <1>3, <2>1, <2>3 DEF Abstract!fifoVars
  <2>4. QED
    BY <2>2, <2>3
<1>5. CASE UNCHANGED <<accepted, delivered, stop, use>>
  BY <1>3, <1>5 DEF Abstract!fifoVars
<1>6. CASE UNCHANGED vars
  BY <1>5, <1>6 DEF vars
<1>7. CASE \/ PushBegin \/ PushLock \/ PushTest \/ PushSleep \/ TryPushLoad
           \/ PushWrite \/ PushNotify
  BY <1>5, <1>7
     DEF PushBegin, PushLock, PushTest, PushSleep, TryPushLoad, PushWrite,
         PushNotify
<1>8. CASE \/ PopBegin \/ PopLock \/ PopTest \/ PopSleep \/ PopCheck
           \/ TryPopLoad \/ PopStore \/ PopNotify
  BY <1>5, <1>8
     DEF PopBegin, PopLock, PopTest, PopSleep, PopCheck, TryPopLoad, PopStore,
         PopNotify
<1>9. CASE StopNotifyProducer \/ StopNotifyConsumer \/ Spurious
  BY <1>5, <1>9 DEF StopNotifyProducer, StopNotifyConsumer, Spurious
<1>10. QED
  BY <1>1, <1>2, <1>4, <1>6, <1>7, <1>8, <1>9
     DEF Next, PushStep, PopStep, StopStep

\* The ring of slots, its two unlocked and its two locked operations and the stop
\* implement the bounded FIFO, for every capacity and every mixture of calls.
THEOREM QueueRefinesFifo == Spec => ImplementsFifo
<1>1. Init => Abstract!FifoInit
  <2> SUFFICES ASSUME Init PROVE Abstract!FifoInit
    OBVIOUS
  <2>1. IInv /\ Buffered
    BY InitInv, ContentsAre
  <2>2. Count = 0
    BY <2>1 DEF Init, Buffered, IInv, TypeOK, Count, First
  <2>3. Contents = <<>>
    BY <2>1, <2>2 DEF Buffered
  <2>4. QED
    BY <2>3 DEF Init, Abstract!FifoInit
<1>2. IInv /\ IInv' /\ Buffered /\ Buffered' /\ [Next]_vars
         => [Abstract!FifoNext]_Abstract!fifoVars
  BY FifoStep
<1>3. QED
  BY <1>1, <1>2, Invariance, ContentsAre, PTL
     DEF Spec, ImplementsFifo, Abstract!Fifo
==============================================================================
