------------------------ MODULE EventPipelineProofs -------------------------
(***************************************************************************)
(* Proofs about EventPipeline, for any number of opens, any size of the    *)
(* kernel ring and of the core queue, with and without poll errors.        *)
(***************************************************************************)
EXTENDS EventPipeline, SeqLemmas

\* The threads are born together, after the program was attached, and
\* request_stop closes the queue first.
Starting == {"new", "loaded", "failed"}
Stopping == {"stopRing", "joinRing", "joinConsumer", "detach", "done"}

CtlInv ==
    /\ closed <=> ctl \in Stopping
    /\ poller = "none" <=> consumer = "none"
    /\ ctl \in Starting => poller = "none"
    /\ ctl = "running" => poller # "none"
    /\ ctl \in {"loaded", "running"} => attached
    /\ ctl \in {"new", "done"} => ~attached /\ ring = <<>>
    \* the ring thread is joined before the ring is freed
    /\ poller # "none" /\ ctl # "done" => attached
    /\ ctl \in {"joinConsumer", "detach", "done"} => poller \in {"none", "ended"}

\* The consumer works on what it got and leaves an empty, closed queue; without
\* threads the queue stays empty.
ConsumerInv ==
    /\ consumer = "ended" => closed
    /\ consumer \in {"none", "ended"} => q = <<>>
    /\ ctl \in {"detach", "done"} => consumer \in {"none", "ended"}
    /\ written \o InHand = got

\* Every event that got a record is accounted for, in order, until the ring is
\* freed; push gives events up only once the queue is closed.
EventInv ==
    /\ dropped # <<>> => closed
    /\ ctl # "done" => reserved = got \o q \o dropped \o Unread
    /\ ctl = "done" => IsPrefix(got \o q \o dropped, reserved)

IInv == TypeOK /\ CtlInv /\ ConsumerInv /\ EventInv
-----------------------------------------------------------------------------
\* The start satisfies the invariant.
LEMMA InitInv == Init => IInv
<1> SUFFICES ASSUME Init PROVE IInv
  OBVIOUS
<1>1. TypeOK
  <2>1. <<>> \in Seq(Item) /\ <<>> \in Seq(RingRecord)
    OBVIOUS
  <2>2. Len(<<>>) <= Bound /\ Len(<<>>) <= RingCap /\ 0 \in 0..MaxOpens
    BY PipelineAssumption
  <2>3. QED
    BY <2>1, <2>2 DEF Init, FifoInit, TypeOK
<1>2. CtlInv /\ ConsumerInv
  BY DEF Init, FifoInit, CtlInv, ConsumerInv, InHand, Starting, Stopping
<1>3. Unread = <<>>
  BY DEF Init, Unread
<1>4. EventInv
  BY <1>3 DEF Init, FifoInit, EventInv
<1>5. QED
  BY <1>1, <1>2, <1>4 DEF IInv

\* The variables keep their types, the ring and the queue their bounds, and the
\* threads what they hold in hand.
LEMMA TypeStep ==
    ASSUME TypeOK, CtlInv, [Next]_vars
    PROVE  TypeOK'
<1> USE DEF TypeOK
<1>1. CASE UNCHANGED vars
  BY <1>1 DEF vars
<1>2. CASE Reserve
  <2> DEFINE rec == [id |-> opens', busy |-> TRUE]
  <2>1. opens' \in Item /\ opens' \in 0..MaxOpens
    BY <1>2, PipelineAssumption DEF Reserve
  <2>2. ring' = Append(ring, rec) /\ rec \in RingRecord
    BY <1>2, <2>1 DEF Reserve, RingRecord
  <2>3. reserved' \in Seq(Item)
    BY <1>2, <2>1, AppendProperties DEF Reserve
  <2> HIDE DEF rec
  <2>4. ring' \in Seq(RingRecord) /\ Len(ring') <= RingCap
    BY <1>2, <2>2, AppendProperties, PipelineAssumption DEF Reserve
  <2>5. ring # <<>> => ring' # <<>> /\ Head(ring') = Head(ring)
    BY <2>2, AppendProperties, HeadTailAppend
  <2>6. QED
    BY <1>2, <2>1, <2>3, <2>4, <2>5 DEF Reserve
<1>3. CASE RingFull
  BY <1>3, PipelineAssumption DEF RingFull
<1>4. CASE Submit
  <2>1. PICK i \in DOMAIN ring : ring[i].busy /\ ring' = [ring EXCEPT ![i].busy = FALSE]
    BY <1>4 DEF Submit
  <2>2. i \in 1..Len(ring) /\ ring[i] \in RingRecord
    OBVIOUS
  <2>3. [ring[i] EXCEPT !.busy = FALSE] \in RingRecord
    BY <2>2 DEF RingRecord
  <2>4. ring' = [ring EXCEPT ![i] = [ring[i] EXCEPT !.busy = FALSE]]
    BY <2>1
  <2>5. ring' \in Seq(RingRecord) /\ Len(ring') = Len(ring)
    BY <2>2, <2>3, <2>4, ExceptSeq
  <2>6. ring # <<>> => ring' # <<>> /\ (~Head(ring).busy => ~Head(ring').busy)
    BY <2>1, <2>2, <2>4, <2>5
  <2>7. QED
    BY <1>4, <2>5, <2>6 DEF Submit
<1>5. CASE StartLoad
  BY <1>5, PipelineAssumption DEF StartLoad
<1>6. CASE StartThreads
  BY <1>6, PipelineAssumption DEF StartThreads
<1>7. CASE RunCheck
  BY <1>7, PipelineAssumption DEF RunCheck, PollerFrame
<1>8. CASE PollError
  BY <1>8, PipelineAssumption DEF PollError, PollerFrame
<1>9. CASE PollWait
  BY <1>9, PipelineAssumption DEF PollWait, PollerFrame
<1>10. CASE Consume
  BY <1>10, PipelineAssumption DEF Consume, PollerFrame
<1>11. CASE EmitEvent
  <2>1. ring # <<>> /\ Head(ring) \in RingRecord
    BY <1>11, HeadTailProperties DEF EmitEvent
  <2>2. Head(ring).id \in Item
    BY <2>1 DEF RingRecord
  <2>3. CASE Put(Head(ring).id) /\ UNCHANGED dropped
    <3>1. q' \in Seq(Item) /\ Len(q') = Len(q) + 1
      BY <2>2, <2>3, AppendProperties DEF Put
    <3>2. Len(q') <= Bound
      BY <2>3, <3>1, PipelineAssumption, LenProperties DEF Put
    <3>3. QED
      BY <1>11, <2>1, <2>3, <3>1, <3>2 DEF EmitEvent, Put
  <2>4. CASE dropped' = Append(dropped, Head(ring).id) /\ UNCHANGED <<q, got, closed>>
    BY <1>11, <2>1, <2>2, <2>4, AppendProperties DEF EmitEvent
  <2>5. QED
    BY <1>11, <2>3, <2>4 DEF EmitEvent
<1>12. CASE Advance
  BY <1>12, PipelineAssumption DEF Advance, PollerFrame
<1>13. CASE ConsumerPop
  <2>1. CASE Get /\ consumer' = "write"
    <3>1. Head(q) \in Item /\ q' \in Seq(Item) /\ Len(q') = Len(q) - 1
      BY <2>1, HeadTailProperties DEF Get
    <3>2. got' \in Seq(Item) /\ got' # <<>>
      BY <2>1, <3>1, AppendProperties DEF Get
    <3>3. Len(q') <= Bound
      BY <3>1, PipelineAssumption, LenProperties
    <3>4. QED
      BY <1>13, <2>1, <3>1, <3>2, <3>3 DEF ConsumerPop, Get
  <2>2. CASE consumer' = "ended" /\ UNCHANGED <<q, got, closed>>
    BY <1>13, <2>2 DEF ConsumerPop
  <2>3. QED
    BY <1>13, <2>1, <2>2 DEF ConsumerPop
<1>14. CASE ConsumerWrite
  <2>1. Last(got) \in Item
    BY <1>14 DEF ConsumerWrite, Last
  <2>2. written' \in Seq(Item)
    BY <1>14, <2>1 DEF ConsumerWrite
  <2>3. QED
    BY <1>14, <2>2 DEF ConsumerWrite
<1>15. CASE StopQueue
  BY <1>15, PipelineAssumption DEF StopQueue, StopFrame, Close
<1>16. CASE StopRing
  BY <1>16, PipelineAssumption DEF StopRing, StopFrame
<1>17. CASE JoinRing
  BY <1>17, PipelineAssumption DEF JoinRing, StopFrame
<1>18. CASE JoinConsumer
  BY <1>18, PipelineAssumption DEF JoinConsumer, StopFrame
<1>19. CASE DetachAndFlush
  <2>1. ring' \in Seq(RingRecord) /\ Len(ring') <= RingCap
    BY <1>19, PipelineAssumption DEF DetachAndFlush
  <2>2. poller \in {"none", "ended"}
    BY <1>19 DEF DetachAndFlush, CtlInv
  <2>3. QED
    BY <1>19, <2>1, <2>2 DEF DetachAndFlush, StopFrame
<1>20. QED
  BY <1>1, <1>2, <1>3, <1>4, <1>5, <1>6, <1>7, <1>8, <1>9, <1>10, <1>11, <1>12,
     <1>13, <1>14, <1>15, <1>16, <1>17, <1>18, <1>19
     DEF Next, PollerStep, ConsumerStep, StopStep

\* The controller and its two threads stay in step.
LEMMA CtlStep ==
    ASSUME TypeOK, CtlInv, [Next]_vars
    PROVE  CtlInv'
<1> USE DEF TypeOK, CtlInv, Starting, Stopping
<1>1. CASE UNCHANGED vars
  BY <1>1 DEF vars
<1>2. CASE Reserve
  BY <1>2 DEF Reserve
<1>3. CASE RingFull
  BY <1>3 DEF RingFull
<1>4. CASE Submit
  BY <1>4 DEF Submit
<1>5. CASE StartLoad
  BY <1>5 DEF StartLoad
<1>6. CASE StartThreads
  BY <1>6 DEF StartThreads
<1>7. CASE RunCheck
  BY <1>7 DEF RunCheck, PollerFrame
<1>8. CASE PollError
  BY <1>8 DEF PollError, PollerFrame
<1>9. CASE PollWait
  BY <1>9 DEF PollWait, PollerFrame
<1>10. CASE Consume
  BY <1>10 DEF Consume, PollerFrame
<1>11. CASE EmitEvent
  BY <1>11 DEF EmitEvent, Put
<1>12. CASE Advance
  BY <1>12 DEF Advance, PollerFrame
<1>13. CASE ConsumerPop
  BY <1>13 DEF ConsumerPop, Get
<1>14. CASE ConsumerWrite
  BY <1>14 DEF ConsumerWrite
<1>15. CASE StopQueue
  BY <1>15 DEF StopQueue, StopFrame, Close
<1>16. CASE StopRing
  BY <1>16 DEF StopRing, StopFrame
<1>17. CASE JoinRing
  BY <1>17 DEF JoinRing, StopFrame
<1>18. CASE JoinConsumer
  BY <1>18 DEF JoinConsumer, StopFrame
<1>19. CASE DetachAndFlush
  BY <1>19 DEF DetachAndFlush, StopFrame
<1>20. QED
  BY <1>1, <1>2, <1>3, <1>4, <1>5, <1>6, <1>7, <1>8, <1>9, <1>10, <1>11, <1>12,
     <1>13, <1>14, <1>15, <1>16, <1>17, <1>18, <1>19
     DEF Next, PollerStep, ConsumerStep, StopStep

\* The event numbers of a sequence of records.
Ids(rs) == [i \in DOMAIN rs |-> rs[i].id]

\* Numbers are taken record by record: of an appended record, of the head and of
\* the tail; submitting a record does not change them.
LEMMA IdsProperties ==
    ASSUME NEW rs \in Seq(RingRecord)
    PROVE  /\ Ids(rs) \in Seq(Item) /\ Len(Ids(rs)) = Len(rs)
           /\ \A i \in 1..Len(rs) : Ids(rs)[i] = rs[i].id
<1>1. ASSUME NEW i \in 1..Len(rs) PROVE rs[i].id \in Item
  <2>1. rs[i] \in RingRecord
    OBVIOUS
  <2>2. QED
    BY <2>1 DEF RingRecord
<1>2. Ids(rs) \in [1..Len(rs) -> Item]
  BY <1>1 DEF Ids
<1>3. Ids(rs) \in Seq(Item) /\ Len(Ids(rs)) = Len(rs)
  BY <1>2, FunctionIsSeq
<1>4. QED
  BY <1>3 DEF Ids

\* A reserved record adds its event at the end.
LEMMA IdsAppend ==
    ASSUME NEW rs \in Seq(RingRecord), NEW r \in RingRecord
    PROVE  Ids(Append(rs, r)) = Append(Ids(rs), r.id)
<1>1. Append(rs, r) \in Seq(RingRecord) /\ r.id \in Item
  BY DEF RingRecord
<1> DEFINE a == Ids(Append(rs, r))
           b == Append(Ids(rs), r.id)
<1>0. Len(Append(rs, r)) = Len(rs) + 1
  OBVIOUS
<1>2. a \in Seq(Item) /\ Len(a) = Len(rs) + 1
  BY <1>0, <1>1, IdsProperties, Zenon
<1>3. b \in Seq(Item) /\ Len(b) = Len(rs) + 1
  BY <1>1, IdsProperties, AppendProperties
<1>4. ASSUME NEW i \in 1..Len(rs) + 1 PROVE a[i] = b[i]
  <2>1. a[i] = Append(rs, r)[i].id
    BY <1>0, <1>1, IdsProperties, Zenon
  <2>2. QED
    BY <1>1, <2>1, IdsProperties
<1> HIDE DEF a, b
<1>5. a = b
  BY <1>2, <1>3, <1>4, SeqEqual
<1>6. QED
  BY <1>5 DEF a, b

\* The record the reader frees is the oldest event.
LEMMA IdsHeadTail ==
    ASSUME NEW rs \in Seq(RingRecord), rs # <<>>
    PROVE  /\ Ids(rs) # <<>> /\ Head(Ids(rs)) = Head(rs).id
           /\ Tail(Ids(rs)) = Ids(Tail(rs))
<1>1. Ids(rs) # <<>> /\ Head(Ids(rs)) = Head(rs).id
  BY IdsProperties
<1>2. Tail(rs) \in Seq(RingRecord) /\ Tail(Ids(rs)) \in Seq(Item)
  BY <1>1, IdsProperties
<1> DEFINE a == Tail(Ids(rs))
           b == Ids(Tail(rs))
<1>3. a \in Seq(Item) /\ Len(a) = Len(rs) - 1
  BY <1>1, <1>2, IdsProperties
<1>t. Len(Tail(rs)) = Len(rs) - 1
  OBVIOUS
<1>4. b \in Seq(Item) /\ Len(b) = Len(rs) - 1
  BY <1>2, <1>t, IdsProperties, Zenon
<1>5. ASSUME NEW i \in 1..Len(rs) - 1 PROVE a[i] = b[i]
  <2>1. a[i] = rs[i + 1].id
    BY <1>1, IdsProperties
  <2>2. b[i] = Tail(rs)[i].id
    BY <1>2, <1>t, IdsProperties, Zenon
  <2>3. Tail(rs)[i] = rs[i + 1]
    BY HeadTailProperties
  <2>4. QED
    BY <2>1, <2>2, <2>3, Zenon
<1> HIDE DEF a, b
<1>6. a = b
  BY <1>3, <1>4, <1>5, SeqEqual
<1>7. QED
  BY <1>1, <1>6 DEF a, b

\* Submitting a record does not change which events the ring holds.
LEMMA IdsSubmit ==
    ASSUME NEW rs \in Seq(RingRecord), NEW i \in DOMAIN rs
    PROVE  Ids([rs EXCEPT ![i].busy = FALSE]) = Ids(rs)
BY DEF Ids, RingRecord

\* The unread events are the records of the ring but the one being freed.
LEMMA UnreadIsIds == Unread = Ids(IF poller = "advance" THEN Tail(ring) ELSE ring)
BY DEF Unread, Ids

\* The consumer writes what it got and does not leave an item behind.
LEMMA ConsumerInvStep ==
    ASSUME TypeOK, CtlInv, ConsumerInv, [Next]_vars
    PROVE  ConsumerInv'
<1> USE DEF TypeOK, CtlInv, ConsumerInv, Starting, Stopping, InHand
<1>1. CASE UNCHANGED vars
  BY <1>1 DEF vars
<1>2. CASE Reserve
  BY <1>2 DEF Reserve
<1>3. CASE RingFull
  BY <1>3 DEF RingFull
<1>4. CASE Submit
  BY <1>4 DEF Submit
<1>5. CASE StartLoad
  BY <1>5 DEF StartLoad
<1>6. CASE StartThreads
  BY <1>6 DEF StartThreads
<1>7. CASE RunCheck
  BY <1>7 DEF RunCheck, PollerFrame
<1>8. CASE PollError
  BY <1>8 DEF PollError, PollerFrame
<1>9. CASE PollWait
  BY <1>9 DEF PollWait, PollerFrame
<1>10. CASE Consume
  BY <1>10 DEF Consume, PollerFrame
<1>11. CASE EmitEvent
  BY <1>11 DEF EmitEvent, Put
<1>12. CASE Advance
  BY <1>12 DEF Advance, PollerFrame
<1>13. CASE ConsumerPop
  <2>1. CASE Get /\ consumer' = "write"
    <3>1. Head(q) \in Item /\ got' = Append(got, Head(q))
      BY <2>1, HeadTailProperties DEF Get
    <3>2. Last(got') = Head(q)
      BY <3>1, AppendProperties DEF Last
    <3>3. written \o <<>> = got
      BY <1>13 DEF ConsumerPop, InHand
    <3>4. written = got
      BY <3>3, ConcatEmptySeq
    <3>5. InHand' = <<Head(q)>>
      BY <2>1, <3>2 DEF InHand
    <3>6. written' \o InHand' = got'
      BY <1>13, <3>1, <3>4, <3>5, AppendIsConcat DEF ConsumerPop
    <3>7. QED
      BY <1>13, <2>1, <3>6 DEF ConsumerPop
  <2>2. CASE closed /\ q = <<>> /\ consumer' = "ended" /\ UNCHANGED <<q, got, closed>>
    BY <1>13, <2>2 DEF ConsumerPop, InHand
  <2>3. QED
    BY <1>13, <2>1, <2>2 DEF ConsumerPop
<1>14. CASE ConsumerWrite
  <2>1. Last(got) \in Item
    BY <1>14 DEF ConsumerWrite, Last
  <2>2. written' = written \o <<Last(got)>>
    BY <1>14, <2>1, AppendIsConcat DEF ConsumerWrite
  <2>3. written' = got
    BY <1>14, <2>2 DEF ConsumerWrite, InHand
  <2>4. written' \o InHand' = got'
    BY <1>14, <2>3, ConcatEmptySeq DEF ConsumerWrite, InHand
  <2>5. QED
    BY <1>14, <2>4 DEF ConsumerWrite
<1>15. CASE StopQueue
  BY <1>15 DEF StopQueue, StopFrame, Close
<1>16. CASE StopRing
  BY <1>16 DEF StopRing, StopFrame
<1>17. CASE JoinRing
  BY <1>17 DEF JoinRing, StopFrame
<1>18. CASE JoinConsumer
  BY <1>18 DEF JoinConsumer, StopFrame
<1>19. CASE DetachAndFlush
  BY <1>19 DEF DetachAndFlush, StopFrame
<1>20. QED
  BY <1>1, <1>2, <1>3, <1>4, <1>5, <1>6, <1>7, <1>8, <1>9, <1>10, <1>11, <1>12,
     <1>13, <1>14, <1>15, <1>16, <1>17, <1>18, <1>19
     DEF Next, PollerStep, ConsumerStep, StopStep

\* No step loses, doubles or reorders an event before the ring is freed.
LEMMA EventStep ==
    ASSUME TypeOK, TypeOK', CtlInv, ConsumerInv, EventInv, [Next]_vars
    PROVE  EventInv'
<1> DEFINE Passed == got \o q \o dropped
<1>t. got \in Seq(Item) /\ q \in Seq(Item) /\ dropped \in Seq(Item)
  BY DEF TypeOK
<1>g. got \o q \in Seq(Item)
  BY <1>t
<1>a. Passed \in Seq(Item)
  BY <1>g, <1>t
<1>b. Unread \in Seq(Item)
  <2>1. (IF poller = "advance" THEN Tail(ring) ELSE ring) \in Seq(RingRecord)
    BY HeadTailProperties DEF TypeOK
  <2>2. QED
    BY <2>1, IdsProperties, UnreadIsIds
<1>c. ASSUME NEW x \in Item PROVE got \o Append(q, x) = Append(got \o q, x)
  BY <1>t, ConcatAppend
<1>d. ASSUME NEW x \in Item PROVE (got \o q) \o Append(dropped, x) = Append(Passed, x)
  BY <1>t, <1>g, ConcatAppend
<1>e. ASSUME NEW x \in Item PROVE Passed \o Append(Unread, x) = Append(Passed \o Unread, x)
  <2> HIDE DEF Passed
  <2> QED BY <1>a, <1>b, ConcatAppend
<1> USE DEF TypeOK, EventInv
<1>1. CASE UNCHANGED vars
  BY <1>1 DEF vars , Unread
<1>2. CASE Reserve
  <2> DEFINE rec == [id |-> opens', busy |-> TRUE]
             rs == IF poller = "advance" THEN Tail(ring) ELSE ring
  <2>1. opens' \in Item /\ rec \in RingRecord
    BY <1>2, PipelineAssumption DEF Reserve, RingRecord
  <2>2. ctl # "done" /\ ctl' # "done"
    BY <1>2 DEF Reserve, CtlInv
  <2>3. rs \in Seq(RingRecord) /\ Unread' = Ids(Append(rs, rec))
    <3>1. CASE poller = "advance"
      <4>1. Tail(ring) \in Seq(RingRecord) /\ Tail(Append(ring, rec)) = Append(Tail(ring), rec)
        BY <3>1, <2>1, HeadTailAppend, HeadTailProperties
      <4>2. QED
        BY <1>2, <3>1, <4>1, UnreadIsIds DEF Reserve, Unread, Ids
    <3>2. CASE poller # "advance"
      BY <1>2, <3>2 DEF Reserve, Unread, Ids
    <3>3. QED
      BY <3>1, <3>2
  <2>4. Unread' = Append(Unread, opens')
    BY <2>1, <2>3, IdsAppend, UnreadIsIds
  <2>5. reserved' = Append(Passed \o Unread, opens')
    BY <1>2, <2>2 DEF Reserve
  <2>6. reserved' = Passed \o Unread'
    BY <1>e, <2>1, <2>4, <2>5
  <2>7. QED
    BY <1>2, <2>2, <2>6 DEF Reserve
<1>3. CASE RingFull
  <2>1. UNCHANGED <<got, q, dropped, reserved, closed>> /\ (ctl' = "done" <=> ctl = "done")
    BY <1>3 DEF RingFull
  <2>2. Unread' = Unread
    BY <1>3 DEF RingFull, Unread
  <2>3. QED
    BY <2>1, <2>2
<1>4. CASE Submit
  <2>1. Unread' = Unread
    <3>1. PICK i \in DOMAIN ring : ring[i].busy /\ ring' = [ring EXCEPT ![i].busy = FALSE]
      BY <1>4 DEF Submit
    <3>2. Ids(ring') = Ids(ring) /\ ring # <<>> /\ ring' \in Seq(RingRecord) /\ ring' # <<>>
      <4>1. Ids(ring') = Ids(ring)
        BY <3>1, IdsSubmit, Zenon
      <4>2. i \in 1..Len(ring) /\ DOMAIN ring' = DOMAIN ring
        BY <3>1
      <4>3. ring # <<>> /\ ring' # <<>>
        BY <4>2
      <4>4. QED
        BY <4>1, <4>3
    <3>3. Ids(Tail(ring')) = Ids(Tail(ring))
      BY <3>2, IdsHeadTail
    <3>4. QED
      BY <1>4, <3>2, <3>3 DEF Submit, Unread, Ids
  <2>2. QED
    BY <1>4, <2>1 DEF Submit
<1>5. CASE StartLoad
  <2>1. UNCHANGED <<got, q, dropped, reserved, closed>> /\ (ctl' = "done" <=> ctl = "done")
    BY <1>5 DEF StartLoad
  <2>2. Unread' = Unread
    BY <1>5 DEF StartLoad, Unread
  <2>3. QED
    BY <2>1, <2>2
<1>6. CASE StartThreads
  <2>1. UNCHANGED <<got, q, dropped, reserved, closed>> /\ ctl # "done" /\ ctl' # "done"
    BY <1>6 DEF StartThreads
  <2>2. poller = "none" /\ poller' # "advance" /\ ring' = ring
    BY <1>6 DEF StartThreads, CtlInv, Starting
  <2>3. Unread' = Unread
    BY <2>2 DEF Unread
  <2>4. QED
    BY <2>1, <2>3
<1>7. CASE RunCheck
  <2>1. UNCHANGED <<got, q, dropped, reserved, closed>> /\ (ctl' = "done" <=> ctl = "done")
    BY <1>7 DEF RunCheck, PollerFrame
  <2>2. Unread' = Unread
    BY <1>7 DEF RunCheck, PollerFrame, Unread
  <2>3. QED
    BY <2>1, <2>2
<1>8. CASE PollError
  <2>1. UNCHANGED <<got, q, dropped, reserved, closed>> /\ (ctl' = "done" <=> ctl = "done")
    BY <1>8 DEF PollError, PollerFrame
  <2>2. Unread' = Unread
    BY <1>8 DEF PollError, PollerFrame, Unread
  <2>3. QED
    BY <2>1, <2>2
<1>9. CASE PollWait
  <2>1. UNCHANGED <<got, q, dropped, reserved, closed>> /\ (ctl' = "done" <=> ctl = "done")
    BY <1>9 DEF PollWait, PollerFrame
  <2>2. Unread' = Unread
    BY <1>9 DEF PollWait, PollerFrame, Unread
  <2>3. QED
    BY <2>1, <2>2
<1>10. CASE Consume
  <2>1. UNCHANGED <<got, q, dropped, reserved, closed>> /\ (ctl' = "done" <=> ctl = "done")
    BY <1>10 DEF Consume, PollerFrame
  <2>2. Unread' = Unread
    BY <1>10 DEF Consume, PollerFrame, Unread
  <2>3. QED
    BY <2>1, <2>2
<1>11. CASE EmitEvent
  <2> DEFINE u == Ids(ring)
  <2>1. ring # <<>> /\ ctl # "done"
    BY <1>11 DEF EmitEvent, CtlInv
  <2>2. u \in Seq(Item) /\ u # <<>> /\ Head(u) = Head(ring).id /\ Tail(u) = Ids(Tail(ring))
    BY <2>1, IdsProperties, IdsHeadTail
  <2>3. Unread = u /\ Unread' = Tail(u)
    BY <1>11, <2>2 DEF EmitEvent, Unread, Ids
  <2>4. Head(u) \in Item
    BY <2>2, HeadTailProperties
  <2> HIDE DEF u
  <2>5. CASE Put(Head(ring).id) /\ UNCHANGED dropped
    <3>1. dropped = <<>> /\ Passed = got \o q
      <4>1. dropped = <<>> /\ got \o q \in Seq(Item)
        BY <2>5 DEF Put
      <4>2. QED
        BY <4>1, ConcatEmptySeq
    <3>2. Passed' = Append(Passed, Head(u))
      <4>1. got' \o q' = Append(got \o q, Head(u))
        <5>1. got' = got /\ q' = Append(q, Head(u))
          BY <2>2, <2>5 DEF Put
        <5>2. got \o Append(q, Head(u)) = Append(got \o q, Head(u))
          BY <1>c, <2>4
        <5>3. QED
          BY <5>1, <5>2
      <4>2. Append(got \o q, Head(u)) \in Seq(Item)
        BY <2>4
      <4>3. dropped' = <<>>
        BY <2>5, <3>1
      <4>4. Passed' = (got' \o q') \o dropped'
        OBVIOUS
      <4>5. QED
        BY <3>1, <4>1, <4>2, <4>3, <4>4, ConcatEmptySeq
    <3>3. Passed' \o Unread' = Passed \o Unread
      BY <1>a, <2>2, <2>3, <3>2, ShiftHead
    <3>4. QED
      BY <1>11, <2>1, <2>5, <3>1, <3>3 DEF EmitEvent, Put
  <2>6. CASE /\ closed /\ dropped' = Append(dropped, Head(ring).id)
             /\ UNCHANGED <<q, got, closed>>
    <3>1. Passed' = Append(Passed, Head(u))
      <4>2. (got \o q) \o Append(dropped, Head(u)) = Append((got \o q) \o dropped, Head(u))
        BY <1>d, <2>4
      <4>3. QED
        BY <2>2, <2>6, <4>2
    <3>2. Passed' \o Unread' = Passed \o Unread
      BY <1>a, <2>2, <2>3, <3>1, ShiftHead
    <3>3. QED
      BY <1>11, <2>1, <2>6, <3>2 DEF EmitEvent
  <2>7. QED
    BY <1>11, <2>5, <2>6 DEF EmitEvent
<1>12. CASE Advance
  <2>1. UNCHANGED <<got, q, dropped, reserved, closed>> /\ (ctl' = "done" <=> ctl = "done")
    BY <1>12 DEF Advance, PollerFrame
  <2>2. Unread' = Unread
    BY <1>12 DEF Advance, PollerFrame, Unread
  <2>3. QED
    BY <2>1, <2>2
<1>13. CASE ConsumerPop
  <2>1. Unread' = Unread
    BY <1>13 DEF ConsumerPop, Unread
  <2>2. CASE Get /\ consumer' = "write"
    <3>1. got' \o q' = got \o q
      BY <2>2, ShiftHead DEF Get
    <3>2. ctl # "done"
      BY <1>13, <2>2 DEF ConsumerPop, CtlInv, ConsumerInv
    <3>3. QED
      BY <1>13, <2>1, <2>2, <3>1, <3>2 DEF ConsumerPop, Get
  <2>3. CASE UNCHANGED <<q, got, closed>>
    BY <1>13, <2>1, <2>3 DEF ConsumerPop
  <2>4. QED
    BY <1>13, <2>2, <2>3 DEF ConsumerPop
<1>14. CASE ConsumerWrite
  <2>1. UNCHANGED <<got, q, dropped, reserved, closed>> /\ (ctl' = "done" <=> ctl = "done")
    BY <1>14 DEF ConsumerWrite
  <2>2. Unread' = Unread
    BY <1>14 DEF ConsumerWrite, Unread
  <2>3. QED
    BY <2>1, <2>2
<1>15. CASE StopQueue
  <2>1. Unread' = Unread
    BY <1>15 DEF StopQueue, StopFrame, Close, Unread
  <2>2. QED
    BY <1>15, <2>1 DEF StopQueue, StopFrame, Close
<1>16. CASE StopRing
  <2>1. UNCHANGED <<got, q, dropped, reserved, closed>> /\ (ctl' = "done" <=> ctl = "done")
    BY <1>16 DEF StopRing, StopFrame
  <2>2. Unread' = Unread
    BY <1>16 DEF StopRing, StopFrame, Unread
  <2>3. QED
    BY <2>1, <2>2
<1>17. CASE JoinRing
  <2>1. UNCHANGED <<got, q, dropped, reserved, closed>> /\ (ctl' = "done" <=> ctl = "done")
    BY <1>17 DEF JoinRing, StopFrame
  <2>2. Unread' = Unread
    BY <1>17 DEF JoinRing, StopFrame, Unread
  <2>3. QED
    BY <2>1, <2>2
<1>18. CASE JoinConsumer
  <2>1. UNCHANGED <<got, q, dropped, reserved, closed>> /\ (ctl' = "done" <=> ctl = "done")
    BY <1>18 DEF JoinConsumer, StopFrame
  <2>2. Unread' = Unread
    BY <1>18 DEF JoinConsumer, StopFrame, Unread
  <2>3. QED
    BY <2>1, <2>2
<1>19. CASE DetachAndFlush
  <2>1. reserved = Passed \o Unread
    BY <1>19 DEF DetachAndFlush
  <2>2. Unread \in Seq(Item)
    BY <1>b
  <2>3. IsPrefix(Passed, reserved)
    BY <1>a, <2>1, <2>2, PrefixOfConcat
  <2>4. QED
    BY <1>19, <2>3 DEF DetachAndFlush, StopFrame
<1>20. QED
  BY <1>1, <1>2, <1>3, <1>4, <1>5, <1>6, <1>7, <1>8, <1>9, <1>10, <1>11, <1>12,
     <1>13, <1>14, <1>15, <1>16, <1>17, <1>18, <1>19
     DEF Next, PollerStep, ConsumerStep, StopStep

-----------------------------------------------------------------------------
\* The invariant holds throughout.
LEMMA Invariance == Spec => []IInv
<1>1. IInv /\ [Next]_vars => IInv'
  BY TypeStep, CtlStep, ConsumerInvStep, EventStep DEF IInv
<1>2. QED
  BY <1>1, InitInv, PTL DEF Spec

\* The ring and the queue keep their bounds, and each thread's program point
\* agrees with what it holds, for every size of ring and queue.
THEOREM TypeCorrect == Spec => []TypeOK
BY Invariance, PTL DEF IInv

\* detach frees ring_ only after the ring thread is gone, on every path through
\* start, a failed start, poll errors and request_stop.
THEOREM RingOutlivesPoller == Spec => []NoUseAfterFree
<1>1. IInv => NoUseAfterFree
  BY DEF IInv, CtlInv, NoUseAfterFree
<1>2. QED
  BY <1>1, Invariance, PTL

\* When request_stop has returned, what the queue accepted is in the sinks.
THEOREM StopDrains == Spec => []Drained
<1>1. IInv => Drained
  <2> SUFFICES ASSUME IInv, ctl = "done" PROVE q = <<>> /\ written = got
    BY DEF Drained
  <2>1. consumer \in {"none", "ended"} /\ q = <<>>
    BY DEF IInv, ConsumerInv
  <2>2. written \in Seq(Item) /\ written \o <<>> = got
    BY <2>1 DEF IInv, TypeOK, ConsumerInv, InHand
  <2>3. QED
    BY <2>1, <2>2, ConcatEmptySeq
<1>2. QED
  BY <1>1, Invariance, PTL

\* Until a stop begins no event that got a ring record is lost, doubled or
\* overtaken, from ring_buffer__poll to consumer_loop.
THEOREM EventsAccounted == Spec => []NothingLost
<1>1. IInv => NothingLost
  <2> SUFFICES ASSUME IInv, ~closed
               PROVE  reserved = written \o InHand \o q \o Unread
    BY DEF NothingLost
  <2>1. ctl # "done" /\ dropped = <<>> /\ written \o InHand = got
    BY DEF IInv, CtlInv, EventInv, ConsumerInv, Stopping
  <2>2. reserved = got \o q \o <<>> \o Unread
    BY <2>1 DEF IInv, EventInv
  <2>3. got \o q \in Seq(Item)
    BY DEF IInv, TypeOK
  <2>4. QED
    BY <2>1, <2>2, <2>3, ConcatEmptySeq
<1>2. QED
  BY <1>1, Invariance, PTL

\* What the consumer got, the queue holds and push gave up are, in this order,
\* the first events that were raised.
LEMMA AcceptedFirst == IInv => IsPrefix(got \o q \o dropped, reserved)
<1> SUFFICES ASSUME IInv PROVE IsPrefix(got \o q \o dropped, reserved)
  OBVIOUS
<1>1. CASE ctl = "done"
  BY <1>1 DEF IInv, EventInv
<1>2. CASE ctl # "done"
  <2>1. got \o q \o dropped \in Seq(Item)
    BY DEF IInv, TypeOK
  <2>2. Unread \in Seq(Item)
    <3>1. (IF poller = "advance" THEN Tail(ring) ELSE ring) \in Seq(RingRecord)
      BY HeadTailProperties DEF IInv, TypeOK
    <3>2. QED
      BY <3>1, IdsProperties, UnreadIsIds
  <2>3. QED
    BY <1>2, <2>1, <2>2, PrefixOfConcat DEF IInv, EventInv
<1>3. QED
  BY <1>1, <1>2

\* Also through a stop, the log has no gap before its last event: events are
\* given up only after everything that was raised before them is on its way.
THEOREM LogHasNoGap == Spec => []LogIsPrefix
<1>1. IInv => LogIsPrefix
  BY AcceptedFirst DEF LogIsPrefix, IInv, ConsumerInv
<1>2. QED
  BY <1>1, Invariance, PTL

\* The log only grows, and by the next event: each line that consumer_loop
\* writes is the event raised right after those already written.
LogStep ==
    \/ UNCHANGED written
    \/ /\ Len(written) < Len(reserved)
       /\ written' = Append(written, reserved[Len(written) + 1])
       /\ UNCHANGED reserved

LogGrows == [][LogStep]_vars

\* What is in the consumer's hand is the event after the last one written.
LEMMA InHandIsNext ==
    ASSUME IInv, consumer = "write"
    PROVE  /\ Len(written) < Len(reserved)
           /\ Last(got) = reserved[Len(written) + 1]
<1>1. /\ got \in Seq(Item) /\ q \in Seq(Item) /\ dropped \in Seq(Item)
      /\ written \in Seq(Item) /\ reserved \in Seq(Item)
      /\ got # <<>>
  BY DEF IInv, TypeOK
<1>2. written \o <<Last(got)>> = got
  BY DEF IInv, ConsumerInv, InHand
<1>3. Len(got) = Len(written) + 1 /\ got[Len(got)] = Last(got)
  BY <1>1, <1>2 DEF Last
<1> DEFINE acc == got \o q \o dropped
<1>4. /\ acc \in Seq(Item)
      /\ Len(got) <= Len(acc)
      /\ acc[Len(got)] = got[Len(got)]
  BY <1>1, <1>3
<1>5. IsPrefix(acc, reserved)
  BY AcceptedFirst
<1> HIDE DEF acc
<1>6. Len(acc) <= Len(reserved) /\ \A i \in 1..Len(acc) : acc[i] = reserved[i]
  BY <1>1, <1>4, <1>5, PrefixByElements
<1>7. QED
  BY <1>1, <1>3, <1>4, <1>6

\* The consumer is the only writer of the log, and writes what it holds.
LEMMA LogStepHolds ==
    ASSUME IInv, [Next]_vars
    PROVE  LogStep
<1>1. CASE ConsumerWrite
  BY <1>1, InHandIsNext DEF ConsumerWrite, LogStep
<1>2. CASE ConsumerPop
  BY <1>2 DEF ConsumerPop, LogStep
<1>3. CASE Reserve \/ RingFull \/ Submit \/ StartLoad \/ StartThreads
  BY <1>3 DEF Reserve, RingFull, Submit, StartLoad, StartThreads, LogStep
<1>4. CASE PollerStep
  BY <1>4 DEF PollerStep, RunCheck, PollError, PollWait, Consume, EmitEvent,
              Advance, PollerFrame, LogStep
<1>5. CASE StopQueue \/ StopStep
  BY <1>5 DEF StopQueue, StopStep, StopRing, JoinRing, JoinConsumer,
              DetachAndFlush, StopFrame, LogStep
<1>6. CASE UNCHANGED vars
  BY <1>6 DEF vars, LogStep
<1>7. QED
  BY <1>1, <1>2, <1>3, <1>4, <1>5, <1>6 DEF Next, ConsumerStep

\* No step of any thread, of a stop or of a failed start rewrites the log,
\* skips an event in it or writes one twice.
THEOREM LogInOrder == Spec => LogGrows
<1>1. IInv /\ [Next]_vars => [LogStep]_vars
  BY LogStepHolds
<1>2. QED
  BY <1>1, Invariance, PTL DEF Spec, LogGrows
=============================================================================
