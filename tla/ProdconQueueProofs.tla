------------------------- MODULE ProdconQueueProofs -------------------------
(***************************************************************************)
(* Proofs about prodcon's queue for every number of consumers and every    *)
(* input: its bound, its order, no task lost or taken twice, no consumer   *)
(* hanging after the last broadcast, that prodcon implements the abstract  *)
(* work queue, what the unlocked counters and tallies still keep to, and   *)
(* that some thread can always run until all have ended.                   *)
(***************************************************************************)
EXTENDS ProdconProofs, DataFacts

USE DEF mainVars, flags, input, queue, stats, tasks, locals, consVars

-----------------------------------------------------------------------------
(* The bound of the queue and the broadcast.                                *)

\* The producer has seen room, and only the producer fills it.
RoomShape == prod = "push" => Len(buffer) < maxbuffer

\* done is set at one place and never cleared.
DoneShape == done <=> prod \in {"lock_done", "broadcast", "clear", "end"}

BoundInv == BufferBound /\ RoomShape

\* What can happen to the queue and to the tasks in a step.
LEMMA StepKinds ==
  ASSUME Inv, [Next]_vars
  PROVE  \/ ProducerPush
         \/ \E c \in Consumers : Pop(c)
         \/ \E c \in Consumers : Trans(c)
         \/ UNCHANGED <<Pushed, buffer, hand, finished>>
<1> SUFFICES ASSUME ~ProducerPush, \A c \in Consumers : ~Pop(c) /\ ~Trans(c)
             PROVE  UNCHANGED <<Pushed, buffer, hand, finished>>
  OBVIOUS
<1>0. TypeOK /\ SpawnShape
  BY DEF Inv
<1>1. ASSUME MainStep PROVE UNCHANGED <<Pushed, buffer, hand, finished>>
  BY <1>0, <1>1, MainFrame DEF Pushed
<1>2. ASSUME ProducerStep PROVE UNCHANGED <<Pushed, buffer, hand, finished>>
  <2>1. UNCHANGED <<hand, finished>>
    BY <1>0, <1>2, ProducerFrame
  <2>2. UNCHANGED <<Pushed, buffer>>
    <3>1. CASE ReadWork
      BY <1>0, <3>1 DEF ReadWork, Produce, Pushed, TypeOK
    <3>2. CASE ProducerStart \/ ReadSleep \/ ReadEof \/ ProducerSetDone \/ ProducerLockDone
                 \/ ProducerBroadcast \/ ProducerClear
      BY <3>2 DEF ProducerStart, ReadSleep, ReadEof, ProducerSetDone, ProducerLockDone,
         ProducerBroadcast, ProducerClear, Produce, Pushed
    <3>3. CASE ProducerLock \/ ProducerCheckFull \/ ProducerCheckRoom \/ ProducerRelock
      BY <3>3 DEF ProducerLock, ProducerCheckFull, ProducerCheckRoom, ProducerRelock, Produce, Pushed
    <3>4. QED BY <1>2, <3>1, <3>2, <3>3 DEF ProducerStep
  <2>3. QED BY <2>1, <2>2
<1>3. ASSUME NEW c \in Consumers, ConsumerStep(c) PROVE UNCHANGED <<Pushed, buffer, hand, finished>>
  <2>1. UNCHANGED Pushed
    BY <1>0, <1>3, ConsumerFrame DEF Pushed
  <2>2. CASE ReadId(c) \/ LoadThreads(c) \/ StoreThreads(c) \/ LoopTest(c) \/ LoadAsk(c) \/ StoreAsk(c)
    BY <2>1, <2>2 DEF Load, Store, ReadId, LoadThreads, StoreThreads, LoopTest, LoadAsk, StoreAsk
  <2>3. CASE ConsumerLock(c) \/ TestWork(c) \/ TestDone(c) \/ TestEmpty(c) \/ ConsumerWait(c)
               \/ ConsumerRelock(c)
    BY <2>1, <2>3 DEF ConsumerLock, TestWork, TestDone, TestEmpty, ConsumerWait, ConsumerRelock
  <2>4. CASE LoadReceive(c) \/ StoreReceive(c) \/ LoadComplete(c) \/ StoreComplete(c) \/ Tally(c)
    BY <2>1, <2>4 DEF Load, Store, LoadReceive, StoreReceive, LoadComplete, StoreComplete, Tally
  <2>5. QED BY <1>3, <2>2, <2>3, <2>4 DEF ConsumerStep
<1>4. ASSUME SpuriousWake PROVE UNCHANGED <<Pushed, buffer, hand, finished>>
  BY <1>0, <1>4, SpuriousFrame DEF Pushed
<1>5. ASSUME UNCHANGED vars PROVE UNCHANGED <<Pushed, buffer, hand, finished>>
  BY <1>5 DEF vars, Pushed
<1>6. QED BY <1>1, <1>2, <1>3, <1>4, <1>5 DEF Next, Terminated

\* Nobody but the producer, who has tested it, makes the queue longer.
LEMMA BoundStep ==
  ASSUME Inv, BoundInv, [Next]_vars
  PROVE  BoundInv'
<1>0. /\ TypeOK /\ PopNonEmpty
      /\ Len(buffer) \in Nat /\ maxbuffer \in Nat
  BY NThreadsAssumption DEF Inv, TypeOK, maxbuffer
<1>1. CASE ProducerPush
  <2>1. Len(buffer') = Len(buffer) + 1 /\ Len(buffer) < maxbuffer /\ prod' # "push"
    BY <1>0, <1>1 DEF ProducerPush, Produce, TypeOK, BoundInv, RoomShape
  <2>2. QED BY <1>0, <2>1 DEF BoundInv, BufferBound, RoomShape, maxbuffer
<1>2. ASSUME NEW c \in Consumers, Pop(c) PROVE BoundInv'
  <2>1. Len(buffer') = Len(buffer) - 1
    BY <1>0, <1>2 DEF Pop, Consume, PopNonEmpty, TypeOK
  <2>2. prod' = "push" => prod = "push"
    BY <1>2 DEF Pop, SignalDecrement
  <2>3. QED BY <1>0, <2>1, <2>2 DEF BoundInv, BufferBound, RoomShape, maxbuffer
<1>3. CASE UNCHANGED buffer
  <2>1. CASE ProducerCheckRoom
    BY <1>3, <2>1 DEF ProducerCheckRoom, BoundInv, BufferBound, RoomShape, maxbuffer
  <2>2. CASE ~ProducerCheckRoom
    <3>1. prod' = "push" => prod = "push"
      <4>1. CASE ProducerStep
        BY <4>1, <2>2 DEF ProducerStep, ProducerStart, ReadWork, ReadSleep, ReadEof, ProducerLock,
           ProducerCheckFull, ProducerRelock, ProducerPush, ProducerSetDone, ProducerLockDone,
           ProducerBroadcast, ProducerClear, Produce
      <4>2. CASE MainStep
        BY <1>0, <4>2, MainFrame DEF Inv
      <4>3. CASE \E c \in Consumers : ConsumerStep(c)
        BY <1>0, <4>3, ConsumerFrame
      <4>4. CASE SpuriousWake
        BY <1>0, <4>4, SpuriousFrame
      <4>5. CASE UNCHANGED vars
        BY <4>5 DEF vars
      <4>6. QED BY <4>1, <4>2, <4>3, <4>4, <4>5 DEF Next, Terminated
    <3>2. QED BY <1>3, <3>1 DEF BoundInv, BufferBound, RoomShape, maxbuffer
  <2>3. QED BY <2>1, <2>2
<1>4. ASSUME NEW c \in Consumers, Trans(c) PROVE BoundInv'
  BY <1>4 DEF Trans, BoundInv, BufferBound, RoomShape, maxbuffer
<1>5. QED BY <1>1, <1>2, <1>3, <1>4, StepKinds

\* The queue never outgrows maxbuffer = 2 * nthreads.
THEOREM QueueBounded == Spec => []BufferBound
<1>1. Init => BoundInv
  BY NThreadsAssumption DEF Init, BoundInv, BufferBound, RoomShape, maxbuffer
<1>2. Inv /\ BoundInv /\ [Next]_vars => BoundInv'
  BY BoundStep
<1>3. BoundInv => BufferBound
  BY DEF BoundInv
<1>4. QED BY <1>1, <1>2, <1>3, Invariance, PTL DEF Spec

HangInv == NoHanging /\ DoneShape

\* Nobody starts to wait once the producer has announced the end.
LEMMA HangStep ==
  ASSUME Inv, HangInv
  PROVE  [Next]_vars => HangInv'
<1>0. TypeOK /\ SpawnShape /\ MutualExclusion
  BY DEF Inv
<1> USE DEF HangInv, NoHanging, DoneShape
<1>1. ASSUME MainStep PROVE HangInv'
  BY <1>0, <1>1, MainFrame
<1>2. ASSUME ProducerStep PROVE HangInv'
  <2>1. CASE ProducerBroadcast
    <3>1. \A d \in Consumers : cons[d] # "wait"
      BY <1>0, <2>1 DEF ProducerBroadcast, Produce, MutualExclusion, Inside, ProdHolding, ConsHolding,
         Producer, Consumers
    <3>2. QED BY <1>0, <2>1, <3>1 DEF ProducerBroadcast, Produce, BroadcastIncrement, TypeOK
  <2>2. CASE ProducerClear
    BY <2>2 DEF ProducerClear, Produce
  <2>3. CASE ProducerSetDone \/ ProducerLockDone
    BY <2>3 DEF ProducerSetDone, ProducerLockDone, Produce
  <2>4. CASE ProducerStart \/ ReadWork \/ ReadSleep \/ ReadEof
    BY <2>4 DEF ProducerStart, ReadWork, ReadSleep, ReadEof, Produce
  <2>5. CASE ProducerLock \/ ProducerCheckFull \/ ProducerCheckRoom \/ ProducerRelock \/ ProducerPush
    BY <2>5 DEF ProducerLock, ProducerCheckFull, ProducerCheckRoom, ProducerRelock, ProducerPush,
       Produce
  <2>6. QED BY <1>2, <2>1, <2>2, <2>3, <2>4, <2>5 DEF ProducerStep
<1>3. ASSUME NEW c \in Consumers, ConsumerStep(c) PROVE HangInv'
  <2> USE <1>0, <1>3, ConsumerFrame DEF flags
  <2>1. DoneShape'
    OBVIOUS
  <2>2. ASSUME prod' \in {"clear", "end"} PROVE cons'[c] \notin {"wait", "waiting"}
    <3>1. done /\ cons[c] \notin {"wait", "waiting"}
      BY <2>2
    <3>2. QED BY <3>1 DEF Load, Store, ConsumerStep, ReadId, LoadThreads, StoreThreads, LoopTest,
       LoadAsk, StoreAsk, ConsumerLock, TestWork, TestDone, TestEmpty, ConsumerWait, ConsumerRelock,
       Pop, LoadReceive, StoreReceive, Trans, LoadComplete, StoreComplete, Tally, Consume, TypeOK
  <2>3. QED BY <2>1, <2>2
<1>4. ASSUME SpuriousWake PROVE HangInv'
  BY <1>0, <1>4, SpuriousFrame DEF Woken
<1>5. ASSUME UNCHANGED vars PROVE HangInv'
  BY <1>5 DEF vars
<1>6. QED BY <1>1, <1>2, <1>3, <1>4, <1>5 DEF Next, Terminated

\* After the producer's broadcast no consumer is blocked on increment.
THEOREM NobodyHangs == Spec => []NoHanging
<1>1. Init => HangInv
  BY DEF Init, HangInv, NoHanging, DoneShape
<1>2. Inv /\ HangInv /\ [Next]_vars => HangInv'
  BY HangStep
<1>3. HangInv => NoHanging
  BY DEF HangInv
<1>4. QED BY <1>1, <1>2, <1>3, Invariance, PTL DEF Spec

-----------------------------------------------------------------------------
(* The tasks: order, and none lost or taken twice.                          *)

QueueInv == QueueOrder /\ Conservation /\ Popped \in Nat

\* The number of tasks pushed is that of the lines counted, or one less.
LEMMA PushedNat == TypeOK /\ PushShape => Pushed \in Nat
  BY DEF TypeOK, PushShape, Pushed

\* A push keeps the order and the account,
LEMMA PushQueue ==
  ASSUME Inv, QueueInv, ProducerPush
  PROVE  QueueInv'
<1>0. /\ buffer \in Seq(Nat \ {0}) /\ Pushed \in Nat /\ work_count \in Nat
      /\ buffer' = Append(buffer, work_count)
      /\ UNCHANGED <<hand, finished>>
  BY PushedNat DEF Inv, TypeOK, ProducerPush, Produce
<1>1. work_count = Pushed + 1 /\ Pushed' = Pushed + 1
  BY <1>0 DEF ProducerPush, Produce, Pushed
<1>2. Len(buffer') = Len(buffer) + 1 /\ Popped' = Popped
  BY <1>0, <1>1 DEF Popped
<1>3. QueueOrder'
  <2>1. \A i \in 1 .. Len(buffer') :
          buffer'[i] = IF i <= Len(buffer) THEN buffer[i] ELSE Pushed + 1
    BY <1>0, <1>1, <1>2
  <2>2. QED BY <1>0, <1>2, <2>1 DEF QueueInv, QueueOrder, Popped
<1>4. QED BY <1>0, <1>2, <1>3 DEF QueueInv, Conservation

\* a pop moves the oldest task into a hand,
LEMMA PopQueue ==
  ASSUME Inv, QueueInv, NEW c \in Consumers, Pop(c)
  PROVE  QueueInv'
<1>0. /\ buffer \in Seq(Nat \ {0}) /\ Pushed \in Nat /\ buffer # <<>>
      /\ buffer' = Tail(buffer) /\ hand' = [hand EXCEPT ![c] = Head(buffer)]
      /\ hand \in [Consumers -> Nat] /\ hand[c] = NoTask
      /\ UNCHANGED finished
  BY PushedNat DEF Inv, TypeOK, Pop, Consume, PopNonEmpty, HandShape, Carrying
<1>1. UNCHANGED Pushed
  BY DEF Pop, Consume, SignalDecrement, Pushed
<1>2. Len(buffer') = Len(buffer) - 1 /\ Popped' = Popped + 1 /\ Popped \in Nat
  BY <1>0, <1>1 DEF Popped, QueueInv
<1>3. Head(buffer) = Popped + 1
  BY <1>0 DEF QueueInv, QueueOrder
<1>4. QueueOrder'
  BY <1>0, <1>2 DEF QueueInv, QueueOrder
<1>5. Conservation'
  <2>1. \A d \in Consumers : hand'[d] = IF d = c THEN Popped + 1 ELSE hand[d]
    BY <1>0, <1>3
  <2>2. 1 .. Popped' = (1 .. Popped) \cup {Popped + 1} /\ Popped + 1 \notin 1 .. Popped
    BY <1>2
  <2>3. Popped + 1 # NoTask
    BY <1>2 DEF NoTask
  <2>4. /\ finished \subseteq 1 .. Popped
        /\ \A d \in Consumers : hand[d] # NoTask => hand[d] \in (1 .. Popped) \ finished
        /\ \A d, e \in Consumers : hand[d] = hand[e] /\ hand[d] # NoTask => d = e
        /\ \A t \in (1 .. Popped) \ finished : \E d \in Consumers : hand[d] = t
    BY DEF QueueInv, Conservation
  <2>5. finished' \subseteq 1 .. Popped'
    BY <1>0, <2>2, <2>4
  <2>6. \A d \in Consumers : hand'[d] # NoTask => hand'[d] \in (1 .. Popped') \ finished'
    BY <1>0, <2>1, <2>2, <2>4
  <2>7. \A d, e \in Consumers : hand'[d] = hand'[e] /\ hand'[d] # NoTask => d = e
    BY <2>1, <2>2, <2>4
  <2>8. ASSUME NEW t \in (1 .. Popped') \ finished' PROVE \E d \in Consumers : hand'[d] = t
    <3>1. CASE t = Popped + 1
      BY <2>1, <3>1
    <3>2. CASE t # Popped + 1
      <4>1. PICK d \in Consumers : hand[d] = t
        BY <1>0, <2>2, <2>4, <2>8, <3>2
      <4>2. t # NoTask
        BY <1>2, <2>8 DEF NoTask
      <4>3. QED BY <1>0, <2>1, <4>1, <4>2
    <3>3. QED BY <3>1, <3>2
  <2>9. QED BY <2>5, <2>6, <2>7, <2>8 DEF Conservation
<1>6. QED BY <1>2, <1>4, <1>5 DEF QueueInv

\* and the end of the work moves it among the finished.
LEMMA TransQueue ==
  ASSUME Inv, QueueInv, NEW c \in Consumers, Trans(c)
  PROVE  QueueInv'
<1>1. /\ hand \in [Consumers -> Nat] /\ hand[c] # NoTask
      /\ hand' = [hand EXCEPT ![c] = NoTask]
      /\ finished' = finished \cup {hand[c]}
      /\ UNCHANGED <<Pushed, Popped, buffer>>
  BY DEF Inv, TypeOK, HandShape, Carrying, Trans, Consume, Pushed, Popped
<1>2. Conservation'
  BY <1>1 DEF QueueInv, Conservation
<1>3. QED BY <1>1, <1>2 DEF QueueInv, QueueOrder

\* So every step keeps them.
LEMMA QueueStep == Inv /\ QueueInv /\ [Next]_vars => QueueInv'
<1> SUFFICES ASSUME Inv, QueueInv, [Next]_vars PROVE QueueInv'
  OBVIOUS
<1>1. CASE UNCHANGED <<Pushed, buffer, hand, finished>>
  BY <1>1 DEF QueueInv, QueueOrder, Conservation, Popped
<1>2. QED BY <1>1, StepKinds, PushQueue, PopQueue, TransQueue

\* They hold of an empty queue.
LEMMA QueueInit == Init => QueueInv
  BY DEF Init, QueueInv, QueueOrder, Conservation, Popped, Pushed, NoTask

\* The queue holds the latest pushed tasks in the order of their lines, and
\* every other pushed task is in one consumer's hands or finished.
THEOREM NoTaskLost == Spec => [](QueueOrder /\ Conservation)
<1>1. QueueInv => QueueOrder /\ Conservation
  BY DEF QueueInv
<1>2. QED BY <1>1, QueueInit, QueueStep, Invariance, PTL DEF Spec

-----------------------------------------------------------------------------
(* The join, and what is finished when the process ends.                    *)

\* The consumers joined so far have left; main exits when all have.
JoinShape ==
  /\ main = "join" => \A c \in 1 .. idx - 1 : cons[c] = "exited"
  /\ main = "exited" => \A c \in Consumers : cons[c] = "exited"

\* main passes a join when its consumer has left, for good.
LEMMA JoinStep == Inv /\ JoinShape /\ [Next]_vars => JoinShape'
<1> SUFFICES ASSUME Inv, JoinShape, [Next]_vars PROVE JoinShape'
  OBVIOUS
<1>0. /\ TypeOK /\ SpawnShape /\ idx \in Consumers
      /\ \A d \in 1 .. idx - 1 : d \in Consumers
  BY NThreadsAssumption DEF Inv, TypeOK, Consumers
<1>1. CASE MainStep
  <2>1. CASE SpawnProducer
    BY <2>1 DEF SpawnProducer, JoinShape
  <2>2. CASE SpawnConsumer
    BY <2>2 DEF SpawnConsumer, JoinShape
  <2>3. CASE JoinConsumer
    <3>1. UNCHANGED cons /\ main = "join" /\ cons[idx] = "exited"
      BY <2>3 DEF JoinConsumer
    <3>2. \A c \in 1 .. idx : cons[c] = "exited"
      BY <1>0, <3>1 DEF JoinShape, Consumers
    <3>3. CASE idx < NThreads
      <4>1. idx' = idx + 1 /\ UNCHANGED main
        BY <2>3, <3>3 DEF JoinConsumer
      <4>2. \A c \in 1 .. idx' - 1 : c \in 1 .. idx
        BY <1>0, <4>1 DEF Consumers
      <4>3. QED BY <3>1, <3>2, <4>1, <4>2 DEF JoinShape
    <3>4. CASE ~(idx < NThreads)
      <4>1. main' = "exited"
        BY <2>3, <3>4 DEF JoinConsumer
      <4>2. \A c \in Consumers : c \in 1 .. idx
        BY <1>0, <3>4, NThreadsAssumption DEF Consumers
      <4>3. QED BY <3>1, <3>2, <4>1, <4>2 DEF JoinShape
    <3>5. QED BY <3>3, <3>4
  <2>4. QED BY <1>1, <2>1, <2>2, <2>3 DEF MainStep
<1>2. CASE ProducerStep
  BY <1>0, <1>2, ProducerFrame DEF JoinShape, Woken
<1>3. ASSUME NEW c \in Consumers, ConsumerStep(c) PROVE JoinShape'
  BY <1>0, <1>3, ConsumerFrame DEF JoinShape
<1>4. CASE SpuriousWake
  BY <1>0, <1>4, SpuriousFrame DEF JoinShape, Woken
<1>5. CASE UNCHANGED vars
  BY <1>5 DEF vars, JoinShape
<1>6. QED BY <1>1, <1>2, <1>3, <1>4, <1>5 DEF Next, Terminated

\* When the process ends every task taken off the queue is finished.
THEOREM NothingInHandAtExit == Spec => []ExitAccount
<1>1. Init => JoinShape
  BY DEF Init, JoinShape
<1>2. Inv /\ QueueInv /\ JoinShape => ExitAccount
  <2> SUFFICES ASSUME Inv, QueueInv, JoinShape, main = "exited"
               PROVE  /\ finished = 1 .. Popped
                      /\ \A c \in Consumers : hand[c] = NoTask
    BY DEF ExitAccount
  <2>1. \A c \in Consumers : hand[c] = NoTask
    BY DEF Inv, JoinShape, HandShape, Carrying
  <2>2. \A t \in 1 .. Popped : t # NoTask
    BY DEF NoTask
  <2>3. QED BY <2>1, <2>2 DEF QueueInv, Conservation
<1>3. QED BY <1>1, <1>2, JoinStep, QueueInit, QueueStep, Invariance, PTL DEF Spec

-----------------------------------------------------------------------------
(* Refinement.                                                              *)

\* The initial states are those of WorkQueue,
LEMMA QueueInitRefines == Init => Queue!Init
  BY DEF Init, Queue!Init, Pushed

\* and each step is a push, a pop, a finish or a stutter of it.
LEMMA QueueStepRefines ==
  ASSUME Inv, BoundInv, [Next]_vars
  PROVE  [Queue!Next]_(Queue!vars)
<1>1. CASE ProducerPush
  <2>1. work_count = Pushed + 1 /\ Pushed' = Pushed + 1 /\ Len(buffer) < maxbuffer
    BY <1>1 DEF ProducerPush, Produce, Pushed, BoundInv, RoomShape, Inv, TypeOK
  <2>2. QED BY <1>1, <2>1 DEF ProducerPush, Produce, Queue!Next, Queue!Submit
<1>2. ASSUME NEW c \in Consumers, Pop(c) PROVE Queue!Take(c)
  <2>1. hand[c] = NoTask /\ buffer # <<>>
    BY <1>2 DEF Pop, Consume, Inv, HandShape, Carrying, PopNonEmpty
  <2>2. UNCHANGED Pushed
    BY <1>2 DEF Pop, Consume, SignalDecrement, Pushed
  <2>3. QED BY <1>2, <2>1, <2>2 DEF Pop, Queue!Take
<1>3. ASSUME NEW c \in Consumers, Trans(c) PROVE Queue!Finish(c)
  <2>1. hand[c] # NoTask
    BY <1>3 DEF Trans, Consume, Inv, HandShape, Carrying
  <2>2. UNCHANGED <<Pushed, buffer>>
    BY <1>3 DEF Trans, Consume, Pushed
  <2>3. QED BY <1>3, <2>1, <2>2 DEF Trans, Queue!Finish
<1>4. CASE UNCHANGED <<Pushed, buffer, hand, finished>>
  BY <1>4 DEF Queue!vars
<1>5. QED BY <1>1, <1>2, <1>3, <1>4, StepKinds DEF Queue!Next

\* prodcon's queue is the abstract bounded work queue.
THEOREM Refinement == Spec => ImplementsQueue
<1>1. Init => BoundInv
  BY NThreadsAssumption DEF Init, BoundInv, BufferBound, RoomShape, maxbuffer
<1>2. Inv /\ BoundInv /\ [Next]_vars => BoundInv'
  BY BoundStep
<1>3. Inv /\ BoundInv /\ [Next]_vars => [Queue!Next]_(Queue!vars)
  BY QueueStepRefines
<1>4. QED BY <1>1, <1>2, <1>3, QueueInitRefines, Invariance, PTL
      DEF Spec, ImplementsQueue, Queue!Spec
-----------------------------------------------------------------------------
(* The unlocked counters.                                                   *)

\* The consumers that have a task to count, and have not counted it.
Between(from, to) == {c \in Consumers : cons[c] \in {from, to}}
Receiving == Between("load_receive", "store_receive")
Completing == Between("load_complete", "store_complete")
Counting == {"load_receive", "store_receive", "load_complete", "store_complete"}

\* Neither a counter nor a register with its value is ahead of what all but
\* these have to count.
CountersInv ==
  /\ global["receive_count"] + Cardinality(Receiving) <= Popped
  /\ \A c \in Consumers : cons[c] = "store_receive" => reg[c] + Cardinality(Receiving) <= Popped
  /\ global["complete_count"] + Cardinality(Completing) <= Cardinality(finished)
  /\ \A c \in Consumers :
       cons[c] = "store_complete" => reg[c] + Cardinality(Completing) <= Cardinality(finished)

\* A step that these counters have nothing to do with.
Uncounting ==
  /\ UNCHANGED <<Popped, finished>>
  /\ global'["receive_count"] = global["receive_count"]
  /\ global'["complete_count"] = global["complete_count"]
  /\ \A d \in Consumers : cons[d] \in Counting \/ cons'[d] \in Counting =>
       cons'[d] = cons[d] /\ reg'[d] = reg[d]

\* The producer neither takes a task nor finishes one.
LEMMA PushFree ==
  ASSUME TypeOK, ProducerStep, NEW c \in Consumers
  PROVE  ~Pop(c) /\ ~Trans(c)
<1>1. UNCHANGED consVars /\ \A d \in Consumers : Woken(d)
  BY ProducerFrame
<1>2. QED BY <1>1 DEF Woken, Pop, Trans, Consume, TypeOK

\* What can happen to the counters in a step.
LEMMA CounterKinds ==
  ASSUME Inv, [Next]_vars
  PROVE  \/ \E c \in Consumers : Pop(c) \/ LoadReceive(c) \/ StoreReceive(c)
         \/ \E c \in Consumers : Trans(c) \/ LoadComplete(c) \/ StoreComplete(c)
         \/ Uncounting
<1>0. TypeOK /\ SpawnShape /\ PushShape /\ Len(buffer) \in Nat /\ Pushed \in Nat
  BY PushedNat DEF Inv, TypeOK
<1>1. ASSUME MainStep PROVE Uncounting
  BY <1>0, <1>1, MainFrame DEF Uncounting, Counting, Popped, Pushed
<1>2. ASSUME ProducerStep PROVE Uncounting
  <2>1. UNCHANGED consVars /\ \A d \in Consumers : Woken(d)
    BY <1>0, <1>2, ProducerFrame
  <2>2. UNCHANGED Popped
    <3>1. CASE ProducerPush
      <4>1. Pushed' = Pushed + 1 /\ buffer' = Append(buffer, work_count)
        BY <1>0, <3>1 DEF ProducerPush, Produce, Pushed, TypeOK
      <4>2. Len(buffer') = Len(buffer) + 1
        BY <1>0, <4>1 DEF TypeOK
      <4>3. QED BY <1>0, <4>1, <4>2 DEF Popped
    <3>2. CASE UNCHANGED <<Pushed, buffer>>
      BY <3>2 DEF Popped
    <3>3. QED BY <1>0, <1>2, <3>1, <3>2, StepKinds, PushFree
  <2>3. QED BY <2>1, <2>2 DEF Uncounting, Counting, Woken
<1>3. ASSUME NEW c \in Consumers, ConsumerStep(c)
      PROVE  \/ Pop(c) \/ LoadReceive(c) \/ StoreReceive(c)
             \/ Trans(c) \/ LoadComplete(c) \/ StoreComplete(c)
             \/ Uncounting
  <2>1. UNCHANGED Pushed /\ \A d \in Consumers \ {c} : cons'[d] = cons[d]
    BY <1>0, <1>3, ConsumerFrame DEF Pushed
  <2> USE <1>0, <2>1 DEF Uncounting, Counting, Popped, Consume, TypeOK, Global
  <2>2. CASE ReadId(c) \/ LoopTest(c) \/ Tally(c) \/ LoadThreads(c) \/ LoadAsk(c)
    BY <2>2 DEF ReadId, LoopTest, Tally, LoadThreads, LoadAsk, Load
  <2>3. CASE StoreThreads(c) \/ StoreAsk(c)
    BY <2>3 DEF StoreThreads, StoreAsk, Store
  <2>4. CASE ConsumerLock(c) \/ TestWork(c) \/ TestDone(c) \/ TestEmpty(c) \/ ConsumerWait(c)
               \/ ConsumerRelock(c)
    BY <2>4 DEF ConsumerLock, TestWork, TestDone, TestEmpty, ConsumerWait, ConsumerRelock
  <2>5. QED BY <1>3, <2>2, <2>3, <2>4 DEF ConsumerStep
<1>4. ASSUME SpuriousWake PROVE Uncounting
  BY <1>0, <1>4, SpuriousFrame DEF Uncounting, Counting, Popped, Pushed, Woken
<1>5. ASSUME UNCHANGED vars PROVE Uncounting
  BY <1>5 DEF vars, Uncounting, Popped, Pushed
<1>6. QED BY <1>1, <1>2, <1>3, <1>4, <1>5 DEF Next, Terminated

\* The consumers that have a task to count can be counted.
LEMMA BetweenFinite ==
  ASSUME NEW S \in SUBSET Consumers
  PROVE  IsFiniteSet(S) /\ Cardinality(S) \in Nat
<1>1. IsFiniteSet(Consumers)
  BY NThreadsAssumption, FS_Interval DEF Consumers
<1>2. QED BY <1>1, FS_Subset, FS_CardinalityType

\* And so can the finished tasks.
LEMMA FinishedFinite ==
  ASSUME QueueInv
  PROVE  IsFiniteSet(finished) /\ Cardinality(finished) \in Nat
<1>1. finished \in SUBSET (1 .. Popped) /\ Popped \in Nat
  BY DEF QueueInv, Conservation
<1>2. IsFiniteSet(1 .. Popped)
  BY <1>1, FS_Interval
<1>3. QED BY <1>1, <1>2, FS_Subset, FS_CardinalityType

\* A pop takes one task.
LEMMA PopCounts ==
  ASSUME Inv, QueueInv, NEW c \in Consumers, Pop(c)
  PROVE  Popped' = Popped + 1
<1>1. buffer \in Seq(Nat \ {0}) /\ buffer # <<>> /\ buffer' = Tail(buffer) /\ Pushed \in Nat
  BY PushedNat DEF Inv, TypeOK, PopNonEmpty, Pop, Consume
<1>2. UNCHANGED Pushed
  BY DEF Pop, Consume, SignalDecrement, Pushed
<1>3. QED BY <1>1, <1>2 DEF Popped

\* A pop, or the end of the work, is ahead of its count; a store catches up
\* with it, however old its register is.
LEMMA CountersStep ==
  ASSUME Inv, QueueInv, CountersInv, [Next]_vars
  PROVE  CountersInv'
<1> DEFINE r == Cardinality(Receiving)
           f == Cardinality(Completing)
           n == Cardinality(finished)
<1>0. /\ TypeOK /\ Popped \in Nat /\ r \in Nat /\ f \in Nat /\ n \in Nat
      /\ IsFiniteSet(Receiving) /\ IsFiniteSet(Completing) /\ IsFiniteSet(finished)
  BY BetweenFinite, FinishedFinite DEF Inv, QueueInv, Receiving, Completing, Between
<1>a. /\ global["receive_count"] \in Nat /\ global["complete_count"] \in Nat
      /\ \A d \in Consumers : reg[d] \in Nat
  BY <1>0 DEF TypeOK, Global
<1>b. /\ global["receive_count"] + r <= Popped
      /\ \A d \in Consumers : cons[d] = "store_receive" => reg[d] + r <= Popped
      /\ global["complete_count"] + f <= n
      /\ \A d \in Consumers : cons[d] = "store_complete" => reg[d] + f <= n
  BY DEF CountersInv
<1>1. ASSUME NEW c \in Consumers, Pop(c) PROVE CountersInv'
  <2>1. Popped' = Popped + 1 /\ finished' = finished /\ UNCHANGED <<global, reg>>
    BY <1>1, PopCounts DEF Pop
  <2>2. /\ cons[c] = "pop" /\ \A d \in Consumers : cons'[d] = IF d = c THEN "load_receive" ELSE cons[d]
    BY <1>0, <1>1 DEF Pop, Consume, TypeOK
  <2>3. Receiving' = Receiving \cup {c} /\ c \notin Receiving /\ Completing' = Completing
    BY <2>2 DEF Receiving, Completing, Between
  <2>4. Cardinality(Receiving') = r + 1
    BY <1>0, <2>3, FS_AddElement
  <2>5. Cardinality(Receiving') = r + 1 /\ Cardinality(Completing') = f /\ Cardinality(finished') = n
    BY <2>1, <2>3, <2>4
  <2>6. QED
    <3> HIDE DEF r, f, n
    <3>1. /\ global'["receive_count"] + Cardinality(Receiving') <= Popped'
          /\ global'["complete_count"] + Cardinality(Completing') <= Cardinality(finished')
      BY <1>0, <1>a, <1>b, <2>1, <2>2, <2>5
    <3>2. ASSUME NEW d \in Consumers, cons'[d] = "store_receive"
          PROVE  reg'[d] + Cardinality(Receiving') <= Popped'
      BY <1>0, <1>a, <1>b, <2>1, <2>2, <2>5, <3>2
    <3>3. ASSUME NEW d \in Consumers, cons'[d] = "store_complete"
          PROVE  reg'[d] + Cardinality(Completing') <= Cardinality(finished')
      BY <1>0, <1>a, <1>b, <2>1, <2>2, <2>5, <3>3
    <3>4. QED BY <3>1, <3>2, <3>3 DEF CountersInv
<1>2. ASSUME NEW c \in Consumers, Trans(c) PROVE CountersInv'
  <2>1. /\ finished' = finished \cup {hand[c]} /\ hand[c] \notin finished
        /\ UNCHANGED <<Popped, global, reg>>
    BY <1>2 DEF Trans, Consume, Inv, HandShape, Carrying, QueueInv, Conservation, Popped, Pushed
  <2>2. /\ cons[c] = "trans" /\ \A d \in Consumers : cons'[d] = IF d = c THEN "load_complete" ELSE cons[d]
    BY <1>0, <1>2 DEF Trans, Consume, TypeOK
  <2>3. Completing' = Completing \cup {c} /\ c \notin Completing /\ Receiving' = Receiving
    BY <2>2 DEF Receiving, Completing, Between
  <2>4. Cardinality(Completing') = f + 1 /\ Cardinality(finished') = n + 1
    BY <1>0, <2>1, <2>3, FS_AddElement
  <2>5. Cardinality(Receiving') = r /\ Cardinality(Completing') = f + 1 /\ Cardinality(finished') = n + 1
    BY <2>1, <2>3, <2>4
  <2>6. QED
    <3> HIDE DEF r, f, n
    <3>1. /\ global'["receive_count"] + Cardinality(Receiving') <= Popped'
          /\ global'["complete_count"] + Cardinality(Completing') <= Cardinality(finished')
      BY <1>0, <1>a, <1>b, <2>1, <2>2, <2>5
    <3>2. ASSUME NEW d \in Consumers, cons'[d] = "store_receive"
          PROVE  reg'[d] + Cardinality(Receiving') <= Popped'
      BY <1>0, <1>a, <1>b, <2>1, <2>2, <2>5, <3>2
    <3>3. ASSUME NEW d \in Consumers, cons'[d] = "store_complete"
          PROVE  reg'[d] + Cardinality(Completing') <= Cardinality(finished')
      BY <1>0, <1>a, <1>b, <2>1, <2>2, <2>5, <3>3
    <3>4. QED BY <3>1, <3>2, <3>3 DEF CountersInv
<1>3. ASSUME NEW c \in Consumers, LoadReceive(c) \/ LoadComplete(c) PROVE CountersInv'
  <2>1. UNCHANGED <<Popped, finished, global>>
    BY <1>3 DEF LoadReceive, LoadComplete, Load, Consume, Popped, Pushed
  <2>2. CASE LoadReceive(c)
    <3>1. /\ cons[c] = "load_receive"
          /\ \A d \in Consumers : cons'[d] = IF d = c THEN "store_receive" ELSE cons[d]
          /\ \A d \in Consumers : reg'[d] = IF d = c THEN global["receive_count"] ELSE reg[d]
      BY <1>0, <2>2 DEF LoadReceive, Load, Consume, TypeOK
    <3>2. Receiving' = Receiving /\ Completing' = Completing
      BY <3>1 DEF Receiving, Completing, Between
    <3>3. QED BY <2>1, <3>1, <3>2 DEF CountersInv
  <2>3. CASE LoadComplete(c)
    <3>1. /\ cons[c] = "load_complete"
          /\ \A d \in Consumers : cons'[d] = IF d = c THEN "store_complete" ELSE cons[d]
          /\ \A d \in Consumers : reg'[d] = IF d = c THEN global["complete_count"] ELSE reg[d]
      BY <1>0, <2>3 DEF LoadComplete, Load, Consume, TypeOK
    <3>2. Receiving' = Receiving /\ Completing' = Completing
      BY <3>1 DEF Receiving, Completing, Between
    <3>3. QED BY <2>1, <3>1, <3>2 DEF CountersInv
  <2>4. QED BY <1>3, <2>2, <2>3
<1>4. ASSUME NEW c \in Consumers, StoreReceive(c) PROVE CountersInv'
  <2>1. UNCHANGED <<Popped, finished>>
    BY <1>4 DEF StoreReceive, Store, Consume, Popped, Pushed
  <2>2. /\ cons[c] = "store_receive"
        /\ \A d \in Consumers : cons'[d] = IF d = c THEN "trans" ELSE cons[d]
        /\ \A d \in Consumers \ {c} : reg'[d] = reg[d]
        /\ global'["receive_count"] = reg[c] + 1
        /\ global'["complete_count"] = global["complete_count"]
    BY <1>0, <1>4 DEF StoreReceive, Store, Consume, TypeOK, Global
  <2>3. Receiving' = Receiving \ {c} /\ c \in Receiving /\ Completing' = Completing
    BY <2>2 DEF Receiving, Completing, Between
  <2>4. Cardinality(Receiving') = r - 1
    BY <1>0, <2>3, FS_RemoveElement
  <2>5. Cardinality(Receiving') = r - 1 /\ Cardinality(Completing') = f /\ Cardinality(finished') = n
    BY <2>1, <2>3, <2>4
  <2>6. QED
    <3> HIDE DEF r, f, n
    <3>1. /\ global'["receive_count"] + Cardinality(Receiving') <= Popped'
          /\ global'["complete_count"] + Cardinality(Completing') <= Cardinality(finished')
      BY <1>0, <1>a, <1>b, <2>1, <2>2, <2>5
    <3>2. ASSUME NEW d \in Consumers, cons'[d] = "store_receive"
          PROVE  reg'[d] + Cardinality(Receiving') <= Popped'
      BY <1>0, <1>a, <1>b, <2>1, <2>2, <2>5, <3>2
    <3>3. ASSUME NEW d \in Consumers, cons'[d] = "store_complete"
          PROVE  reg'[d] + Cardinality(Completing') <= Cardinality(finished')
      BY <1>0, <1>a, <1>b, <2>1, <2>2, <2>5, <3>3
    <3>4. QED BY <3>1, <3>2, <3>3 DEF CountersInv
<1>5. ASSUME NEW c \in Consumers, StoreComplete(c) PROVE CountersInv'
  <2>1. UNCHANGED <<Popped, finished>>
    BY <1>5 DEF StoreComplete, Store, Consume, Popped, Pushed
  <2>2. /\ cons[c] = "store_complete"
        /\ \A d \in Consumers : cons'[d] = IF d = c THEN "tally" ELSE cons[d]
        /\ \A d \in Consumers \ {c} : reg'[d] = reg[d]
        /\ global'["complete_count"] = reg[c] + 1
        /\ global'["receive_count"] = global["receive_count"]
    BY <1>0, <1>5 DEF StoreComplete, Store, Consume, TypeOK, Global
  <2>3. Completing' = Completing \ {c} /\ c \in Completing /\ Receiving' = Receiving
    BY <2>2 DEF Receiving, Completing, Between
  <2>4. Cardinality(Completing') = f - 1
    BY <1>0, <2>3, FS_RemoveElement
  <2>5. Cardinality(Receiving') = r /\ Cardinality(Completing') = f - 1 /\ Cardinality(finished') = n
    BY <2>1, <2>3, <2>4
  <2>6. QED
    <3> HIDE DEF r, f, n
    <3>1. /\ global'["receive_count"] + Cardinality(Receiving') <= Popped'
          /\ global'["complete_count"] + Cardinality(Completing') <= Cardinality(finished')
      BY <1>0, <1>a, <1>b, <2>1, <2>2, <2>5
    <3>2. ASSUME NEW d \in Consumers, cons'[d] = "store_receive"
          PROVE  reg'[d] + Cardinality(Receiving') <= Popped'
      BY <1>0, <1>a, <1>b, <2>1, <2>2, <2>5, <3>2
    <3>3. ASSUME NEW d \in Consumers, cons'[d] = "store_complete"
          PROVE  reg'[d] + Cardinality(Completing') <= Cardinality(finished')
      BY <1>0, <1>a, <1>b, <2>1, <2>2, <2>5, <3>3
    <3>4. QED BY <3>1, <3>2, <3>3 DEF CountersInv
<1>6. CASE Uncounting
  <2>1. Receiving' = Receiving /\ Completing' = Completing
    BY <1>6 DEF Uncounting, Counting, Receiving, Completing, Between
  <2>2. QED BY <1>6, <2>1 DEF Uncounting, Counting, CountersInv
<1>7. QED BY <1>1, <1>2, <1>3, <1>4, <1>5, <1>6, CounterKinds

\* However many increments are lost, the counters of the tasks received and
\* completed never run ahead of the tasks (main.cpp:185, 199).
THEOREM CountersRight == Spec => []CountersNeverOver
<1>1. Init => CountersInv
  <2> SUFFICES ASSUME Init PROVE CountersInv
    OBVIOUS
  <2>1. Receiving = {} /\ Completing = {} /\ finished = {} /\ Popped = 0
    BY DEF Init, Receiving, Completing, Between, Popped, Pushed
  <2>2. global["receive_count"] = 0 /\ global["complete_count"] = 0 /\ \A d \in Consumers : cons[d] = "unborn"
    BY DEF Init, Global
  <2>3. Cardinality(Receiving) = 0 /\ Cardinality(Completing) = 0 /\ Cardinality(finished) = 0
    BY <2>1, FS_EmptySet
  <2>4. QED BY <2>1, <2>2, <2>3 DEF CountersInv
<1>2. Inv /\ QueueInv /\ CountersInv /\ [Next]_vars => CountersInv'
  BY CountersStep
<1>3. Inv /\ QueueInv /\ CountersInv => CountersNeverOver
  <2>1. ASSUME Inv, QueueInv, CountersInv PROVE CountersNeverOver
    <3>1. /\ Cardinality(Receiving) \in Nat /\ Cardinality(Completing) \in Nat
          /\ Cardinality(finished) \in Nat /\ Popped \in Nat
          /\ global["receive_count"] \in Nat /\ global["complete_count"] \in Nat
      BY <2>1, BetweenFinite, FinishedFinite
         DEF Receiving, Completing, Between, QueueInv, Inv, TypeOK, Global
    <3>2. QED BY <2>1, <3>1 DEF CountersInv, CountersNeverOver
  <2>2. QED BY <2>1
<1>4. QED BY <1>1, <1>2, <1>3, QueueInit, QueueStep, Invariance, PTL DEF Spec

-----------------------------------------------------------------------------
(* The tallies of the consumers.                                            *)

\* A consumer that has no number yet, one that has not left the place where
\* numbers are given, and one with a finished task it has not entered.
Numberless == {"unborn", "begin"}
Arriving == Numberless \cup {"load_threads", "store_threads"}
Leaving == {"load_complete", "store_complete", "tally"}
At(places) == {c \in Consumers : cons[c] \in places}

\* What a consumer has entered it has finished, and an entry of the map is what
\* some consumer with that number has entered at most, one for each entry.
TallyInv ==
  /\ \A c \in Consumers : cons[c] \in Numberless => jobs_complete[c] = 0
  /\ \A k \in Consumers : thread_completed_tasks[k] = 0 \/
       \E c \in Consumers : id[c] = k /\ thread_completed_tasks[k] <= jobs_complete[c]
  /\ Total(jobs_complete) + Cardinality(At(Leaving)) <= Cardinality(finished)

\* Neither consumeThreads nor a register with its value is ahead of the
\* consumers that have passed it.
NumberInv ==
  /\ global["consumeThreads"] >= 1
  /\ global["consumeThreads"] + Cardinality(At(Arriving)) <= NThreads + 1
  /\ \A c \in Consumers :
       cons[c] = "store_threads" => reg[c] + Cardinality(At(Arriving)) <= NThreads + 1
  /\ \A c \in Consumers : cons[c] \notin Numberless => id[c] \in Consumers

\* A step that these have nothing to do with.
Aside ==
  /\ UNCHANGED <<id, jobs_complete, thread_completed_tasks, finished>>
  /\ global'["consumeThreads"] = global["consumeThreads"]
  /\ \A d \in Consumers :
       /\ cons[d] \in Leaving <=> cons'[d] \in Leaving
       /\ cons[d] \in Numberless <=> cons'[d] \in Numberless
       /\ cons[d] \in Arriving <=> cons'[d] \in Arriving
       /\ cons'[d] = "store_threads" => cons[d] = "store_threads" /\ reg'[d] = reg[d]

\* What can happen to numbers and tallies in a step.
LEMMA TallyKinds ==
  ASSUME Inv, [Next]_vars
  PROVE  \/ \E c \in Consumers : ReadId(c) \/ LoadThreads(c) \/ StoreThreads(c)
         \/ \E c \in Consumers : Trans(c) \/ Tally(c)
         \/ Aside
<1>0. TypeOK /\ SpawnShape
  BY DEF Inv
<1> USE DEF Aside, Numberless, Arriving, Leaving
<1>1. ASSUME MainStep PROVE Aside
  BY <1>0, <1>1, MainFrame
<1>2. ASSUME ProducerStep PROVE Aside
  <2>1. UNCHANGED consVars /\ \A d \in Consumers : Woken(d)
    BY <1>0, <1>2, ProducerFrame
  <2>2. QED BY <2>1 DEF Woken
<1>3. ASSUME NEW c \in Consumers, ConsumerStep(c)
      PROVE  \/ ReadId(c) \/ LoadThreads(c) \/ StoreThreads(c) \/ Trans(c) \/ Tally(c)
             \/ Aside
  <2>1. \A d \in Consumers \ {c} : cons'[d] = cons[d]
    BY <1>0, <1>3, ConsumerFrame
  <2> USE <1>0, <2>1 DEF Consume, TypeOK, Global
  <2>2. CASE LoopTest(c) \/ ConsumerLock(c) \/ TestWork(c) \/ TestDone(c)
    BY <2>2 DEF LoopTest, ConsumerLock, TestWork, TestDone
  <2>3. CASE TestEmpty(c) \/ ConsumerWait(c) \/ ConsumerRelock(c) \/ Pop(c)
    BY <2>3 DEF TestEmpty, ConsumerWait, ConsumerRelock, Pop
  <2>4. CASE LoadAsk(c) \/ LoadReceive(c) \/ LoadComplete(c)
    BY <2>4 DEF LoadAsk, LoadReceive, LoadComplete, Load
  <2>5. CASE StoreAsk(c) \/ StoreReceive(c) \/ StoreComplete(c)
    BY <2>5 DEF StoreAsk, StoreReceive, StoreComplete, Store
  <2>6. QED BY <1>3, <2>2, <2>3, <2>4, <2>5 DEF ConsumerStep
<1>4. ASSUME SpuriousWake PROVE Aside
  <2>1. UNCHANGED consVars /\ \A d \in Consumers : Woken(d)
    BY <1>0, <1>4, SpuriousFrame
  <2>2. QED BY <2>1 DEF Woken
<1>5. ASSUME UNCHANGED vars PROVE Aside
  BY <1>5 DEF vars
<1>6. QED BY <1>1, <1>2, <1>3, <1>4, <1>5 DEF Next, Terminated

\* The consumers at some places can be counted.
LEMMA AtFinite ==
  ASSUME NEW places
  PROVE  IsFiniteSet(At(places)) /\ Cardinality(At(places)) \in Nat
<1>1. At(places) \in SUBSET Consumers
  BY DEF At
<1>2. QED BY <1>1, BetweenFinite

\* The sum of what the consumers have entered is a number.
LEMMA JobsTotal ==
  ASSUME TypeOK
  PROVE  /\ jobs_complete \in [Consumers -> Nat] /\ thread_completed_tasks \in [Consumers -> Nat]
         /\ IsFiniteSet(Consumers)
         /\ Total(jobs_complete) \in Nat /\ Total(thread_completed_tasks) \in Nat
<1>1. /\ jobs_complete \in [Consumers -> Nat] /\ thread_completed_tasks \in [Consumers -> Nat]
      /\ IsFiniteSet(Consumers)
  <2>1. NThreads \in Int
    BY NThreadsAssumption
  <2>2. IsFiniteSet(1 .. NThreads)
    BY <2>1, FS_Interval
  <2>3. QED BY <2>2 DEF TypeOK, Consumers
<1>2. QED BY <1>1, UnitsFinite

\* A consumer is given a number only after it has read one that is not ahead.
LEMMA NumberStep ==
  ASSUME Inv, NumberInv, [Next]_vars
  PROVE  NumberInv'
<1> DEFINE n == Cardinality(At(Arriving))
<1>0. /\ TypeOK /\ n \in Nat /\ IsFiniteSet(At(Arriving)) /\ NThreads \in Nat
      /\ global["consumeThreads"] \in Nat /\ \A d \in Consumers : reg[d] \in Nat
  BY AtFinite, NThreadsAssumption DEF Inv, TypeOK, Global
<1>1. /\ global["consumeThreads"] >= 1 /\ global["consumeThreads"] + n <= NThreads + 1
      /\ \A d \in Consumers : cons[d] = "store_threads" => reg[d] + n <= NThreads + 1
      /\ \A d \in Consumers : cons[d] \notin Numberless => id[d] \in Consumers
  BY DEF NumberInv
<1>2. ASSUME NEW c \in Consumers, ReadId(c) PROVE NumberInv'
  <2>1. /\ cons[c] = "begin" /\ UNCHANGED <<global, reg>>
        /\ \A d \in Consumers : cons'[d] = IF d = c THEN "load_threads" ELSE cons[d]
        /\ \A d \in Consumers : id'[d] = IF d = c THEN global["consumeThreads"] ELSE id[d]
    BY <1>0, <1>2 DEF ReadId, Consume, TypeOK
  <2>2. At(Arriving)' = At(Arriving) /\ c \in At(Arriving)
    BY <2>1 DEF At, Arriving, Numberless
  <2>3. n >= 1
    BY <1>0, <2>2, FS_EmptySet
  <2>4. global["consumeThreads"] \in Consumers
    <3> HIDE DEF n
    <3> QED BY <1>0, <1>1, <2>3 DEF Consumers
  <2>5. \A d \in Consumers : cons'[d] \notin Numberless => id'[d] \in Consumers
    BY <1>1, <2>1, <2>4 DEF Numberless
  <2>6. Cardinality(At(Arriving)') = n
    BY <2>2
  <2>7. QED BY <1>1, <2>1, <2>5, <2>6 DEF NumberInv
<1>3. ASSUME NEW c \in Consumers, LoadThreads(c) PROVE NumberInv'
  <2>1. /\ cons[c] = "load_threads" /\ UNCHANGED <<global, id>>
        /\ \A d \in Consumers : cons'[d] = IF d = c THEN "store_threads" ELSE cons[d]
        /\ \A d \in Consumers : reg'[d] = IF d = c THEN global["consumeThreads"] ELSE reg[d]
    BY <1>0, <1>3 DEF LoadThreads, Load, Consume, TypeOK
  <2>2. At(Arriving)' = At(Arriving)
    BY <2>1 DEF At, Arriving, Numberless
  <2>3. Cardinality(At(Arriving)') = n
    BY <2>2
  <2>4. \A d \in Consumers : cons'[d] \notin Numberless => id'[d] \in Consumers
    BY <1>1, <2>1 DEF Numberless
  <2>5. QED BY <1>1, <2>1, <2>3, <2>4 DEF NumberInv
<1>4. ASSUME NEW c \in Consumers, StoreThreads(c) PROVE NumberInv'
  <2>1. /\ cons[c] = "store_threads" /\ UNCHANGED id
        /\ \A d \in Consumers : cons'[d] = IF d = c THEN "loop" ELSE cons[d]
        /\ \A d \in Consumers \ {c} : reg'[d] = reg[d]
        /\ global'["consumeThreads"] = reg[c] + 1
    BY <1>0, <1>4 DEF StoreThreads, Store, Consume, TypeOK, Global
  <2>2. At(Arriving)' = At(Arriving) \ {c} /\ c \in At(Arriving)
    BY <2>1 DEF At, Arriving, Numberless
  <2>3. Cardinality(At(Arriving)') = n - 1
    BY <1>0, <2>2, FS_RemoveElement
  <2>4. \A d \in Consumers : cons'[d] \notin Numberless => id'[d] \in Consumers
    BY <1>1, <2>1 DEF Numberless
  <2>5. /\ global'["consumeThreads"] >= 1
        /\ global'["consumeThreads"] + Cardinality(At(Arriving)') <= NThreads + 1
        /\ \A d \in Consumers : cons'[d] = "store_threads" =>
             reg'[d] + Cardinality(At(Arriving)') <= NThreads + 1
    <3> HIDE DEF n
    <3> QED BY <1>0, <1>1, <2>1, <2>3
  <2>6. QED BY <2>4, <2>5 DEF NumberInv
<1>5. ASSUME NEW c \in Consumers, Trans(c) \/ Tally(c) PROVE NumberInv'
  <2>1. /\ UNCHANGED <<global, reg, id>> /\ cons[c] \in {"trans", "tally"}
        /\ cons'[c] \in {"load_complete", "loop"} /\ \A d \in Consumers \ {c} : cons'[d] = cons[d]
    BY <1>0, <1>5 DEF Trans, Tally, Consume, TypeOK
  <2>2. At(Arriving)' = At(Arriving)
    BY <2>1 DEF At, Arriving, Numberless
  <2>3. Cardinality(At(Arriving)') = n
    BY <2>2
  <2>4. QED BY <1>1, <2>1, <2>3 DEF NumberInv, Numberless
<1>6. CASE Aside
  <2>1. At(Arriving)' = At(Arriving)
    BY <1>6 DEF Aside, At
  <2>2. Cardinality(At(Arriving)') = n
    BY <2>1
  <2>3. QED BY <1>1, <1>6, <2>2 DEF NumberInv, Aside
<1>7. QED BY <1>2, <1>3, <1>4, <1>5, <1>6, TallyKinds

\* A finished task is entered once, in the entry of the one who finished it or
\* in none.
LEMMA TallyStep ==
  ASSUME Inv, QueueInv, TallyInv, [Next]_vars
  PROVE  TallyInv'
<1> DEFINE t == Total(jobs_complete)
           l == Cardinality(At(Leaving))
           n == Cardinality(finished)
<1>0. /\ TypeOK /\ t \in Nat /\ l \in Nat /\ n \in Nat
      /\ IsFiniteSet(At(Leaving)) /\ IsFiniteSet(finished) /\ IsFiniteSet(Consumers)
  BY AtFinite, JobsTotal, FinishedFinite DEF Inv
<1>1. /\ t + l <= n
      /\ \A d \in Consumers : cons[d] \in Numberless => jobs_complete[d] = 0
      /\ \A k \in Consumers : thread_completed_tasks[k] = 0 \/
           \E d \in Consumers : id[d] = k /\ thread_completed_tasks[k] <= jobs_complete[d]
  BY DEF TallyInv
<1>a. /\ \A d \in Consumers : jobs_complete[d] \in Nat /\ thread_completed_tasks[d] \in Nat
  BY <1>0, JobsTotal
<1>2. ASSUME NEW c \in Consumers, Trans(c) PROVE TallyInv'
  <2>1. /\ finished' = finished \cup {hand[c]} /\ hand[c] \notin finished
        /\ UNCHANGED <<id, jobs_complete, thread_completed_tasks>>
    BY <1>2 DEF Trans, Consume, Inv, HandShape, Carrying, QueueInv, Conservation
  <2>2. /\ cons[c] = "trans" /\ \A d \in Consumers : cons'[d] = IF d = c THEN "load_complete" ELSE cons[d]
    BY <1>0, <1>2 DEF Trans, Consume, TypeOK
  <2>3. At(Leaving)' = At(Leaving) \cup {c} /\ c \notin At(Leaving)
    BY <2>2 DEF At, Leaving
  <2>4. Cardinality(At(Leaving)') = l + 1 /\ Cardinality(finished') = n + 1 /\ Total(jobs_complete') = t
    BY <1>0, <2>1, <2>3, FS_AddElement
  <2>5. Total(jobs_complete') + Cardinality(At(Leaving)') <= Cardinality(finished')
    <3> HIDE DEF t, l, n
    <3> QED BY <1>0, <1>1, <2>4
  <2>6. \A d \in Consumers : cons'[d] \in Numberless => jobs_complete'[d] = 0
    BY <1>1, <2>1, <2>2 DEF Numberless
  <2>7. QED BY <1>1, <2>1, <2>5, <2>6 DEF TallyInv
<1>3. ASSUME NEW c \in Consumers, Tally(c) PROVE TallyInv'
  <2>1. /\ jobs_complete' = [jobs_complete EXCEPT ![c] = @ + 1] /\ UNCHANGED <<id, finished>>
        /\ \A d \in Consumers : jobs_complete'[d] = IF d = c THEN jobs_complete[c] + 1 ELSE jobs_complete[d]
        /\ cons[c] = "tally" /\ \A d \in Consumers : cons'[d] = IF d = c THEN "loop" ELSE cons[d]
    BY <1>0, <1>3 DEF Tally, Consume, TypeOK
  <2>2. At(Leaving)' = At(Leaving) \ {c} /\ c \in At(Leaving)
    BY <2>1 DEF At, Leaving
  <2>3. Cardinality(At(Leaving)') = l - 1 /\ Cardinality(finished') = n
    BY <1>0, <2>1, <2>2, FS_RemoveElement
  <2>4. Total(jobs_complete') = t + 1
    BY <1>0, <2>1, JobsTotal, TotalRaised
  <2>5. Total(jobs_complete') + Cardinality(At(Leaving)') <= Cardinality(finished')
    <3> HIDE DEF t, l, n
    <3> QED BY <1>0, <1>1, <2>3, <2>4
  <2>6. \A d \in Consumers : cons'[d] \in Numberless => jobs_complete'[d] = 0
    BY <1>1, <2>1 DEF Numberless
  <2>7. ASSUME NEW k \in Consumers
        PROVE  thread_completed_tasks'[k] = 0 \/
                 \E d \in Consumers : id'[d] = k /\ thread_completed_tasks'[k] <= jobs_complete'[d]
    <3>1. CASE id[c] = k /\ thread_completed_tasks'[k] = jobs_complete'[c]
      BY <1>a, <2>1, <3>1
    <3>2. CASE thread_completed_tasks'[k] = thread_completed_tasks[k]
      BY <1>1, <1>a, <2>1, <3>2
    <3>3. QED BY <1>0, <1>3, <3>1, <3>2 DEF Tally, TypeOK
  <2>8. QED BY <2>5, <2>6, <2>7 DEF TallyInv
<1>4. ASSUME NEW c \in Consumers, ReadId(c) PROVE TallyInv'
  <2>1. /\ cons[c] = "begin" /\ UNCHANGED <<jobs_complete, thread_completed_tasks, finished>>
        /\ \A d \in Consumers : cons'[d] = IF d = c THEN "load_threads" ELSE cons[d]
        /\ \A d \in Consumers \ {c} : id'[d] = id[d]
    BY <1>0, <1>4 DEF ReadId, Consume, TypeOK
  <2>2. At(Leaving)' = At(Leaving)
    BY <2>1 DEF At, Leaving
  <2>3. Cardinality(At(Leaving)') = l
    BY <2>2
  <2>4. jobs_complete[c] = 0
    BY <1>1, <2>1 DEF Numberless
  <2>5. ASSUME NEW k \in Consumers
        PROVE  thread_completed_tasks'[k] = 0 \/
                 \E d \in Consumers : id'[d] = k /\ thread_completed_tasks'[k] <= jobs_complete'[d]
    BY <1>1, <1>a, <2>1, <2>4
  <2>6. QED BY <1>1, <2>1, <2>3, <2>5 DEF TallyInv, Numberless
<1>5. ASSUME NEW c \in Consumers, LoadThreads(c) \/ StoreThreads(c) PROVE TallyInv'
  <2>1. /\ UNCHANGED <<id, jobs_complete, thread_completed_tasks, finished>>
        /\ cons[c] \in {"load_threads", "store_threads"} /\ cons'[c] \in {"store_threads", "loop"}
        /\ \A d \in Consumers \ {c} : cons'[d] = cons[d]
    BY <1>0, <1>5 DEF LoadThreads, StoreThreads, Load, Store, Consume, TypeOK
  <2>2. At(Leaving)' = At(Leaving)
    BY <2>1 DEF At, Leaving
  <2>3. Cardinality(At(Leaving)') = l
    BY <2>2
  <2>4. QED BY <1>1, <2>1, <2>3 DEF TallyInv, Numberless
<1>6. CASE Aside
  <2>1. At(Leaving)' = At(Leaving)
    BY <1>6 DEF Aside, At
  <2>2. Cardinality(At(Leaving)') = l
    BY <2>1
  <2>3. QED BY <1>1, <1>6, <2>2 DEF TallyInv, Aside
<1>7. QED BY <1>2, <1>3, <1>4, <1>5, <1>6, TallyKinds

\* Whatever numbers consumers share and whatever entries they overwrite or lose,
\* the entries of the map add up to no more than the tasks finished
\* (main.cpp:136, 203).
THEOREM TalliesRight == Spec => []TallyNeverOver
<1>1. Init => TallyInv
  <2> SUFFICES ASSUME Init PROVE TallyInv
    OBVIOUS
  <2>1. /\ jobs_complete \in [Consumers -> Nat] /\ finished = {} /\ At(Leaving) = {}
        /\ \A c \in Consumers : jobs_complete[c] = 0 /\ thread_completed_tasks[c] = 0
    BY DEF Init, At, Leaving
  <2>2. Total(jobs_complete) = 0 /\ Cardinality(At(Leaving)) = 0 /\ Cardinality(finished) = 0
    BY <2>1, TotalNothing, FS_EmptySet
  <2>3. QED BY <2>1, <2>2 DEF TallyInv
<1>2. Inv /\ QueueInv /\ TallyInv /\ [Next]_vars => TallyInv'
  BY TallyStep
<1>3. Inv /\ QueueInv /\ TallyInv => TallyNeverOver
  <2>1. ASSUME Inv, QueueInv, TallyInv PROVE TallyNeverOver
    <3>1. /\ jobs_complete \in [Consumers -> Nat] /\ thread_completed_tasks \in [Consumers -> Nat]
          /\ IsFiniteSet(Consumers) /\ Total(jobs_complete) \in Nat /\ Total(thread_completed_tasks) \in Nat
          /\ Cardinality(finished) \in Nat /\ Cardinality(At(Leaving)) \in Nat
      BY <2>1, JobsTotal, FinishedFinite, AtFinite DEF Inv
    <3>2. Total(thread_completed_tasks) <= Total(jobs_complete)
      BY <2>1, <3>1, TotalBounded DEF TallyInv
    <3>3. Total(jobs_complete) + Cardinality(At(Leaving)) <= Cardinality(finished)
      BY <2>1 DEF TallyInv
    <3>4. QED BY <3>1, <3>2, <3>3 DEF TallyNeverOver
  <2>2. QED BY <2>1
<1>4. QED BY <1>1, <1>2, <1>3, QueueInit, QueueStep, Invariance, PTL DEF Spec

\* Every consumer that has a number has one of 1 to nthreads, though numbers are
\* given out without a lock and may be given twice: the entries it writes are
\* among those the summary prints (main.cpp:134-136, 203).
NumbersInRange == \A c \in Consumers : cons[c] \notin Numberless => id[c] \in Consumers

\* The increments that are lost only make consumers share a number.
THEOREM NumbersRight == Spec => []NumbersInRange
<1>1. Init => NumberInv
  <2> SUFFICES ASSUME Init PROVE NumberInv
    OBVIOUS
  <2>1. At(Arriving) = 1 .. NThreads /\ global["consumeThreads"] = 1 /\ \A c \in Consumers : cons[c] = "unborn"
    BY DEF Init, At, Arriving, Numberless, Global, Consumers
  <2>2. Cardinality(At(Arriving)) = NThreads /\ NThreads \in Nat
    BY <2>1, NThreadsAssumption, FS_Interval
  <2>3. QED BY <2>1, <2>2 DEF NumberInv, Numberless
<1>2. Inv /\ NumberInv /\ [Next]_vars => NumberInv'
  BY NumberStep
<1>3. NumberInv => NumbersInRange
  BY DEF NumberInv, NumbersInRange
<1>4. QED BY <1>1, <1>2, <1>3, Invariance, PTL DEF Spec

-----------------------------------------------------------------------------
(* Nobody sleeps for ever: some thread can always run.                      *)

\* A thread can run unless it has not been created, has ended, waits for a
\* signal, or waits for a mutex that is held or a consumer that has not ended.
MainReady == main \in {"spawn_producer", "spawn"} \/ (main = "join" /\ cons[idx] = "exited")
ProducerReady ==
  /\ prod \notin {"unborn", "waiting", "end"}
  /\ prod \in {"lock", "relock", "lock_done"} => mutex = {}
ConsumerReady(c) ==
  /\ cons[c] \notin {"unborn", "waiting", "exited"}
  /\ cons[c] \in {"lock", "relock"} => mutex = {}

\* Until the process ends some thread can run, without a spurious wakeup: the
\* signals of one push or one pop to one thread are enough, although a signal
\* nobody waits for is lost (main.cpp:93, 171).
NeverStuck ==
  main # "exited" => MainReady \/ ProducerReady \/ \E c \in Consumers : ConsumerReady(c)

\* in_progress is true exactly while the producer is, and nothing is queued
\* before.
Early == {"unborn", "start"}
FlagShape ==
  /\ in_progress <=> prod \notin Early \cup {"end"}
  /\ prod \in Early => buffer = <<>>

\* The producer waits for a queue that is full, a consumer for one that is
\* empty.
FullShape == prod = "waiting" => Len(buffer) >= maxbuffer
EmptyShape == \A c \in Consumers : cons[c] = "wait" => buffer = <<>>

\* While a consumer waits, every queued task has another one that is awake.
Awake == Consumers \ At({"waiting", "exited"})
WakeShape == ConsumersWaiting # {} => Len(buffer) <= Cardinality(Awake)

\* main joins only what it has created.
BornShape ==
  /\ main # "spawn_producer" => prod # "unborn"
  /\ main = "spawn" => \A c \in 1 .. idx - 1 : cons[c] # "unborn"
  /\ main \in {"join", "exited"} => \A c \in Consumers : cons[c] # "unborn"

StuckInv == FlagShape /\ FullShape /\ EmptyShape /\ WakeShape /\ BornShape

\* A step changes the queue by a push, a pop or not at all.
LEMMA BufferKinds ==
  ASSUME Inv, [Next]_vars
  PROVE  ProducerPush \/ (\E c \in Consumers : Pop(c)) \/ buffer' = buffer
<1>1. ASSUME NEW c \in Consumers, Trans(c) PROVE buffer' = buffer
  BY <1>1 DEF Trans
<1>2. QED BY <1>1, StepKinds

\* What the flag and the empty queue say of the producer is kept.
LEMMA FlagStep ==
  ASSUME Inv, FlagShape, [Next]_vars
  PROVE  FlagShape'
<1>0. TypeOK /\ SpawnShape /\ PopNonEmpty
  BY DEF Inv
<1> USE DEF FlagShape, Early
<1>1. CASE MainStep
  BY <1>0, <1>1, MainFrame
<1>2. CASE ProducerStep
  <2>1. CASE ProducerStart \/ ReadWork \/ ReadSleep \/ ReadEof
    BY <2>1 DEF ProducerStart, ReadWork, ReadSleep, ReadEof, Produce
  <2>2. CASE ProducerLock \/ ProducerCheckFull \/ ProducerCheckRoom \/ ProducerRelock \/ ProducerPush
    BY <2>2 DEF ProducerLock, ProducerCheckFull, ProducerCheckRoom, ProducerRelock, ProducerPush, Produce
  <2>3. CASE ProducerSetDone \/ ProducerLockDone \/ ProducerBroadcast \/ ProducerClear
    BY <2>3 DEF ProducerSetDone, ProducerLockDone, ProducerBroadcast, ProducerClear, Produce
  <2>4. QED BY <1>2, <2>1, <2>2, <2>3 DEF ProducerStep
<1>3. ASSUME NEW c \in Consumers, ConsumerStep(c) PROVE FlagShape'
  <2>1. UNCHANGED flags /\ (prod' = prod \/ (prod = "waiting" /\ prod' = "relock"))
    BY <1>0, <1>3, ConsumerFrame
  <2>2. buffer = <<>> => buffer' = buffer
    <3>1. ASSUME NEW d \in Consumers, Pop(d) PROVE buffer # <<>>
      BY <1>0, <3>1 DEF Pop, Consume, PopNonEmpty
    <3>2. ~ProducerPush \/ prod' # prod
      BY DEF ProducerPush, Produce
    <3>3. ProducerPush => prod' = "getline" /\ prod = "push"
      BY DEF ProducerPush, Produce
    <3>4. QED BY <2>1, <3>1, <3>3, BufferKinds
  <2>3. QED BY <2>1, <2>2
<1>4. CASE SpuriousWake
  BY <1>0, <1>4, SpuriousFrame
<1>5. CASE UNCHANGED vars
  BY <1>5 DEF vars
<1>6. QED BY <1>1, <1>2, <1>3, <1>4, <1>5 DEF Next, Terminated

\* The producer waits for as long as the queue is full.
LEMMA FullStep ==
  ASSUME Inv, FullShape, [Next]_vars
  PROVE  FullShape'
<1>0. TypeOK /\ SpawnShape
  BY DEF Inv
<1>1. CASE ProducerPush
  BY <1>1 DEF ProducerPush, Produce, FullShape
<1>2. ASSUME NEW c \in Consumers, Pop(c) PROVE FullShape'
  BY <1>2 DEF Pop, SignalDecrement, FullShape
<1>3. CASE buffer' = buffer
  <2>1. prod' = "waiting" => prod = "waiting" \/ Len(buffer) >= maxbuffer
    <3>1. CASE ProducerStep
      <4>1. CASE ProducerCheckFull
        BY <4>1 DEF ProducerCheckFull
      <4>2. CASE ProducerStart \/ ReadWork \/ ReadSleep \/ ReadEof \/ ProducerLock \/ ProducerCheckRoom
        BY <4>2 DEF ProducerStart, ReadWork, ReadSleep, ReadEof, ProducerLock, ProducerCheckRoom, Produce
      <4>3. CASE ProducerRelock \/ ProducerPush \/ ProducerSetDone \/ ProducerLockDone
                   \/ ProducerBroadcast \/ ProducerClear
        BY <4>3 DEF ProducerRelock, ProducerPush, ProducerSetDone, ProducerLockDone, ProducerBroadcast,
           ProducerClear, Produce
      <4>4. QED BY <3>1, <4>1, <4>2, <4>3 DEF ProducerStep
    <3>2. CASE MainStep
      BY <1>0, <3>2, MainFrame
    <3>3. ASSUME NEW c \in Consumers, ConsumerStep(c) PROVE prod' = "waiting" => prod = "waiting"
      BY <1>0, <3>3, ConsumerFrame
    <3>4. CASE SpuriousWake
      BY <1>0, <3>4, SpuriousFrame
    <3>5. CASE UNCHANGED vars
      BY <3>5 DEF vars
    <3>6. QED BY <3>1, <3>2, <3>3, <3>4, <3>5 DEF Next, Terminated
  <2>2. QED BY <1>3, <2>1 DEF FullShape, maxbuffer
<1>4. QED BY <1>1, <1>2, <1>3, BufferKinds

\* What a consumer's step does to its own place: it waits only after it has
\* found the queue empty, and leaves only then or with the producer gone.
LEMMA ConsumerPlace ==
  ASSUME TypeOK, NEW c \in Consumers, ConsumerStep(c)
  PROVE  /\ cons'[c] = "wait" => buffer = <<>>
         /\ cons'[c] = "waiting" => cons[c] = "wait"
         /\ cons'[c] = "exited" => buffer = <<>> \/ ~in_progress
<1> USE DEF Consume, TypeOK
<1>1. CASE ReadId(c) \/ LoadThreads(c) \/ StoreThreads(c) \/ LoopTest(c)
  BY <1>1 DEF Load, Store, ReadId, LoadThreads, StoreThreads, LoopTest
<1>2. CASE LoadAsk(c) \/ StoreAsk(c) \/ ConsumerLock(c) \/ TestWork(c) \/ TestDone(c)
  BY <1>2 DEF Load, Store, LoadAsk, StoreAsk, ConsumerLock, TestWork, TestDone
<1>3. CASE TestEmpty(c) \/ ConsumerWait(c) \/ ConsumerRelock(c) \/ Pop(c)
  BY <1>3 DEF TestEmpty, ConsumerWait, ConsumerRelock, Pop
<1>4. CASE LoadReceive(c) \/ StoreReceive(c) \/ Trans(c)
  BY <1>4 DEF Load, Store, LoadReceive, StoreReceive, Trans
<1>5. CASE LoadComplete(c) \/ StoreComplete(c) \/ Tally(c)
  BY <1>5 DEF Load, Store, LoadComplete, StoreComplete, Tally
<1>6. QED BY <1>1, <1>2, <1>3, <1>4, <1>5 DEF ConsumerStep

\* Nothing is pushed between a consumer's test and its wait.
LEMMA EmptyStep ==
  ASSUME Inv, EmptyShape, [Next]_vars
  PROVE  EmptyShape'
<1>0. TypeOK /\ SpawnShape /\ MutualExclusion
  BY DEF Inv
<1>1. CASE ProducerPush
  <2>1. \A d \in Consumers : cons[d] # "wait"
    BY <1>1 DEF ProducerPush, Produce, Inv, MutualExclusion, Inside, ProdHolding, ConsHolding, Producer, Consumers
  <2>2. ProducerStep
    BY <1>1 DEF ProducerStep
  <2>3. QED BY <1>0, <2>1, <2>2, ProducerFrame DEF Woken, EmptyShape
<1>2. ASSUME NEW c \in Consumers, Pop(c) PROVE EmptyShape'
  <2>1. \A d \in Consumers \ {c} : cons[d] # "wait"
    BY <1>2 DEF Pop, Consume, Inv, MutualExclusion, Inside, ConsHolding
  <2>2. QED BY <1>0, <1>2, <2>1 DEF Pop, Consume, TypeOK, EmptyShape
<1>3. CASE buffer' = buffer
  <2>1. CASE MainStep
    BY <1>0, <1>3, <2>1, MainFrame DEF EmptyShape
  <2>2. CASE ProducerStep
    BY <1>0, <1>3, <2>2, ProducerFrame DEF Woken, EmptyShape
  <2>3. ASSUME NEW c \in Consumers, ConsumerStep(c) PROVE EmptyShape'
    BY <1>0, <1>3, <2>3, ConsumerFrame, ConsumerPlace DEF EmptyShape
  <2>4. CASE SpuriousWake
    BY <1>0, <1>3, <2>4, SpuriousFrame DEF Woken, EmptyShape
  <2>5. CASE UNCHANGED vars
    BY <2>5 DEF vars, EmptyShape
  <2>6. QED BY <2>1, <2>2, <2>3, <2>4, <2>5 DEF Next, Terminated
<1>4. QED BY <1>1, <1>2, <1>3, BufferKinds

\* A push wakes one consumer more if there is one to wake, and with tasks
\* queued no consumer goes to sleep or leaves while another one waits.
LEMMA WakeStep ==
  ASSUME Inv, HangInv, FlagShape, EmptyShape, WakeShape, [Next]_vars
  PROVE  WakeShape'
<1>0. TypeOK /\ SpawnShape /\ PopNonEmpty /\ buffer \in Seq(Nat \ {0}) /\ cons \in [Consumers -> ConsPC]
      /\ work_count \in Nat
  BY DEF Inv, TypeOK
<1>1. IsFiniteSet(Awake) /\ Cardinality(Awake) \in Nat /\ IsFiniteSet(Awake') /\ Cardinality(Awake') \in Nat
  <2>1. Awake \in SUBSET Consumers /\ Awake' \in SUBSET Consumers
    BY DEF Awake
  <2>2. QED BY <2>1, BetweenFinite
<1>2. CASE ProducerPush
  <2>1. CASE ConsumersWaiting = {}
    BY <1>2, <2>1 DEF ProducerPush, SignalIncrement, ConsumersWaiting, WakeShape
  <2>2. CASE ConsumersWaiting # {}
    <3>1. PICK c \in Consumers : cons[c] = "waiting" /\ cons' = [cons EXCEPT ![c] = "relock"]
      BY <1>2, <2>2 DEF ProducerPush, SignalIncrement, ConsumersWaiting
    <3>2. c \notin Awake /\ Awake' = Awake \cup {c}
      BY <1>0, <3>1 DEF Awake, At
    <3>3. Cardinality(Awake') = Cardinality(Awake) + 1
      BY <1>1, <3>2, FS_AddElement
    <3>4. Len(buffer') = Len(buffer) + 1
      BY <1>0, <1>2 DEF ProducerPush
    <3>5. Len(buffer) \in Nat
      BY <1>0
    <3>6. QED BY <1>1, <2>2, <3>3, <3>4, <3>5 DEF WakeShape
  <2>3. QED BY <2>1, <2>2
<1>3. ASSUME NEW c \in Consumers, Pop(c) PROVE WakeShape'
  <2>1. cons[c] = "pop" /\ cons' = [cons EXCEPT ![c] = "load_receive"] /\ buffer' = Tail(buffer) /\ buffer # <<>>
    BY <1>0, <1>3 DEF Pop, Consume, PopNonEmpty
  <2>2. Awake' = Awake /\ ConsumersWaiting' = ConsumersWaiting
    BY <1>0, <2>1 DEF Awake, At, ConsumersWaiting
  <2>3. Len(buffer') = Len(buffer) - 1 /\ Len(buffer) \in Nat
    BY <1>0, <2>1
  <2>4. QED BY <1>1, <2>2, <2>3 DEF WakeShape
<1>4. CASE buffer' = buffer /\ buffer = <<>>
  BY <1>1, <1>4 DEF WakeShape
<1>5. CASE buffer' = buffer /\ buffer # <<>>
  <2> SUFFICES ASSUME NEW w \in Consumers, cons'[w] = "waiting"
               PROVE  Len(buffer') <= Cardinality(Awake')
    BY DEF WakeShape, ConsumersWaiting
  <2>1. \A d \in Consumers : cons[d] # "wait"
    BY <1>5 DEF EmptyShape
  <2>2. cons[w] = "waiting" /\ Awake \subseteq Awake'
    <3>1. CASE MainStep
      BY <1>0, <3>1, MainFrame DEF Awake, At
    <3>2. CASE ProducerStep
      BY <1>0, <3>2, ProducerFrame DEF Woken, Awake, At
    <3>3. ASSUME NEW c \in Consumers, ConsumerStep(c) PROVE cons[w] = "waiting" /\ Awake \subseteq Awake'
      <4>1. /\ \A d \in Consumers \ {c} : cons'[d] = cons[d]
            /\ cons[c] \notin {"unborn", "waiting", "exited"} /\ cons'[c] # "waiting"
            /\ cons'[c] = "exited" => ~in_progress
        BY <1>0, <1>5, <2>1, <3>3, ConsumerFrame, ConsumerPlace
      <4>2. cons[w] = "waiting"
        BY <4>1
      <4>3. in_progress
        BY <1>5, <4>2 DEF HangInv, NoHanging, FlagShape
      <4>4. QED BY <4>1, <4>2, <4>3 DEF Awake, At
    <3>4. CASE SpuriousWake
      BY <1>0, <3>4, SpuriousFrame DEF Woken, Awake, At
    <3>5. CASE UNCHANGED vars
      BY <3>5 DEF vars, Awake, At
    <3>6. QED BY <3>1, <3>2, <3>3, <3>4, <3>5 DEF Next, Terminated
  <2>3. Cardinality(Awake) <= Cardinality(Awake')
    BY <1>1, <2>2, FS_Subset
  <2>4. Len(buffer) <= Cardinality(Awake) /\ Len(buffer) \in Nat
    BY <1>0, <2>2 DEF WakeShape, ConsumersWaiting
  <2>5. QED BY <1>1, <1>5, <2>3, <2>4
<1>6. QED BY <1>2, <1>3, <1>4, <1>5, BufferKinds

\* What main has created stays created.
LEMMA BornStep ==
  ASSUME Inv, BornShape, [Next]_vars
  PROVE  BornShape'
<1>0. /\ TypeOK /\ SpawnShape /\ idx \in Consumers /\ cons \in [Consumers -> ConsPC]
      /\ NThreads \in Nat /\ NThreads >= 1
  BY NThreadsAssumption DEF Inv, TypeOK
<1>1. CASE MainStep
  <2>1. CASE SpawnProducer
    BY <1>0, <2>1 DEF SpawnProducer, SpawnShape, BornShape
  <2>2. CASE SpawnConsumer
    <3>1. main = "spawn" /\ prod' = prod /\ cons' = [cons EXCEPT ![idx] = "begin"]
      BY <2>2 DEF SpawnConsumer
    <3>2. \A c \in 1 .. idx : cons'[c] # "unborn"
      <4>1. ASSUME NEW c \in 1 .. idx PROVE cons'[c] # "unborn"
        <5>1. c \in Consumers /\ (c = idx \/ c \in 1 .. idx - 1)
          BY <1>0 DEF Consumers
        <5>2. QED BY <1>0, <3>1, <5>1 DEF BornShape
      <4>2. QED BY <4>1
    <3>3. CASE idx < NThreads
      <4>1. main' = "spawn" /\ idx' = idx + 1
        BY <2>2, <3>3 DEF SpawnConsumer
      <4>2. \A c \in 1 .. idx' - 1 : c \in 1 .. idx
        BY <1>0, <4>1 DEF Consumers
      <4>3. QED BY <3>1, <3>2, <4>1, <4>2 DEF BornShape
    <3>4. CASE ~(idx < NThreads)
      <4>1. main' = "join" /\ \A c \in Consumers : c \in 1 .. idx
        BY <1>0, <2>2, <3>4 DEF SpawnConsumer, Consumers
      <4>2. QED BY <3>1, <3>2, <4>1 DEF BornShape
    <3>5. QED BY <3>3, <3>4
  <2>3. CASE JoinConsumer
    BY <2>3 DEF JoinConsumer, BornShape
  <2>4. QED BY <1>1, <2>1, <2>2, <2>3 DEF MainStep
<1>b. \A c \in 1 .. idx - 1 : c \in Consumers
  BY <1>0 DEF Consumers
<1>2. CASE ProducerStep
  BY <1>0, <1>b, <1>2, ProducerFrame DEF Woken, BornShape
<1>3. ASSUME NEW c \in Consumers, ConsumerStep(c) PROVE BornShape'
  BY <1>0, <1>b, <1>3, ConsumerFrame DEF BornShape
<1>4. CASE SpuriousWake
  BY <1>0, <1>b, <1>4, SpuriousFrame DEF Woken, BornShape
<1>5. CASE UNCHANGED vars
  BY <1>5 DEF vars, BornShape
<1>6. QED BY <1>1, <1>2, <1>3, <1>4, <1>5 DEF Next, Terminated

\* If nobody could run, the mutex would be free; then no producer that has ended
\* leaves a consumer waiting, and none that waits does, for the queue is full.
LEMMA StuckNowhere == Inv /\ HangInv /\ StuckInv => NeverStuck
<1> SUFFICES ASSUME Inv, HangInv, StuckInv, main # "exited", ~MainReady, ~ProducerReady,
                    \A c \in Consumers : ~ConsumerReady(c)
             PROVE  FALSE
  BY DEF NeverStuck
<1>0. /\ TypeOK /\ MutualExclusion /\ idx \in Consumers /\ main \in MainPC /\ prod \in ProdPC
      /\ cons \in [Consumers -> ConsPC] /\ buffer \in Seq(Nat \ {0})
  BY DEF Inv, TypeOK
<1>1. main = "join" /\ cons[idx] # "exited" /\ prod # "unborn" /\ \A c \in Consumers : cons[c] # "unborn"
  BY <1>0 DEF MainReady, MainPC, StuckInv, BornShape
<1>2. mutex = {}
  <2>1. prod \notin ProdHolding
    BY DEF ProducerReady, ProdHolding
  <2>2. \A c \in Consumers : cons[c] \notin ConsHolding
    BY DEF ConsumerReady, ConsHolding
  <2>3. QED BY <1>0, <2>1, <2>2 DEF MutualExclusion, Inside
<1>3. prod \in {"waiting", "end"} /\ \A c \in Consumers : cons[c] \in {"waiting", "exited"}
  BY <1>1, <1>2 DEF ProducerReady, ConsumerReady
<1>4. cons[idx] = "waiting"
  BY <1>0, <1>1, <1>3
<1>5. prod = "waiting"
  BY <1>0, <1>3, <1>4 DEF HangInv, NoHanging
<1>6. Cardinality(Awake) = 0
  <2>1. Awake = {}
    BY <1>3 DEF Awake, At
  <2>2. QED BY <2>1, FS_EmptySet
<1>7. Len(buffer) <= 0
  BY <1>0, <1>4, <1>6 DEF StuckInv, WakeShape, ConsumersWaiting
<1>8. Len(buffer) >= maxbuffer /\ maxbuffer >= 2
  BY <1>5, NThreadsAssumption DEF StuckInv, FullShape, maxbuffer
<1>9. QED BY <1>0, <1>7, <1>8, NThreadsAssumption DEF maxbuffer

\* For every number of consumers and every input, prodcon never comes to a state
\* in which all its threads wait for each other (main.cpp:85-87, 154-163).
THEOREM SomebodyRuns == Spec => []NeverStuck
<1>1. Init => HangInv /\ StuckInv
  <2>1. Init => HangInv
    BY DEF Init, HangInv, NoHanging, DoneShape
  <2>2. Init => StuckInv
    BY DEF Init, StuckInv, FlagShape, Early, FullShape, EmptyShape, WakeShape, ConsumersWaiting, BornShape
  <2>3. QED BY <2>1, <2>2
<1>2. Inv /\ HangInv /\ StuckInv /\ [Next]_vars => HangInv' /\ StuckInv'
  BY HangStep, FlagStep, FullStep, EmptyStep, WakeStep, BornStep DEF StuckInv
<1>3. QED BY <1>1, <1>2, StuckNowhere, Invariance, PTL DEF Spec
=============================================================================
