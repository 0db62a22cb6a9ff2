--------------------------- MODULE ProdconProofs ---------------------------
(***************************************************************************)
(* Proofs about Prodcon for every number of consumers: type correctness,   *)
(* mutual exclusion and no pop from an empty queue.                        *)
(***************************************************************************)
EXTENDS Prodcon, TLAPS

-----------------------------------------------------------------------------
(* The strengthening that makes the invariants inductive.                   *)

\* A consumer has a task exactly from its pop to the end of Trans.
Carrying == {"load_receive", "store_receive", "trans"}
HandShape == \A c \in Consumers : hand[c] # NoTask <=> cons[c] \in Carrying

\* Between a T line and its push at least one task has been counted.
PushShape ==
  prod \in {"lock", "check", "waiting", "relock", "push"} => work_count > 0

\* main has created neither the threads to come nor any of them twice.
SpawnShape ==
  /\ main = "spawn_producer" => idx = 1 /\ prod = "unborn"
  /\ main \in {"spawn_producer", "spawn"} =>
       \A c \in idx .. NThreads : cons[c] = "unborn"

\* The groups of variables are always expanded.
USE DEF mainVars, flags, input, queue, stats, tasks, locals, consVars

Inv ==
  /\ TypeOK
  /\ MutualExclusion
  /\ PopNonEmpty
  /\ HandShape
  /\ PushShape
  /\ SpawnShape

-----------------------------------------------------------------------------
(* Types.                                                                   *)

\* The part of TypeOK each group of variables has.
MainTypes == main \in MainPC /\ idx \in Consumers
InputTypes == in_progress \in BOOLEAN /\ done \in BOOLEAN /\ work_count \in Nat /\ sleep_count \in Nat
QueueTypes == mutex \in SUBSET (Consumers \cup {Producer}) /\ buffer \in Seq(Nat \ {0})
StatTypes ==
  /\ global \in [Global -> Nat]
  /\ reg \in [Consumers -> Nat]
  /\ thread_completed_tasks \in [Consumers -> Nat]
TaskTypes == hand \in [Consumers -> Nat] /\ finished \in SUBSET (Nat \ {0})
LocalTypes == id \in [Consumers -> Nat] /\ jobs_complete \in [Consumers -> Nat]

TypeAll ==
  /\ MainTypes /\ prod \in ProdPC /\ cons \in [Consumers -> ConsPC]
  /\ InputTypes /\ QueueTypes /\ StatTypes /\ TaskTypes /\ LocalTypes
  /\ spurious \in Nat

\* TypeOK is the conjunction of the types of its groups of variables.
LEMMA TypeParts == (TypeOK <=> TypeAll) /\ (TypeOK' <=> TypeAll')
  BY DEF TypeOK, TypeAll, MainTypes, InputTypes, QueueTypes, StatTypes, TaskTypes, LocalTypes

\* Types are kept by a step of main,
LEMMA MainTypeStep ==
  ASSUME TypeOK, MainStep
  PROVE  TypeOK'
<1>1. MainTypes /\ cons \in [Consumers -> ConsPC]
  BY TypeParts DEF TypeAll
<1>2. MainTypes'
  <2>1. idx' \in Consumers
    BY <1>1, NThreadsAssumption DEF MainTypes, MainStep, SpawnProducer, SpawnConsumer, JoinConsumer, Consumers
  <2>2. main' \in MainPC
    BY <1>1 DEF MainTypes, MainStep, SpawnProducer, SpawnConsumer, JoinConsumer, MainPC
  <2>3. QED BY <2>1, <2>2 DEF MainTypes
<1>3. prod' \in ProdPC /\ cons' \in [Consumers -> ConsPC]
  BY <1>1, TypeParts DEF TypeAll, MainStep, SpawnProducer, SpawnConsumer, JoinConsumer, ProdPC, ConsPC
<1>4. UNCHANGED <<flags, input, queue, consVars, spurious>>
  BY DEF MainStep, SpawnProducer, SpawnConsumer, JoinConsumer
<1>5. InputTypes' /\ QueueTypes' /\ StatTypes' /\ TaskTypes' /\ LocalTypes' /\ spurious' \in Nat
  BY <1>4, TypeParts DEF TypeAll, InputTypes, QueueTypes, StatTypes, TaskTypes, LocalTypes
<1>6. QED BY <1>2, <1>3, <1>5, TypeParts DEF TypeAll

\* by one of the producer,
LEMMA ProducerTypeStep ==
  ASSUME TypeOK, PushShape, ProducerStep
  PROVE  TypeOK'
<1>1. InputTypes /\ QueueTypes /\ cons \in [Consumers -> ConsPC]
  BY TypeParts DEF TypeAll
<1> USE DEF ProducerStep, ProducerStart, ReadWork, ReadSleep, ReadEof, ProducerLock, ProducerCheckFull,
    ProducerCheckRoom, ProducerRelock, ProducerPush, ProducerSetDone, ProducerLockDone,
    ProducerBroadcast, ProducerClear
<1>2. UNCHANGED <<mainVars, consVars, spurious>> /\ prod' \in ProdPC
  BY DEF Produce, ProdPC
<1>3. cons' \in [Consumers -> ConsPC]
  BY <1>1 DEF SignalIncrement, BroadcastIncrement, ConsumersWaiting, ConsPC
<1>4. mutex' \in SUBSET (Consumers \cup {Producer})
  BY <1>1 DEF QueueTypes, Acquire, Release
<1>5. buffer' \in Seq(Nat \ {0})
  <2>1. CASE ProducerPush
    <3>1. work_count \in Nat \ {0}
      BY <1>1, <2>1 DEF InputTypes, Produce, PushShape
    <3>2. QED BY <1>1, <2>1, <3>1 DEF QueueTypes
  <2>2. CASE ~ProducerPush
    BY <1>1, <2>2 DEF QueueTypes
  <2>3. QED BY <2>1, <2>2
<1>6. InputTypes'
  <2>1. CASE ReadWork \/ ReadSleep
    BY <1>1, <2>1 DEF InputTypes
  <2>2. CASE ~(ReadWork \/ ReadSleep)
    <3>1. UNCHANGED input /\ in_progress' \in BOOLEAN /\ done' \in BOOLEAN
      BY <1>1, <2>2 DEF InputTypes
    <3>2. QED BY <1>1, <3>1 DEF InputTypes
  <2>3. QED BY <2>1, <2>2
<1>7. MainTypes' /\ StatTypes' /\ TaskTypes' /\ LocalTypes' /\ spurious' \in Nat
  BY <1>2, TypeParts DEF TypeAll, MainTypes, StatTypes, TaskTypes, LocalTypes
<1>8. QED BY <1>2, <1>3, <1>4, <1>5, <1>6, <1>7, TypeParts DEF TypeAll, QueueTypes

\* by one of a consumer,
LEMMA ConsumerTypeStep ==
  ASSUME TypeOK, PopNonEmpty, HandShape, NEW c \in Consumers, ConsumerStep(c)
  PROVE  TypeOK'
<1>1. /\ QueueTypes /\ StatTypes /\ TaskTypes /\ LocalTypes
      /\ prod \in ProdPC /\ cons \in [Consumers -> ConsPC]
  BY TypeParts DEF TypeAll
<1> USE DEF ConsumerStep, ReadId, LoadThreads, StoreThreads, LoopTest, LoadAsk, StoreAsk, ConsumerLock,
    TestWork, TestDone, TestEmpty, ConsumerWait, ConsumerRelock, Pop, LoadReceive, StoreReceive, Trans,
    LoadComplete, StoreComplete, Tally
<1>2. UNCHANGED <<mainVars, flags, input, spurious>>
  BY DEF Consume, Load, Store
<1>3. cons' \in [Consumers -> ConsPC]
  BY <1>1 DEF Consume, Load, Store, ConsPC
<1>4. prod' \in ProdPC
  BY <1>1 DEF Load, Store, SignalDecrement, ProdPC
<1>5. mutex' \in SUBSET (Consumers \cup {Producer})
  BY <1>1 DEF Load, Store, QueueTypes, Acquire, Release
<1>6. buffer' \in Seq(Nat \ {0}) /\ TaskTypes'
  <2>1. CASE Pop(c)
    <3>1. buffer \in Seq(Nat \ {0}) /\ buffer # <<>>
      BY <1>1, <2>1 DEF QueueTypes, Consume, PopNonEmpty
    <3>2. Head(buffer) \in Nat /\ Tail(buffer) \in Seq(Nat \ {0})
      BY <3>1
    <3>3. QED BY <1>1, <2>1, <3>2 DEF TaskTypes
  <2>2. CASE Trans(c)
    <3>1. hand[c] \in Nat \ {0}
      BY <1>1, <2>2 DEF TaskTypes, Consume, HandShape, Carrying, NoTask
    <3>2. QED BY <1>1, <2>2, <3>1 DEF QueueTypes, TaskTypes, NoTask
  <2>3. CASE ~Pop(c) /\ ~Trans(c)
    <3>1. UNCHANGED <<buffer, hand, finished>>
      BY <2>3 DEF Load, Store
    <3>2. QED BY <1>1, <3>1 DEF QueueTypes, TaskTypes
  <2>4. QED BY <2>1, <2>2, <2>3
<1>7. StatTypes' /\ LocalTypes'
  <2>1. ASSUME NEW x \in Global, NEW from, NEW to, Load(c, x, from, to) PROVE StatTypes' /\ LocalTypes'
    BY <1>1, <2>1 DEF Load, StatTypes, LocalTypes
  <2>2. ASSUME NEW x \in Global, NEW from, NEW to, Store(c, x, from, to) PROVE StatTypes' /\ LocalTypes'
    BY <1>1, <2>2 DEF Store, StatTypes, LocalTypes
  <2>3. CASE ReadId(c)
    BY <1>1, <2>3 DEF StatTypes, LocalTypes, Global
  <2>4. CASE Tally(c)
    <3>1. jobs_complete' \in [Consumers -> Nat] /\ UNCHANGED <<global, reg, id>>
      BY <1>1, <2>4 DEF LocalTypes
    <3>2. thread_completed_tasks' \in [Consumers -> Nat]
      BY <1>1, <2>4, <3>1 DEF StatTypes
    <3>3. QED BY <1>1, <3>1, <3>2 DEF StatTypes, LocalTypes
  <2>5. CASE UNCHANGED <<stats, locals>>
    BY <1>1, <2>5 DEF StatTypes, LocalTypes
  <2>6. QED BY <2>1, <2>2, <2>3, <2>4, <2>5 DEF Global
<1>8. MainTypes' /\ InputTypes' /\ spurious' \in Nat
  BY <1>2, TypeParts DEF TypeAll, MainTypes, InputTypes
<1>9. QED BY <1>3, <1>4, <1>5, <1>6, <1>7, <1>8, TypeParts DEF TypeAll, QueueTypes

\* and so by every step.
LEMMA TypeStep ==
  ASSUME TypeOK, PopNonEmpty, HandShape, PushShape
  PROVE  [Next]_vars => TypeOK'
<1>1. ASSUME SpuriousWake PROVE TypeOK'
  <2>1. spurious' \in Nat
    BY <1>1, TypeParts DEF TypeAll, SpuriousWake
  <2>2. prod' \in ProdPC /\ cons' \in [Consumers -> ConsPC]
    BY <1>1, TypeParts DEF TypeAll, SpuriousWake, SignalDecrement, SignalIncrement, ConsumersWaiting, ProdPC, ConsPC
  <2>3. QED BY <1>1, <2>1, <2>2, TypeParts DEF TypeAll, SpuriousWake, MainTypes, InputTypes, QueueTypes, StatTypes, TaskTypes, LocalTypes
<1>2. ASSUME UNCHANGED vars PROVE TypeOK'
  BY <1>2 DEF TypeOK, vars
<1>3. QED BY <1>1, <1>2, MainTypeStep, ProducerTypeStep, ConsumerTypeStep DEF Next, Terminated

-----------------------------------------------------------------------------
(* What the steps of one thread leave alone.                                *)

\* A producer step moves a consumer only from waiting to relock.
Woken(d) == cons'[d] = cons[d] \/ (cons[d] = "waiting" /\ cons'[d] = "relock")

\* What a step of the producer leaves alone, and how it moves the others.
LEMMA ProducerFrame ==
  ASSUME TypeOK, ProducerStep
  PROVE  /\ main # "exited" /\ UNCHANGED <<mainVars, consVars, spurious>>
         /\ prod \notin {"unborn", "end"} /\ prod' # "unborn"
         /\ \A d \in Consumers : Woken(d)
<1> USE DEF Produce, Woken
<1>1. CASE ProducerPush
  BY <1>1 DEF ProducerPush, SignalIncrement, ConsumersWaiting, TypeOK
<1>2. CASE ProducerBroadcast
  BY <1>2 DEF ProducerBroadcast, BroadcastIncrement
<1>3. CASE ProducerStart \/ ReadWork \/ ReadSleep \/ ReadEof
  BY <1>3 DEF ProducerStart, ReadWork, ReadSleep, ReadEof
<1>4. CASE ProducerLock \/ ProducerCheckFull \/ ProducerCheckRoom \/ ProducerRelock
  BY <1>4 DEF ProducerLock, ProducerCheckFull, ProducerCheckRoom, ProducerRelock
<1>5. CASE ProducerSetDone \/ ProducerLockDone \/ ProducerClear
  BY <1>5 DEF ProducerSetDone, ProducerLockDone, ProducerClear
<1>6. QED BY <1>1, <1>2, <1>3, <1>4, <1>5 DEF ProducerStep

\* A consumer step moves no other consumer, and the producer only from
\* waiting to relock.
LEMMA ConsumerFrame ==
  ASSUME TypeOK, NEW c \in Consumers, ConsumerStep(c)
  PROVE  /\ main # "exited" /\ UNCHANGED <<mainVars, flags, input, spurious>>
         /\ prod' = prod \/ (prod = "waiting" /\ prod' = "relock")
         /\ cons[c] \notin {"unborn", "waiting", "exited"} /\ cons'[c] \notin {"unborn", "begin"}
         /\ \A d \in Consumers \ {c} : cons'[d] = cons[d]
<1> USE DEF Consume, TypeOK
<1>1. CASE ReadId(c) \/ LoadThreads(c) \/ StoreThreads(c) \/ LoopTest(c)
  BY <1>1 DEF Load, Store, ReadId, LoadThreads, StoreThreads, LoopTest
<1>2. CASE LoadAsk(c) \/ StoreAsk(c) \/ ConsumerLock(c) \/ TestWork(c) \/ TestDone(c)
  BY <1>2 DEF Load, Store, LoadAsk, StoreAsk, ConsumerLock, TestWork, TestDone
<1>3. CASE TestEmpty(c) \/ ConsumerWait(c) \/ ConsumerRelock(c) \/ Pop(c)
  BY <1>3 DEF TestEmpty, ConsumerWait, ConsumerRelock, Pop, SignalDecrement
<1>4. CASE LoadReceive(c) \/ StoreReceive(c) \/ Trans(c)
  BY <1>4 DEF Load, Store, LoadReceive, StoreReceive, Trans
<1>5. CASE LoadComplete(c) \/ StoreComplete(c) \/ Tally(c)
  BY <1>5 DEF Load, Store, LoadComplete, StoreComplete, Tally
<1>6. QED BY <1>1, <1>2, <1>3, <1>4, <1>5 DEF ConsumerStep

\* A step of main leaves everything alone but its own place and the threads
\* it creates; so does a spurious wakeup, but for a waiting thread.
LEMMA MainFrame ==
  ASSUME TypeOK, SpawnShape, MainStep
  PROVE  /\ UNCHANGED <<flags, input, queue, consVars, spurious>>
         /\ prod' = prod \/ (prod = "unborn" /\ prod' = "start")
         /\ \A d \in Consumers : cons'[d] = cons[d] \/ (cons[d] = "unborn" /\ cons'[d] = "begin")
<1>1. CASE SpawnProducer
  BY <1>1 DEF SpawnProducer, SpawnShape
<1>2. CASE SpawnConsumer
  <2>1. idx \in idx .. NThreads
    BY NThreadsAssumption DEF TypeOK, Consumers
  <2>2. cons[idx] = "unborn"
    BY <1>2, <2>1 DEF SpawnConsumer, SpawnShape
  <2>3. QED BY <1>2, <2>2 DEF SpawnConsumer, TypeOK
<1>3. CASE JoinConsumer
  BY <1>3 DEF JoinConsumer
<1>4. QED BY <1>1, <1>2, <1>3 DEF MainStep

\* A spurious wakeup moves the one it wakes and nothing else.
LEMMA SpuriousFrame ==
  ASSUME TypeOK, SpuriousWake
  PROVE  /\ UNCHANGED <<mainVars, flags, input, queue, consVars>>
         /\ prod' = prod \/ (prod = "waiting" /\ prod' = "relock")
         /\ \A d \in Consumers : Woken(d)
<1>1. CASE UNCHANGED cons
  BY <1>1 DEF SpuriousWake, SignalDecrement, Woken
<1>2. CASE SignalIncrement /\ UNCHANGED prod
  BY <1>2 DEF SpuriousWake, SignalIncrement, ConsumersWaiting, TypeOK, Woken
<1>3. QED BY <1>1, <1>2 DEF SpuriousWake

-----------------------------------------------------------------------------
(* The other conjuncts.                                                     *)

\* A line is counted before its push.
LEMMA PushStep ==
  ASSUME TypeOK, SpawnShape, PushShape
  PROVE  [Next]_vars => PushShape'
<1>1. ASSUME MainStep PROVE PushShape'
  BY <1>1, MainFrame DEF PushShape
<1>2. ASSUME ProducerStep PROVE PushShape'
  <2>1. CASE ReadWork
    BY <2>1 DEF ReadWork, PushShape, TypeOK
  <2>2. CASE ProducerStart \/ ReadSleep \/ ReadEof \/ ProducerSetDone \/ ProducerLockDone
               \/ ProducerBroadcast \/ ProducerClear \/ ProducerPush
    BY <2>2 DEF ProducerStart, ReadSleep, ReadEof, ProducerSetDone, ProducerLockDone,
       ProducerBroadcast, ProducerClear, ProducerPush, Produce, PushShape
  <2>3. CASE ProducerLock \/ ProducerCheckFull \/ ProducerCheckRoom \/ ProducerRelock
    BY <2>3 DEF ProducerLock, ProducerCheckFull, ProducerCheckRoom, ProducerRelock, Produce, PushShape
  <2>4. QED BY <1>2, <2>1, <2>2, <2>3 DEF ProducerStep
<1>3. ASSUME NEW c \in Consumers, ConsumerStep(c) PROVE PushShape'
  BY <1>3, ConsumerFrame DEF PushShape
<1>4. ASSUME SpuriousWake PROVE PushShape'
  BY <1>4, SpuriousFrame DEF PushShape
<1>5. ASSUME UNCHANGED vars PROVE PushShape'
  BY <1>5 DEF vars, PushShape
<1>6. QED BY <1>1, <1>2, <1>3, <1>4, <1>5 DEF Next, Terminated

\* main creates no thread twice.
LEMMA SpawnStep ==
  ASSUME TypeOK, SpawnShape
  PROVE  [Next]_vars => SpawnShape'
<1>1. ASSUME MainStep PROVE SpawnShape'
  <2>1. CASE SpawnProducer
    BY <2>1 DEF SpawnProducer, SpawnShape
  <2>2. CASE SpawnConsumer
    <3>1. idx \in Int /\ NThreads \in Int
      BY NThreadsAssumption DEF TypeOK, Consumers
    <3>2. CASE idx < NThreads
      <4>1. ASSUME NEW d \in idx' .. NThreads PROVE cons'[d] = "unborn"
        <5>1. d \in idx .. NThreads /\ d # idx
          BY <2>2, <3>1, <3>2 DEF SpawnConsumer
        <5>2. d \in Consumers
          BY <5>1, <3>1 DEF TypeOK, Consumers
        <5>3. QED BY <2>2, <5>1, <5>2 DEF SpawnConsumer, SpawnShape, TypeOK
      <4>2. QED BY <2>2, <3>2, <4>1 DEF SpawnConsumer, SpawnShape
    <3>3. CASE ~(idx < NThreads)
      BY <2>2, <3>3 DEF SpawnConsumer, SpawnShape
    <3>4. QED BY <3>2, <3>3
  <2>3. CASE JoinConsumer
    BY <2>3 DEF JoinConsumer, SpawnShape
  <2>4. QED BY <1>1, <2>1, <2>2, <2>3 DEF MainStep
<1>2. ASSUME ProducerStep PROVE SpawnShape'
  <2>1. \A d \in idx .. NThreads : d \in Consumers
    BY NThreadsAssumption DEF TypeOK, Consumers
  <2>2. QED BY <1>2, <2>1, ProducerFrame DEF SpawnShape, Woken
<1>3. ASSUME NEW c \in Consumers, ConsumerStep(c) PROVE SpawnShape'
  <2>1. \A d \in idx .. NThreads : d \in Consumers
    BY NThreadsAssumption DEF TypeOK, Consumers
  <2>2. QED BY <1>3, <2>1, ConsumerFrame DEF SpawnShape
<1>4. ASSUME SpuriousWake PROVE SpawnShape'
  <2>1. \A d \in idx .. NThreads : d \in Consumers
    BY NThreadsAssumption DEF TypeOK, Consumers
  <2>2. QED BY <1>4, <2>1, SpuriousFrame DEF SpawnShape, Woken
<1>5. ASSUME UNCHANGED vars PROVE SpawnShape'
  BY <1>5 DEF vars, SpawnShape
<1>6. QED BY <1>1, <1>2, <1>3, <1>4, <1>5 DEF Next, Terminated

\* A step that moves nobody into or out of a critical region.
LEMMA InsideFrame ==
  ASSUME mutex' = mutex,
         prod' \in ProdHolding <=> prod \in ProdHolding,
         \A d \in Consumers : cons'[d] \in ConsHolding <=> cons[d] \in ConsHolding,
         MutualExclusion
  PROVE  MutualExclusion'
  BY DEF MutualExclusion, Inside

\* No step lets two threads into the critical region.
LEMMA MutexStep ==
  ASSUME TypeOK, SpawnShape, MutualExclusion
  PROVE  [Next]_vars => MutualExclusion'
<1>1. ASSUME MainStep PROVE MutualExclusion'
  BY <1>1, MainFrame, InsideFrame DEF ProdHolding, ConsHolding
<1>2. ASSUME ProducerStep PROVE MutualExclusion'
  <2> USE <1>2, ProducerFrame DEF Woken, Produce, ConsHolding, ProdHolding
  <2>1. CASE ProducerLock \/ ProducerRelock \/ ProducerLockDone
    <3>1. mutex = {} /\ mutex' = {Producer} /\ prod' \in ProdHolding
      BY <2>1 DEF ProducerLock, ProducerRelock, ProducerLockDone, Acquire
    <3>2. QED BY <3>1 DEF MutualExclusion, Inside
  <2>2. CASE ProducerCheckFull \/ ProducerPush \/ ProducerBroadcast
    <3>1. prod \in ProdHolding /\ prod' \notin ProdHolding /\ mutex' = mutex \ {Producer}
      BY <2>2 DEF ProducerCheckFull, ProducerPush, ProducerBroadcast, Release
    <3>2. mutex = {Producer} /\ \A d \in Consumers : cons[d] \notin ConsHolding
      BY <3>1 DEF MutualExclusion, Inside, Producer, Consumers
    <3>3. QED BY <3>1, <3>2 DEF MutualExclusion, Inside
  <2>3. CASE ProducerStart \/ ReadWork \/ ReadSleep \/ ReadEof \/ ProducerCheckRoom
               \/ ProducerSetDone \/ ProducerClear
    BY <2>3, InsideFrame DEF ProducerStart, ReadWork, ReadSleep, ReadEof, ProducerCheckRoom,
       ProducerSetDone, ProducerClear
  <2>4. QED BY <2>1, <2>2, <2>3 DEF ProducerStep
<1>3. ASSUME NEW c \in Consumers, ConsumerStep(c) PROVE MutualExclusion'
  <2> USE <1>3, ConsumerFrame DEF Consume, ConsHolding, ProdHolding
  <2>1. CASE ConsumerLock(c) \/ ConsumerRelock(c)
    <3>1. mutex = {} /\ mutex' = {c} /\ cons'[c] \in ConsHolding
      BY <2>1 DEF ConsumerLock, ConsumerRelock, Acquire, TypeOK
    <3>2. QED BY <3>1 DEF MutualExclusion, Inside
  <2>2. CASE TestDone(c) \/ ConsumerWait(c) \/ Pop(c)
    <3>1. cons[c] \in ConsHolding /\ cons'[c] \notin ConsHolding /\ mutex' = mutex \ {c}
      BY <2>2 DEF TestDone, ConsumerWait, Pop, Release, TypeOK
    <3>2. mutex = {c} /\ prod \notin ProdHolding
                /\ \A d \in Consumers \ {c} : cons[d] \notin ConsHolding
      BY <3>1 DEF MutualExclusion, Inside, Producer, Consumers
    <3>3. QED BY <3>1, <3>2 DEF MutualExclusion, Inside
  <2>3. CASE ReadId(c) \/ LoadThreads(c) \/ StoreThreads(c) \/ LoopTest(c) \/ LoadAsk(c) \/ StoreAsk(c)
    BY <2>3, InsideFrame DEF Load, Store, ReadId, LoadThreads, StoreThreads, LoopTest, LoadAsk, StoreAsk, TypeOK
  <2>4. CASE TestWork(c) \/ TestEmpty(c) \/ LoadReceive(c) \/ StoreReceive(c)
    BY <2>4, InsideFrame DEF Load, Store, TestWork, TestEmpty, LoadReceive, StoreReceive, TypeOK
  <2>5. CASE Trans(c) \/ LoadComplete(c) \/ StoreComplete(c) \/ Tally(c)
    BY <2>5, InsideFrame DEF Load, Store, Trans, LoadComplete, StoreComplete, Tally, TypeOK
  <2>6. QED BY <2>1, <2>2, <2>3, <2>4, <2>5 DEF ConsumerStep
<1>4. ASSUME SpuriousWake PROVE MutualExclusion'
  BY <1>4, SpuriousFrame, InsideFrame DEF Woken, ConsHolding, ProdHolding
<1>5. ASSUME UNCHANGED vars PROVE MutualExclusion'
  BY <1>5, InsideFrame DEF vars
<1>6. QED BY <1>1, <1>2, <1>3, <1>4, <1>5 DEF Next, Terminated

\* Only the holder of the mutex shrinks the queue, so what a consumer has
\* seen stays there until its own pop.
LEMMA PopStep ==
  ASSUME TypeOK, SpawnShape, MutualExclusion, PopNonEmpty
  PROVE  [Next]_vars => PopNonEmpty'
<1>1. ASSUME MainStep PROVE PopNonEmpty'
  BY <1>1, MainFrame DEF PopNonEmpty
<1>2. ASSUME ProducerStep PROVE PopNonEmpty'
  <2>1. CASE ProducerPush
    <3>1. buffer' # <<>>
      BY <2>1 DEF ProducerPush, TypeOK
    <3>2. QED BY <3>1 DEF PopNonEmpty
  <2>2. CASE ~ProducerPush
    <3>1. buffer' = buffer
      BY <1>2, <2>2 DEF ProducerStep, ProducerStart, ReadWork, ReadSleep, ReadEof, ProducerLock,
         ProducerCheckFull, ProducerCheckRoom, ProducerRelock, ProducerSetDone, ProducerLockDone,
         ProducerBroadcast, ProducerClear
    <3>2. QED BY <1>2, <3>1, ProducerFrame DEF Woken, PopNonEmpty
  <2>3. QED BY <2>1, <2>2
<1>3. ASSUME NEW c \in Consumers, ConsumerStep(c) PROVE PopNonEmpty'
  <2>1. CASE Pop(c)
    <3>1. \A d \in Consumers : cons[d] = "pop" => d = c
      BY <2>1 DEF Pop, Consume, MutualExclusion, Inside, ConsHolding
    <3>2. QED BY <2>1, <3>1 DEF Pop, Consume, TypeOK, PopNonEmpty
  <2>2. CASE TestWork(c)
    BY <2>2 DEF TestWork, Consume, TypeOK, PopNonEmpty
  <2>3. CASE ~Pop(c) /\ ~TestWork(c)
    <3>1. buffer' = buffer /\ cons'[c] # "pop"
      BY <1>3, <2>3 DEF Load, Store, ConsumerStep, ReadId, LoadThreads, StoreThreads, LoopTest, LoadAsk, StoreAsk,
         ConsumerLock, TestDone, TestEmpty, ConsumerWait, ConsumerRelock, LoadReceive, StoreReceive,
         Trans, LoadComplete, StoreComplete, Tally, Consume, TypeOK
    <3>2. QED BY <1>3, <3>1, ConsumerFrame DEF PopNonEmpty
  <2>4. QED BY <2>1, <2>2, <2>3
<1>4. ASSUME SpuriousWake PROVE PopNonEmpty'
  BY <1>4, SpuriousFrame DEF Woken, PopNonEmpty
<1>5. ASSUME UNCHANGED vars PROVE PopNonEmpty'
  BY <1>5 DEF vars, PopNonEmpty
<1>6. QED BY <1>1, <1>2, <1>3, <1>4, <1>5 DEF Next, Terminated

\* A consumer has a task exactly between its pop and the end of its work.
LEMMA HandStep ==
  ASSUME TypeOK, SpawnShape, PopNonEmpty, HandShape
  PROVE  [Next]_vars => HandShape'
<1> USE DEF HandShape, Carrying
<1>1. ASSUME MainStep PROVE HandShape'
  BY <1>1, MainFrame
<1>2. ASSUME ProducerStep PROVE HandShape'
  BY <1>2, ProducerFrame DEF Woken
<1>3. ASSUME NEW c \in Consumers, ConsumerStep(c) PROVE HandShape'
  <2> USE <1>3, ConsumerFrame DEF Consume, TypeOK
  <2>1. CASE Pop(c)
    <3>1. Head(buffer) # NoTask
      BY <2>1 DEF Pop, PopNonEmpty, NoTask
    <3>2. QED BY <2>1, <3>1 DEF Pop
  <2>2. CASE Trans(c)
    BY <2>2 DEF Trans
  <2>3. CASE ReadId(c) \/ LoadThreads(c) \/ StoreThreads(c) \/ LoopTest(c) \/ LoadAsk(c) \/ StoreAsk(c)
    BY <2>3 DEF Load, Store, ReadId, LoadThreads, StoreThreads, LoopTest, LoadAsk, StoreAsk
  <2>4. CASE ConsumerLock(c) \/ TestWork(c) \/ TestDone(c) \/ TestEmpty(c) \/ ConsumerWait(c)
               \/ ConsumerRelock(c)
    BY <2>4 DEF ConsumerLock, TestWork, TestDone, TestEmpty, ConsumerWait, ConsumerRelock
  <2>5. CASE LoadReceive(c) \/ StoreReceive(c) \/ LoadComplete(c) \/ StoreComplete(c) \/ Tally(c)
    BY <2>5 DEF Load, Store, LoadReceive, StoreReceive, LoadComplete, StoreComplete, Tally
  <2>6. QED BY <2>1, <2>2, <2>3, <2>4, <2>5 DEF ConsumerStep
<1>4. ASSUME SpuriousWake PROVE HandShape'
  BY <1>4, SpuriousFrame DEF Woken
<1>5. ASSUME UNCHANGED vars PROVE HandShape'
  BY <1>5 DEF vars
<1>6. QED BY <1>1, <1>2, <1>3, <1>4, <1>5 DEF Next, Terminated

-----------------------------------------------------------------------------
(* The invariant holds in every reachable state.                            *)

\* Nothing has started: the invariant holds.
LEMMA InvInit == Init => Inv
<1> SUFFICES ASSUME Init PROVE Inv
  OBVIOUS
<1>1. TypeOK
  <2>1. idx \in Consumers
    BY NThreadsAssumption DEF Init, Consumers
  <2>2. main \in MainPC /\ prod \in ProdPC /\ cons \in [Consumers -> ConsPC]
    BY DEF Init, MainPC, ProdPC, ConsPC
  <2>3. buffer \in Seq(Nat \ {0}) /\ finished \in SUBSET (Nat \ {0})
    BY DEF Init
  <2>4. /\ id \in [Consumers -> Nat] /\ jobs_complete \in [Consumers -> Nat]
        /\ hand \in [Consumers -> Nat] /\ reg \in [Consumers -> Nat]
        /\ thread_completed_tasks \in [Consumers -> Nat]
    BY DEF Init, NoTask
  <2>5. QED BY <2>1, <2>2, <2>3, <2>4 DEF Init, TypeOK
<1>2. MutualExclusion /\ PopNonEmpty
  BY DEF Init, MutualExclusion, Inside, ProdHolding, ConsHolding, PopNonEmpty
<1>3. HandShape /\ PushShape
  BY DEF Init, HandShape, Carrying, PushShape
<1>4. SpawnShape
  BY DEF Init, SpawnShape, Consumers
<1>5. QED BY <1>1, <1>2, <1>3, <1>4 DEF Inv

\* The parts of the invariant keep one another.
THEOREM Invariance == Spec => []Inv
<1>1. Inv /\ [Next]_vars => Inv'
  BY TypeStep, MutexStep, PopStep, HandStep, PushStep, SpawnStep DEF Inv
<1>2. QED BY InvInit, <1>1, PTL DEF Spec

\* The variables of main.cpp keep their types, for every number of consumers.
THEOREM TypeCorrect == Spec => []TypeOK
  BY Invariance, PTL DEF Inv

\* The mutex is held by exactly the one thread that is in a critical region.
THEOREM MutexHolds == Spec => []MutualExclusion
  BY Invariance, PTL DEF Inv

\* buffer.front() is never called on an empty queue.
THEOREM PopSafe == Spec => []PopNonEmpty
  BY Invariance, PTL DEF Inv

=============================================================================
