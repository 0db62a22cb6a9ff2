------------------------------ MODULE Prodcon ------------------------------
(***************************************************************************)
(* prodcon (Assignment_2/f22/main.cpp): one producer thread reads lines    *)
(* from standard input and hands T lines to nthreads consumer threads      *)
(* through a queue of at most maxbuffer entries, under one pthread mutex   *)
(* and two condition variables, increment (consumers wait on it) and       *)
(* decrement (the producer waits on it).  The main thread creates the      *)
(* threads, joins the consumers only, prints a summary and exits, which    *)
(* ends every thread still running.                                        *)
(*                                                                         *)
(* A step is one access to memory that another thread can touch without    *)
(* the mutex, or one critical region between two such accesses.  x++ on a  *)
(* global is a load and a store (the makefile compiles without -O), so two *)
(* unlocked increments may lose one.  A task is named by the value         *)
(* work_count has after its T line.  Logging and the duration of Trans     *)
(* and Sleep are left out.                                                 *)
(***************************************************************************)
EXTENDS Integers, Sequences, FiniteSets, Tallies

CONSTANTS
  NThreads,     \* nthreads, the first command line argument
  MaxLines,     \* bound: T and S lines in the input
  MaxSpurious   \* bound: spurious wakeups of pthread_cond_wait

ASSUME NThreadsAssumption == NThreads \in Nat \ {0}
ASSUME BoundsAssumption == MaxLines \in Nat /\ MaxSpurious \in Nat

maxbuffer == NThreads * 2
Consumers == 1 .. NThreads
Producer == 0
NoTask == 0

\* The globals that consumers increment without the mutex.
Global == {"consumeThreads", "ask_count", "receive_count", "complete_count"}

VARIABLES
  main, idx,               \* where main() is, and its loop index i
  prod, cons,              \* where the producer and each consumer are
  in_progress, done, work_count, sleep_count,
  mutex, buffer,           \* the threads holding the mutex; the queue
  global,                  \* the value of each unlocked global
  id, jobs_complete,       \* the consumers' local variables
  hand,                    \* the consumer's local "command": the task it took
  reg,                     \* the value loaded by a consumer's unlocked x++
  thread_completed_tasks,
  finished,                \* history: the tasks whose Trans has returned
  spurious                 \* spurious wakeups so far

mainVars == <<main, idx>>
flags == <<in_progress, done>>
input == <<work_count, sleep_count>>
queue == <<mutex, buffer>>
stats == <<global, reg, thread_completed_tasks>>
tasks == <<hand, finished>>
locals == <<id, jobs_complete>>
consVars == <<stats, tasks, locals>>
vars == <<mainVars, prod, cons, flags, input, queue, consVars, spurious>>

MainPC == {"spawn_producer", "spawn", "join", "exited"}
ProdPC == {"unborn", "start", "getline", "lock", "check", "waiting", "relock",
           "push", "set_done", "lock_done", "broadcast", "clear", "end"}
ConsPC == {"unborn", "begin", "load_threads", "store_threads", "loop",
           "load_ask", "store_ask", "lock", "test", "wait", "waiting", "relock",
           "pop", "load_receive", "store_receive", "trans", "load_complete",
           "store_complete", "tally", "exited"}

Init ==
  /\ main = "spawn_producer" /\ idx = 1
  /\ prod = "unborn" /\ cons = [c \in Consumers |-> "unborn"]
  /\ in_progress = FALSE /\ done = FALSE
  /\ work_count = 0 /\ sleep_count = 0
  /\ mutex = {} /\ buffer = <<>>
  /\ global = [x \in Global |-> IF x = "consumeThreads" THEN 1 ELSE 0]
  /\ id = [c \in Consumers |-> 0] /\ jobs_complete = [c \in Consumers |-> 0]
  /\ hand = [c \in Consumers |-> NoTask]
  /\ reg = [c \in Consumers |-> 0]
  /\ thread_completed_tasks = [k \in Consumers |-> 0]
  /\ finished = {}
  /\ spurious = 0

-----------------------------------------------------------------------------
(* The mutex, the condition variables and the threads' places.              *)

Acquire(t) == mutex = {} /\ mutex' = {t}
Release(t) == mutex' = mutex \ {t}

ConsumersWaiting == {c \in Consumers : cons[c] = "waiting"}

\* pthread_cond_signal(&increment): some waiting consumer wakes, if there is one.
SignalIncrement ==
  IF ConsumersWaiting = {} THEN UNCHANGED cons
  ELSE \E c \in ConsumersWaiting : cons' = [cons EXCEPT ![c] = "relock"]

\* pthread_cond_broadcast(&increment)
BroadcastIncrement ==
  cons' = [c \in Consumers |-> IF cons[c] = "waiting" THEN "relock" ELSE cons[c]]

\* pthread_cond_signal(&decrement)
SignalDecrement == prod' = IF prod = "waiting" THEN "relock" ELSE prod

\* pthread_cond_wait may also return without a signal.
SpuriousWake ==
  /\ main # "exited"
  /\ spurious < MaxSpurious /\ spurious' = spurious + 1
  /\ \/ prod = "waiting" /\ SignalDecrement /\ UNCHANGED cons
     \/ ConsumersWaiting # {} /\ SignalIncrement /\ UNCHANGED prod
  /\ UNCHANGED <<mainVars, flags, input, queue, consVars>>

\* A thread goes from one place to the next; it lives as long as main runs.
Produce(from, to) ==
  /\ main # "exited" /\ prod = from /\ prod' = to
  /\ UNCHANGED <<mainVars, consVars, spurious>>

Consume(c, from, to) ==
  /\ main # "exited" /\ cons[c] = from /\ cons' = [cons EXCEPT ![c] = to]
  /\ UNCHANGED <<mainVars, flags, input, spurious>>

\* An unlocked x++: the value goes to a register, the register plus one goes
\* back, and the register is dead.
Load(c, x, from, to) ==
  /\ Consume(c, from, to)
  /\ reg' = [reg EXCEPT ![c] = global[x]]
  /\ UNCHANGED <<prod, queue, global, thread_completed_tasks, tasks, locals>>

Store(c, x, from, to) ==
  /\ Consume(c, from, to)
  /\ global' = [global EXCEPT ![x] = reg[c] + 1]
  /\ reg' = [reg EXCEPT ![c] = 0]
  /\ UNCHANGED <<prod, queue, thread_completed_tasks, tasks, locals>>

-----------------------------------------------------------------------------
(* Mutants: plausible slips in the code, each breaking a property below.    *)

\* for (i = 0; i <= nthreads; ++i) around the creation of consumers
SpawnConsumerOffByOne ==
  /\ main = "spawn"
  /\ cons' = [c \in Consumers |-> IF c = idx THEN "begin" ELSE cons[c]]
  /\ idx' = idx + 1
  /\ main' = IF idx <= NThreads THEN main ELSE "join"
  /\ UNCHANGED <<prod, flags, input, queue, consVars, spurious>>

\* the early return of a consumer keeps the mutex
TestDoneKeepsMutex(c) ==
  buffer = <<>> /\ done /\ Consume(c, "test", "exited") /\ UNCHANGED <<prod, queue, consVars>>

\* "if (buffer.empty())" instead of "while"
ConsumerRelockIf(c) == Consume(c, "relock", "pop") /\ Acquire(c) /\ UNCHANGED <<prod, buffer, consVars>>

\* "if (size >= maxbuffer)" instead of "while"
ProducerRelockIf ==
  Produce("relock", "push") /\ Acquire(Producer) /\ UNCHANGED <<flags, input, cons, buffer>>

\* the newest entry is taken instead of the oldest
PopNewest(c) ==
  /\ Consume(c, "pop", "load_receive") /\ SignalDecrement /\ Release(c)
  /\ hand' = [hand EXCEPT ![c] = buffer[Len(buffer)]]
  /\ buffer' = SubSeq(buffer, 1, Len(buffer) - 1)
  /\ UNCHANGED <<stats, finished, locals>>

\* front() without pop()
PopKeepsFront(c) ==
  /\ Consume(c, "pop", "load_receive") /\ SignalDecrement /\ Release(c)
  /\ hand' = [hand EXCEPT ![c] = Head(buffer)]
  /\ UNCHANGED <<buffer, stats, finished, locals>>

\* no signal to the producer after a pop
PopSilent(c) ==
  /\ Consume(c, "pop", "load_receive") /\ Release(c)
  /\ hand' = [hand EXCEPT ![c] = Head(buffer)]
  /\ buffer' = Tail(buffer)
  /\ UNCHANGED <<prod, stats, finished, locals>>

\* the broadcast outside the mutex
ProducerLockDoneNoLock == Produce("lock_done", "broadcast") /\ UNCHANGED <<flags, input, cons, queue>>

\* a signal where the broadcast is
ProducerSignalDone ==
  Produce("broadcast", "clear") /\ SignalIncrement /\ Release(Producer) /\ UNCHANGED <<flags, input, buffer>>

\* the call of Trans is skipped
StoreReceiveNoTrans(c) == Store(c, "receive_count", "store_receive", "load_complete")

\* thread_completed_tasks[id] += jobs_complete
TallyAdds(c) ==
  /\ Consume(c, "tally", "loop")
  /\ jobs_complete' = [jobs_complete EXCEPT ![c] = @ + 1]
  /\ thread_completed_tasks' = [thread_completed_tasks EXCEPT ![id[c]] = @ + jobs_complete'[c]]
  /\ UNCHANGED <<prod, queue, global, reg, tasks, id>>

\* the last consumer is not joined
JoinConsumerOffByOne ==
  /\ main = "join" /\ cons[idx] = "exited"
  /\ IF idx < NThreads - 1 THEN idx' = idx + 1 /\ UNCHANGED main
     ELSE main' = "exited" /\ UNCHANGED idx
  /\ UNCHANGED <<prod, cons, flags, input, queue, consVars, spurious>>

-----------------------------------------------------------------------------
(* producer(), main.cpp:60-127.                                             *)

ProducerStart == Produce("start", "getline") /\ in_progress' = TRUE /\ UNCHANGED <<done, input, cons, queue>>

MoreInput == work_count + sleep_count < MaxLines

ReadWork ==
  /\ MoreInput /\ Produce("getline", "lock")
  /\ work_count' = work_count + 1
  /\ UNCHANGED <<flags, sleep_count, cons, queue>>

ReadSleep ==
  /\ MoreInput /\ Produce("getline", "getline")
  /\ sleep_count' = sleep_count + 1
  /\ UNCHANGED <<flags, work_count, cons, queue>>

ReadEof == Produce("getline", "set_done") /\ UNCHANGED <<flags, input, cons, queue>>

ProducerLock == Produce("lock", "check") /\ Acquire(Producer) /\ UNCHANGED <<flags, input, cons, buffer>>

ProducerCheckFull ==
  /\ Len(buffer) >= maxbuffer
  /\ Produce("check", "waiting") /\ Release(Producer)
  /\ UNCHANGED <<flags, input, cons, buffer>>

ProducerCheckRoom ==
  /\ Len(buffer) < maxbuffer
  /\ Produce("check", "push")
  /\ UNCHANGED <<flags, input, cons, queue>>

ProducerRelock == Produce("relock", "check") /\ Acquire(Producer) /\ UNCHANGED <<flags, input, cons, buffer>>

ProducerPush ==
  /\ Produce("push", "getline")
  /\ buffer' = Append(buffer, work_count)
  /\ SignalIncrement /\ Release(Producer)
  /\ UNCHANGED <<flags, input>>

ProducerSetDone == Produce("set_done", "lock_done") /\ done' = TRUE /\ UNCHANGED <<in_progress, input, cons, queue>>

ProducerLockDone == Produce("lock_done", "broadcast") /\ Acquire(Producer) /\ UNCHANGED <<flags, input, cons, buffer>>

ProducerBroadcast ==
  Produce("broadcast", "clear") /\ BroadcastIncrement /\ Release(Producer) /\ UNCHANGED <<flags, input, buffer>>

ProducerClear == Produce("clear", "end") /\ in_progress' = FALSE /\ UNCHANGED <<done, input, cons, queue>>

ProducerStep ==
  \/ ProducerStart \/ ReadWork \/ ReadSleep \/ ReadEof
  \/ ProducerLock \/ ProducerCheckFull \/ ProducerCheckRoom \/ ProducerRelock \/ ProducerPush
  \/ ProducerSetDone \/ ProducerLockDone \/ ProducerBroadcast \/ ProducerClear

-----------------------------------------------------------------------------
(* consume(), main.cpp:132-206.                                             *)

ReadId(c) ==
  /\ Consume(c, "begin", "load_threads")
  /\ id' = [id EXCEPT ![c] = global["consumeThreads"]]
  /\ UNCHANGED <<prod, queue, stats, tasks, jobs_complete>>

LoadThreads(c) == Load(c, "consumeThreads", "load_threads", "store_threads")
StoreThreads(c) == Store(c, "consumeThreads", "store_threads", "loop")

\* while (in_progress)
LoopTest(c) ==
  Consume(c, "loop", IF in_progress THEN "load_ask" ELSE "exited") /\ UNCHANGED <<prod, queue, consVars>>

LoadAsk(c) == Load(c, "ask_count", "load_ask", "store_ask")
StoreAsk(c) == Store(c, "ask_count", "store_ask", "lock")

ConsumerLock(c) == Consume(c, "lock", "test") /\ Acquire(c) /\ UNCHANGED <<prod, buffer, consVars>>

\* while (buffer.empty()): there is work,
TestWork(c) == buffer # <<>> /\ Consume(c, "test", "pop") /\ UNCHANGED <<prod, queue, consVars>>

\* or there is none and the producer is done,
TestDone(c) ==
  buffer = <<>> /\ done /\ Consume(c, "test", "exited") /\ Release(c) /\ UNCHANGED <<prod, buffer, consVars>>

\* or there is none yet: done, which is written without the mutex, may be
\* set between this test and the wait.
TestEmpty(c) == buffer = <<>> /\ ~done /\ Consume(c, "test", "wait") /\ UNCHANGED <<prod, queue, consVars>>

ConsumerWait(c) == Consume(c, "wait", "waiting") /\ Release(c) /\ UNCHANGED <<prod, buffer, consVars>>

ConsumerRelock(c) == Consume(c, "relock", "test") /\ Acquire(c) /\ UNCHANGED <<prod, buffer, consVars>>

Pop(c) ==
  /\ Consume(c, "pop", "load_receive") /\ SignalDecrement /\ Release(c)
  /\ hand' = [hand EXCEPT ![c] = Head(buffer)]
  /\ buffer' = Tail(buffer)
  /\ UNCHANGED <<stats, finished, locals>>

LoadReceive(c) == Load(c, "receive_count", "load_receive", "store_receive")
StoreReceive(c) == Store(c, "receive_count", "store_receive", "trans")

\* Trans(command[1]) returns.
Trans(c) ==
  /\ Consume(c, "trans", "load_complete")
  /\ finished' = finished \cup {hand[c]}
  /\ hand' = [hand EXCEPT ![c] = NoTask]
  /\ UNCHANGED <<prod, queue, stats, locals>>

LoadComplete(c) == Load(c, "complete_count", "load_complete", "store_complete")
StoreComplete(c) == Store(c, "complete_count", "store_complete", "tally")

\* thread_completed_tasks[id] = jobs_complete.  The map has no lock: while
\* another consumer is also writing it, the insertion may be lost.
TallyRace(c) == \E d \in Consumers \ {c} : cons[d] = "tally"

Tally(c) ==
  /\ Consume(c, "tally", "loop")
  /\ jobs_complete' = [jobs_complete EXCEPT ![c] = @ + 1]
  /\ \/ thread_completed_tasks' = [thread_completed_tasks EXCEPT ![id[c]] = jobs_complete'[c]]
     \/ TallyRace(c) /\ UNCHANGED thread_completed_tasks
  /\ UNCHANGED <<prod, queue, global, reg, tasks, id>>

ConsumerStep(c) ==
  \/ ReadId(c) \/ LoadThreads(c) \/ StoreThreads(c)
  \/ LoopTest(c) \/ LoadAsk(c) \/ StoreAsk(c) \/ ConsumerLock(c)
  \/ TestWork(c) \/ TestDone(c) \/ TestEmpty(c) \/ ConsumerWait(c) \/ ConsumerRelock(c)
  \/ Pop(c) \/ LoadReceive(c) \/ StoreReceive(c) \/ Trans(c)
  \/ LoadComplete(c) \/ StoreComplete(c) \/ Tally(c)

-----------------------------------------------------------------------------
(* main(), main.cpp:246-259.  threads[0], the producer's handle, is         *)
(* overwritten by the first consumer's, so only consumers are joined.       *)

SpawnProducer ==
  /\ main = "spawn_producer" /\ main' = "spawn"
  /\ prod' = "start"
  /\ UNCHANGED <<idx, cons, flags, input, queue, consVars, spurious>>

SpawnConsumer ==
  /\ main = "spawn"
  /\ cons' = [cons EXCEPT ![idx] = "begin"]
  /\ IF idx < NThreads THEN idx' = idx + 1 /\ UNCHANGED main
     ELSE idx' = 1 /\ main' = "join"
  /\ UNCHANGED <<prod, flags, input, queue, consVars, spurious>>

\* pthread_join in order; after the last one output_stats and return from main.
JoinConsumer ==
  /\ main = "join" /\ cons[idx] = "exited"
  /\ IF idx < NThreads THEN idx' = idx + 1 /\ UNCHANGED main
     ELSE main' = "exited" /\ UNCHANGED idx
  /\ UNCHANGED <<prod, cons, flags, input, queue, consVars, spurious>>

MainStep == SpawnProducer \/ SpawnConsumer \/ JoinConsumer

\* The process has ended.
Terminated == main = "exited" /\ UNCHANGED vars

Next ==
  \/ MainStep
  \/ ProducerStep
  \/ \E c \in Consumers : ConsumerStep(c)
  \/ SpuriousWake
  \/ Terminated

Spec == Init /\ [][Next]_vars

\* The kernel schedules every thread that can run.
Fairness ==
  /\ WF_vars(MainStep)
  /\ WF_vars(ProducerStep)
  /\ \A c \in Consumers : WF_vars(ConsumerStep(c))

FairSpec == Spec /\ Fairness

-----------------------------------------------------------------------------
(* Properties.                                                              *)

\* The tasks the producer has pushed: work_count is incremented before the
\* mutex is taken, so it runs one ahead until the push.
Pushed == IF prod \in {"lock", "check", "waiting", "relock", "push"}
          THEN work_count - 1 ELSE work_count
Popped == Pushed - Len(buffer)

\* Type correctness of the variables of main.cpp.
TypeOK ==
  /\ main \in MainPC /\ idx \in Consumers
  /\ prod \in ProdPC
  /\ cons \in [Consumers -> ConsPC]
  /\ mutex \in SUBSET (Consumers \cup {Producer})
  /\ buffer \in Seq(Nat \ {0})
  /\ in_progress \in BOOLEAN /\ done \in BOOLEAN
  /\ work_count \in Nat /\ sleep_count \in Nat
  /\ global \in [Global -> Nat]
  /\ id \in [Consumers -> Nat]
  /\ jobs_complete \in [Consumers -> Nat]
  /\ hand \in [Consumers -> Nat]
  /\ reg \in [Consumers -> Nat]
  /\ thread_completed_tasks \in [Consumers -> Nat]
  /\ finished \in SUBSET (Nat \ {0})
  /\ spurious \in Nat

ProdHolding == {"check", "push", "broadcast"}
ConsHolding == {"test", "wait", "pop"}

\* The threads inside a critical region of buffer_control.mutex.
Inside == {c \in Consumers : cons[c] \in ConsHolding}
            \cup (IF prod \in ProdHolding THEN {Producer} ELSE {})

\* At most one thread is between lock and unlock (or wait), and the mutex
\* is held by exactly that thread: no path leaves with the mutex taken.
MutualExclusion ==
  /\ mutex = Inside
  /\ \A s, t \in mutex : s = t

\* The queue never outgrows maxbuffer, whatever wakes the producer: the
\* "while" around the wait on decrement (main.cpp:85), not an "if".
BufferBound == Len(buffer) <= maxbuffer

\* buffer.front() is never called on an empty queue, although another
\* consumer may empty it between the signal and the relock (main.cpp:154).
PopNonEmpty == \A c \in Consumers : cons[c] = "pop" => buffer # <<>>

\* The queue holds the latest pushed tasks, in the order of their lines.
QueueOrder == \A i \in 1 .. Len(buffer) : buffer[i] = Popped + i

\* Every task taken off the queue is in one consumer's hands or finished,
\* never both, never in two consumers' hands, never dropped.
Conservation ==
  /\ finished \subseteq 1 .. Popped
  /\ \A c \in Consumers : hand[c] # NoTask => hand[c] \in (1 .. Popped) \ finished
  /\ \A c, d \in Consumers : hand[c] = hand[d] /\ hand[c] # NoTask => c = d
  /\ \A t \in (1 .. Popped) \ finished : \E c \in Consumers : hand[c] = t

\* Once the producer has broadcast, no consumer is blocked on increment or
\* on its way to block, with nobody left to signal it: what the lock around
\* the broadcast is for (main.cpp:119-121).
NoHanging ==
  prod \in {"clear", "end"} =>
    \A c \in Consumers : cons[c] \notin {"wait", "waiting"}

\* The unlocked counters may lose increments; they never run ahead: the
\* summary never reports a task received or completed that was not.
CountersNeverOver ==
  /\ global["receive_count"] <= Popped
  /\ global["complete_count"] <= Cardinality(finished)

\* The tallies the summary prints add up to no more than the tasks finished,
\* although two consumers may share an id and overwrite each other's entry
\* (main.cpp:136, 203).
TallyNeverOver == Total(thread_completed_tasks) <= Cardinality(finished)

\* The join of the consumers is enough for the summary: when the process
\* ends, every task taken off the queue is finished and none is in a
\* consumer's hands, although the producer is never joined (main.cpp:250).
ExitAccount ==
  main = "exited" =>
    /\ finished = 1 .. Popped
    /\ \A c \in Consumers : hand[c] = NoTask

\* Every run ends: the consumers are joined and the process exits.
Termination == <>(main = "exited")

\* The queue of prodcon is the abstract work queue: a task is submitted when
\* it is pushed.
Queue == INSTANCE WorkQueue WITH
  Workers <- Consumers, Capacity <- maxbuffer, None <- NoTask,
  submitted <- Pushed, pending <- buffer, holding <- hand, complete <- finished

\* Every step of prodcon is a submit, a take, a finish or nothing.
ImplementsQueue == Queue!Spec

\* "while loop to make sure that while the producer is running consumers are
\* running as well" (main.cpp:137).
ConsumersRunWhileProducing ==
  ~done /\ prod \notin {"unborn", "end"} =>
    \A c \in Consumers : cons[c] # "exited"
=============================================================================
