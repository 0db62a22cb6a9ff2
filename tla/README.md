# Verification of the CMPUT379 programs

The repository holds several independent Unix programs: a producer/consumer
program with threads, a transaction server and its clients, two job-control
shells, and three generations of a software-defined network of a controller
and switches. This directory models them in TLA+, checks the models with TLC
on small instances, and proves with TLAPS, for every value of the constants, the
safety properties the passing runs check and the refinement of three abstract
specifications: a work queue, a ticket service and a rule service.

1. [Inventory](#1-inventory)
2. [Plan](#2-plan)
3. [Modules and how they correspond to the code](#3-modules-and-how-they-correspond-to-the-code)
4. [Runs](#4-runs)
5. [Fairness and deadlock](#5-fairness-and-deadlock)
6. [Proofs](#6-proofs)
7. [What the code does that its text does not say](#7-what-the-code-does-that-its-text-does-not-say)
8. [What is not modelled](#8-what-is-not-modelled)

## 1. Inventory

### prodcon - `Assignment_2/f22/main.cpp`
State: a `queue<string> buffer` of at most `maxbuffer = 2 * nthreads` tasks, one
pthread mutex, condition variables `increment` (consumers wait) and `decrement`
(the producer waits), the flags `in_progress` and `done`, five counters, the id
counter `consumeThreads` and the map `thread_completed_tasks`.
Operations: `producer` (read a line, count it, push; at end of input set `done`,
broadcast, clear `in_progress`), `consume` (take a number, loop: ask, wait, pop,
work, count, tally), `main` (create, join, print).
Interaction: everything is shared memory; the flags, the counters, the id
counter and the map are touched without the mutex.
Hard: lost wakeups, the flag written outside the lock, lost increments, shared
ids, starting and stopping while others run.
Correct means: the queue is bounded and never popped when empty; tasks are taken
in order and once each, and one that a consumer has taken is finished by the
time the process exits (lines not yet pushed and tasks still queued may be left);
nobody hangs; the statistics never claim more than was done.

### Transaction server and client - `Assignment_3/server.cpp`, `client.cpp`
State of the server: `client_socket[30]`, the message `buffer`,
`transactionCount`, `client_completed_tasks`. A client has one socket and at
most one request outstanding. Operations: `select` with a 30 second timeout,
accept into a free slot, read a request, work, reply with the transaction
number; the client connects, sends, waits for the reply, closes.
Interaction: TCP connections. Hard: clients that die at any point, a reset seen
as a message, more clients than slots, the timeout racing late clients.
Correct means: every reply carries a number of its own and goes to its
requester; every request is answered at most once; a client is never left
waiting for ever; a dead client costs the server nothing but its slot.

### Shell379 - `Assignment_1/2022F/*.cpp`
State: the `processes` table (pid to running flag, at most 32), the kernel's
process states. Operations: run in the foreground or background, `jobs`,
`kill`, `suspend`, `resume`, `wait`, `sleep`, `exit`, and what the end of the
input does. Interaction: fork, exec, waitpid and signals. Hard: processes that
end by themselves while listed or are stopped, continued and killed by others,
suspended processes, recycled pids, children that call no exec and go on as a
second shell with a copy of the table.
Correct means: a live child is always in its shell's table, so that `resume`,
`kill` and `exit` reach it and none of a shell's programs outlives its `exit`;
an entry is always a child not yet reaped, so that a signal never reaches a
stranger (with one shell); a wait gives the prompt back.

### msh379 - `Assignment_1/msh379.cpp` (the same file as `Assignment_1/2022W/msh379.cpp`)
State: `allTasks[32]`, `taskIndex`. Operations: `run`, `stop`, `continue`,
`terminate`, `check`, `lstasks`, `exit`, `quit`. Hard: the limit of the table,
a child whose exec fails goes on as a second shell, stale running flags.
Correct means: a listed task is still a child of the shell, one that is no
longer called running is dead, and `exit` leaves none of its tasks alive.

### a2w22 - `Assignment_2/w22/` (controller and switches over FIFOs)
State: the controller's list of switches; each switch's forwarding table and
counters; a FIFO to and one from the controller per switch. Messages: `HELLO`,
`HELLO_ACK`, `ASK`, `ADD`, `RELAY`, each ending in a NUL, of which a read takes
all there are and parses the first. A switch takes one line of its traffic file
per round and does not wait for answers.
Hard: messages that meet in a FIFO, packets admitted before the switch is
acknowledged, the same address asked about twice, a switch started again over
the FIFOs, and the messages in them, of its earlier program.
Correct means: the controller learns of every switch that starts; a packet is
counted at most once; every rule was asked for.

### a3sdn - `test2/` and a3w22 - `test/` (the network with TCP to the controller)
A TCP connection per switch to the controller, FIFOs between neighbours, `OPEN`,
`ACK`, `QUERY`, `ADD`, `RELAY`. A switch waits for `ACK` before its first line,
and for `ADD` after a `QUERY`. The controller polls, reads in the order of the
connections' index, and accepts at most one switch per round.
Hard: a read buffer and an `errno` that outlive what set them (a packet read
over a longer one is misread), closed descriptors that stay in the poll set and
are given again, FIFOs that are not there yet, indices taken for ids, programs that end at any moment, switches
started again where FIFOs, indices and descriptors of the first are left.
Correct means: at most one packet of a switch is under way, each `QUERY` gets
one rule at most, for its address if packets of one length are used, each packet
is counted by one rule.
`test/` is an earlier state of `test2/`; `mastertemp.cpp`, `switchtemp.cpp` and
`generaltemp.cpp` in it are drafts no makefile builds.

## 2. Plan

The order follows how much concurrency there is to go wrong, and how much of it
the text of the program relies on.

| step | modules | state |
|---|---|---|
| 1. threads of prodcon, the abstract queue they implement, proofs | `WorkQueue`, `Prodcon`, `ProdconProofs`, `ProdconQueueProofs` | done |
| 2. transaction server and clients | `TxnServer` | done |
| 3. the shells over one model of the kernel | `ProcessTable`, `Shell379`, `Msh379` | done |
| 4. the network of `test2/` | `SdnNet`, `SdnController`, `SdnSwitch`, `Sdn` | done |
| 5. the network of `w22/` | `A2w22` | done |
| 6. an abstract ticket service (a request gets a fresh number, once), implemented by `TxnServer` | `TicketService`, `TxnProofs` | done |
| 7. proofs about the shells and `w22/` | `ShellProofs`, `MshProofs`, `A2Proofs`, `DataFacts` | done |
| 8. an abstract rule service (one question, one rule), implemented by `Sdn`, with switches that start again | `RuleService`, `SdnProofs` | done |
| 9. proofs about the statistics, and about the direction of forwarding | `Tallies`, `DataFacts`, the proof modules | done |

What is left are the liveness properties, which only TLC checks (section 6), and
the parts of section 8.

Composition:

    WorkQueue      <- refinement -  Prodcon    <- EXTENDS - ProdconProofs <- ProdconQueueProofs
    TicketService  <- refinement -  TxnServer  <- EXTENDS - TxnProofs
    RuleService    <- refinement -  Sdn        <- EXTENDS - SdnProofs
    SdnNet         <- EXTENDS -  SdnController, SdnSwitch  <- EXTENDS -  Sdn
    ProcessTable   <- EXTENDS -  Shell379  <- EXTENDS - ShellProofs
                                 Msh379    <- EXTENDS - MshProofs
    A2w22          <- EXTENDS -  A2Proofs
    Tallies        <- EXTENDS -  Prodcon, A2w22, Sdn, DataFacts
    DataFacts      <- EXTENDS -  TxnProofs, SdnProofs, A2Proofs, ProdconQueueProofs

`ProcessTable` is the environment of both shells (the kernel), so that the two
are held to the same `waitpid`. `Sdn` joins the controller and the switches:
`SdnController` and `SdnSwitch` share the connections and FIFOs of `SdnNet` and
nothing else, and each leaves the other's variables to `Sdn`'s `Next`.
`MC...` modules hold the values TLC needs, and nothing else.

The abstract specifications say in a few actions what the details are for:
`WorkQueue` what the mutex, the condition variables and forty program counters
are for, `TicketService` what slots, sockets and buffers are for, `RuleService`
what the polling, the descriptors and the packets are for.

The theorems are about many threads, clients, pids or switches; each argument is
short only because the invariants say what the code relies on. All modules avoid
RECURSIVE operators so that they can be proved about. `DataFacts` has the facts
about a function whose values are sequences (one is written or emptied)
that the three protocols share, and those about sums. `Tallies` has the sums:
`Total(f)` is the cardinality of the set of the units f counts, so that what one
increment adds follows from the theorems on finite sets, where a fold or a
recursive sum would need an induction.

## 3. Modules and how they correspond to the code

Every module has, after its state, a short part of plausible slips in the code.
No behaviour uses them; each is a variant of one definition that some property
is known to reject.

### `Prodcon`, `WorkQueue`
A step is one access to memory another thread may touch without the mutex, or
one critical region between two such accesses. `prod`, `cons[c]` and `main` say
where the threads are; the other variables bear the names of the globals.

| code | module |
|---|---|
| `producer`, lines 60-127 | `ProducerStart`, `ReadWork`, `ReadSleep`, `ReadEof`, `ProducerLock`, `ProducerCheckFull`, `ProducerCheckRoom`, `ProducerRelock`, `ProducerPush`, `ProducerSetDone`, `ProducerLockDone`, `ProducerBroadcast`, `ProducerClear` |
| `consume`, lines 132-206 | `ReadId`, `LoadThreads` ... `Tally` |
| `main`, lines 246-259 | `SpawnProducer`, `SpawnConsumer`, `JoinConsumer`, `Terminated` |
| `x++` on an unlocked global | `Load` and `Store` through a register |
| `pthread_cond_wait` | `...Wait`, woken by `SignalIncrement`, `BroadcastIncrement`, `SignalDecrement` or `SpuriousWake`, then `...Relock` |

Undefined behaviour appears as a choice: concurrent writes to the map may lose
one (`TallyRace`). A task is named by the value of `work_count` at its line.
`finished` is a history variable.

### `TxnServer`
`server` is where the select loop stands; `readfds`, `sd`, `client_socket`,
`buffer`, `transactionCount`, `client_completed_tasks` are the code's. TCP is
`req`, `reply`, `fin` and `rst` of each client: what a read or a send would find.
`Select`, `Timeout`, `Exit`, `Accept`, `ReadRequest`, `ReadEof`, `ReadError`,
`SendReply`, `EndScan` are the loop; `Connect`, `SendRequest`, `ReceiveReply`,
`LoseServer`, `CloseClient`, `KillClient` the client. `ReadError` is the `read`
that returns -1 and is taken for a message.

`TicketService` is implemented under this mapping: a customer stands where its
client does (`Standing`), the counter is the number last sent (`Given`: between
the count and the send `transactionCount` is one ahead), the ticket on its way
is the reply unread (`OnItsWay`), and the service is open until the server
exits. A send to a client that has gone is a `Skip`, as is every number given to
a read that failed.

### `ProcessTable`, `Shell379`, `Msh379`
`ProcessTable` keeps for each pid its state, what it is and its parent; zombies,
orphans, the reuse of a pid by a stranger and signals from outside
(`OutsideSignal`: any process may be stopped or continued, and any but a shell
killed, by somebody who is no shell of the model) are in it. It is not code of the
repository, but modelled from how the shells use `fork`, `kill` and `waitpid`.
In both shells a child that fails before or in `exec` may go on as a second
shell on the same input (`RunBare`, `RunMissing`), so tables are kept for each
process that is a shell; `copied` in `Msh379` says how many of its tasks a shell
got from the one that forked it. Such a shell may find a pid of the copied table
given again to itself: its commands then act on itself, and its `exit` may end
half done (`victims` in `Exit`), and its `wait` calls `waitpid` on a pid that is
no child of it, or no longer, which fails at once and leaves the entry (`Wait`).
`Oddities` and `Misspelt` say whether users
type lines that make a second shell or throw, and whether processes run out.

| `Shell379` | code | `Msh379` | code |
|---|---|---|---|
| `Fork`, `RunProgram`, `RunBare`, `ForkFails`, `WaitReturns` | `Process.cpp` `run` | `Run`, `RunMissing` | `run` |
| `Wait`, `Kill`, `Suspend`, `Resume`, `Sleep`, `Wakes`, `Exit`, `Throw` | `Commands.cpp` | `Stop`, `Continue`, `Terminate`, `Exit`, `Quit` | `stopTask` ... `quitLoop` |
| `EndOfInput` | `Shell.cpp` `commandLoop` | | |

### `SdnNet`, `SdnController`, `SdnSwitch`, `Sdn`, `RuleService`
`SdnNet` has the addresses, packets, connections (`connq`, `up`, `down`,
`upEnd`) and FIFOs. Connections belong to processes, of which `Again` gives a
switch more than one, one after the other (`Id` is the switch of a process);
FIFOs belong to switches and are never removed, and `made` says which process
made and reads which. `SdnController` keeps `pfds` (descriptor at each index),
`conn` (what the kernel has behind a descriptor), `switchInfoTable`, `closed`,
and the two things that outlive a read: the buffer with the longest size read in
this round, and `errno`. A packet has the length of its text (`Size`), which
depends on the digits of its addresses; read after a longer one of the same round
it ends in the tail of that one, and is taken for any packet whose last number is
its own or its own continued by digits (`Parsed`, `Readings`): for itself, for
another address, or for one above `MAX_IP`, which is dropped. Its actions are `Poll`, `ReadPacket`, `ReadClosed`,
`ReadError`, `Accept`, `AcceptFails`, `ContExit`; `mainSocket` is what an accept
past the last index stores over the listening socket. `SdnSwitch` has `Connect`,
`SendOpen`, `MakeFifo` (one port at a time, ending the program where an earlier
one left a FIFO), `Admit`, `ReadAck`, `ReadAdd`, `ReadRelay`, `ControllerGone`,
`Leave`; `SendRelay` is `sendRelayPacket` with `openFifo` and all their exits.

`RuleService` is implemented under this mapping: a process's question is the
address it asked about until the `ADD` comes (`Question`), the offers are the
rules of the `ADD`s in its connection (`Offers`), its rules are the addresses of
its flow table (`Known`). A `QUERY` admitted is `Ask`, the controller's send is
`Offer`, reading the `ADD` is `Learn`; everything else stutters. A rule offered
covers the address asked about or one it may be heard as (`Heard`); these are the
same when every address has three digits (`ThreeDigits`).

Abstractions: `Addresses` are the destinations of the traffic and the bounds of
the ranges, a few in the runs and any set up to 1000 in the theorems; what the
tail of a longer packet begins with, a digit or not, is left open, which is more
than the code can do (likewise the tail of a longer `RELAY`, `RelayReadings`); a
number that is misread as one that is not in `Addresses` is taken for too large,
so that nothing is lost with all of 0 to 1000 in it; a packet arrives whole; a FIFO without a writer is
not readable (on Linux `poll` reports `POLLHUP` only, so the switch's `closed`
stays empty); of the `pfds` entries that are never set, the socket's may hold
any events (`SocketEvents`) and the others are idle; the network begins without
the FIFOs of an earlier one.

### `A2w22`
`inFifo`, `outFifo`, `switches`, `forwardingTable`, `admit`, `ask`, `add` are
the code's. `Start`, `Admit`, `SwitchReceive`, `ControllerReceive`,
`SwitchExit`, `ControllerExit` are its handlers; `Taken` is what a reader uses
of all it has read. `init_session` opens the FIFOs between switches and nothing
makes them, so what is relayed to a neighbour is lost in a failed write and does
not appear. `AdmitKnown` has the index -1 of a port without a neighbour as a
choice between going on and crashing. The controller is started first and once.
A switch may be started again when it has ended (`MaxStarts`): it finds the FIFOs,
which keep what is in them as long as the controller has them open (`Kept`), and
sends its `HELLO` behind that. `admit`, `ask` and `add` count over all programs of
a switch; its table begins anew.

## 4. Runs

| run | instance | shows |
|---|---|---|
| `prodcon_pair` | 2 consumers, 3 lines, 1 spurious wakeup | locking, task accounting, statistics, shutdown, refinement of `WorkQueue` |
| `prodcon_full` | 1 consumer, 5 lines, queue of 2, 2 spurious wakeups | the bound of the queue with a producer that really blocks; every run ends |
| `prodcon_early` | 2 consumers, 1 line | counterexample, see section 7 |
| `txn_safety` | 3 clients with 2 requests, 2 slots, clients killed at any moment | each request in one place, a true summary, no abort, live clients keep their slot, refinement of `TicketService` |
| `txn_live` | 2 clients, 1 slot | no client waits for ever, a forgotten one included |
| `shell_table` | ordinary lines, 5 pids, table of 3 | entries are unreaped children, under reuse of pids and signals from outside |
| `shell_odd` | bare and blank lines, a full system and signals from outside, 3 pids, table of 2 | with several shells each still lists its live children, `exit` leaves none of its programs alive, and waits return |
| `msh_tasks` | 4 pids, `MAXTASKS` 2 (a third task fits) | own tasks stay children; what is not called running is dead; `exit` kills the rest |
| `sdn_line` | 2 switches, the first started twice, one packet each (the second start none), addresses of two and three digits, any order, exits at any moment | a request and an answer never meet, the controller outlives nothing but its switches, refinement of `RuleService` |
| `sdn_answers` | 3 switches with 0, 2 and 1 packets, addresses of three digits, each started when the one before is acknowledged | rules point toward the owner; packets counted once; every `QUERY` is answered, with a rule for its very address |
| `sdn_query` | 2 switches with 1 packet, started in their order | counterexample, see section 7 |
| `a2_line` | 3 switches, the first with 2 lines and started twice | no `HELLO` lost, no packet counted twice, no rule unasked |

Why these bounds are enough for the cases that matter:
- `prodcon_pair`: two consumers are needed for shared ids, lost increments and a
  task taken between a signal and a relock; three lines leave one task in each
  hand and one queued. With two consumers the queue holds four, so it is never
  full; that case is `prodcon_full`, where it holds two and five lines arrive.
- `txn_safety`: one client more than slots, so that a connection is forgotten,
  and two slots, so that one is filled or emptied while the other is scanned.
  Two requests let a message stay in the buffer from one read to the next.
- shells: `shell_table` has as many pids as a full table, its shell and one to be
  recycled; in `shell_odd` two pids besides the first are enough for a second
  shell, which itself becomes a pid of a copied table, and a program, and there a
  pid is soon used again.
- `sdn_line`: two switches are needed for an index read before another one, a
  FIFO not yet made, and a switch told to relay to one that has gone; the second
  start for a descriptor given again, a FIFO left over and the accept past the
  last index. One packet each lets a rule be asked for while a neighbour ends or
  starts. The addresses 11, 20 and 110 let a `QUERY` about 11 be heard as one
  about 110, which the other switch owns, and be dropped. With two packets for the
  second switch the run exceeds a few minutes; `sdn_answers` has two, for a rule that exists and one that does not, in a
  switch with neighbours on both sides. Relays read are bounded by `MaxRelays`.
- `SocketEvents = {TRUE}` in all runs of `Sdn`: a switch that does not poll its
  socket takes fewer steps than one that may at any moment find it not ready,
  so nothing is lost for safety; for liveness section 7 has the case. The
  theorems hold for all `SocketEvents`.
- `a2_line`: two lines let an `ASK` meet another in the FIFO, and a rule be made
  twice; they may fall to the two programs of the switch, so that the second reads
  the rule the first asked for. Three switches give a port that is wrong.

Symmetry is used for clients (`txn_safety`) and pids (`shell_table`, `msh_tasks`)
only, which are told apart by nothing but their names, and in no run with a
liveness property.

`sdn_answers` fixes the order in which users start switches, because
`ForwardTowards` and `QueryAnswered` fail otherwise: `sdn_query` is the
counterexample for the second, section 7 describes the other. The order rules out
only that a `QUERY` or an `OPEN` is read over an `OPEN`. That no `QUERY` is read
over a longer `QUERY` is due to the addresses, all of three digits; with others
neither the order nor anything else in the code helps (section 7). Without either
restriction the safety of `sdn_line` holds.

## 5. Fairness and deadlock

- prodcon: weak fairness of each thread's step. The scheduler runs every thread;
  a mutex is released after a few steps of its holder. Input is finite and
  spurious wakeups are bounded, as a program that reads a file ends.
- transactions: weak fairness of the server (its `select` times out by itself)
  and of a client's `recv` once there is something to return. No client has to
  connect, send, close or survive.
- `Shell379`: a program that keeps running ends at some time, and `waitpid`
  returns after that. No user has to type anything, nobody has to continue what he
  has stopped, and `BlockedReturns` claims nothing while the shell or what it waits
  for is stopped, nor for a wait for a shell, which may go on for ever.
- `Sdn`: controller and switches loop on `poll` without blocking (timeout 0), so
  that each takes steps while it can. Nobody has to start a switch or end one.
- `A2w22` states no fairness; its properties are invariants. `HelloFirst` says
  what registration needs: the `HELLO` is the message the next read takes.

Deadlock is checked for prodcon and the transactions, where the end of the
program is a step of its own (`Terminated`, `Quiet`). The shells and the
networks may come to rest, with nobody typing and no packet left, so their
configurations do not check it.

## 6. Proofs

All theorems hold for every value of the constants that satisfies the
assumptions in the modules (`NThreadsAssumption`, `BoundsAssumption`,
`LimitAssumption`, `CountAssumption`, `SwitchAssumption` and the like, which say
no more than that numbers are numbers and sets are sets). `Invariance` in each
module is `Spec => []Inv` for the inductive invariant named below; `Inv` is
preserved by one lemma for each action or kind of action (`StepInv`).

| module | theorem | states |
|---|---|---|
| `ProdconProofs` | `TypeCorrect`, `MutexHolds`, `PopSafe` | `TypeOK`, `MutualExclusion`, `PopNonEmpty` |
| `ProdconQueueProofs` | `QueueBounded`, `NobodyHangs` | `BufferBound`, `NoHanging` |
| | `NoTaskLost`, `NothingInHandAtExit` | `QueueOrder /\ Conservation`, `ExitAccount` |
| | `CountersRight`, `TalliesRight`, `NumbersRight` | `CountersNeverOver`, `TallyNeverOver`, `NumbersInRange` |
| | `Refinement` | `ImplementsQueue` |
| | `SomebodyRuns` | `NeverStuck`: some thread can step until all have ended |
| `TxnProofs` | `TypeCorrect`, `NoneLost`, `SummaryRight`, `NoAbort` | `TypeOK`, `RequestAccounted`, `SummaryAgrees`, `NeverAborts` |
| | `PhantomsBounded` | `PhantomBound`, for finitely many clients |
| | `LiveKept` | `LiveKeepsSlot` |
| | `Refinement`, `FreshNumbers` | `ImplementsTickets`, and from it `NumbersUnique` |
| `ShellProofs` | `TypeCorrect`, `ChildrenInReach`, `ExitLeavesNone` | `TypeOK`, `ChildrenListed`, `OrphanedByCrash` |
| | `TableOfChildren`, `NoneOutlives` | `OwnChildren`, `NoOrphans`, when `Oddities = {}` |
| `MshProofs` | `TypeCorrect`, `TasksKept`, `NoLiveTaskForgotten`, `CleanExit` | `TypeOK`, `OwnTasksKept`, `TerminatedDead`, `ExitKillsTasks` |
| `A2Proofs` | `TypeCorrect`, `HelloNeverLost`, `NoRuleUnasked` | `TypeOK`, `HelloFirst`, `AddForAsk` |
| | `CountsRight` | `CountNeverOver` |
| | `Registration` | `ForwardsKnown` |
| `SdnProofs` | `TypeCorrect`, `NeverTwo`, `RulesFit` | `TypeOK`, `OneUnderWay`, `AnswerFits` |
| | `RulesExact` | that the rule covers the very address, when `ThreeDigits` |
| | `ControllerStays`, `Refinement` | `ControllerOutlivesNone`, `ImplementsRules` |
| | `TablesBounded` | `EachNew` of `RuleService`, and from it `TableBounded`, when `ThreeDigits` |
| | `AllAccounted` | `PacketsAccounted` |
| | `RulesLeadTowards` | `ForwardTowards`, when `OneByOne`, `OpensLonger` and `OwnRanges` (below) |

### prodcon

    Inv == TypeOK /\ MutualExclusion /\ PopNonEmpty /\ HandShape /\ PushShape /\ SpawnShape

`TypeOK` alone is not inductive: `Pop` takes the head of the queue, which has a
type only if the queue is not empty (`PopNonEmpty`), and `Trans` puts the task in
hand among the finished ones, which needs to be one (`HandShape`: a consumer
has a task exactly between its pop and the end of its work). `PopNonEmpty` rests
on `MutualExclusion`: another consumer can shorten the queue only inside the
region. `PushShape` says that a line has been counted before its push;
`SpawnShape`, that `main` creates no thread twice.

The proofs go by frames: `MainFrame`, `ProducerFrame`, `ConsumerFrame` and
`SpuriousFrame` say once what a step of each kind leaves alone and how it moves
the others' places. In `ProdconQueueProofs`, `StepKinds` sorts the steps by what
they do to the queue (push, pop, finish, nothing), so that `BufferBound`,
`Conservation` and the refinement need one case for each kind. `NoHanging` is
carried through the broadcast: while the producer holds the mutex no consumer
stands between its test and its wait. `ExitAccount` needs that the consumers
`main` has passed in its joins have exited. In `Refinement` a push is
`Submit`, a pop is `Take`, the end of `Trans` is `Finish`, and every other step
stutters.

`CountersNeverOver` needs more than itself: a register loaded before another
thread's store carries an older value, so `CountersInv` bounds each register as
well as the counter, and says that the tasks popped (finished) and not yet
counted are as many as there are consumers between the two. `Load` and `Store`
then keep counter plus uncounted at most popped, whatever updates are lost.

Two consumers may load the same number of threads and so share an id and an
entry of the tallies. `TallyNeverOver` holds all the same, because each consumer
adds up its own tasks and writes the sum: `TallyInv` says that an entry that is
not 0 was at most the `jobs_complete` of some consumer with that id, so that a
choice of one such consumer for each entry, which no two entries share, makes the
sum of the entries at most the sum of all `jobs_complete`, which is at most the tasks finished. `NumberInv`
bounds the ids: the counter, and each register loaded from it, plus the consumers
that have still to increment it is never above `NThreads + 1`.

`SomebodyRuns` says that no wakeup is lost. `NeverStuck` spells out when a thread
can step (`MainReady`, `ProducerReady`, `ConsumerReady`), since ENABLED cannot be
reasoned about; TLC has found them equal to ENABLED of `MainStep`, `ProducerStep`
and `ConsumerStep` in every state of the two prodcon instances. The invariant
`StuckInv` has at its centre `WakeShape`: while a consumer waits, there are no
more tasks queued than consumers awake, because a push signals one that waits and
a consumer goes to sleep only at an empty queue. `FullShape` says that the queue is
full while the producer waits. If all were blocked, the mutex would be free and
`main` joining a consumer that waits. A producer that has ended contradicts
`NoHanging`; one that waits has a full queue while no consumer is awake, against
`WakeShape`. A consumer that leaves does not disturb it: it has seen
`in_progress` false, and then the queue is empty or nobody waits (`FlagShape`).
The theorem does not claim that a thread that can step does; that is the
fairness of `Termination`.

### Transactions

    Inv == Types /\ Accounts /\ Hands /\ SummaryAgrees

`Accounts` says for each client where its request is, by the state of its
connection: nowhere, unread, in the server's hands or answered; `Hands`, that
the request in the buffer is that of the client in the slot the server replies
to, and that at other times the buffer holds none, which is why a failed read is
never counted for a client. `RequestAccounted` and `NeverAborts` are read off
them. `PhantomBound` is carried by `PhantomInv`: the phantoms are at most the
killed clients whose connection has no reset left to be read (`Settled`), and
each failed read adds one client to these. The refinement maps a step of the
server to `Issue`, `Skip` or `Close` and of a client to `Ask`, `Receive` or
`Leave`. That numbers are
unique follows from the steps of the abstract service alone (`FreshStep`), once a
ticket on its way is known to be newer than those its client has (`Growing`).

### Shells

    Inv of ShellProofs == Types /\ Idle /\ Parents /\ ChildrenListed /\ WaitsForChild

`ChildrenListed` is what `exit` relies on: a live program whose parent is a
living shell is in that shell's table. It survives second shells because a child
is reaped and erased only by its own parent, or erased by whoever has killed it:
`waitpid` returns for a dead child only, and fails for what is no child.
`Parents` says that a parent is a living shell or init, `Idle` that what is no
shell waits for nothing, and `WaitsForChild` (of the proof module) that what a
blocked shell waits for is its child still, so that its entry is the one that is
erased. A signal from outside kills no shell and erases nothing; what it stops or
continues stays a child. `OwnChildren` and `NoOrphans` are false with second
shells (a copied table lists another's children), so they are proved from `Solo`:
with `Oddities = {}` the first shell is the only one. `MshProofs` has
`Types`, `OwnTasksKept` and `TerminatedDead`; the middle one says that a task
past the copied ones is an unreaped child, since `msh379` never waits and so
frees no pid of its own before it ends.

### w22

`Inv` is `Types`, `Bounds` (a switch asks only for what it has admitted, and
admits no more than `MaxLines`), `Unstarted` (the FIFO of a switch that was never
started is empty), `AddForAsk` and `HelloFirst`. A switch that starts again sends
its `HELLO` behind what is in the FIFO; then it is in the table, or the `HELLO` of
an earlier program of it is the first message. `AddForAsk` counts the `ASK`s and
`ADD`s of a FIFO by the cardinality of their indices (`Count`), which the
lemmas `CountAppend` and `CountHead` follow through a write and a read.

`CountNeverOver` is carried by `CountsInv`: what the rules of a switch count plus
what it has asked is at most what it has admitted plus the rules it was given, of
which there are no more than it has asked for (`AddForAsk`). An admitted packet
either increments one rule or asks; an `ADD` brings a rule that counts the packet
that asked; a new program begins with a table that counts nothing, so that what
the old one counted is no longer there. `Registration` says that a switch
forwards only to itself or to a switch of the controller's table, which never
shrinks; with it `KnownInv` has that an `ADD_FORWARD` on its way, asked for by
whichever program, names such a switch.

### test2

    Inv of SdnProofs == Types /\ Contents /\ Connections /\ AcceptReady
                        /\ Sharing /\ Unanswered /\ Entries /\ Round

`Contents` says what a running switch has under way: nothing, the request it
waits to be answered, or its answer, which covers the address it asked about or
one it may be heard as (`RulesFit`); how a packet is parsed rests on its size and
the longest read before (`ParsedCases`), and when all addresses have three digits
every misreading is too large, so that the rule is exact (`RulesExact`).
`Connections` says that a process has one connection at most, accepted or
waiting. A descriptor some index has closed may be used again: `Sharing` says
that the indices that have it are closed or come after another one of them,
`Unanswered` that the switch behind it was never acknowledged, and `Round` that
of those indices the first one ready finds the packet, which is an `OPEN`;
`Entries`, that an index with an entry in `idToFd` has such a descriptor only if
it is closed itself. The next one's read fails, the `OPEN` in the buffer is handled again, and its send
ends the controller, so that no switch gets a second `ACK`. `AcceptReady` says
that `accept` finds a connection. `FirstMatch`, that an address some rule
covers has a first rule that does, follows from the well-foundedness of `<`.

`ControllerOutlivesNone` rests on `Untroubled`: as long as no switch has ended,
no index is closed, `errno` is clear and the listening socket is in its place.
Each index then has a running switch of its own (`IndicesOwn`), so that every
read finds what `poll` reported (`ReadsFind`), and by the pigeonhole principle
the switches have indices enough (`IndicesSuffice`): a switch is started again
only after its program has ended (`OneAtATime`). That an `ADD` is not written to
descriptor 0, for an index without an entry, is `HasEntry`: a switch that was
acknowledged has one, since the `OPEN` was read at the same index.

`TablesBounded` assumes `ThreeDigits`: without it a rule for another address may be
learnt again and again, and the table grow with every packet. It is about the
abstract service first. Its steps keep `RuleInv`:
the question open at an asker is covered by none of its rules, and the rule
offered covers it, so that each rule learnt covers something new (`EachNew`).
By the refinement (`StepService`) this is so of the flow tables, and choosing a
new address for each rule is an injection into the addresses.

`PacketsAccounted` is carried by `CountsInv`: the sum of `pktCount` over the
rules of a switch, plus one while it waits for a rule, is what it admitted. A
rule arrives with a count of 1 for the packet that asked, and any other packet
increments the first rule that covers it.

`ForwardTowards` is not true of every network: `controller.cpp:272` compares the
index of a connection, from 1 in the order of accepting, with the id of a switch.
`RulesLeadTowards` therefore assumes `OneByOne`: each switch starts after the one
before it was acknowledged, and none starts a second time. A switch started again
takes an index past its id; and with `"in_order"`, which only says that a switch
starts after the one before it did, two `OPEN`s may meet in one round, of which
the second may be read over a longer first, and its range be misread. For the same
reason it assumes `OpensLonger`, that no `QUERY` is longer than an `OPEN`, which
`ThreeDigits` implies (`ThreeDigitsOpen`), and, as the first owner of an address
gets its packets, `OwnRanges`, that the ranges are disjoint. A `QUERY` may be
misread here; the rule then still leads toward the switch whose addresses it
covers. `InOrder` says who has started, `Opens` that
the `OPEN`s of a round are not disturbed by a longer packet read before
(`RoundOpens`) and that the table has each switch with its own addresses
(`Entered`), `OwnIndices` that index and id agree, and `Directions` that a rule,
learnt or in a connection, then leads toward its owner.

### Only model-checked

The liveness properties: `Termination`, `WaitEnds`, `BlockedReturns` and
`QueryAnswered`. They follow from fairness, whose definition has ENABLED, and
that is beyond the prover. Every other property of a passing run is a theorem.

## 7. What the code does that its text does not say

Two disagreements have a run that shows them.

- `prodcon_early`. `main.cpp:137` says that consumers run while the producer is
  running. `in_progress` is false until the producer's first statement, so a
  consumer scheduled earlier leaves for good; if all do, `main` exits with
  nothing consumed.
- `sdn_query`. `controller.cpp:216` says that the controller handles each packet.
  The buffer is cleared once in a round: a `QUERY` read after an `OPEN` in that
  round ends in digits of the `OPEN` and is dropped, and its switch admits
  nothing more.

Others are built into the models as the code has them, and were met there:

- `server.cpp:175` counts a failed read as a transaction, under whatever the
  buffer holds. `PhantomBound` says how often: once for each killed client.
- `msh379.cpp:137` lets `MAXTASKS + 1` tasks in (the bound in `TypeOK`), `lstasks`
  prints tasks that have ended, and a program started from a second shell
  (line 179) survives the `exit` of the first; `ExitKillsTasks` speaks of the
  tasks the exiting shell knows.
- `Process.cpp:27` and `jobs` count background processes that have ended, and
  `jobs` (`Commands.cpp:58`) shows the flag that `suspend` and `resume` set last,
  whatever others have stopped or continued since.
- `Commands.cpp:178` calls `waitpid` for any entry. In a second shell with a copied
  table it fails at once for what is no child of it, and the entry is erased only
  if it succeeds.
- `controller.cpp:213` clears the buffer once in a round, so that with addresses of
  different lengths a `QUERY` is misread also after a longer `QUERY`, in whatever
  order the switches were started: `QUERY:100,11` after `QUERY:100,110` is answered
  for 110, with a rule that need not cover 11, and the switch asks about 11 again at
  the next such packet; `QUERY:1,20` after `QUERY:100,900` is read as one for 20900
  and dropped, and its switch waits for ever. `ImplementsRules`, `RulesFit` and
  `RulesExact` say how far this goes.
- `controller.cpp:272` compares the index of a connection with the id of a
  switch: switches that do not start in the order of their ids are told to
  forward away from the owner.
- `controller.cpp:224` keeps a closed descriptor in the poll set. A switch
  accepted on it later has its `OPEN` read at the closed index, which sends no
  `ACK`; the read at its own index then fails, and the send after it ends the
  controller. Of the proof's invariants `Sharing`, `Unanswered` and `Round` are
  about it.
- `controller.cpp:314` stores the socket of an accept past `numSwitches` over the
  listening one; the next accept is on a connection, fails, and ends the
  controller (`AcceptFails`).
- `controller.cpp:63` takes an `errno` left by an earlier read for a failed send:
  a switch that exits with an answer unread ends the controller some time later.
  `ControllerOutlivesNone` says that nothing less does.
- `switch.cpp:293` (test2) sends `OPEN` before the FIFOs are made; a neighbour may
  be told to use them first, and exits.
- `switch.cpp:148` (test2) makes FIFOs nobody removes: a switch started again
  sends its `OPEN`, is recorded by the controller, and ends at the first FIFO.
- `Process.cpp:84` and `msh379.cpp:179` leave a second shell with a copy of the
  table. If that shell is given a pid of the table later, `exit` may kill the
  shell itself before the rest of its table; `OrphanedByCrash` and
  `ExitKillsTasks` make that exception.
- `Shell.cpp:11` repeats the prompt for ever at the end of the input
  (`EndOfInput`).
- `switch.cpp:257` (test2) polls entries that were never set: a switch may never
  read its socket. `switch.cpp:457` parses the first of several `RELAY`s;
  `switch.cpp:520` compares its id with the number of the port.
- `w22/switch.cpp:239` goes on with the FIFOs of an earlier program of the switch: a
  switch started again is listed twice by the controller (`w22/controller.cpp:175`),
  unless its `HELLO` is lost behind a message left there, and takes for its own the
  rules the earlier program asked for. `CountNeverOver` and `HelloFirst` hold all
  the same.
- `w22/switch.cpp:148` seeks every owner but the next one to the right on the
  left; `w22/switch.cpp:86` sends a packet of a DROP rule to port 0, the
  controller.

## 8. What is not modelled

- `test/` (a3w22): it reads the fields 2 to 4 of every packet, which an `ASK`
  does not have, so everything past the first `ASK` is undefined; its protocol is
  that of `test2/`. Its drafts are built by no makefile.
- Argument parsing and the `main` functions around the loops; `tands.c`,
  `general.cpp`, `outfile.cpp` (busy work, delays, clock, output); `testPrgm.cpp`.
- Commands that only print or read: `jobs`, `lstasks`, `check`, `list`, `cdir`,
  `pdir`, `info`. `Assignment_1/2022W/msh379.cpp` is byte for byte the file
  `Msh379` models.
- Resource failures of setting up (sockets, memory), `select` interrupted by a
  signal, messages split or joined by TCP in the transaction server.
- In prodcon, the data races of the unlocked `output.append` and of the unlocked
  reads of `buffer.size()`: a garbled output, or the end of the program.
- In the shells, a `NULL` from `popen` in `jobs`, and a shell killed from outside.
- Undefined values in output: the rates of a run without transactions, the
  bytes behind an unterminated first message.
- In `w22/`: a controller started again, FIFOs left from an earlier network, and a
  read of more than 1024 bytes, which would end within a message.
- In `test2/`: numbers too large for an `int`; what exactly follows in the tail of a
  longer packet (any of the readings may occur); the different errors of a
  connection whose controller is ending, all of which end the switch.
- In the networks: delays of the traffic file (a delay is a step not taken),
  source addresses but for the length they give a `QUERY`, a whole network started over the FIFOs of an earlier one (of
  which every switch ends in `mkfifo`), more starts of a switch than `Again` has.
