----------------------------- MODULE MshProofs -----------------------------
(***************************************************************************)
(* Proofs about Msh379 for every number of pids and tasks, and any number  *)
(* of shells: types, own tasks kept, no live task forgotten, a clean exit. *)
(***************************************************************************)
EXTENDS Msh379, TLAPS

Tasks == [pid : Pids, running : BOOLEAN]

Types ==
  /\ proc \in [Pids -> Process]
  /\ allTasks \in [Pids -> Seq(Tasks)]
  /\ \A s \in Pids : Len(allTasks[s]) <= MAXTASKS + 1
  /\ copied \in [Pids -> 0 .. MAXTASKS + 1]

Inv == Types /\ OwnTasksKept /\ TerminatedDead

\* A task of a shell has a pid and a flag.
LEMMA TaskType ==
  ASSUME Types, NEW s \in Pids, NEW i \in 1 .. Len(allTasks[s])
  PROVE  allTasks[s][i] \in Tasks /\ allTasks[s][i].pid \in Pids
  <1>1. allTasks[s] \in Seq(Tasks)
    BY DEF Types
  <1>2. allTasks[s][i] \in Tasks
    BY <1>1
  <1> QED
    BY <1>2 DEF Tasks

\* A task added is one more of them.
LEMMA NewTask ==
  ASSUME Types, NEW s \in Pids, NEW p \in Pids
  PROVE  allTasks[s] \in Seq(Tasks) /\ Append(allTasks[s], Task(p)) \in Seq(Tasks)
  <1>1. Task(p) \in Tasks
    BY DEF Task, Tasks
  <1>2. allTasks[s] \in Seq(Tasks)
    BY DEF Types
  <1> QED
    BY <1>1, <1>2

-----------------------------------------------------------------------------
(* The kernel.                                                              *)

\* What the death of victims leaves of the others, and of a child of one that
\* goes on.
LEMMA Deaths ==
  ASSUME proc \in [Pids -> Process], NEW victims, NEW after, after = AfterDeath(victims)
  PROVE  /\ after \in [Pids -> Process]
         /\ \A p \in Pids : after[p].state \in {"running", "stopped"} =>
              Live(p) /\ p \notin victims /\ after[p].kind = proc[p].kind
         /\ \A s, p \in Pids : Unreaped(s, p) /\ s \notin victims =>
              after[p].state # "free" /\ after[p].parent = s
  <1> DEFINE orphaned(p) == proc[p].parent \in {v \in victims : Live(v)}
             dies(p) == Live(p) /\ p \in victims
             value(p) ==
               IF (proc[p].parent = Reaper \/ orphaned(p)) /\ (dies(p) \/ ~Live(p)) THEN Free
               ELSE [proc[p] EXCEPT !.state = IF dies(p) THEN "zombie" ELSE @,
                                    !.parent = IF orphaned(p) THEN Reaper ELSE @]
  <1>1. after = [p \in Pids |-> value(p)]
    BY DEF AfterDeath
  <1>2. ASSUME NEW p \in Pids
        PROVE  /\ value(p) \in Process
               /\ value(p).state \in {"running", "stopped"} =>
                    Live(p) /\ p \notin victims /\ value(p).kind = proc[p].kind
    <2>1. proc[p] \in Process
      OBVIOUS
    <2> QED
      BY <2>1 DEF Process, Free, Live
  <1>3. ASSUME NEW s \in Pids, NEW p \in Pids, Unreaped(s, p), s \notin victims
        PROVE  value(p).state # "free" /\ value(p).parent = s
    <2>1. proc[p] \in Process /\ proc[p].state # "free" /\ proc[p].parent = s /\ s # Reaper
      BY <1>3, FirstAssumption DEF Unreaped
    <2>2. ~orphaned(p) /\ proc[p].parent # Reaper
      BY <1>3, <2>1
    <2>3. value(p) = [proc[p] EXCEPT !.state = IF dies(p) THEN "zombie" ELSE @, !.parent = @]
      BY <2>2
    <2> QED
      BY <2>1, <2>3 DEF Process
  <1> HIDE DEF value
  <1> QED
    BY <1>1, <1>2, <1>3

\* Other changes of the process table.
LEMMA Signals ==
  ASSUME proc \in [Pids -> Process], NEW p \in Pids, NEW after,
         after \in {AfterStop(p), AfterCont(p)}
  PROVE  /\ after \in [Pids -> Process]
         /\ \A q \in Pids : /\ after[q].kind = proc[q].kind /\ after[q].parent = proc[q].parent
                            /\ after[q].state \in {"running", "stopped"} <=> Live(q)
                            /\ after[q].state = "free" <=> proc[q].state = "free"
  BY DEF AfterStop, AfterCont, Live, Process

-----------------------------------------------------------------------------
(* Every step preserves the invariant.                                      *)

\* A step that kills, and takes for not running only what it kills.
LEMMA DeathStep ==
  ASSUME Inv, NEW victims, NEW tasks \in [Pids -> Seq(Tasks)],
         proc' = AfterDeath(victims), Forget(tasks),
         \A s \in Pids : Len(tasks[s]) = Len(allTasks[s]),
         \A s \in Pids : \A i \in 1 .. Len(allTasks[s]) :
           /\ tasks[s][i].pid = allTasks[s][i].pid
           /\ ~tasks[s][i].running => ~allTasks[s][i].running \/ allTasks[s][i].pid \in victims
  PROVE  Inv'
  <1>1. Types /\ OwnTasksKept /\ TerminatedDead
    BY DEF Inv
  <1>2. /\ proc' \in [Pids -> Process]
        /\ \A p \in Pids : proc'[p].state \in {"running", "stopped"} =>
             Live(p) /\ p \notin victims /\ proc'[p].kind = proc[p].kind
        /\ \A s, p \in Pids : Unreaped(s, p) /\ s \notin victims =>
             proc'[p].state # "free" /\ proc'[p].parent = s
    BY <1>1, Deaths DEF Types
  <1>3. Types'
    <2>1. allTasks' \in [Pids -> Seq(Tasks)] /\ \A s \in Pids : Len(allTasks'[s]) <= MAXTASKS + 1
      BY <1>1, LimitAssumption DEF Types, Forget
    <2>2. copied' \in [Pids -> 0 .. MAXTASKS + 1]
      BY <1>1, LimitAssumption DEF Types, Forget
    <2> QED
      BY <1>2, <2>1, <2>2 DEF Types
  <1>4. ASSUME NEW s \in Shells', NEW i \in copied'[s] + 1 .. Len(allTasks'[s])
        PROVE  /\ proc'[allTasks'[s][i].pid].state # "free"
               /\ proc'[allTasks'[s][i].pid].parent = s
               /\ ~allTasks'[s][i].running =>
                    proc'[allTasks'[s][i].pid].state \notin {"running", "stopped"}
    <2>1. s \in Shells /\ s \in Pids /\ s \notin victims /\ Remaining(s)
      BY <1>2 DEF Shells, Live, Remaining
    <2>2. allTasks'[s] = tasks[s] /\ copied'[s] = copied[s]
      BY <2>1 DEF Forget
    <2>3. i \in copied[s] + 1 .. Len(allTasks[s]) /\ i \in 1 .. Len(allTasks[s])
      BY <1>1, <2>1, <2>2 DEF Types
    <2>4. allTasks[s][i].pid \in Pids /\ allTasks'[s][i].pid = allTasks[s][i].pid
      <3>1. allTasks[s][i].pid \in Pids
        BY <1>1, <2>1, <2>3, TaskType
      <3> QED
        BY <2>1, <2>2, <2>3, <3>1
    <2>5. Unreaped(s, allTasks[s][i].pid)
      BY <1>1, <2>1, <2>3 DEF OwnTasksKept, taskIndex
    <2>6. ~allTasks'[s][i].running => ~Live(allTasks[s][i].pid) \/ allTasks[s][i].pid \in victims
      BY <1>1, <2>1, <2>2, <2>3 DEF TerminatedDead, taskIndex
    <2> QED
      BY <1>2, <2>1, <2>4, <2>5, <2>6
  <1>5. OwnTasksKept' /\ TerminatedDead'
    BY <1>4 DEF OwnTasksKept, TerminatedDead, taskIndex, Unreaped, Live
  <1> QED
    BY <1>3, <1>5 DEF Inv

\* A step that keeps the tasks of every shell, the children of shells, and
\* makes nothing live again.
LEMMA QuietStep ==
  ASSUME Inv, UNCHANGED <<allTasks, copied>>, proc' \in [Pids -> Process],
         \A s \in Shells' : s \in Shells,
         \A s \in Shells, p \in Pids : Unreaped(s, p) =>
           /\ proc'[p].state # "free" /\ proc'[p].parent = s
           /\ proc'[p].state \in {"running", "stopped"} => Live(p)
  PROVE  Inv'
  <1>1. Types /\ OwnTasksKept /\ TerminatedDead
    BY DEF Inv
  <1>2. Types'
    BY <1>1 DEF Types
  <1>3. ASSUME NEW s \in Shells', NEW i \in copied[s] + 1 .. Len(allTasks[s])
        PROVE  /\ proc'[allTasks[s][i].pid].state # "free"
               /\ proc'[allTasks[s][i].pid].parent = s
               /\ ~allTasks[s][i].running =>
                    proc'[allTasks[s][i].pid].state \notin {"running", "stopped"}
    <2>1. s \in Shells /\ s \in Pids
      BY DEF Shells
    <2>2. i \in 1 .. Len(allTasks[s])
      BY <1>1, <2>1 DEF Types
    <2>3. allTasks[s][i].pid \in Pids
      BY <1>1, <2>1, <2>2, TaskType
    <2>4. Unreaped(s, allTasks[s][i].pid) /\ (~allTasks[s][i].running => ~Live(allTasks[s][i].pid))
      BY <1>1, <2>1 DEF OwnTasksKept, TerminatedDead, taskIndex
    <2> QED
      BY <2>1, <2>3, <2>4
  <1>4. OwnTasksKept' /\ TerminatedDead'
    BY <1>3 DEF OwnTasksKept, TerminatedDead, taskIndex, Unreaped, Live
  <1> QED
    BY <1>2, <1>4 DEF Inv

\* A shell forks p, which was free, and records it; p may be a shell whose
\* tasks are all copies.
LEMMA ForkStep ==
  ASSUME Inv, NEW s \in Pids, NEW p \in Pids, NEW kind \in {"program", "shell"},
         Prompting(s), taskIndex(s) <= MAXTASKS, proc[p].state = "free",
         proc' = [proc EXCEPT ![p] = New(kind, s)],
         allTasks' \in [Pids -> Seq(Tasks)], copied' \in [Pids -> 0 .. MAXTASKS + 1],
         allTasks'[s] = Append(allTasks[s], Task(p)),
         kind = "shell" => Len(allTasks'[p]) = copied'[p] /\ copied'[p] <= MAXTASKS + 1,
         kind = "program" => allTasks'[p] = allTasks[p],
         \A r \in Pids \ {p} : copied'[r] = copied[r],
         \A r \in Pids \ {s, p} : allTasks'[r] = allTasks[r]
  PROVE  Inv'
  <1>1. Types /\ OwnTasksKept /\ TerminatedDead
    BY DEF Inv
  <1>2. /\ proc' \in [Pids -> Process] /\ s # p
        /\ proc'[p].state = "running" /\ proc'[p].kind = kind /\ proc'[p].parent = s
        /\ \A q \in Pids \ {p} : proc'[q] = proc[q]
    BY <1>1 DEF Types, Process, New, Prompting
  <1>3. Len(allTasks'[s]) = Len(allTasks[s]) + 1 /\ Len(allTasks[s]) \in Nat
    BY <1>1 DEF Types
  <1>4. Types'
    <2>1. Len(allTasks'[s]) <= MAXTASKS + 1
      BY <1>3, LimitAssumption DEF taskIndex
    <2>2. Len(allTasks'[p]) <= MAXTASKS + 1
      BY <1>1 DEF Types
    <2> QED
      BY <1>1, <1>2, <2>1, <2>2 DEF Types
  <1>5. ASSUME NEW r \in Shells', NEW i \in copied'[r] + 1 .. Len(allTasks'[r])
        PROVE  /\ proc'[allTasks'[r][i].pid].state # "free"
               /\ proc'[allTasks'[r][i].pid].parent = r
               /\ ~allTasks'[r][i].running =>
                    proc'[allTasks'[r][i].pid].state \notin {"running", "stopped"}
    <2>1. r \in Pids /\ copied'[r] \in Nat /\ i \in 1 .. Len(allTasks'[r])
      BY LimitAssumption DEF Shells
    <2>2. CASE r = p
      <3>1. kind = "shell"
        BY <1>2, <2>2 DEF Shells
      <3> QED
        BY <2>1, <2>2, <3>1
    <2>3. CASE r # p /\ ~(r = s /\ i = Len(allTasks'[s]))
      <3>1. r \in Shells /\ copied'[r] = copied[r]
        BY <1>2, <2>1, <2>3 DEF Shells, Live
      <3>2. i \in copied[r] + 1 .. Len(allTasks[r]) /\ i \in 1 .. Len(allTasks[r])
            /\ allTasks'[r][i] = allTasks[r][i]
        <4>1. CASE r = s
          BY <1>1, <1>3, <2>1, <2>3, <3>1, <4>1 DEF Types
        <4>2. CASE r # s
          BY <2>1, <2>3, <3>1, <4>2
        <4> QED
          BY <4>1, <4>2
      <3>3. allTasks[r][i].pid \in Pids
        BY <1>1, <2>1, <3>2, TaskType
      <3>4. Unreaped(r, allTasks[r][i].pid) /\ (~allTasks[r][i].running => ~Live(allTasks[r][i].pid))
        BY <1>1, <3>1, <3>2 DEF OwnTasksKept, TerminatedDead, taskIndex
      <3> QED
        BY <1>2, <3>2, <3>3, <3>4 DEF Unreaped, Live
    <2>4. CASE r = s /\ i = Len(allTasks'[s])
      <3>1. allTasks'[r][i] = Task(p)
        BY <1>1, <1>3, <2>4 DEF Types
      <3> QED
        BY <1>2, <2>4, <3>1 DEF Task
    <2> QED
      BY <2>2, <2>3, <2>4
  <1>6. OwnTasksKept'
    BY <1>5 DEF OwnTasksKept, taskIndex, Unreaped
  <1>7. TerminatedDead'
    BY <1>5 DEF TerminatedDead, taskIndex, Live
  <1> QED
    BY <1>4, <1>6, <1>7 DEF Inv

\* A stop or a continue, from a shell or from outside.
LEMMA SignalStep ==
  ASSUME Inv, NEW p \in Pids, proc' = AfterStop(p) \/ proc' = AfterCont(p), UNCHANGED <<allTasks, copied>>
  PROVE  Inv'
  <1>1. proc \in [Pids -> Process]
    BY DEF Inv, Types
  <1>2. /\ proc' \in [Pids -> Process]
        /\ \A q \in Pids : /\ proc'[q].kind = proc[q].kind /\ proc'[q].parent = proc[q].parent
                           /\ proc'[q].state \in {"running", "stopped"} <=> Live(q)
                           /\ proc'[q].state = "free" <=> proc[q].state = "free"
    BY <1>1, Signals
  <1>3. \A r \in Shells' : r \in Shells
    BY <1>2 DEF Shells, Live
  <1>4. \A r \in Shells, q \in Pids : Unreaped(r, q) =>
          /\ proc'[q].state # "free" /\ proc'[q].parent = r
          /\ proc'[q].state \in {"running", "stopped"} => Live(q)
    BY <1>2 DEF Unreaped
  <1> QED
    BY <1>2, <1>3, <1>4, QuietStep

\* The death of a process that is no shell.
LEMMA EndStep ==
  ASSUME Inv, NEW p \in Pids, proc[p].kind # "shell", proc' = AfterDeath({p}), UNCHANGED <<allTasks, copied>>
  PROVE  Inv'
  <1>1. Types
    BY DEF Inv
  <1>2. /\ proc' \in [Pids -> Process]
        /\ \A q \in Pids : proc'[q].state \in {"running", "stopped"} =>
             Live(q) /\ q # p /\ proc'[q].kind = proc[q].kind
        /\ \A r, q \in Pids : Unreaped(r, q) /\ r # p =>
             proc'[q].state # "free" /\ proc'[q].parent = r
    BY <1>1, Deaths DEF Types
  <1>3. \A r \in Shells' : r \in Shells
    BY <1>2 DEF Shells, Live
  <1>4. \A r \in Shells, q \in Pids : Unreaped(r, q) =>
          /\ proc'[q].state # "free" /\ proc'[q].parent = r
          /\ proc'[q].state \in {"running", "stopped"} => Live(q)
    BY <1>2 DEF Shells
  <1> QED
    BY <1>2, <1>3, <1>4, QuietStep

\* One shell without tasks: the invariant holds.
LEMMA InitInv == Init => Inv
  <1> SUFFICES ASSUME Init PROVE Inv
    OBVIOUS
  <1>1. Types
    BY FirstAssumption, LimitAssumption DEF Init, ProcInit, Types, Process, New, Free
  <1>2. OwnTasksKept /\ TerminatedDead
    BY DEF Init, OwnTasksKept, TerminatedDead, taskIndex, Shells
  <1> QED
    BY <1>1, <1>2 DEF Inv

\* Every step keeps the invariant.
LEMMA StepInv == Inv /\ [Next]_vars => Inv'
  <1> SUFFICES ASSUME Inv, [Next]_vars PROVE Inv'
    OBVIOUS
  <1>1. Types
    BY DEF Inv
  <1>2. CASE UNCHANGED vars
    BY <1>2 DEF vars, Inv, Types, OwnTasksKept, TerminatedDead, Shells, Live, Unreaped, taskIndex
  <1>3. ASSUME NEW s \in Pids, NEW p \in Pids, Run(s, p) PROVE Inv'
    <2>1. /\ allTasks' = [allTasks EXCEPT ![s] = Append(@, Task(p))] /\ copied' = copied
          /\ proc' = [proc EXCEPT ![p] = New("program", s)] /\ s # p
          /\ Prompting(s) /\ taskIndex(s) <= MAXTASKS /\ proc[p].state = "free"
      BY <1>3 DEF Run, Prompting
    <2>2. Append(allTasks[s], Task(p)) \in Seq(Tasks)
      BY <1>1, NewTask
    <2>3. /\ allTasks' \in [Pids -> Seq(Tasks)] /\ allTasks'[s] = Append(allTasks[s], Task(p))
          /\ \A r \in Pids \ {s} : allTasks'[r] = allTasks[r]
      BY <1>1, <2>1, <2>2 DEF Types
    <2> QED
      BY <1>1, <2>1, <2>3, ForkStep DEF Types
  <1>4. ASSUME NEW s \in Pids, NEW p \in Pids, RunMissing(s, p) PROVE Inv'
    <2>1. /\ allTasks' = [allTasks EXCEPT ![s] = Append(@, Task(p)), ![p] = allTasks[s]]
          /\ copied' = [copied EXCEPT ![p] = taskIndex(s)]
          /\ proc' = [proc EXCEPT ![p] = New("shell", s)] /\ s # p
          /\ Prompting(s) /\ taskIndex(s) <= MAXTASKS /\ proc[p].state = "free"
      BY <1>4 DEF RunMissing, Prompting
    <2>2. Append(allTasks[s], Task(p)) \in Seq(Tasks) /\ allTasks[s] \in Seq(Tasks)
      BY <1>1, NewTask
    <2>3. /\ allTasks' \in [Pids -> Seq(Tasks)] /\ allTasks'[s] = Append(allTasks[s], Task(p))
          /\ allTasks'[p] = allTasks[s]
          /\ \A r \in Pids \ {s, p} : allTasks'[r] = allTasks[r]
      BY <1>1, <2>1, <2>2 DEF Types
    <2>4. Len(allTasks[s]) \in 0 .. MAXTASKS + 1
      BY <1>1, LimitAssumption DEF Types
    <2>5. /\ copied' \in [Pids -> 0 .. MAXTASKS + 1] /\ copied'[p] = Len(allTasks[s])
          /\ \A r \in Pids \ {p} : copied'[r] = copied[r]
      BY <1>1, <2>1, <2>4 DEF Types, taskIndex
    <2>6. Len(allTasks'[p]) = copied'[p] /\ copied'[p] <= MAXTASKS + 1
      BY <2>3, <2>4, <2>5, LimitAssumption
    <2>7. ("shell" = "shell" => Len(allTasks'[p]) = copied'[p] /\ copied'[p] <= MAXTASKS + 1)
          /\ ("shell" = "program" => allTasks'[p] = allTasks[p])
      BY <2>6
    <2> QED
      BY <2>1, <2>3, <2>5, <2>7, ForkStep
  <1>5. ASSUME NEW s \in Pids, NEW i \in 1 .. MAXTASKS + 1, Stop(s, i) \/ Continue(s, i) PROVE Inv'
    <2>1. i \in DOMAIN allTasks[s]
      BY <1>5 DEF Stop, Continue
    <2>2. allTasks[s][i].pid \in Pids
      BY <1>1, <2>1, TaskType DEF Types
    <2> QED
      BY <1>5, <2>2, SignalStep DEF Stop, Continue
  <1>6. ASSUME NEW s \in Pids, NEW i \in 1 .. MAXTASKS + 1, Terminate(s, i) PROVE Inv'
    <2> DEFINE tasks == [allTasks EXCEPT ![s][i].running = FALSE]
    <2>1. /\ i \in DOMAIN allTasks[s] /\ Forget(tasks)
          /\ proc' = AfterDeath({allTasks[s][i].pid})
      BY <1>6 DEF Terminate
    <2>2. allTasks[s] \in Seq(Tasks) /\ allTasks[s][i] \in Tasks
      BY <1>1, <2>1 DEF Types
    <2>3. tasks = [allTasks EXCEPT ![s] = [allTasks[s] EXCEPT ![i] = [allTasks[s][i] EXCEPT !.running = FALSE]]]
      OBVIOUS
    <2>4. [allTasks[s][i] EXCEPT !.running = FALSE] \in Tasks
          /\ [allTasks[s][i] EXCEPT !.running = FALSE].pid = allTasks[s][i].pid
      BY <2>2 DEF Tasks
    <2> DEFINE changed == [allTasks[s] EXCEPT ![i] = [allTasks[s][i] EXCEPT !.running = FALSE]]
    <2>5. /\ changed \in Seq(Tasks) /\ Len(changed) = Len(allTasks[s])
          /\ \A j \in 1 .. Len(allTasks[s]) :
               /\ changed[j].pid = allTasks[s][j].pid
               /\ ~changed[j].running => ~allTasks[s][j].running \/ j = i
      BY <2>1, <2>2, <2>4
    <2> HIDE DEF changed
    <2>6. tasks \in [Pids -> Seq(Tasks)] /\ tasks[s] = changed /\ \A r \in Pids \ {s} : tasks[r] = allTasks[r]
      BY <1>1, <2>3, <2>5 DEF Types, changed
    <2> HIDE DEF tasks
    <2>7. \A r \in Pids : Len(tasks[r]) = Len(allTasks[r])
      BY <2>5, <2>6
    <2>8. \A r \in Pids : \A j \in 1 .. Len(allTasks[r]) :
            /\ tasks[r][j].pid = allTasks[r][j].pid
            /\ ~tasks[r][j].running => ~allTasks[r][j].running \/ allTasks[r][j].pid \in {allTasks[s][i].pid}
      BY <2>5, <2>6
    <2> QED
      BY <2>1, <2>6, <2>7, <2>8, DeathStep
  <1>7. ASSUME NEW s \in Pids, Exit(s) \/ Quit(s) PROVE Inv'
    <2>1. PICK victims : proc' = AfterDeath(victims) /\ Forget(allTasks)
      BY <1>7 DEF Exit, Quit
    <2> QED
      BY <1>1, <2>1, DeathStep DEF Types
  <1>8. ASSUME NEW p \in Pids, Ends(p) PROVE Inv'
    BY <1>8, EndStep DEF Ends, ProgramEnds
  <1>9. ASSUME NEW p \in Pids, Starts(p) PROVE Inv'
    <2>1. /\ proc[p].state = "free" /\ UNCHANGED <<allTasks, copied>>
          /\ proc' = [proc EXCEPT ![p] = New("stranger", Reaper)]
      BY <1>9 DEF Starts, StrangerStarts
    <2>2. /\ proc' \in [Pids -> Process] /\ proc'[p].kind = "stranger"
          /\ \A q \in Pids \ {p} : proc'[q] = proc[q]
      BY <1>1, <2>1 DEF Types, Process, New
    <2>3. \A r \in Shells' : r \in Shells
      BY <2>2 DEF Shells, Live
    <2>4. \A r \in Shells, q \in Pids : Unreaped(r, q) =>
            /\ proc'[q].state # "free" /\ proc'[q].parent = r
            /\ proc'[q].state \in {"running", "stopped"} => Live(q)
      BY <2>1, <2>2 DEF Unreaped, Live
    <2> QED
      BY <2>1, <2>2, <2>3, <2>4, QuietStep
  <1>10. ASSUME NEW p \in Pids, Signalled(p) PROVE Inv'
    <2>1. CASE proc' = AfterStop(p) \/ proc' = AfterCont(p)
      BY <1>10, <2>1, SignalStep DEF Signalled
    <2>2. CASE proc[p].kind # "shell" /\ proc' = AfterDeath({p})
      BY <1>10, <2>2, EndStep DEF Signalled
    <2> QED
      BY <1>10, <2>1, <2>2 DEF Signalled, OutsideSignal
  <1> QED
    BY <1>2, <1>3, <1>4, <1>5, <1>6, <1>7, <1>8, <1>9, <1>10 DEF Next, Command

\* Own tasks stay unreaped and those that are not called running are dead, in
\* every shell (msh379.cpp:131-275).
THEOREM Invariance == Spec => []Inv
  BY InitInv, StepInv, PTL DEF Spec

-----------------------------------------------------------------------------
(* The theorems.                                                            *)

\* The variables have their types; a shell has at most MAXTASKS + 1 tasks
\* (msh379.cpp:137).
THEOREM TypeCorrect == Spec => []TypeOK
  <1>1. Inv => TypeOK
    BY DEF Inv, Types, TypeOK, Tasks
  <1> QED
    BY <1>1, Invariance, PTL

\* The pid of a task that its shell forked stays that child's
\* (msh379.cpp:220, 241, 267, 396).
THEOREM TasksKept == Spec => []OwnTasksKept
  <1>1. Inv => OwnTasksKept
    BY DEF Inv
  <1> QED
    BY <1>1, Invariance, PTL

\* A task that its shell no longer calls running is dead (msh379.cpp:267, 395).
THEOREM NoLiveTaskForgotten == Spec => []TerminatedDead
  <1>1. Inv => TerminatedDead
    BY DEF Inv
  <1> QED
    BY <1>1, Invariance, PTL

\* exit kills the tasks that are marked, whoever forked them, and the others of
\* its own are dead (msh379.cpp:391-399).
THEOREM CleanExit == Spec => ExitKillsTasks
  <1> DEFINE Killed(s) == \A i \in DOMAIN allTasks[s] :
               allTasks[s][i].running \/ i > copied[s] =>
                 proc'[allTasks[s][i].pid].state \in {"zombie", "free"}
             A == \A s \in Pids : Exit(s) /\ (\A i \in Marked(s) : allTasks[s][i].pid # s) => Killed(s)
  <1>1. ASSUME Inv, NEW s \in Pids, Exit(s), \A i \in Marked(s) : allTasks[s][i].pid # s
        PROVE  Killed(s)
    <2> DEFINE victims == {s} \cup {allTasks[s][i].pid : i \in
                 {j \in Marked(s) : \A k \in Marked(s) : k < j => allTasks[s][k].pid # s}}
    <2>1. proc' = AfterDeath(victims) /\ Prompting(s)
      BY <1>1 DEF Exit
    <2>2. \A i \in Marked(s) : allTasks[s][i].pid \in victims
      BY <1>1
    <2> HIDE DEF victims
    <2>3. Types /\ TerminatedDead /\ s \in Shells
      BY <1>1, <2>1 DEF Inv, Prompting, Shells, Live
    <2>4. /\ proc' \in [Pids -> Process]
          /\ \A p \in Pids : proc'[p].state \in {"running", "stopped"} => Live(p) /\ p \notin victims
      BY <2>1, <2>3, Deaths DEF Types
    <2>5. ASSUME NEW i \in DOMAIN allTasks[s], allTasks[s][i].running \/ i > copied[s]
          PROVE  proc'[allTasks[s][i].pid].state \in {"zombie", "free"}
      <3>1. i \in 1 .. Len(allTasks[s])
        BY <2>3 DEF Types
      <3>2. allTasks[s][i].pid \in Pids
        BY <2>3, <3>1, TaskType
      <3>3. CASE allTasks[s][i].running
        <4>1. i \in Marked(s)
          BY <3>3 DEF Marked
        <4> QED
          BY <2>2, <2>4, <3>2, <4>1 DEF Process
      <3>4. CASE ~allTasks[s][i].running
        <4>1. i \in copied[s] + 1 .. taskIndex(s)
          <5>1. copied[s] \in Nat /\ Len(allTasks[s]) \in Nat
            BY <2>3, LimitAssumption DEF Types
          <5> QED
            BY <2>5, <3>1, <3>4, <5>1 DEF taskIndex
        <4>2. ~Live(allTasks[s][i].pid)
          BY <2>3, <3>4, <4>1 DEF TerminatedDead
        <4> QED
          BY <2>4, <3>2, <4>2 DEF Process
      <3> QED
        BY <3>3, <3>4
    <2> QED
      BY <2>5
  <1>2. Inv /\ [Next]_vars => [A]_vars
    BY <1>1
  <1>3. Spec => [][A]_vars
    BY <1>2, Invariance, PTL DEF Spec
  <1> QED
    BY <1>3 DEF ExitKillsTasks
=============================================================================
