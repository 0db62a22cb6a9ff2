------------------------------ MODULE Msh379 -------------------------------
(***************************************************************************)
(* msh379 (Assignment_1/msh379.cpp): run, stop, continue, terminate, exit  *)
(* and quit.  lstasks, check, cdir and pdir change no process and are left *)
(* out, as are command texts and the CPU limit.                            *)
(*                                                                         *)
(* Tasks are never removed from allTasks and children are never waited     *)
(* for; taskIndex is its length.  A run whose program cannot be executed   *)
(* leaves the child in the command loop: a second shell with a copy of     *)
(* allTasks, reading the same input.                                       *)
(***************************************************************************)
EXTENDS ProcessTable, Sequences

CONSTANTS
  MAXTASKS,
  Misspelt     \* whether users run programs that do not exist

ASSUME LimitAssumption == MAXTASKS \in Nat /\ Misspelt \in BOOLEAN

VARIABLES
  allTasks,    \* of each shell: <<[pid, running], ...>>
  copied       \* how many of them it got from the shell that forked it

vars == <<proc, allTasks, copied>>

Init ==
  /\ ProcInit
  /\ allTasks = [s \in Pids |-> <<>>]
  /\ copied = [s \in Pids |-> 0]

taskIndex(s) == Len(allTasks[s])
Task(pid) == [pid |-> pid, running |-> TRUE]
Shells == {s \in Pids : proc[s].kind = "shell" /\ Live(s)}
Marked(s) == {i \in DOMAIN allTasks[s] : allTasks[s][i].running}
Prompting(s) == proc[s].kind = "shell" /\ proc[s].state = "running"

\* The memory of a shell that is no more is forgotten.
Remaining(s) == proc'[s].kind = "shell" /\ proc'[s].state \in {"running", "stopped"}
Forget(tasks) ==
  /\ allTasks' = [s \in Pids |-> IF Remaining(s) THEN tasks[s] ELSE <<>>]
  /\ copied' = [s \in Pids |-> IF Remaining(s) THEN copied[s] ELSE 0]

-----------------------------------------------------------------------------
(* Plausible bugs, one for each property.                                   *)

RunNoLimit(s, p) ==             \* the number of tasks is not tested
  /\ Prompting(s)
  /\ proc[p].state = "free" /\ p # First
  /\ proc' = [proc EXCEPT ![p] = New("program", s)]
  /\ allTasks' = [allTasks EXCEPT ![s] = Append(@, Task(p))]
  /\ UNCHANGED copied

StopReaps(s, i) ==              \* waits for the task it has stopped
  /\ Prompting(s) /\ i \in DOMAIN allTasks[s]
  /\ LET p == allTasks[s][i].pid IN
       proc' = IF Unreaped(s, p) THEN AfterWait(p) ELSE proc
  /\ UNCHANGED <<allTasks, copied>>

TerminateSoftly(s, i) ==        \* a stopped task does not die
  /\ Prompting(s) /\ i \in DOMAIN allTasks[s]
  /\ allTasks[s][i].running
  /\ LET p == allTasks[s][i].pid IN
       proc' = IF proc[p].state = "running" THEN AfterDeath({p}) ELSE proc
  /\ Forget([allTasks EXCEPT ![s][i].running = FALSE])

ExitTwiceTerminated(s) ==       \* kills what is not marked as running
  /\ Prompting(s)
  /\ proc' = AfterDeath({s} \cup {allTasks[s][i].pid : i \in {j \in DOMAIN allTasks[s] : ~allTasks[s][j].running}})
  /\ Forget(allTasks)

-----------------------------------------------------------------------------
(* run, msh379.cpp:131-205.                                                 *)

Run(s, p) ==
  /\ Prompting(s)
  /\ taskIndex(s) <= MAXTASKS
  /\ proc[p].state = "free" /\ p # First
  /\ proc' = [proc EXCEPT ![p] = New("program", s)]
  /\ allTasks' = [allTasks EXCEPT ![s] = Append(@, Task(p))]
  /\ UNCHANGED copied

\* exec fails in the child, which clears errno and goes on as a shell; the
\* parent records a task all the same.
RunMissing(s, p) ==
  /\ Misspelt
  /\ Prompting(s)
  /\ taskIndex(s) <= MAXTASKS
  /\ proc[p].state = "free" /\ p # First
  /\ proc' = [proc EXCEPT ![p] = New("shell", s)]
  /\ allTasks' = [allTasks EXCEPT ![s] = Append(@, Task(p)), ![p] = allTasks[s]]
  /\ copied' = [copied EXCEPT ![p] = taskIndex(s)]

-----------------------------------------------------------------------------
(* The commands on a task and the two ways out, msh379.cpp:208-275, 391.    *)

Stop(s, i) ==
  /\ Prompting(s) /\ i \in DOMAIN allTasks[s]
  /\ proc' = AfterStop(allTasks[s][i].pid)
  /\ UNCHANGED <<allTasks, copied>>

Continue(s, i) ==
  /\ Prompting(s) /\ i \in DOMAIN allTasks[s]
  /\ proc' = AfterCont(allTasks[s][i].pid)
  /\ UNCHANGED <<allTasks, copied>>

Terminate(s, i) ==
  /\ Prompting(s) /\ i \in DOMAIN allTasks[s]
  /\ allTasks[s][i].running
  /\ proc' = AfterDeath({allTasks[s][i].pid})
  /\ Forget([allTasks EXCEPT ![s][i].running = FALSE])

\* exit kills the tasks marked as running, in their order, then leaves the loop.
\* A shell that was given a pid of the tasks it copied ends when it comes to it.
Exit(s) ==
  /\ Prompting(s)
  /\ proc' = AfterDeath({s} \cup {allTasks[s][i].pid : i \in
       {j \in Marked(s) : \A k \in Marked(s) : k < j => allTasks[s][k].pid # s}})
  /\ Forget(allTasks)

\* quit, and the uncaught stoi of a task number that is not one.
Quit(s) ==
  /\ Prompting(s)
  /\ proc' = AfterDeath({s})
  /\ Forget(allTasks)

Ends(p) == ProgramEnds(p) /\ UNCHANGED <<allTasks, copied>>
Starts(p) == StrangerStarts(p) /\ UNCHANGED <<allTasks, copied>>
Signalled(p) == OutsideSignal(p) /\ UNCHANGED <<allTasks, copied>>

Command(s) ==
  \/ \E p \in Pids : Run(s, p) \/ RunMissing(s, p)
  \/ \E i \in 1 .. MAXTASKS + 1 : Stop(s, i) \/ Continue(s, i) \/ Terminate(s, i)
  \/ Exit(s) \/ Quit(s)

Next ==
  \/ \E s \in Pids : Command(s)
  \/ \E p \in Pids : Ends(p) \/ Starts(p) \/ Signalled(p)

Spec == Init /\ [][Next]_vars

-----------------------------------------------------------------------------
(* Properties.                                                              *)

\* The variables have their types.  allTasks may hold one task more than
\* MAXTASKS (msh379.cpp:137).
TypeOK ==
  /\ proc \in [Pids -> Process]
  /\ \A s \in Pids : allTasks[s] \in Seq([pid : Pids, running : BOOLEAN]) /\ Len(allTasks[s]) <= MAXTASKS + 1
  /\ copied \in [Pids -> 0 .. MAXTASKS + 1]

\* The pid of a task its own shell forked is still that child's: nothing reaps
\* it while the shell lives, so stop, continue, terminate and exit reach no
\* stranger through it (msh379.cpp:220, 241, 267, 396).
OwnTasksKept ==
  \A s \in Shells : \A i \in copied[s] + 1 .. taskIndex(s) : Unreaped(s, allTasks[s][i].pid)

\* A task of its own that a shell no longer calls running is dead: terminate
\* kills it in whatever state it is, and exit may skip it (msh379.cpp:267, 395).
TerminatedDead ==
  \A s \in Shells : \A i \in copied[s] + 1 .. taskIndex(s) :
    ~allTasks[s][i].running => ~Live(allTasks[s][i].pid)

\* exit leaves no task of the shell that exits alive, stopped ones included,
\* nor a task it knows by its copy and calls running, unless the shell was given
\* the pid of one of them (msh379.cpp:391-399).
ExitKillsTasks ==
  [][\A s \in Pids : Exit(s) /\ (\A i \in Marked(s) : allTasks[s][i].pid # s) =>
       \A i \in DOMAIN allTasks[s] :
         allTasks[s][i].running \/ i > copied[s] =>
           proc'[allTasks[s][i].pid].state \in {"zombie", "free"}]_vars
=============================================================================
