----------------------------- MODULE Shell379 ------------------------------
(***************************************************************************)
(* Shell379 (Assignment_1/2022F): the command loop, the table of processes *)
(* and the commands exit, kill, resume, sleep, suspend, wait and run.  jobs*)
(* changes nothing and is left out, as are the command texts.              *)
(*                                                                         *)
(* A line of nothing but redirections or & forks a child that calls no     *)
(* exec and returns to the command loop: a second shell with a copy of the *)
(* table, reading the same input.  The state of a shell is therefore kept  *)
(* for each process that is one.                                           *)
(***************************************************************************)
EXTENDS ProcessTable

CONSTANTS
  MAX_PT_ENTRIES,
  Oddities    \* what else happens: "bare" and "blank" lines, "full" system

ASSUME LimitAssumption == MAX_PT_ENTRIES \in Nat \ {0} /\ Oddities \subseteq {"bare", "blank", "full"}

VARIABLES
  processes,  \* of each shell: pid -> running
  mode,       \* "prompt", in waitpid for "run" or for "wait", in "sleep", or at "eof"
  target      \* the pid it waits for

vars == <<proc, processes, mode, target>>

EmptyMap == [p \in {} |-> TRUE]
Erase(table, p) == [q \in DOMAIN table \ {p} |-> table[q]]
\* map::emplace leaves an entry that is there alone.
Emplace(table, p) == [q \in DOMAIN table \cup {p} |-> IF q \in DOMAIN table THEN table[q] ELSE TRUE]

Init ==
  /\ ProcInit
  /\ processes = [s \in Pids |-> EmptyMap]
  /\ mode = [s \in Pids |-> "prompt"]
  /\ target = [s \in Pids |-> First]

Prompting(s) ==
  proc[s].kind = "shell" /\ proc[s].state = "running" /\ mode[s] = "prompt"

Waiting(s) == mode[s] \in {"run", "wait"}

Entry(s, p) == p \in DOMAIN processes[s]

\* The memory of a shell that is no more is forgotten.
Shells(table) == {s \in Pids : table[s].kind = "shell" /\ table[s].state \in {"running", "stopped"}}
Kept(maps, table) == [s \in Pids |-> IF s \in Shells(table) THEN maps[s] ELSE EmptyMap]
Forget ==
  /\ mode' = [s \in Pids |-> IF s \in Shells(proc') THEN mode[s] ELSE "prompt"]
  /\ target' = [s \in Pids |-> IF s \in Shells(proc') THEN target[s] ELSE First]

-----------------------------------------------------------------------------
(* Plausible bugs, one for each property.                                   *)

ForkUnchecked(s, p, kind, background) ==      \* a failed fork's -1 goes to the table
  /\ Prompting(s)
  /\ Cardinality(DOMAIN processes[s]) < MAX_PT_ENTRIES
  /\ p # First
  /\ IF proc[p].state = "free"
     THEN proc' = [proc EXCEPT ![p] = New(kind, s)] /\ processes' = [processes EXCEPT ![s] = Emplace(@, p)]
     ELSE UNCHANGED proc /\ processes' = [processes EXCEPT ![s] = Emplace(@, Reaper)]
  /\ UNCHANGED <<mode, target>>

WaitReturnsNoErase(s) ==                      \* the entry stays in the table
  /\ s \in Shells(proc) /\ proc[s].state = "running" /\ Waiting(s)
  /\ proc[target[s]].state = "zombie"
  /\ proc' = AfterWait(target[s])
  /\ mode' = [mode EXCEPT ![s] = "prompt"]
  /\ UNCHANGED <<processes, target>>

WaitUntraced(s) ==                            \* returns for a stopped child too
  /\ s \in Shells(proc) /\ proc[s].state = "running" /\ Waiting(s)
  /\ proc[target[s]].state \in {"zombie", "stopped"}
  /\ proc' = IF proc[target[s]].state = "zombie" THEN AfterWait(target[s]) ELSE proc
  /\ processes' = [processes EXCEPT ![s] = Erase(@, target[s])]
  /\ mode' = [mode EXCEPT ![s] = "prompt"]
  /\ UNCHANGED target

WaitTillDead(s, p) ==                         \* tries again when waitpid fails
  /\ Prompting(s) /\ Entry(s, p)
  /\ mode' = [mode EXCEPT ![s] = "wait"]
  /\ target' = [target EXCEPT ![s] = p]
  /\ UNCHANGED <<proc, processes>>

ExitRunning(s) ==                             \* kills what it takes for running
  /\ Prompting(s)
  /\ proc' = AfterDeath({s} \cup {p \in DOMAIN processes[s] : processes[s][p]})
  /\ processes' = Kept(processes, proc')
  /\ Forget

-----------------------------------------------------------------------------
(* run, Process.cpp:25-157.                                                 *)

\* fork, in the parent and in the child.  A foreground command is waited for.
Fork(s, p, kind, background) ==
  /\ Prompting(s)
  /\ Cardinality(DOMAIN processes[s]) < MAX_PT_ENTRIES
  /\ proc[p].state = "free" /\ p # First
  /\ proc' = [proc EXCEPT ![p] = New(kind, s)]
  /\ processes' = [processes EXCEPT
       ![s] = Emplace(@, p),
       ![p] = IF kind = "shell" THEN processes[s] ELSE EmptyMap]
  /\ IF background
     THEN UNCHANGED <<mode, target>>
     ELSE mode' = [mode EXCEPT ![s] = "run"] /\ target' = [target EXCEPT ![s] = p]

RunProgram(s, p, background) == Fork(s, p, "program", background)

\* No exec is called with no word left (switch, lines 84-123).
RunBare(s, p, background) ==
  /\ "bare" \in Oddities
  /\ Fork(s, p, "shell", background)

\* With no process left in the system fork fails and the shell exits, killing
\* nothing (lines 60-64).
ForkFails(s) ==
  /\ "full" \in Oddities
  /\ Prompting(s)
  /\ Cardinality(DOMAIN processes[s]) < MAX_PT_ENTRIES
  /\ \A p \in Pids \ {First} : proc[p].state # "free"
  /\ proc' = AfterDeath({s})
  /\ processes' = Kept(processes, proc')
  /\ Forget

\* waitpid without WUNTRACED: it returns when the child is dead.  run and wait
\* then erase the entry.
WaitReturns(s) ==
  /\ s \in Shells(proc) /\ proc[s].state = "running" /\ Waiting(s)
  /\ Unreaped(s, target[s]) /\ proc[target[s]].state = "zombie"
  /\ proc' = AfterWait(target[s])
  /\ processes' = [processes EXCEPT ![s] = Erase(@, target[s])]
  /\ mode' = [mode EXCEPT ![s] = "prompt"]
  /\ UNCHANGED target

-----------------------------------------------------------------------------
(* The commands, Commands.cpp.                                              *)

\* waitpid blocks for a child.  For any other entry of a copied table it fails:
\* the prompt is back and the entry stays.
Wait(s, p) ==
  /\ Prompting(s) /\ Entry(s, p)
  /\ IF Unreaped(s, p)
     THEN mode' = [mode EXCEPT ![s] = "wait"] /\ target' = [target EXCEPT ![s] = p]
     ELSE UNCHANGED <<mode, target>>
  /\ UNCHANGED <<proc, processes>>

\* The child is not waited for: it stays a zombie.
Kill(s, p) ==
  /\ Prompting(s) /\ Entry(s, p)
  /\ proc' = AfterDeath({p})
  /\ processes' = Kept([processes EXCEPT ![s] = Erase(@, p)], proc')
  /\ Forget

Suspend(s, p) ==
  /\ Prompting(s) /\ Entry(s, p)
  /\ proc' = AfterStop(p)
  /\ processes' = [processes EXCEPT ![s][p] = FALSE]
  /\ UNCHANGED <<mode, target>>

Resume(s, p) ==
  /\ Prompting(s) /\ Entry(s, p)
  /\ proc' = AfterCont(p)
  /\ processes' = [processes EXCEPT ![s][p] = TRUE]
  /\ UNCHANGED <<mode, target>>

\* sleep blocks the prompt; a signal that stops the shell only delays it.
Sleep(s) ==
  /\ Prompting(s)
  /\ mode' = [mode EXCEPT ![s] = "sleep"]
  /\ UNCHANGED <<proc, processes, target>>

Wakes(s) ==
  /\ mode[s] = "sleep" /\ proc[s].state = "running"
  /\ mode' = [mode EXCEPT ![s] = "prompt"]
  /\ UNCHANGED <<proc, processes, target>>

\* getline fails from then on, and the prompt is repeated for ever.
EndOfInput(s) ==
  /\ Prompting(s)
  /\ mode' = [mode EXCEPT ![s] = "eof"]
  /\ UNCHANGED <<proc, processes, target>>

\* A shell that was given a pid of the table it copied may come to itself
\* before it has killed the others.
Exit(s) ==
  /\ Prompting(s)
  /\ \E victims \in SUBSET DOMAIN processes[s] :
       /\ victims = DOMAIN processes[s] \/ Entry(s, s)
       /\ proc' = AfterDeath({s} \cup victims)
  /\ processes' = Kept(processes, proc')
  /\ Forget

\* tokens.at(0) of a line of blanks, and stoi of a word that is no number,
\* throw; nothing catches.
Throw(s) ==
  /\ "blank" \in Oddities
  /\ Prompting(s)
  /\ proc' = AfterDeath({s})
  /\ processes' = Kept(processes, proc')
  /\ Forget

Ends(p) == ProgramEnds(p) /\ UNCHANGED <<processes, mode, target>>
Starts(p) == StrangerStarts(p) /\ UNCHANGED <<processes, mode, target>>
Signalled(p) == OutsideSignal(p) /\ UNCHANGED <<processes, mode, target>>

Command(s) ==
  \/ \E p \in Pids, background \in BOOLEAN :
       RunProgram(s, p, background) \/ RunBare(s, p, background)
  \/ \E p \in Pids : Wait(s, p) \/ Kill(s, p) \/ Suspend(s, p) \/ Resume(s, p)
  \/ Sleep(s) \/ EndOfInput(s) \/ ForkFails(s) \/ Exit(s) \/ Throw(s)

Next ==
  \/ \E s \in Pids : Command(s) \/ WaitReturns(s) \/ Wakes(s)
  \/ \E p \in Pids : Ends(p) \/ Starts(p) \/ Signalled(p)

Spec == Init /\ [][Next]_vars

\* A program that keeps running ends at some time, and waitpid then returns.
FairSpec ==
  Spec /\ \A p \in Pids : WF_vars(Ends(p)) /\ WF_vars(WaitReturns(p))

-----------------------------------------------------------------------------
(* Properties.                                                              *)

\* The variables have their types.
TypeOK ==
  /\ proc \in [Pids -> Process]
  /\ \A s \in Pids : DOMAIN processes[s] \subseteq Pids /\ \A p \in DOMAIN processes[s] : processes[s][p] \in BOOLEAN
  /\ mode \in [Pids -> {"prompt", "run", "wait", "sleep", "eof"}] /\ target \in [Pids -> Pids]

\* A live child of a shell, running or stopped, by whomever, is in the shell's
\* table, whatever other shells with copied tables and signals from outside do:
\* an entry goes only when its process is dead (Commands.cpp:99-100, 178-179;
\* Process.cpp:150-151), so that resume, kill and exit reach every child.
ChildrenListed ==
  \A s \in Shells(proc), p \in Pids : Live(p) /\ proc[p].parent = s => Entry(s, p)

\* Each pid in the table is that of an unreaped child of the shell, so that a
\* signal never reaches a stranger that was given the pid later
\* (Commands.cpp:99, 121, 155; Process.cpp:151).
OwnChildren == \A s \in Shells(proc) : \A p \in DOMAIN processes[s] : Unreaped(s, p)

\* No program outlives the shell that started it: every live child is in the
\* table when exit kills what is there (Commands.cpp:32-44).
NoOrphans == \A p \in Pids : Live(p) /\ proc[p].kind = "program" => proc[p].parent \in Shells(proc)

\* A live program loses its shell only if that crashes, by a line of blanks or
\* when no process is left, or is killed, by another shell or as an entry of its
\* own table: whatever several shells with copied tables have killed, suspended,
\* waited for or forgotten, exit kills every live program of its own
\* (Commands.cpp:31-44, Process.cpp:60-64).
OrphanedByCrash ==
  [][\A s \in Shells(proc) : s \notin Shells(proc') =>
       \/ ForkFails(s) \/ Throw(s)
       \/ \E t \in Pids : Kill(t, s) \/ (Exit(t) /\ (t = s => Entry(s, s)))
       \/ \A p \in Pids :
            Live(p) /\ proc[p].kind = "program" /\ proc[p].parent = s =>
              proc'[p].state \in {"free", "zombie"}]_vars

\* A shell that runs a program in the foreground or waits for one gets its
\* prompt back, unless the program or the shell is stopped: also when the table
\* is a copy and the pid is another shell's program or is no longer there, for
\* which waitpid fails (Process.cpp:150, Commands.cpp:178).
BlockedReturns ==
  \A s \in Pids :
    Waiting(s) /\ proc[target[s]].kind = "program"
      ~> ~Waiting(s) \/ "stopped" \in {proc[s].state, proc[target[s]].state}
=============================================================================
