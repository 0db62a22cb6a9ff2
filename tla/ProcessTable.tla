--------------------------- MODULE ProcessTable ----------------------------
(***************************************************************************)
(* The kernel's side of the two shells of Assignment_1: processes, who     *)
(* forked them, what kill and waitpid do to them.  It is modelled from how *)
(* shell379 and msh379 use fork, execlp, kill and waitpid.                 *)
(*                                                                         *)
(* A dead process stays a zombie until its parent waits for it; a process  *)
(* whose parent has died belongs to init, which waits at once.  A pid that *)
(* is free again may be given to a stranger, a process of the same user    *)
(* that no shell started.                                                  *)
(***************************************************************************)
EXTENDS Naturals, FiniteSets

CONSTANTS
  Pids,
  First,    \* the shell the user started
  Reaper    \* init

ASSUME FirstAssumption == First \in Pids /\ Reaper \notin Pids

VARIABLE proc

Process == [state : {"free", "running", "stopped", "zombie"},
            kind : {"none", "shell", "program", "stranger"},
            parent : Pids \cup {Reaper}]

Free == [state |-> "free", kind |-> "none", parent |-> Reaper]
New(kind, parent) == [state |-> "running", kind |-> kind, parent |-> parent]

Live(p) == proc[p].state \in {"running", "stopped"}
Unreaped(s, p) == proc[p].state # "free" /\ proc[p].parent = s

\* The table after the live processes among victims have died.
AfterDeath(victims) ==
  [p \in Pids |->
    LET dies == Live(p) /\ p \in victims
        orphaned == proc[p].parent \in {v \in victims : Live(v)}
        adopted == proc[p].parent = Reaper \/ orphaned
    IN IF adopted /\ (dies \/ ~Live(p)) THEN Free
       ELSE [proc[p] EXCEPT !.state = IF dies THEN "zombie" ELSE @,
                            !.parent = IF orphaned THEN Reaper ELSE @]]

\* kill(p, sig) for the signals that stop and continue; a zombie or a free pid
\* is not affected.
AfterStop(p) == IF Live(p) THEN [proc EXCEPT ![p].state = "stopped"] ELSE proc
AfterCont(p) == IF Live(p) THEN [proc EXCEPT ![p].state = "running"] ELSE proc

\* waitpid(p) has returned p.
AfterWait(p) == [proc EXCEPT ![p] = Free]

ProcInit == proc = [p \in Pids |-> IF p = First THEN New("shell", Reaper) ELSE Free]

ProgramEnds(p) ==
  /\ proc[p].state = "running" /\ proc[p].kind \in {"program", "stranger"}
  /\ proc' = AfterDeath({p})

\* Somebody outside the shells stops, continues or kills a process.  A shell is
\* not killed so.
OutsideSignal(p) ==
  /\ Live(p)
  /\ \/ proc' = AfterStop(p)
     \/ proc' = AfterCont(p)
     \/ proc[p].kind # "shell" /\ proc' = AfterDeath({p})

StrangerStarts(p) ==
  /\ proc[p].state = "free" /\ p # First
  /\ proc' = [proc EXCEPT ![p] = New("stranger", Reaper)]
=============================================================================
