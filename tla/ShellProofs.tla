---------------------------- MODULE ShellProofs ----------------------------
(***************************************************************************)
(* Proofs about Shell379 for every number of pids, any table and any       *)
(* number of shells: types, what is waited for, how a program loses its    *)
(* shell; and, for a shell that gets ordinary commands only, that its table*)
(* is right.                                                               *)
(***************************************************************************)
EXTENDS Shell379, TLAPS

Tables == UNION {[D -> BOOLEAN] : D \in SUBSET Pids}

Types ==
  /\ proc \in [Pids -> Process]
  /\ processes \in [Pids -> Tables]
  /\ mode \in [Pids -> {"prompt", "run", "wait", "sleep", "eof"}]
  /\ target \in [Pids -> Pids]

\* What is no shell does not wait.
Idle == \A p \in Pids : p \notin Shells(proc) => mode[p] = "prompt"

\* A parent is a shell that lives, or init.
Parents == \A p \in Pids : proc[p].parent \in Shells(proc) \cup {Reaper}

\* What a shell is blocked on is an unreaped child of its own.
WaitsForChild ==
  \A s \in Shells(proc) : Waiting(s) => Unreaped(s, target[s])

Inv == Types /\ Idle /\ Parents /\ ChildrenListed /\ WaitsForChild

-----------------------------------------------------------------------------
(* The kernel and the table.                                                *)

\* What the death of victims leaves of the others.
LEMMA Deaths ==
  ASSUME proc \in [Pids -> Process], NEW victims, NEW after, after = AfterDeath(victims)
  PROVE  /\ after \in [Pids -> Process]
         /\ \A p \in Pids : after[p].state \in {"running", "stopped"} =>
              /\ Live(p) /\ p \notin victims
              /\ after[p].kind = proc[p].kind /\ after[p].state = proc[p].state
         /\ \A p \in Pids : Live(p) /\ p \notin victims =>
              after[p].kind = proc[p].kind /\ after[p].state = proc[p].state
         /\ \A s, p \in Pids : Unreaped(s, p) /\ s \notin victims =>
              after[p].state # "free" /\ after[p].parent = s
         /\ \A p \in Pids :
              \/ after[p].parent = Reaper
              \/ /\ after[p].parent = proc[p].parent
                 /\ ~(proc[p].parent \in victims /\ Live(proc[p].parent))
  <1> DEFINE orphaned(p) == proc[p].parent \in {v \in victims : Live(v)}
             dies(p) == Live(p) /\ p \in victims
             value(p) ==
               IF (proc[p].parent = Reaper \/ orphaned(p)) /\ (dies(p) \/ ~Live(p)) THEN Free
               ELSE [proc[p] EXCEPT !.state = IF dies(p) THEN "zombie" ELSE @,
                                    !.parent = IF orphaned(p) THEN Reaper ELSE @]
  <1>1. after = [p \in Pids |-> value(p)]
    BY DEF AfterDeath
  <1>2. ASSUME NEW p \in Pids
        PROVE  /\ value(p) \in Process
               /\ value(p).state \in {"running", "stopped"} =>
                    /\ Live(p) /\ p \notin victims
                    /\ value(p).kind = proc[p].kind /\ value(p).state = proc[p].state
               /\ Live(p) /\ p \notin victims =>
                    value(p).kind = proc[p].kind /\ value(p).state = proc[p].state
               /\ value(p).parent = Reaper \/ (value(p).parent = proc[p].parent /\ ~orphaned(p))
    <2>1. proc[p] \in Process
      OBVIOUS
    <2> QED
      BY <2>1 DEF Process, Free, Live
  <1>3. ASSUME NEW s \in Pids, NEW p \in Pids, Unreaped(s, p), s \notin victims
        PROVE  value(p).state # "free" /\ value(p).parent = s
    <2>1. proc[p] \in Process /\ proc[p].state # "free" /\ proc[p].parent = s /\ s # Reaper
      BY <1>3, FirstAssumption DEF Unreaped
    <2>2. ~orphaned(p) /\ proc[p].parent # Reaper
      BY <1>3, <2>1
    <2>3. value(p) = [proc[p] EXCEPT !.state = IF dies(p) THEN "zombie" ELSE @, !.parent = @]
      BY <2>2
    <2> QED
      BY <2>1, <2>3 DEF Process
  <1> HIDE DEF value
  <1> QED
    BY <1>1, <1>2, <1>3

\* A stop or a continue changes the state of one live process, and only that.
LEMMA Signals ==
  ASSUME proc \in [Pids -> Process], NEW p \in Pids, NEW after,
         after = AfterStop(p) \/ after = AfterCont(p)
  PROVE  /\ after \in [Pids -> Process]
         /\ \A q \in Pids : /\ after[q].kind = proc[q].kind /\ after[q].parent = proc[q].parent
                            /\ after[q].state \in {"running", "stopped"} <=> Live(q)
                            /\ after[q].state = "free" <=> proc[q].state = "free"
                            /\ q # p => after[q] = proc[q]
  <1>1. CASE after = AfterStop(p)
    BY <1>1 DEF AfterStop, Live, Process
  <1>2. CASE after = AfterCont(p)
    BY <1>2 DEF AfterCont, Live, Process
  <1> QED
    BY <1>1, <1>2

\* What erase and emplace do to a table.
LEMMA TableFacts ==
  ASSUME NEW table \in Tables, NEW p \in Pids
  PROVE  /\ Erase(table, p) \in Tables /\ DOMAIN Erase(table, p) = DOMAIN table \ {p}
         /\ \A q \in DOMAIN table \ {p} : Erase(table, p)[q] = table[q]
         /\ Emplace(table, p) \in Tables /\ DOMAIN Emplace(table, p) = DOMAIN table \cup {p}
         /\ \A q \in DOMAIN table : Emplace(table, p)[q] = table[q]
         /\ p \notin DOMAIN table => Emplace(table, p)[p] = TRUE
         /\ EmptyMap \in Tables /\ DOMAIN EmptyMap = {}
  <1>1. PICK D \in SUBSET Pids : table \in [D -> BOOLEAN]
    BY DEF Tables
  <1>2. DOMAIN table = D
    BY <1>1
  <1>3. Erase(table, p) \in [D \ {p} -> BOOLEAN] /\ D \ {p} \in SUBSET Pids
    BY <1>1, <1>2 DEF Erase
  <1>4. Emplace(table, p) \in [D \cup {p} -> BOOLEAN] /\ D \cup {p} \in SUBSET Pids
    BY <1>1, <1>2 DEF Emplace
  <1>5. EmptyMap \in [{} -> BOOLEAN] /\ {} \in SUBSET Pids
    BY DEF EmptyMap
  <1>6. /\ Erase(table, p) \in Tables /\ Emplace(table, p) \in Tables /\ EmptyMap \in Tables
    BY <1>3, <1>4, <1>5 DEF Tables
  <1> QED
    BY <1>1, <1>2, <1>3, <1>4, <1>5, <1>6 DEF Erase, Emplace, EmptyMap

\* A flag that is set leaves the pids of the table alone.
LEMMA FlagSet ==
  ASSUME NEW table \in Tables, NEW p \in DOMAIN table, NEW flag \in BOOLEAN
  PROVE  [table EXCEPT ![p] = flag] \in Tables /\ DOMAIN [table EXCEPT ![p] = flag] = DOMAIN table
  <1>1. PICK D \in SUBSET Pids : table \in [D -> BOOLEAN]
    BY DEF Tables
  <1>2. [table EXCEPT ![p] = flag] \in [D -> BOOLEAN]
    BY <1>1
  <1> QED
    BY <1>1, <1>2 DEF Tables

\* The parts of the invariant, by name.
LEMMA InvParts == Inv => Types /\ Idle /\ Parents /\ ChildrenListed /\ WaitsForChild
  BY DEF Inv

-----------------------------------------------------------------------------
(* Every step preserves the invariant.                                      *)

\* A shell that is not among the victims goes on, and no other becomes one.
LEMMA ShellsLeft ==
  ASSUME Types, NEW victims, proc' = AfterDeath(victims)
  PROVE  /\ \A s \in Shells(proc) : s \notin victims => s \in Shells(proc')
         /\ \A s \in Shells(proc') : s \in Shells(proc) /\ s \notin victims
  <1>1. /\ \A p \in Pids : proc'[p].state \in {"running", "stopped"} =>
             /\ Live(p) /\ p \notin victims
             /\ proc'[p].kind = proc[p].kind /\ proc'[p].state = proc[p].state
        /\ \A p \in Pids : Live(p) /\ p \notin victims =>
             proc'[p].kind = proc[p].kind /\ proc'[p].state = proc[p].state
    BY Deaths DEF Types
  <1> QED
    BY <1>1 DEF Shells, Live

\* What a death leaves of parents and children.
LEMMA Orphans ==
  ASSUME Types, Parents, NEW victims, proc' = AfterDeath(victims)
  PROVE  /\ Parents'
         /\ \A s \in Shells(proc'), p \in Pids : Live(p)' /\ proc'[p].parent = s =>
              Live(p) /\ proc[p].parent = s /\ p \notin victims
  <1>1. /\ \A p \in Pids : proc'[p].state \in {"running", "stopped"} => Live(p) /\ p \notin victims
        /\ \A p \in Pids :
             \/ proc'[p].parent = Reaper
             \/ /\ proc'[p].parent = proc[p].parent
                /\ ~(proc[p].parent \in victims /\ Live(proc[p].parent))
    BY Deaths DEF Types
  <1>2. Reaper \notin Shells(proc')
    BY FirstAssumption DEF Shells
  <1>3. ASSUME NEW p \in Pids PROVE proc'[p].parent \in Shells(proc') \cup {Reaper}
    <2>1. CASE proc'[p].parent # Reaper
      <3>1. proc[p].parent \in Shells(proc) /\ proc'[p].parent = proc[p].parent
        BY <1>1, <2>1 DEF Parents
      <3>2. proc[p].parent \notin victims
        BY <1>1, <2>1, <3>1 DEF Shells, Live
      <3> QED
        BY <3>1, <3>2, ShellsLeft
    <2> QED
      BY <2>1
  <1>4. Parents'
    BY <1>3 DEF Parents
  <1>5. \A s \in Shells(proc'), p \in Pids : Live(p)' /\ proc'[p].parent = s =>
          Live(p) /\ proc[p].parent = s /\ p \notin victims
    BY <1>1, <1>2 DEF Live
  <1> QED
    BY <1>4, <1>5

\* A step that kills; only what dies leaves a table.
LEMMA DeathStep ==
  ASSUME Inv, NEW victims, NEW tables \in [Pids -> Tables],
         proc' = AfterDeath(victims), processes' = Kept(tables, proc'), Forget,
         \A s, p \in Pids : Entry(s, p) /\ p \notin DOMAIN tables[s] => p \in victims
  PROVE  Inv'
  <1>1. Types /\ Idle /\ Parents /\ ChildrenListed /\ WaitsForChild
    BY InvParts
  <1>2. /\ proc' \in [Pids -> Process]
        /\ \A s, p \in Pids : Unreaped(s, p) /\ s \notin victims =>
             proc'[p].state # "free" /\ proc'[p].parent = s
    BY <1>1, Deaths DEF Types
  <1>3. \A s \in Shells(proc') : s \in Shells(proc) /\ s \notin victims /\ s \in Pids
    BY <1>1, ShellsLeft DEF Shells
  <1>4. /\ \A s \in Shells(proc') : processes'[s] = tables[s] /\ mode'[s] = mode[s] /\ target'[s] = target[s]
        /\ \A s \in Pids : s \notin Shells(proc') => mode'[s] = "prompt"
    BY <1>3 DEF Kept, Forget
  <1>5. Types'
    <2>1. EmptyMap \in Tables
      BY TableFacts, <1>1, FirstAssumption DEF Types
    <2>2. processes' \in [Pids -> Tables]
      BY <2>1 DEF Kept
    <2>3. mode' \in [Pids -> {"prompt", "run", "wait", "sleep", "eof"}] /\ target' \in [Pids -> Pids]
      BY <1>1, FirstAssumption DEF Types, Forget
    <2> QED
      BY <1>2, <2>2, <2>3 DEF Types
  <1>6. Idle'
    BY <1>4 DEF Idle
  <1>7. Parents' /\ ChildrenListed'
    <2>1. /\ Parents'
          /\ \A s \in Shells(proc'), p \in Pids : Live(p)' /\ proc'[p].parent = s =>
               Live(p) /\ proc[p].parent = s /\ p \notin victims
      BY <1>1, Orphans
    <2>2. ASSUME NEW s \in Shells(proc'), NEW p \in Pids, Live(p)', proc'[p].parent = s
          PROVE  Entry(s, p)'
      <3>1. Live(p) /\ proc[p].parent = s /\ p \notin victims
        BY <2>1, <2>2
      <3>2. Entry(s, p) /\ s \in Pids
        BY <1>1, <1>3, <3>1 DEF ChildrenListed
      <3> QED
        BY <1>4, <3>1, <3>2 DEF Entry
    <2> QED
      BY <2>1, <2>2 DEF ChildrenListed
  <1>8. WaitsForChild'
    <2>1. ASSUME NEW s \in Shells(proc'), Waiting(s)' PROVE Unreaped(s, target[s])'
      <3>1. s \in Shells(proc) /\ s \in Pids /\ s \notin victims /\ Waiting(s) /\ target'[s] = target[s]
        BY <1>3, <1>4, <2>1 DEF Waiting
      <3>2. Unreaped(s, target[s]) /\ target[s] \in Pids
        BY <1>1, <3>1 DEF WaitsForChild, Types
      <3> QED
        BY <1>2, <3>1, <3>2 DEF Unreaped
    <2> QED
      BY <2>1 DEF WaitsForChild
  <1> QED
    BY <1>5, <1>6, <1>7, <1>8 DEF Inv

\* A step that keeps who lives and who is whose child, and every entry.
LEMMA CalmStep ==
  ASSUME Inv, proc' \in [Pids -> Process], processes' \in [Pids -> Tables], UNCHANGED <<mode, target>>,
         \A s \in Pids : DOMAIN processes'[s] = DOMAIN processes[s],
         Shells(proc') = Shells(proc),
         \A p \in Pids : proc'[p].parent = proc[p].parent \/ proc'[p].parent = Reaper,
         \A s \in Shells(proc), p \in Pids : Unreaped(s, p) =>
           proc'[p].state # "free" /\ proc'[p].parent = s,
         \A p \in Pids : proc'[p].parent # Reaper /\ proc'[p].state \in {"running", "stopped"} => Live(p)
  PROVE  Inv'
  <1>1. Types /\ Idle /\ Parents /\ ChildrenListed /\ WaitsForChild
    BY InvParts
  <1>2. Types' /\ Idle' /\ Parents'
    BY <1>1 DEF Types, Idle, Parents
  <1>3. ASSUME NEW s \in Shells(proc'), NEW p \in Pids, Live(p)', proc'[p].parent = s
        PROVE  Entry(s, p)'
    <2>1. s # Reaper /\ s \in Pids
      BY <1>3, FirstAssumption DEF Shells
    <2>2. Live(p) /\ proc[p].parent = s
      BY <1>3, <2>1 DEF Live
    <2> QED
      BY <1>1, <2>1, <2>2 DEF ChildrenListed, Entry
  <1>4. ChildrenListed'
    BY <1>3 DEF ChildrenListed
  <1>5. ASSUME NEW s \in Shells(proc'), Waiting(s)' PROVE Unreaped(s, target[s])'
    <2>1. Unreaped(s, target[s]) /\ target[s] \in Pids /\ s \in Pids
      BY <1>1, <1>5 DEF WaitsForChild, Waiting, Types, Shells
    <2> QED
      BY <1>1, <2>1 DEF Unreaped
  <1>6. WaitsForChild'
    BY <1>5 DEF WaitsForChild
  <1> QED
    BY <1>2, <1>4, <1>6 DEF Inv

\* A step of one prompt that changes neither processes nor tables; if it then
\* waits, it waits for a child.
LEMMA PromptStep ==
  ASSUME Inv, NEW s \in Shells(proc), UNCHANGED <<proc, processes>>,
         mode' \in [Pids -> {"prompt", "run", "wait", "sleep", "eof"}], target' \in [Pids -> Pids],
         \A r \in Pids \ {s} : mode'[r] = mode[r] /\ target'[r] = target[r],
         Waiting(s)' => Unreaped(s, target'[s])
  PROVE  Inv'
  <1>1. Types /\ Idle /\ Parents /\ ChildrenListed /\ WaitsForChild
    BY InvParts
  <1>2. Types' /\ Idle' /\ Parents' /\ ChildrenListed'
    BY <1>1 DEF Types, Idle, Parents, ChildrenListed, Entry, Live
  <1>3. WaitsForChild'
    BY <1>1 DEF WaitsForChild, Waiting, Unreaped, Shells
  <1> QED
    BY <1>2, <1>3 DEF Inv

\* A fork adds a child to the table, and a shell that waits waits for it.
LEMMA ForkStep ==
  ASSUME Inv, NEW s \in Pids, NEW p \in Pids, NEW kind \in {"program", "shell"},
         NEW background \in BOOLEAN, Fork(s, p, kind, background)
  PROVE  Inv'
  <1>1. Types /\ Idle /\ Parents /\ ChildrenListed /\ WaitsForChild
    BY InvParts
  <1>2. /\ s \in Shells(proc) /\ p \notin Shells(proc) /\ s # p /\ mode[s] = "prompt" /\ proc[p].state = "free"
        /\ proc' = [proc EXCEPT ![p] = New(kind, s)]
        /\ processes' = [processes EXCEPT ![s] = Emplace(@, p),
                           ![p] = IF kind = "shell" THEN processes[s] ELSE EmptyMap]
        /\ background => UNCHANGED <<mode, target>>
        /\ ~background => mode' = [mode EXCEPT ![s] = "run"] /\ target' = [target EXCEPT ![s] = p]
    BY DEF Fork, Prompting, Shells
  <1>3. /\ proc' \in [Pids -> Process]
        /\ proc'[p].state = "running" /\ proc'[p].kind = kind /\ proc'[p].parent = s
        /\ \A q \in Pids \ {p} : proc'[q] = proc[q]
    BY <1>1, <1>2 DEF Types, Process, New
  <1>4. /\ processes' \in [Pids -> Tables]
        /\ DOMAIN processes'[s] = DOMAIN processes[s] \cup {p}
        /\ \A r \in Pids \ {s, p} : processes'[r] = processes[r]
    <2>1. processes[s] \in Tables
      BY <1>1 DEF Types
    <2>2. /\ Emplace(processes[s], p) \in Tables /\ EmptyMap \in Tables
          /\ DOMAIN Emplace(processes[s], p) = DOMAIN processes[s] \cup {p}
      BY <2>1, TableFacts
    <2> QED
      BY <1>1, <1>2, <2>1, <2>2 DEF Types
  <1>5. /\ mode' \in [Pids -> {"prompt", "run", "wait", "sleep", "eof"}] /\ target' \in [Pids -> Pids]
        /\ \A r \in Pids \ {s} : mode'[r] = mode[r] /\ target'[r] = target[r]
        /\ mode'[s] = "run" => target'[s] = p
        /\ mode'[s] # "run" => mode'[s] = "prompt"
    BY <1>1, <1>2 DEF Types
  <1>6. Types'
    BY <1>3, <1>4, <1>5 DEF Types
  <1>7. Shells(proc) \subseteq Shells(proc') /\ Shells(proc') \subseteq Shells(proc) \cup {p}
    BY <1>2, <1>3 DEF Shells
  <1>8. Idle'
    BY <1>1, <1>2, <1>5, <1>7 DEF Idle
  <1>9. Parents'
    BY <1>1, <1>2, <1>3, <1>7 DEF Parents
  <1>10. ASSUME NEW r \in Shells(proc'), NEW q \in Pids, Live(q)', proc'[q].parent = r
         PROVE  Entry(r, q)'
    <2>1. CASE q = p
      BY <1>3, <1>4, <1>10, <2>1 DEF Entry
    <2>2. CASE q # p
      <3>1. Live(q) /\ proc[q].parent = r /\ r \in Pids
        BY <1>3, <1>10, <2>2 DEF Live, Shells
      <3>2. r \in Shells(proc) /\ r # p
        BY <1>1, <1>2, <3>1, FirstAssumption DEF Parents
      <3>3. Entry(r, q)
        BY <1>1, <3>1, <3>2 DEF ChildrenListed
      <3> QED
        BY <1>4, <3>1, <3>2, <3>3 DEF Entry
    <2> QED
      BY <2>1, <2>2
  <1>11. ChildrenListed'
    BY <1>10 DEF ChildrenListed
  <1>12. ASSUME NEW r \in Shells(proc'), Waiting(r)' PROVE Unreaped(r, target[r])'
    <2>1. CASE r = s
      BY <1>3, <1>5, <1>12, <2>1 DEF Waiting, Unreaped
    <2>2. CASE r # s
      <3>1. r \in Pids /\ Waiting(r) /\ target'[r] = target[r]
        BY <1>5, <1>12, <2>2 DEF Waiting, Shells
      <3>2. r \in Shells(proc)
        BY <1>1, <3>1 DEF Idle, Waiting
      <3>3. Unreaped(r, target[r]) /\ target[r] \in Pids /\ target[r] # p
        BY <1>1, <1>2, <3>1, <3>2 DEF WaitsForChild, Types, Unreaped
      <3> QED
        BY <1>3, <3>1, <3>3 DEF Unreaped
    <2> QED
      BY <2>1, <2>2
  <1>13. WaitsForChild'
    BY <1>12 DEF WaitsForChild
  <1> QED
    BY <1>6, <1>8, <1>9, <1>11, <1>13 DEF Inv

\* The child that is reaped leaves the table.
LEMMA WaitReturnsStep ==
  ASSUME Inv, NEW s \in Pids, WaitReturns(s)
  PROVE  Inv'
  <1> DEFINE t == target[s]
  <1>1. Types /\ Idle /\ Parents /\ ChildrenListed /\ WaitsForChild
    BY InvParts
  <1>2. /\ s \in Shells(proc) /\ Waiting(s) /\ proc[t].state = "zombie"
        /\ proc' = AfterWait(t) /\ processes' = [processes EXCEPT ![s] = Erase(@, t)]
        /\ mode' = [mode EXCEPT ![s] = "prompt"] /\ target' = target
    BY DEF WaitReturns
  <1>3. t \in Pids /\ proc[t].parent = s /\ t \notin Shells(proc)
    BY <1>1, <1>2 DEF Types, WaitsForChild, Unreaped, Shells
  <1> HIDE DEF t
  <1>4. /\ proc' \in [Pids -> Process] /\ proc'[t] = Free
        /\ \A q \in Pids \ {t} : proc'[q] = proc[q]
    BY <1>1, <1>2, <1>3 DEF Types, AfterWait, Free, Process
  <1>5. Shells(proc') = Shells(proc)
    BY <1>3, <1>4 DEF Shells, Free
  <1>6. /\ processes' \in [Pids -> Tables] /\ DOMAIN processes'[s] = DOMAIN processes[s] \ {t}
        /\ \A r \in Pids \ {s} : processes'[r] = processes[r]
    <2>1. processes[s] \in Tables
      BY <1>1 DEF Types
    <2>2. Erase(processes[s], t) \in Tables /\ DOMAIN Erase(processes[s], t) = DOMAIN processes[s] \ {t}
      BY <1>3, <2>1, TableFacts
    <2> QED
      BY <1>1, <1>2, <2>2 DEF Types
  <1>7. Types' /\ Idle'
    BY <1>1, <1>2, <1>4, <1>5, <1>6 DEF Types, Idle
  <1>8. Parents'
    BY <1>1, <1>4, <1>5 DEF Parents, Free
  <1>9. ChildrenListed'
    <2>1. ASSUME NEW r \in Shells(proc'), NEW q \in Pids, Live(q)', proc'[q].parent = r
          PROVE  Entry(r, q)'
      <3>1. q # t /\ r \in Pids
        BY <1>4, <2>1 DEF Live, Free, Shells
      <3>2. Entry(r, q)
        BY <1>1, <1>4, <1>5, <2>1, <3>1 DEF ChildrenListed, Live
      <3> QED
        BY <1>6, <3>1, <3>2 DEF Entry
    <2> QED
      BY <2>1 DEF ChildrenListed
  <1>10. WaitsForChild'
    <2>1. ASSUME NEW r \in Shells(proc'), Waiting(r)' PROVE Unreaped(r, target[r])'
      <3>1. r \in Pids /\ r # s /\ Waiting(r)
        BY <1>1, <1>2, <2>1 DEF Waiting, Shells, Types
      <3>2. Unreaped(r, target[r]) /\ target[r] \in Pids /\ target[r] # t
        BY <1>1, <1>3, <1>5, <2>1, <3>1 DEF WaitsForChild, Unreaped, Types
      <3> QED
        BY <1>2, <1>4, <3>2 DEF Unreaped
    <2> QED
      BY <2>1 DEF WaitsForChild
  <1> QED
    BY <1>7, <1>8, <1>9, <1>10 DEF Inv

\* One shell with an empty table: the invariant holds.
LEMMA InitInv == Init => Inv
  <1> SUFFICES ASSUME Init PROVE Inv
    OBVIOUS
  <1>1. Types
    <2>1. EmptyMap \in [{} -> BOOLEAN] /\ {} \in SUBSET Pids
      BY DEF EmptyMap
    <2>2. EmptyMap \in Tables
      BY <2>1 DEF Tables
    <2> QED
      BY <2>2, FirstAssumption DEF Init, ProcInit, Types, Process, New, Free
  <1>2. /\ Shells(proc) = {First} /\ \A p \in Pids : proc[p].parent = Reaper
        /\ \A p \in Pids : mode[p] = "prompt"
    BY FirstAssumption DEF Init, ProcInit, Shells, New, Free
  <1>3. Idle /\ Parents /\ ChildrenListed /\ WaitsForChild
    BY <1>2, FirstAssumption DEF Idle, Parents, ChildrenListed, WaitsForChild, Waiting
  <1> QED
    BY <1>1, <1>3 DEF Inv

\* A stop or a continue makes no shell and ends none.
LEMMA SignalShells ==
  ASSUME Types, NEW p \in Pids, proc' = AfterStop(p) \/ proc' = AfterCont(p)
  PROVE  /\ proc' \in [Pids -> Process]
         /\ \A q \in Pids : /\ proc'[q].kind = proc[q].kind /\ proc'[q].parent = proc[q].parent
                            /\ proc'[q].state \in {"running", "stopped"} <=> Live(q)
                            /\ proc'[q].state = "free" <=> proc[q].state = "free"
         /\ Shells(proc') = Shells(proc)
  <1>1. proc \in [Pids -> Process]
    BY DEF Types
  <1>2. /\ proc' \in [Pids -> Process]
        /\ \A q \in Pids : /\ proc'[q].kind = proc[q].kind /\ proc'[q].parent = proc[q].parent
                           /\ proc'[q].state \in {"running", "stopped"} <=> Live(q)
                           /\ proc'[q].state = "free" <=> proc[q].state = "free"
    BY <1>1, Signals
  <1> QED
    BY <1>2 DEF Shells, Live

\* A stop or a continue, from a shell that sets a flag or from outside.
LEMMA SignalStep ==
  ASSUME Inv, NEW p \in Pids, proc' = AfterStop(p) \/ proc' = AfterCont(p),
         processes' \in [Pids -> Tables], \A r \in Pids : DOMAIN processes'[r] = DOMAIN processes[r],
         UNCHANGED <<mode, target>>
  PROVE  Inv'
  <1>1. Types
    BY InvParts
  <1>2. /\ proc' \in [Pids -> Process]
        /\ \A q \in Pids : /\ proc'[q].kind = proc[q].kind /\ proc'[q].parent = proc[q].parent
                           /\ proc'[q].state \in {"running", "stopped"} <=> Live(q)
                           /\ proc'[q].state = "free" <=> proc[q].state = "free"
        /\ Shells(proc') = Shells(proc)
    BY <1>1, SignalShells
  <1>3. \A r \in Shells(proc), q \in Pids : Unreaped(r, q) => proc'[q].state # "free" /\ proc'[q].parent = r
    BY <1>2 DEF Unreaped
  <1> QED
    BY <1>2, <1>3, CalmStep

\* The death of a process that is no shell.
LEMMA EndStep ==
  ASSUME Inv, NEW p \in Pids, p \notin Shells(proc), proc' = AfterDeath({p}),
         UNCHANGED <<processes, mode, target>>
  PROVE  Inv'
  <1>1. Types
    BY InvParts
  <1>2. /\ proc' \in [Pids -> Process]
        /\ \A q \in Pids : proc'[q].state \in {"running", "stopped"} => Live(q)
        /\ \A r, q \in Pids : Unreaped(r, q) /\ r # p => proc'[q].state # "free" /\ proc'[q].parent = r
        /\ \A q \in Pids : proc'[q].parent = proc[q].parent \/ proc'[q].parent = Reaper
    BY <1>1, Deaths DEF Types
  <1>3. Shells(proc') = Shells(proc)
    <2>1. \A s \in Shells(proc) : s \in Shells(proc')
      BY <1>1, ShellsLeft
    <2>2. \A s \in Shells(proc') : s \in Shells(proc)
      BY <1>1, ShellsLeft
    <2> QED
      BY <2>1, <2>2
  <1>4. \A r \in Shells(proc), q \in Pids : Unreaped(r, q) => proc'[q].state # "free" /\ proc'[q].parent = r
    BY <1>2 DEF Shells
  <1> QED
    BY <1>1, <1>2, <1>3, <1>4, CalmStep DEF Types

\* Every step keeps the invariant.
LEMMA StepInv == Inv /\ [Next]_vars => Inv'
  <1> SUFFICES ASSUME Inv, [Next]_vars PROVE Inv'
    OBVIOUS
  <1>1. Types /\ Idle /\ Parents /\ ChildrenListed /\ WaitsForChild
    BY InvParts
  <1>2. CASE UNCHANGED vars
    BY <1>1, <1>2 DEF vars, Inv, Types, Idle, Parents, ChildrenListed, WaitsForChild, Waiting,
                      Shells, Live, Entry, Unreaped
  <1>3. ASSUME NEW s \in Pids, NEW p \in Pids, NEW background \in BOOLEAN,
               RunProgram(s, p, background) \/ RunBare(s, p, background)
        PROVE  Inv'
    BY <1>3, ForkStep DEF RunProgram, RunBare
  <1>4. ASSUME NEW s \in Pids, NEW p \in Pids, Kill(s, p) PROVE Inv'
    <2> DEFINE tables == [processes EXCEPT ![s] = Erase(@, p)]
    <2>1. processes[s] \in Tables
      BY <1>1 DEF Types
    <2>2. Erase(processes[s], p) \in Tables /\ DOMAIN Erase(processes[s], p) = DOMAIN processes[s] \ {p}
      BY <2>1, TableFacts
    <2>3. tables \in [Pids -> Tables]
      BY <1>1, <2>2 DEF Types
    <2>4. \A r, q \in Pids : Entry(r, q) /\ q \notin DOMAIN tables[r] => q \in {p}
      BY <1>1, <2>2 DEF Types, Entry
    <2>5. proc' = AfterDeath({p}) /\ processes' = Kept(tables, proc') /\ Forget
      BY <1>4 DEF Kill
    <2> HIDE DEF tables
    <2> QED
      BY <2>3, <2>4, <2>5, DeathStep
  <1>5. ASSUME NEW s \in Pids, ForkFails(s) \/ Exit(s) \/ Throw(s) PROVE Inv'
    <2>1. PICK victims : proc' = AfterDeath(victims) /\ processes' = Kept(processes, proc') /\ Forget
      BY <1>5 DEF ForkFails, Exit, Throw
    <2> QED
      BY <1>1, <2>1, DeathStep DEF Types, Entry
  <1>6. ASSUME NEW s \in Pids, NEW p \in Pids, Suspend(s, p) \/ Resume(s, p) PROVE Inv'
    <2>1. PICK flag \in BOOLEAN :
            /\ Entry(s, p)
            /\ proc' = AfterStop(p) \/ proc' = AfterCont(p)
            /\ processes' = [processes EXCEPT ![s][p] = flag] /\ UNCHANGED <<mode, target>>
      BY <1>6 DEF Suspend, Resume
    <2>2. processes[s] \in Tables
      BY <1>1 DEF Types
    <2>3. /\ [processes[s] EXCEPT ![p] = flag] \in Tables
          /\ DOMAIN [processes[s] EXCEPT ![p] = flag] = DOMAIN processes[s]
      BY <2>1, <2>2, FlagSet DEF Entry
    <2>4. processes' \in [Pids -> Tables] /\ \A r \in Pids : DOMAIN processes'[r] = DOMAIN processes[r]
      BY <1>1, <2>1, <2>3 DEF Types
    <2> QED
      BY <2>1, <2>4, SignalStep
  <1>7. ASSUME NEW s \in Pids, NEW p \in Pids, Wait(s, p) PROVE Inv'
    <2>1. /\ s \in Shells(proc) /\ UNCHANGED <<proc, processes>> /\ mode[s] = "prompt"
          /\ Unreaped(s, p) => mode' = [mode EXCEPT ![s] = "wait"] /\ target' = [target EXCEPT ![s] = p]
          /\ ~Unreaped(s, p) => UNCHANGED <<mode, target>>
      BY <1>7 DEF Wait, Prompting, Shells
    <2>2. /\ mode' \in [Pids -> {"prompt", "run", "wait", "sleep", "eof"}] /\ target' \in [Pids -> Pids]
          /\ \A r \in Pids \ {s} : mode'[r] = mode[r] /\ target'[r] = target[r]
          /\ Waiting(s)' => Unreaped(s, target'[s])
      <3>1. CASE Unreaped(s, p)
        BY <1>1, <2>1, <3>1 DEF Types
      <3>2. CASE ~Unreaped(s, p)
        BY <1>1, <2>1, <3>2 DEF Types, Waiting
      <3> QED
        BY <3>1, <3>2
    <2> QED
      BY <2>1, <2>2, PromptStep
  <1>8. ASSUME NEW s \in Pids, Sleep(s) \/ EndOfInput(s) \/ Wakes(s) PROVE Inv'
    <2>1. /\ s \in Shells(proc) /\ UNCHANGED <<proc, processes, target>>
          /\ \E m \in {"prompt", "sleep", "eof"} : mode' = [mode EXCEPT ![s] = m]
      BY <1>1, <1>8 DEF Sleep, EndOfInput, Wakes, Prompting, Shells, Idle
    <2>2. /\ mode' \in [Pids -> {"prompt", "run", "wait", "sleep", "eof"}] /\ target' \in [Pids -> Pids]
          /\ \A r \in Pids \ {s} : mode'[r] = mode[r] /\ target'[r] = target[r]
          /\ ~Waiting(s)'
      BY <1>1, <2>1 DEF Types, Waiting
    <2> QED
      BY <2>1, <2>2, PromptStep
  <1>9. ASSUME NEW s \in Pids, WaitReturns(s) PROVE Inv'
    BY <1>9, WaitReturnsStep
  <1>10. ASSUME NEW p \in Pids, Ends(p) PROVE Inv'
    BY <1>10, EndStep DEF Ends, ProgramEnds, Shells
  <1>11. ASSUME NEW p \in Pids, Starts(p) PROVE Inv'
    <2>1. /\ proc[p].state = "free" /\ UNCHANGED <<processes, mode, target>>
          /\ proc' = [proc EXCEPT ![p] = New("stranger", Reaper)]
      BY <1>11 DEF Starts, StrangerStarts
    <2>2. /\ proc' \in [Pids -> Process] /\ proc'[p] = New("stranger", Reaper)
          /\ \A q \in Pids \ {p} : proc'[q] = proc[q]
      BY <1>1, <2>1 DEF Types, Process, New
    <2>3. /\ Shells(proc') = Shells(proc)
          /\ \A q \in Pids : proc'[q].parent = proc[q].parent \/ proc'[q].parent = Reaper
          /\ \A r \in Shells(proc), q \in Pids : Unreaped(r, q) => proc'[q].state # "free" /\ proc'[q].parent = r
          /\ \A q \in Pids : proc'[q].parent # Reaper /\ proc'[q].state \in {"running", "stopped"} => Live(q)
      BY <2>1, <2>2 DEF Shells, New, Unreaped, Live
    <2> QED
      BY <1>1, <2>1, <2>2, <2>3, CalmStep DEF Types
  <1>12. ASSUME NEW p \in Pids, Signalled(p) PROVE Inv'
    <2>1. UNCHANGED <<processes, mode, target>>
      BY <1>12 DEF Signalled
    <2>2. CASE proc' = AfterStop(p) \/ proc' = AfterCont(p)
      BY <1>1, <2>1, <2>2, SignalStep DEF Types
    <2>3. CASE proc[p].kind # "shell" /\ proc' = AfterDeath({p})
      BY <2>1, <2>3, EndStep DEF Shells
    <2> QED
      BY <1>12, <2>2, <2>3 DEF Signalled, OutsideSignal
  <1> QED
    BY <1>2, <1>3, <1>4, <1>5, <1>6, <1>7, <1>8, <1>9, <1>10, <1>11, <1>12 DEF Next, Command

\* Every live child of a shell is in its table, and what a shell waits for is an
\* unreaped child of its own, with any number of shells (Process.cpp:56-157,
\* Commands.cpp:31-178).
THEOREM Invariance == Spec => []Inv
  BY InitInv, StepInv, PTL DEF Spec

-----------------------------------------------------------------------------
(* The theorems for any lines and any system.                               *)

\* The variables have their types.
THEOREM TypeCorrect == Spec => []TypeOK
  <1>1. \A table \in Tables : DOMAIN table \subseteq Pids /\ \A p \in DOMAIN table : table[p] \in BOOLEAN
    BY DEF Tables
  <1>2. Inv => TypeOK
    BY <1>1 DEF Inv, Types, TypeOK
  <1> QED
    BY <1>2, Invariance, PTL

\* No live child ever leaves the table of its shell, whoever stops, continues or
\* kills it and whatever tables are copied (Commands.cpp:99-100, 178-179;
\* Process.cpp:150-151).
THEOREM ChildrenInReach == Spec => []ChildrenListed
  <1>1. Inv => ChildrenListed
    BY DEF Inv
  <1> QED
    BY <1>1, Invariance, PTL

\* A program that loses its shell lost it to a crash or to a kill; exit leaves
\* none, whatever tables the shells have copied (Commands.cpp:31-44,
\* Process.cpp:60-64).
THEOREM ExitLeavesNone == Spec => OrphanedByCrash
  <1> DEFINE Cause(s) ==
               \/ ForkFails(s) \/ Throw(s)
               \/ \E t \in Pids : Kill(t, s) \/ (Exit(t) /\ (t = s => Entry(s, s)))
             Clean(s) == \A p \in Pids : Live(p) /\ proc[p].kind = "program" /\ proc[p].parent = s =>
                           proc'[p].state \in {"free", "zombie"}
             A == \A s \in Shells(proc) : s \notin Shells(proc') =>
                    \/ ForkFails(s) \/ Throw(s)
                    \/ \E t \in Pids : Kill(t, s) \/ (Exit(t) /\ (t = s => Entry(s, s)))
                    \/ \A p \in Pids :
                         Live(p) /\ proc[p].kind = "program" /\ proc[p].parent = s =>
                           proc'[p].state \in {"free", "zombie"}
  <1>1. ASSUME Inv, Next, NEW s \in Shells(proc), s \notin Shells(proc') PROVE Cause(s) \/ Clean(s)
    <2>1. Types /\ Idle /\ Parents /\ ChildrenListed /\ WaitsForChild /\ s \in Pids
      BY <1>1, InvParts DEF Shells
    <2>2. \A victims : proc' = AfterDeath(victims) => s \in victims
      BY <1>1, <2>1, ShellsLeft
    <2>3. ASSUME NEW t \in Pids, NEW p \in Pids, NEW background \in BOOLEAN,
                 RunProgram(t, p, background) \/ RunBare(t, p, background)
          PROVE  FALSE
      <3>1. \E kind \in {"program", "shell"} :
              proc[p].state = "free" /\ proc' = [proc EXCEPT ![p] = New(kind, t)]
        BY <2>3 DEF RunProgram, RunBare, Fork
      <3> QED
        BY <1>1, <2>1, <3>1 DEF Shells, Types
    <2>4. ASSUME NEW t \in Pids, NEW p \in Pids, Kill(t, p) PROVE Cause(s)
      BY <2>1, <2>2, <2>4 DEF Kill
    <2>5. ASSUME NEW t \in Pids, NEW p \in Pids, Suspend(t, p) \/ Resume(t, p) PROVE FALSE
      BY <1>1, <2>1, <2>5, SignalShells DEF Suspend, Resume
    <2>6. ASSUME NEW t \in Pids, ForkFails(t) \/ Throw(t) PROVE Cause(s)
      BY <2>2, <2>6 DEF ForkFails, Throw
    <2>7. ASSUME NEW t \in Pids, Exit(t) PROVE Cause(s) \/ Clean(s)
      <3>1. CASE t # s \/ Entry(s, s)
        BY <2>7, <3>1
      <3>2. CASE t = s /\ ~Entry(s, s)
        <4>1. proc' = AfterDeath({s} \cup DOMAIN processes[s])
          BY <2>7, <3>2 DEF Exit
        <4>2. \A p \in Pids : proc'[p].state \in {"running", "stopped"} =>
                p \notin {s} \cup DOMAIN processes[s]
          BY <2>1, <4>1, Deaths DEF Types
        <4>3. proc' \in [Pids -> Process]
          BY <2>1, <4>1, Deaths DEF Types
        <4>4. ASSUME NEW p \in Pids, Live(p), proc[p].parent = s PROVE proc'[p].state \in {"free", "zombie"}
          BY <1>1, <2>1, <4>2, <4>3, <4>4 DEF ChildrenListed, Entry, Process
        <4> QED
          BY <4>4
      <3> QED
        BY <3>1, <3>2
    <2>8. ASSUME NEW t \in Pids, WaitReturns(t) PROVE FALSE
      <3>1. proc[target[t]].state = "zombie" /\ proc' = AfterWait(target[t])
        BY <2>8 DEF WaitReturns
      <3> QED
        BY <1>1, <2>1, <3>1 DEF AfterWait, Shells, Types
    <2>9. ASSUME NEW p \in Pids, Ends(p) PROVE FALSE
      BY <1>1, <2>2, <2>9 DEF Ends, ProgramEnds, Shells
    <2>10. ASSUME NEW p \in Pids, Starts(p) PROVE FALSE
      BY <1>1, <2>1, <2>10 DEF Starts, StrangerStarts, Shells, Types
    <2>11. ASSUME NEW p \in Pids, Signalled(p) PROVE FALSE
      <3>1. CASE proc' = AfterStop(p) \/ proc' = AfterCont(p)
        BY <1>1, <2>1, <3>1, SignalShells
      <3>2. CASE proc[p].kind # "shell" /\ proc' = AfterDeath({p})
        BY <1>1, <2>2, <3>2 DEF Shells
      <3> QED
        BY <2>11, <3>1, <3>2 DEF Signalled, OutsideSignal
    <2>12. proc' # proc
      BY <1>1
    <2>13. \A t, p \in Pids : ~Wait(t, p) /\ ~Sleep(t) /\ ~EndOfInput(t) /\ ~Wakes(t)
      BY <2>12 DEF Wait, Sleep, EndOfInput, Wakes
    <2> HIDE DEF Cause, Clean
    <2> QED
      BY <1>1, <2>3, <2>4, <2>5, <2>6, <2>7, <2>8, <2>9, <2>10, <2>11, <2>13 DEF Next, Command
  <1>2. Inv /\ [Next]_vars => [A]_vars
    BY <1>1
  <1>3. Spec => [][A]_vars
    BY <1>2, Invariance, PTL DEF Spec
  <1> QED
    BY <1>3 DEF OrphanedByCrash

-----------------------------------------------------------------------------
(* A shell that gets ordinary commands, in a system with room for them.     *)

Solo ==
  /\ \A s \in Shells(proc) : s = First /\ proc[s].parent = Reaper
  /\ OwnChildren /\ NoOrphans

\* A death that spares the shell.
LEMMA SoloDeath ==
  ASSUME Inv, Solo, NEW p \in Pids, p \notin Shells(proc), proc' = AfterDeath({p}),
         \A s \in Shells(proc') : \A q \in DOMAIN processes'[s] : Entry(s, q)
  PROVE  Solo'
  <1>1. Types /\ OwnChildren /\ NoOrphans
    BY InvParts DEF Solo
  <1>2. /\ \A q \in Pids : proc'[q].state \in {"running", "stopped"} =>
             Live(q) /\ proc'[q].kind = proc[q].kind /\ proc'[q].state = proc[q].state
        /\ \A s, q \in Pids : Unreaped(s, q) /\ s # p => proc'[q].state # "free" /\ proc'[q].parent = s
        /\ \A q \in Pids : proc'[q].parent = proc[q].parent \/ proc'[q].parent = Reaper
    BY <1>1, Deaths DEF Types
  <1>3. Shells(proc') = Shells(proc) /\ \A s \in Shells(proc) : s # p /\ s \in Pids
    <2>1. \A s \in Shells(proc) : s \in Shells(proc')
      BY <1>1, ShellsLeft
    <2>2. \A s \in Shells(proc') : s \in Shells(proc)
      BY <1>1, ShellsLeft
    <2>3. \A s \in Shells(proc) : s # p /\ s \in Pids
      BY DEF Shells
    <2> QED
      BY <2>1, <2>2, <2>3
  <1>4. \A s \in Shells(proc') : s = First /\ proc'[s].parent = Reaper
    BY <1>2, <1>3 DEF Solo
  <1>5. \A s \in Shells(proc) : DOMAIN processes[s] \subseteq Pids
    BY <1>1, <1>3 DEF Types, Tables
  <1>6. OwnChildren'
    BY <1>1, <1>2, <1>3, <1>5 DEF OwnChildren, Unreaped, Entry
  <1>7. NoOrphans'
    <2>1. ASSUME NEW q \in Pids, Live(q)', proc'[q].kind = "program" PROVE proc'[q].parent \in Shells(proc')
      <3>1. Live(q) /\ proc[q].kind = "program"
        BY <1>2, <2>1 DEF Live
      <3>2. proc[q].parent \in Shells(proc) /\ Unreaped(proc[q].parent, q)
        BY <1>1, <3>1 DEF NoOrphans, Unreaped, Live
      <3> QED
        BY <1>2, <1>3, <3>2
    <2> QED
      BY <2>1 DEF NoOrphans
  <1> QED
    BY <1>4, <1>6, <1>7 DEF Solo

\* A fork puts an unreaped child that runs in the table.
LEMMA SoloFork ==
  ASSUME Inv, Solo, NEW s \in Pids, NEW p \in Pids, NEW background \in BOOLEAN, RunProgram(s, p, background)
  PROVE  Solo'
  <1>1. Types /\ OwnChildren /\ NoOrphans
    BY InvParts DEF Solo
  <1>2. /\ s \in Shells(proc) /\ p # First /\ proc[p].state = "free"
        /\ proc' = [proc EXCEPT ![p] = New("program", s)]
        /\ processes' = [processes EXCEPT ![s] = Emplace(@, p), ![p] = EmptyMap]
    BY DEF RunProgram, Fork, Prompting, Shells
  <1>3. /\ proc'[p].state = "running" /\ proc'[p].kind = "program" /\ proc'[p].parent = s
        /\ \A q \in Pids \ {p} : proc'[q] = proc[q]
    BY <1>1, <1>2 DEF Types, New
  <1>4. Shells(proc') = Shells(proc) /\ p \notin Shells(proc)
    BY <1>2, <1>3 DEF Shells
  <1>5. \A r \in Shells(proc) : r = s /\ r = First /\ proc'[r].parent = Reaper
    BY <1>2, <1>3, <1>4 DEF Solo, Shells
  <1>6. processes[s] \in Tables /\ DOMAIN processes[s] \subseteq Pids
    BY <1>1, <1>2 DEF Types, Tables
  <1>7. /\ DOMAIN processes'[s] = DOMAIN processes[s] \cup {p}
    <2>1. DOMAIN Emplace(processes[s], p) = DOMAIN processes[s] \cup {p}
      BY <1>6, TableFacts
    <2>2. processes'[s] = Emplace(processes[s], p)
      BY <1>1, <1>2, <1>4 DEF Types
    <2> QED
      BY <2>1, <2>2
  <1>8. OwnChildren'
    <2>1. ASSUME NEW r \in Shells(proc'), NEW q \in DOMAIN processes'[r] PROVE Unreaped(r, q)'
      <3>1. r = s /\ (q = p \/ (q # p /\ q \in DOMAIN processes[s] /\ q \in Pids))
        BY <1>4, <1>5, <1>6, <1>7, <2>1
      <3>2. CASE q = p
        BY <1>3, <3>1, <3>2 DEF Unreaped
      <3>3. CASE q # p
        BY <1>1, <1>2, <1>3, <3>1, <3>3 DEF OwnChildren, Unreaped
      <3> QED
        BY <3>2, <3>3
    <2> QED
      BY <2>1 DEF OwnChildren
  <1>9. NoOrphans'
    BY <1>1, <1>2, <1>3, <1>4 DEF NoOrphans, Live
  <1> QED
    BY <1>4, <1>5, <1>8, <1>9 DEF Solo

\* A stop or a continue, from the shell or from outside, leaves the pids alone.
LEMMA SoloSignal ==
  ASSUME Inv, Solo, NEW p \in Pids, proc' = AfterStop(p) \/ proc' = AfterCont(p),
         \A r \in Pids : DOMAIN processes'[r] = DOMAIN processes[r]
  PROVE  Solo'
  <1>1. Types /\ OwnChildren /\ NoOrphans
    BY InvParts DEF Solo
  <1>2. /\ \A q \in Pids : /\ proc'[q].kind = proc[q].kind /\ proc'[q].parent = proc[q].parent
                           /\ proc'[q].state \in {"running", "stopped"} <=> Live(q)
                           /\ proc'[q].state = "free" <=> proc[q].state = "free"
        /\ Shells(proc') = Shells(proc)
    BY <1>1, SignalShells
  <1>3. \A r \in Shells(proc) : r \in Pids /\ r = First /\ proc'[r].parent = Reaper
    BY <1>2 DEF Solo, Shells
  <1>4. \A r \in Shells(proc) : DOMAIN processes[r] \subseteq Pids
    BY <1>1, <1>3 DEF Types, Tables
  <1>5. OwnChildren'
    BY <1>1, <1>2, <1>3, <1>4 DEF OwnChildren, Unreaped
  <1>6. NoOrphans'
    BY <1>1, <1>2 DEF NoOrphans, Live
  <1> QED
    BY <1>2, <1>3, <1>5, <1>6 DEF Solo

\* What is reaped leaves the table.
LEMMA SoloWaitReturns ==
  ASSUME Inv, Solo, NEW s \in Pids, WaitReturns(s)
  PROVE  Solo'
  <1> DEFINE t == target[s]
  <1>1. Types /\ OwnChildren /\ NoOrphans
    BY InvParts DEF Solo
  <1>2. /\ s \in Shells(proc) /\ t \in Pids /\ proc[t].state = "zombie"
        /\ proc' = AfterWait(t) /\ processes' = [processes EXCEPT ![s] = Erase(@, t)]
    BY <1>1 DEF WaitReturns, Types
  <1> HIDE DEF t
  <1>3. proc'[t] = Free /\ \A q \in Pids \ {t} : proc'[q] = proc[q]
    BY <1>1, <1>2 DEF Types, AfterWait
  <1>4. Shells(proc') = Shells(proc) /\ t \notin Shells(proc)
    BY <1>2, <1>3 DEF Shells, Free
  <1>5. \A r \in Shells(proc) : r = s /\ r = First /\ proc'[r].parent = Reaper
    BY <1>2, <1>3, <1>4 DEF Solo, Shells
  <1>6. processes[s] \in Tables /\ DOMAIN processes[s] \subseteq Pids
    BY <1>1, <1>2 DEF Types, Tables, Shells
  <1>7. /\ DOMAIN processes'[s] = DOMAIN processes[s] \ {t}
    <2>1. DOMAIN Erase(processes[s], t) = DOMAIN processes[s] \ {t}
      BY <1>2, <1>6, TableFacts
    <2>2. processes'[s] = Erase(processes[s], t)
      BY <1>1, <1>2 DEF Types
    <2> QED
      BY <2>1, <2>2
  <1>8. OwnChildren'
    <2>1. ASSUME NEW r \in Shells(proc'), NEW q \in DOMAIN processes'[r]
          PROVE  Unreaped(r, q)'
      <3>1. r = s /\ q \in DOMAIN processes[s] /\ q \in Pids \ {t}
        BY <1>4, <1>5, <1>6, <1>7, <2>1
      <3>2. proc'[q] = proc[q]
        BY <1>3, <3>1
      <3> QED
        BY <1>1, <1>2, <3>1, <3>2 DEF OwnChildren, Unreaped
    <2> QED
      BY <2>1 DEF OwnChildren
  <1>9. NoOrphans'
    BY <1>1, <1>3, <1>4 DEF NoOrphans, Live, Free
  <1> QED
    BY <1>4, <1>5, <1>8, <1>9 DEF Solo

\* exit kills all there is.
LEMMA SoloExit ==
  ASSUME Inv, Solo, NEW s \in Pids, Exit(s)
  PROVE  Solo'
  <1>1. Types /\ Parents /\ ChildrenListed /\ OwnChildren /\ NoOrphans /\ s \in Shells(proc)
    BY InvParts DEF Solo, Exit, Prompting, Shells
  <1>2. s = First /\ proc[s].parent = Reaper /\ s # Reaper
    BY <1>1, FirstAssumption DEF Solo
  <1>3. ~Entry(s, s)
    BY <1>1, <1>2 DEF OwnChildren, Entry, Unreaped
  <1> DEFINE victims == {s} \cup DOMAIN processes[s]
  <1>4. proc' = AfterDeath(victims)
    BY <1>3 DEF Exit
  <1>5. \A p \in Pids : proc'[p].state \in {"running", "stopped"} =>
          Live(p) /\ p \notin victims /\ proc'[p].kind = proc[p].kind
    BY <1>1, <1>4, Deaths DEF Types
  <1>6. Shells(proc') = {}
    BY <1>2, <1>5 DEF Solo, Shells, Live
  <1>7. NoOrphans'
    <2>1. ASSUME NEW p \in Pids, Live(p)', proc'[p].kind = "program" PROVE FALSE
      <3>1. Live(p) /\ p \notin victims /\ proc[p].kind = "program"
        BY <1>5, <2>1 DEF Live
      <3>2. proc[p].parent = s
        BY <1>1, <1>2, <3>1 DEF NoOrphans, Solo
      <3> QED
        BY <1>1, <3>1, <3>2 DEF ChildrenListed, Entry
    <2> QED
      BY <2>1 DEF NoOrphans
  <1> QED
    BY <1>6, <1>7 DEF Solo, OwnChildren

\* The first shell is alone.
LEMMA SoloInit == Init => Solo
  <1> SUFFICES ASSUME Init PROVE Solo
    OBVIOUS
  <1>1. /\ Shells(proc) = {First} /\ proc[First].parent = Reaper
        /\ \A p \in Pids : proc[p].kind # "program" /\ DOMAIN processes[p] = {}
    BY FirstAssumption DEF Init, ProcInit, Shells, New, Free, EmptyMap
  <1> QED
    BY <1>1, FirstAssumption DEF Solo, OwnChildren, NoOrphans

\* Every step of an ordinary line keeps the table right.
LEMMA SoloStep ==
  ASSUME Oddities = {}
  PROVE  Inv /\ Solo /\ [Next]_vars => Solo'
  <1> SUFFICES ASSUME Inv, Solo, [Next]_vars PROVE Solo'
    OBVIOUS
  <1>1. Types /\ OwnChildren /\ NoOrphans
    BY InvParts DEF Solo
  <1>2. CASE UNCHANGED <<proc, processes>>
    BY <1>1, <1>2 DEF Solo, OwnChildren, NoOrphans, Shells, Live, Unreaped
  <1>3. ASSUME NEW s \in Pids, NEW p \in Pids, Kill(s, p) PROVE Solo'
    <2> DEFINE tables == [processes EXCEPT ![s] = Erase(@, p)]
    <2>1. /\ s \in Shells(proc) /\ Entry(s, p) /\ proc' = AfterDeath({p}) /\ processes' = Kept(tables, proc')
      BY <1>3 DEF Kill, Prompting, Shells
    <2>2. p \notin Shells(proc)
      BY <1>1, <2>1, FirstAssumption DEF Solo, OwnChildren, Entry, Unreaped, Shells
    <2>3. DOMAIN Erase(processes[s], p) = DOMAIN processes[s] \ {p}
      <3>1. processes[s] \in Tables
        BY <1>1 DEF Types
      <3> QED
        BY <3>1, TableFacts
    <2>4. \A r \in Pids : \A q \in DOMAIN tables[r] : Entry(r, q)
      BY <1>1, <2>3 DEF Types, Entry
    <2> HIDE DEF tables
    <2>5. \A r \in Shells(proc') : processes'[r] = tables[r] /\ r \in Pids
      BY <2>1 DEF Kept, Shells
    <2>6. \A r \in Shells(proc') : \A q \in DOMAIN processes'[r] : Entry(r, q)
      BY <2>4, <2>5
    <2> QED
      BY <2>1, <2>2, <2>6, SoloDeath
  <1>4. ASSUME NEW p \in Pids, Ends(p) PROVE Solo'
    BY <1>4, SoloDeath DEF Ends, ProgramEnds, Shells, Entry
  <1>5. ASSUME NEW p \in Pids, Starts(p) PROVE Solo'
    <2>1. /\ proc[p].state = "free" /\ p # First /\ processes' = processes
          /\ proc' = [proc EXCEPT ![p] = New("stranger", Reaper)]
      BY <1>5 DEF Starts, StrangerStarts
    <2>2. proc'[p].kind = "stranger" /\ \A q \in Pids \ {p} : proc'[q] = proc[q]
      BY <1>1, <2>1 DEF Types, New
    <2>3. Shells(proc') = Shells(proc) /\ p \notin Shells(proc)
      BY <2>1, <2>2 DEF Shells
    <2>4. \A s \in Shells(proc) : s = First /\ proc'[s].parent = Reaper
      BY <2>2, <2>3 DEF Solo, Shells
    <2>5. ASSUME NEW s \in Shells(proc), NEW q \in DOMAIN processes[s] PROVE q \in Pids /\ proc'[q] = proc[q]
      <3>1. q \in Pids
        BY <1>1, <2>5 DEF Types, Tables, Shells
      <3>2. q # p
        BY <1>1, <2>1, <2>5 DEF OwnChildren, Unreaped
      <3> QED
        BY <2>2, <3>1, <3>2
    <2>6. OwnChildren'
      <3>1. ASSUME NEW s \in Shells(proc'), NEW q \in DOMAIN processes'[s]
            PROVE  Unreaped(s, q)'
        <4>1. s \in Shells(proc) /\ q \in DOMAIN processes[s]
          BY <2>1, <2>3, <3>1
        <4>2. q \in Pids /\ proc'[q] = proc[q]
          BY <2>5, <4>1
        <4> QED
          BY <1>1, <4>1, <4>2 DEF OwnChildren, Unreaped
      <3> QED
        BY <3>1 DEF OwnChildren
    <2>7. NoOrphans'
      BY <1>1, <2>2, <2>3 DEF NoOrphans, Live
    <2> QED
      BY <2>3, <2>4, <2>6, <2>7 DEF Solo
  <1>6. ASSUME NEW s \in Pids, NEW p \in Pids, Wait(s, p) \/ Sleep(s) \/ EndOfInput(s) \/ Wakes(s)
        PROVE  UNCHANGED <<proc, processes>>
    BY <1>6 DEF Wait, Sleep, EndOfInput, Wakes
  <1>7. \A s, p \in Pids, background \in BOOLEAN : ~RunBare(s, p, background) /\ ~ForkFails(s) /\ ~Throw(s)
    BY DEF RunBare, ForkFails, Throw
  <1>8. CASE UNCHANGED vars
    BY <1>2, <1>8 DEF vars
  <1>9. ASSUME NEW s \in Pids, NEW p \in Pids, Suspend(s, p) \/ Resume(s, p) PROVE Solo'
    <2>1. PICK flag \in BOOLEAN :
            /\ proc' = AfterStop(p) \/ proc' = AfterCont(p)
            /\ processes' = [processes EXCEPT ![s][p] = flag]
      BY <1>9 DEF Suspend, Resume
    <2>2. \A r \in Pids : DOMAIN processes'[r] = DOMAIN processes[r]
      BY <1>1, <2>1 DEF Types
    <2> QED
      BY <2>1, <2>2, SoloSignal
  <1>10. ASSUME NEW p \in Pids, Signalled(p) PROVE Solo'
    <2>1. CASE proc' = AfterStop(p) \/ proc' = AfterCont(p)
      BY <1>10, <2>1, SoloSignal DEF Signalled
    <2>2. CASE proc[p].kind # "shell" /\ proc' = AfterDeath({p})
      BY <1>10, <2>2, SoloDeath DEF Signalled, Shells, Entry
    <2> QED
      BY <1>10, <2>1, <2>2 DEF Signalled, OutsideSignal
  <1> QED
    BY <1>2, <1>3, <1>4, <1>5, <1>6, <1>7, <1>8, <1>9, <1>10, SoloFork, SoloWaitReturns, SoloExit
    DEF Next, Command

\* With ordinary lines there is one shell, and its table is right
\* (Process.cpp:56-157, Commands.cpp:31-178).
THEOREM SoloInvariance ==
  ASSUME Oddities = {}
  PROVE  Spec => []Solo
  <1>1. Inv /\ Solo /\ [Next]_vars => Solo'
    BY SoloStep
  <1> QED
    BY <1>1, SoloInit, Invariance, PTL DEF Spec

\* With ordinary lines each pid in the table is that of an unreaped child, so
\* no signal reaches a stranger (Commands.cpp:99, 121, 155; Process.cpp:151).
THEOREM TableOfChildren ==
  ASSUME Oddities = {}
  PROVE  Spec => []OwnChildren
  <1>1. Solo => OwnChildren
    BY DEF Solo
  <1> QED
    BY <1>1, SoloInvariance, PTL

\* With ordinary lines no program outlives the shell (Commands.cpp:32-44).
THEOREM NoneOutlives ==
  ASSUME Oddities = {}
  PROVE  Spec => []NoOrphans
  <1>1. Solo => NoOrphans
    BY DEF Solo
  <1> QED
    BY <1>1, SoloInvariance, PTL
=============================================================================
