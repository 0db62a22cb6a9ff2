------------------------------- MODULE A2w22 --------------------------------
(***************************************************************************)
(* The network of Assignment_2/w22: a controller and switches in a line,   *)
(* joined by FIFOs.  A switch takes a line of its traffic file in every    *)
(* round, without waiting for the answer to what it asked before; a reader *)
(* takes all that is in its FIFO and, since each message ends in a NUL,    *)
(* handles the first.                                                      *)
(*                                                                         *)
(* An address is the number of the switch that has it, or Nowhere.  No     *)
(* program makes the FIFOs between switches (init_session opens them       *)
(* only), so that what is relayed to a neighbour is lost in a failed write.*)
(* The controller has been started before the switches.  A switch that has *)
(* ended may be started again.                                             *)
(***************************************************************************)
EXTENDS Integers, Sequences, FiniteSets, Tallies

CONSTANTS
  NumSwitches,
  MaxLines,     \* for each switch, a bound on the lines of traffic it takes,
  MaxStarts     \* and on its programs, one after the other

Switches == 1 .. NumSwitches

ASSUME A2Assumption ==
  /\ NumSwitches \in Nat \ {0}
  /\ MaxLines \in [Switches -> Nat] /\ MaxStarts \in [Switches -> Nat]

Nowhere == 0
Addresses == Switches \cup {Nowhere}

Left(s) == IF s = 1 THEN -1 ELSE s - 1
Right(s) == IF s = NumSwitches THEN -1 ELSE s + 1

Hello(s) == [type |-> "HELLO", arg |-> s]
Ask(d) == [type |-> "ASK", arg |-> d]
Relay(s) == [type |-> "RELAY", arg |-> s]
HelloAck == [type |-> "HELLO_ACK", dest |-> Nowhere, port1 |-> -1]
AddForward(o) == [type |-> "ADD_FORWARD", dest |-> o, port1 |-> Left(o)]
AddDrop(d) == [type |-> "ADD_DROP", dest |-> d, port1 |-> -1]

VARIABLES
  inFifo, outFifo,   \* messages of each switch to and from the controller
  switches,          \* the controller's table
  forwardingTable,
  admit, ask, add,   \* what each switch counted, in all its programs
  sw, cont,          \* which programs run
  starts             \* how often each switch was started

vars == <<inFifo, outFifo, switches, forwardingTable, admit, ask, add, sw, cont, starts>>

OwnRule(s) == [dest |-> s, action |-> "FORWARD", port |-> 3, pktCount |-> 0]

Init ==
  /\ inFifo = [s \in Switches |-> <<>>] /\ outFifo = [s \in Switches |-> <<>>]
  /\ switches = <<>>
  /\ forwardingTable = [s \in Switches |-> <<OwnRule(s)>>]
  /\ admit = [s \in Switches |-> 0]
  /\ ask = [s \in Switches |-> 0] /\ add = [s \in Switches |-> 0]
  /\ sw = [s \in Switches |-> "off"] /\ cont = "on"
  /\ starts = [s \in Switches |-> 0]

-----------------------------------------------------------------------------
(* Plausible bugs.                                                          *)

AddDropRuleUncounted(s, d) ==   \* counts the packet that is admitted next too
  forwardingTable' = [forwardingTable EXCEPT ![s] =
    Append(@, [dest |-> d, action |-> "DROP", port |-> 0, pktCount |-> 2])]

AddDropRulePort(s, d) ==        \* takes the port of an owner, and there is none
  forwardingTable' = [forwardingTable EXCEPT ![s] =
    Append(@, [dest |-> d, action |-> "DROP", port |-> AddDrop(d).port1, pktCount |-> 1])]

TakenLast(queue) == queue[Len(queue)]

ControllerAnswerTwice(s, message) ==    \* says DROP before it has looked
  outFifo' = [outFifo EXCEPT ![s] = @ \o <<AddDrop(message.arg)>> \o
    IF \E k \in DOMAIN switches : switches[k] = message.arg
    THEN <<AddForward(message.arg)>> ELSE <<>>]

-----------------------------------------------------------------------------
(* The switch.                                                              *)

\* A FIFO keeps what is in it while a program has it open, and the controller
\* has: what was written to and by an earlier program of the switch is read yet.
Kept(fifo) == IF cont = "on" THEN fifo ELSE <<>>

\* mkfifo may find the FIFOs there; the HELLO is sent in any case.
Start(s) ==
  /\ sw[s] # "on" /\ starts[s] < MaxStarts[s]
  /\ sw' = [sw EXCEPT ![s] = "on"] /\ starts' = [starts EXCEPT ![s] = @ + 1]
  /\ inFifo' = [inFifo EXCEPT ![s] = Append(Kept(@), Hello(s))]
  /\ outFifo' = [outFifo EXCEPT ![s] = Kept(@)]
  /\ forwardingTable' = [forwardingTable EXCEPT ![s] = <<OwnRule(s)>>]
  /\ UNCHANGED <<switches, admit, ask, add, cont>>

\* find_matching_rule: the first rule for address d.
Match(s, d) ==
  {k \in DOMAIN forwardingTable[s] :
     /\ forwardingTable[s][k].dest = d
     /\ \A j \in 1 .. k - 1 : forwardingTable[s][j].dest # d}

HasSession(s, port) ==
  \/ port = 0
  \/ port = 1 /\ Left(s) # -1
  \/ port = 2 /\ Right(s) # -1

\* The port of a DROP rule is 0, the controller's.  A rule whose port has no
\* session is sent on session -1, memory before the vector.
AdmitKnown(s, k) ==
  /\ forwardingTable' = [forwardingTable EXCEPT ![s][k].pktCount = @ + 1]
  /\ LET port == forwardingTable[s][k].port IN
       /\ inFifo' = IF port = 0 THEN [inFifo EXCEPT ![s] = Append(@, Relay(s))] ELSE inFifo
       /\ \/ UNCHANGED sw
          \/ port # 3 /\ ~HasSession(s, port) /\ sw' = [sw EXCEPT ![s] = "crashed"]
  /\ UNCHANGED ask

AdmitUnknown(s, d) ==
  /\ ask' = [ask EXCEPT ![s] = @ + 1]
  /\ inFifo' = [inFifo EXCEPT ![s] = Append(@, Ask(d))]
  /\ UNCHANGED <<forwardingTable, sw>>

Admit(s, d) ==
  /\ sw[s] = "on" /\ admit[s] < MaxLines[s]
  /\ admit' = [admit EXCEPT ![s] = @ + 1]
  /\ \/ \E k \in Match(s, d) : AdmitKnown(s, k)
     \/ Match(s, d) = {} /\ AdmitUnknown(s, d)
  /\ UNCHANGED <<outFifo, switches, add, cont, starts>>

\* The port by which the owner of an ADD is reached.
ForwardingPort(s, message) == IF message.port1 = s THEN 2 ELSE 1

AddForwardRule(s, message) ==
  forwardingTable' = [forwardingTable EXCEPT ![s] = Append(@,
    [dest |-> message.dest, action |-> "FORWARD", port |-> ForwardingPort(s, message), pktCount |-> 1])]

AddDropRule(s, d) ==
  forwardingTable' = [forwardingTable EXCEPT ![s] =
    Append(@, [dest |-> d, action |-> "DROP", port |-> 0, pktCount |-> 1])]

\* What is taken of the messages that one read returns.
Taken(queue) == Head(queue)

SwitchReceive(s) ==
  /\ sw[s] = "on" /\ outFifo[s] # <<>>
  /\ outFifo' = [outFifo EXCEPT ![s] = <<>>]
  /\ LET message == Taken(outFifo[s]) IN
       \/ message.type = "HELLO_ACK" /\ UNCHANGED <<forwardingTable, add>>
       \/ /\ message.type = "ADD_FORWARD" /\ AddForwardRule(s, message)
          /\ add' = [add EXCEPT ![s] = @ + 1]
       \/ /\ message.type = "ADD_DROP" /\ AddDropRule(s, message.dest)
          /\ add' = [add EXCEPT ![s] = @ + 1]
  /\ UNCHANGED <<inFifo, switches, admit, ask, sw, cont, starts>>

-----------------------------------------------------------------------------
(* The controller.                                                          *)

Answer(s, message) ==
  outFifo' = [outFifo EXCEPT ![s] = Append(@,
    IF \E k \in DOMAIN switches : switches[k] = message.arg
    THEN AddForward(message.arg) ELSE AddDrop(message.arg))]

ControllerReceive(s) ==
  /\ cont = "on" /\ inFifo[s] # <<>>
  /\ inFifo' = [inFifo EXCEPT ![s] = <<>>]
  /\ LET message == Taken(inFifo[s]) IN
       \/ /\ message.type = "HELLO"
          /\ switches' = Append(switches, s)
          /\ outFifo' = [outFifo EXCEPT ![s] = Append(@, HelloAck)]
       \/ message.type = "ASK" /\ Answer(s, message) /\ UNCHANGED switches
       \/ message.type = "RELAY" /\ UNCHANGED <<switches, outFifo>>
  /\ UNCHANGED <<forwardingTable, admit, ask, add, sw, cont, starts>>

\* The command exit, or a signal.
SwitchExit(s) ==
  /\ sw[s] = "on" /\ sw' = [sw EXCEPT ![s] = "exited"]
  /\ UNCHANGED <<inFifo, outFifo, switches, forwardingTable, admit, ask, add, cont, starts>>

ControllerExit ==
  /\ cont = "on" /\ cont' = "exited"
  /\ UNCHANGED <<inFifo, outFifo, switches, forwardingTable, admit, ask, add, sw, starts>>

Next ==
  \/ \E s \in Switches :
       \/ Start(s) \/ SwitchReceive(s) \/ ControllerReceive(s) \/ SwitchExit(s)
       \/ \E d \in Addresses : Admit(s, d)
  \/ ControllerExit

Spec == Init /\ [][Next]_vars

-----------------------------------------------------------------------------
(* Properties.                                                              *)

Rules ==
  [dest : Addresses, action : {"FORWARD", "DROP"}, port : 0 .. 3, pktCount : Nat]

\* The types of the variables.
TypeOK ==
  /\ \A k \in DOMAIN switches : switches[k] \in Switches
  /\ \A s \in Switches : \A k \in DOMAIN forwardingTable[s] : forwardingTable[s][k] \in Rules
  /\ \A s \in Switches :
       /\ admit[s] \in 0 .. MaxLines[s] /\ ask[s] \in 0 .. admit[s] /\ add[s] \in 0 .. ask[s]
       /\ starts[s] \in 0 .. MaxStarts[s]
  /\ sw \in [Switches -> {"off", "on", "exited", "crashed"}] /\ cont \in {"on", "exited"}

Count(queue, types) == Cardinality({i \in DOMAIN queue : queue[i].type \in types})

\* The rules of a switch never count more packets than it admitted: one that
\* asked is counted once, by the rule that comes back, though other packets
\* may have been admitted, asked about and lost meanwhile, or the switch was
\* started again and reads what its earlier program asked for (switch.cpp:82-98,
\* 143-156).
CountNeverOver == \A s \in Switches : Total(PktCounts(forwardingTable[s])) <= admit[s]

\* Every ADD, read or still to be read, answers an ASK of its own
\* (controller.cpp:178-193).
AddForAsk ==
  \A s \in Switches :
    Count(inFifo[s], {"ASK"}) + Count(outFifo[s], {"ADD_FORWARD", "ADD_DROP"}) + add[s] <= ask[s]

\* A switch that has started is known to the controller, or its HELLO is what
\* the controller takes of its FIFO next: nothing the switch writes behind it,
\* though it waits for no answer, nor what an earlier program of it left there,
\* can make the controller miss it (switch.cpp:68-97, controller.cpp:167-177).
HelloFirst ==
  \A s \in Switches : sw[s] # "off" =>
    \/ \E k \in DOMAIN switches : switches[k] = s
    \/ inFifo[s] # <<>> /\ Head(inFifo[s]) = Hello(s)
=============================================================================
