----------------------------- MODULE SdnSwitch ------------------------------
(***************************************************************************)
(* switchLoop (test2/switch.cpp).  A switch connects, sends its OPEN, makes*)
(* the FIFOs its neighbours write to, and loops: it admits a line of its   *)
(* traffic file when no answer of the controller is due, and reads what    *)
(* poll reports.  A FIFO for writing is opened when it is first needed,    *)
(* and every failure of mkfifo, open or write ends the switch.  FIFOs are  *)
(* never removed, so that a switch started again finds those of the one    *)
(* before it.                                                              *)
(*                                                                         *)
(* The order of the steps within a round is not kept: any round may admit  *)
(* nothing, and any descriptor may not be ready.  On Linux a FIFO that lost*)
(* its writer reports POLLHUP without POLLIN, so that closed stays empty.  *)
(***************************************************************************)
EXTENDS SdnNet

CONSTANTS
  MaxPackets,   \* of each process, the lines it admits of the traffic file
  MaxRelays,    \* relayed packets one switch reads
  Start,        \* the order in which the user first starts the switches
  SocketEvents  \* what pfds[4].events, never set, may hold: POLLIN or not

ASSUME SwitchAssumption ==
  /\ MaxPackets \in [Processes -> Nat] /\ MaxRelays \in Nat
  /\ Start \in {"any", "in_order", "one_by_one"}
  /\ SocketEvents \subseteq BOOLEAN

VARIABLES
  ackReceived, addReceived,
  asked,          \* address of the last QUERY, while addReceived is FALSE
  flowTable,
  portToFd,       \* of ports 1 and 2: "none", "fifo", or "stdin"
  polled,         \* whether the events of the socket hold POLLIN
  admit, relayIn, relayOut

switchVars == <<ackReceived, addReceived, asked, flowTable, portToFd, polled, admit, relayIn, relayOut>>

SwitchInit ==
  /\ sw = [s \in Processes |-> "off"]
  /\ ackReceived = [s \in Processes |-> FALSE]
  /\ addReceived = [s \in Processes |-> TRUE]
  /\ asked = [s \in Processes |-> Low[Id(s)]]
  /\ flowTable = [s \in Processes |-> <<[Rule(IpRange(Id(s)), "FORWARD", 3) EXCEPT !.pktCount = 0]>>]
  /\ portToFd = [s \in Processes |-> [p \in Ports |-> "none"]]
  /\ polled \in [Processes -> SocketEvents]
  /\ admit = [s \in Processes |-> 0]
  /\ relayIn = [s \in Processes |-> 0] /\ relayOut = [s \in Processes |-> 0]

\* The process ends.  A socket closed with data unread is reset.
Stop(s, how) ==
  /\ sw' = [sw EXCEPT ![s] = how]
  /\ upEnd' = [upEnd EXCEPT ![s] = IF down[s] # <<>> THEN "rst" ELSE "fin"]

\* openFifo finds the FIFO and its reader, or the write after it the reader:
\* a program of the neighbour that has made the FIFO of its other port.
CanReach(s, p) ==
  \E t \in Processes : Id(t) = Neighbour(Id(s), p) /\ Alive(t) /\ 3 - p \in made[t]

\* The RELAY for address d is written to descriptor fd of port p, opened
\* first if there is none.  Standard input takes it or gives an error.  The
\* FIFOs hold queues before.
SendRelay(s, p, fd, d, queues) ==
  \/ /\ fd # "stdin" /\ CanReach(s, p)
     /\ fifo' = [queues EXCEPT ![<<Id(s), Neighbour(Id(s), p)>>] = Append(@, d)]
     /\ portToFd' = [portToFd EXCEPT ![s][p] = "fifo"]
     /\ relayOut' = [relayOut EXCEPT ![s] = @ + 1]
     /\ UNCHANGED <<sw, upEnd>>
  \/ /\ fd = "stdin" \/ ~CanReach(s, p)
     /\ Stop(s, "failed")
     /\ fifo' = queues /\ UNCHANGED <<portToFd, relayOut>>
  \/ /\ fd = "stdin"
     /\ portToFd' = [portToFd EXCEPT ![s][p] = "stdin"]
     /\ relayOut' = [relayOut EXCEPT ![s] = @ + 1]
     /\ fifo' = queues /\ UNCHANGED <<sw, upEnd>>

\* The first rule of s for d.
Match(s, d) ==
  {k \in DOMAIN flowTable[s] :
     /\ d \in flowTable[s][k].dests
     /\ \A j \in 1 .. k - 1 : d \notin flowTable[s][j].dests}

Lowest(dests) == CHOOSE d \in dests : \A e \in dests : d <= e

\* Where a relayed packet that came in at port p goes on: by the switch's id
\* against the number of the port, and nowhere if they are equal.
NextPort(s, p) == IF Id(s) > p THEN 1 ELSE IF Id(s) < p THEN 2 ELSE 0

-----------------------------------------------------------------------------
(* Plausible bugs, one for each property that is about a switch.            *)

WaitsForAdd(s) == addReceived[s]            \* does not wait for the ACK

AddRuleUncounted(s, rule) ==                \* the new rule has counted nothing
  /\ flowTable' = [flowTable EXCEPT ![s] = Append(@, [rule EXCEPT !.pktCount = 0])]
  /\ addReceived' = [addReceived EXCEPT ![s] = TRUE]

AddRuleForwardOnly(s, rule) ==              \* goes on waiting after a DROP
  /\ flowTable' = [flowTable EXCEPT ![s] = Append(@, rule)]
  /\ addReceived' = [addReceived EXCEPT ![s] = rule.action = "FORWARD"]

-----------------------------------------------------------------------------
(* Starting up.                                                             *)

\* The user starts a switch that is not running.
MayStart(s) ==
  /\ \A t \in 1 .. s - 1 : Id(t) = Id(s) => Ended(t)
  /\ s \in Switches \ {1} =>
       CASE Start = "any" -> TRUE
         [] Start = "in_order" -> sw[s - 1] # "off"
         [] Start = "one_by_one" -> ackReceived[s - 1]

Connect(s) ==
  /\ sw[s] = "off" /\ cont # "gone"
  /\ MayStart(s)
  /\ sw' = [sw EXCEPT ![s] = "connected"]
  /\ connq' = Append(connq, s)
  /\ UNCHANGED <<switchVars, up, down, upEnd, fifo, made>>

SendOpen(s) ==
  /\ sw[s] = "connected"
  /\ sw' = [sw EXCEPT ![s] = "open"]
  /\ up' = [up EXCEPT ![s] = Append(@, Open(s))]
  /\ UNCHANGED <<switchVars, connq, down, upEnd, fifo, made>>

\* A FIFO that an earlier program of the switch made is still there, and
\* mkfifo fails.
MakeFifo(s) ==
  /\ sw[s] = "open"
  /\ \E p \in Wanted(s) \ made[s] :
       /\ \A q \in Wanted(s) \ made[s] : p <= q
       /\ IF \E t \in Processes : Id(t) = Id(s) /\ p \in made[t]
          THEN Stop(s, "failed") /\ UNCHANGED made
          ELSE made' = [made EXCEPT ![s] = @ \cup {p}] /\ UNCHANGED <<sw, upEnd>>
  /\ UNCHANGED <<switchVars, connq, up, down, fifo>>

-----------------------------------------------------------------------------
(* The loop.                                                                *)

\* No rule matches: the controller is asked.
AdmitUnknown(s, d) ==
  /\ Match(s, d) = {}
  /\ \E src \in Sources : up' = [up EXCEPT ![s] = Append(@, Query(src, d))]
  /\ addReceived' = [addReceived EXCEPT ![s] = FALSE]
  /\ asked' = [asked EXCEPT ![s] = d]
  /\ UNCHANGED <<sw, flowTable, portToFd, relayOut, upEnd, fifo>>

AdmitKnown(s, d) ==
  /\ \E k \in Match(s, d) :
       LET rule == flowTable[s][k] IN
       /\ flowTable' = [flowTable EXCEPT ![s][k].pktCount = @ + 1]
       /\ IF rule.action = "FORWARD" /\ rule.port # 3
          THEN SendRelay(s, rule.port, portToFd[s][rule.port], d, fifo)
          ELSE UNCHANGED <<sw, upEnd, fifo, portToFd, relayOut>>
  /\ UNCHANGED <<addReceived, asked, up>>

NotWaiting(s) == ackReceived[s] /\ addReceived[s]

Admit(s, d) ==
  /\ Looping(s) /\ NotWaiting(s)
  /\ admit[s] < MaxPackets[s]
  /\ admit' = [admit EXCEPT ![s] = @ + 1]
  /\ AdmitUnknown(s, d) \/ AdmitKnown(s, d)
  /\ UNCHANGED <<ackReceived, polled, relayIn, connq, down, made>>

\* The socket is readable and its first packet has this type; all is read.
ReadSocket(s, type) ==
  /\ Looping(s) /\ polled[s]
  /\ down[s] # <<>> /\ Head(down[s]).type = type
  /\ down' = [down EXCEPT ![s] = <<>>]

ReadAck(s) ==
  /\ ReadSocket(s, "ACK")
  /\ ackReceived' = [ackReceived EXCEPT ![s] = TRUE]
  /\ UNCHANGED <<addReceived, asked, flowTable, portToFd, polled, admit, relayIn, relayOut>>
  /\ UNCHANGED <<sw, connq, up, upEnd, fifo, made>>

\* The packet that waits for the rule is its first.
AddRule(s, rule) ==
  /\ flowTable' = [flowTable EXCEPT ![s] = Append(@, rule)]
  /\ addReceived' = [addReceived EXCEPT ![s] = TRUE]

\* The packet that was asked about is relayed to the lowest address of the
\* new rule.
ReadAdd(s) ==
  /\ ReadSocket(s, "ADD")
  /\ LET rule == Head(down[s]).rule IN
       /\ AddRule(s, rule)
       /\ IF rule.action = "FORWARD"
          THEN SendRelay(s, rule.port, portToFd[s][rule.port], Lowest(rule.dests), fifo)
          ELSE UNCHANGED <<sw, upEnd, fifo, portToFd, relayOut>>
  /\ UNCHANGED <<ackReceived, asked, polled, admit, relayIn, connq, up, made>>

\* What the address of the first RELAY in the FIFO of port p may be read as: the
\* buffer may hold a longer RELAY that came in at port 1 in this round, unless
\* all are of one length.
RelayReadings(s, p, d) ==
  IF p = 2 /\ 1 \in Wanted(s) /\ ~ThreeDigits THEN Readings(d) ELSE {d}

\* Everything in the FIFO of port p is read, and its first packet handled.
\* portToFd[q] is standard input, from then on, if no FIFO was opened before.
ReadRelay(s, p) ==
  /\ Looping(s) /\ p \in Wanted(s)
  /\ relayIn[s] < MaxRelays
  /\ LET channel == <<Neighbour(Id(s), p), Id(s)>>
         rest == [fifo EXCEPT ![channel] = <<>>]
         q == NextPort(s, p) IN
       /\ fifo[channel] # <<>>
       /\ \E d \in RelayReadings(s, p, Head(fifo[channel])) :
            IF d \in IpRange(Id(s)) \/ q = 0
            THEN fifo' = rest /\ UNCHANGED <<sw, upEnd, portToFd, relayOut>>
            ELSE SendRelay(s, q, IF portToFd[s][q] = "none" THEN "stdin" ELSE portToFd[s][q], d, rest)
  /\ relayIn' = [relayIn EXCEPT ![s] = @ + 1]
  /\ UNCHANGED <<ackReceived, addReceived, asked, flowTable, polled, admit, connq, up, down, made>>

\* The controller's end of the socket is closed.
ControllerGone(s) ==
  /\ Looping(s) /\ polled[s]
  /\ cont = "gone" /\ down[s] = <<>>
  /\ Stop(s, "exited")
  /\ UNCHANGED <<switchVars, connq, up, down, fifo, made>>

\* The user's exit, the end of the switch's input, or a signal.
Leave(s) ==
  /\ Alive(s)
  /\ Stop(s, "exited")
  /\ UNCHANGED <<switchVars, connq, up, down, fifo, made>>

SwitchStep(s) ==
  \/ SendOpen(s) \/ MakeFifo(s)
  \/ \E d \in Addresses : Admit(s, d)
  \/ ReadAck(s) \/ ReadAdd(s) \/ ControllerGone(s)
  \/ \E p \in Ports : ReadRelay(s, p)
=============================================================================
