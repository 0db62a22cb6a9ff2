--------------------------- MODULE SdnController ----------------------------
(***************************************************************************)
(* controllerLoop (test2/controller.cpp).  Each round polls, reads the     *)
(* connections that were ready in the order of their index, and accepts at *)
(* most one switch.  An index is given in the order of accept.             *)
(*                                                                         *)
(* Two things outlive a read: the buffer, cleared once in a round, and     *)
(* errno, never cleared, which every send takes for its own.  A descriptor *)
(* that was closed is given to the next accept, though pfds still has it.  *)
(* The accept after numSwitches others stores its descriptor where the     *)
(* listening socket was.                                                   *)
(***************************************************************************)
EXTENDS SdnNet

VARIABLES
  pfds,              \* descriptor at each index a switch was accepted at
  mainSocket,        \* what took the listening socket's place in pfds
  conn,              \* the switch behind a descriptor
  switchInfoTable,   \* switches, in the order of their OPENs
  idToFd,            \* indices that have an entry, of value pfds[i].fd
  closed,            \* indices whose connection was closed
  ready, mainReady,  \* what poll reported
  buffer,            \* packet read last in this round, as it was parsed
  longest,           \* size of the longest read in this round
  errno              \* a call has failed before

bufferVars == <<buffer, longest, errno>>
contVars == <<pfds, mainSocket, conn, switchInfoTable, idToFd, closed, ready, mainReady, bufferVars>>

FDs == Processes
NoFd == 0
NoConn == 0

ContInit ==
  /\ cont = "poll" /\ pfds = <<>> /\ mainSocket = NoFd
  /\ conn = [f \in FDs |-> NoConn]
  /\ switchInfoTable = <<>> /\ idToFd = {} /\ closed = {}
  /\ ready = {} /\ mainReady = FALSE
  /\ buffer = Nothing /\ longest = 0 /\ errno = FALSE

At(i) == conn[pfds[i]]
HasInput(s) == s # NoConn /\ (up[s] # <<>> \/ upEnd[s] # "open")
Readable == {i \in DOMAIN pfds : HasInput(At(i))}
MainReadable == IF mainSocket = NoFd THEN connq # <<>> ELSE HasInput(conn[mainSocket])

\* Where the loop goes when the reads left are rest.
Continue(rest) == IF rest # {} THEN "read" ELSE IF mainReady THEN "accept" ELSE "poll"

\* write to the connection of s, and the test of errno after it.  A failure left
\* by an earlier call ends the controller, and so does a connection that was
\* reset.
Send(i, s, packet, failed, rest) ==
  IF i \in closed THEN cont' = Continue(rest) /\ UNCHANGED down
  ELSE /\ cont' = IF failed \/ s = NoConn \/ upEnd[s] = "rst" THEN "gone" ELSE Continue(rest)
       /\ down' = IF s # NoConn /\ Alive(s) THEN [down EXCEPT ![s] = Append(@, packet)] ELSE down

FirstOwner(d) ==
  {k \in DOMAIN switchInfoTable :
     /\ d \in switchInfoTable[k].dests
     /\ \A j \in 1 .. k - 1 : d \notin switchInfoTable[j].dests}

\* Plausible bugs.
AnswerLatest(i, d) ==           \* does not stop at the owner
  IF FirstOwner(d) = {} THEN Rule({d}, "DROP", 0)
  ELSE LET info == switchInfoTable[Len(switchInfoTable)]
       IN Rule(info.dests, "FORWARD", IF info.id > i THEN 2 ELSE 1)

AnswerBack(i, d) ==             \* takes port 1 for the one after
  IF FirstOwner(d) = {} THEN Rule({d}, "DROP", 0)
  ELSE LET info == switchInfoTable[CHOOSE k \in FirstOwner(d) : TRUE]
       IN Rule(info.dests, "FORWARD", IF info.id > i THEN 1 ELSE 2)

\* The rule for address d asked for at index i.
Answer(i, d) ==
  IF FirstOwner(d) = {} THEN Rule({d}, "DROP", 0)
  ELSE LET info == switchInfoTable[CHOOSE k \in FirstOwner(d) : TRUE]
       IN Rule(info.dests, "FORWARD", IF info.id > i THEN 2 ELSE 1)

\* The packet, as it was parsed, is handled.  An ADD for an index without an
\* entry is written to descriptor 0, which is no switch's; it only happens after
\* a read failed, and then ends the controller.
Handle(i, packet, failed, rest) ==
  CASE packet.type = "OPEN" ->
         /\ switchInfoTable' = Append(switchInfoTable,
              [id |-> packet.first, dests |-> Between(Low[packet.first], packet.last)])
         /\ idToFd' = idToFd \cup {i}
         /\ Send(i, At(i), Ack, failed, rest)
    [] packet.type = "QUERY" /\ packet.last <= MaxIp ->
         /\ Send(i, IF i \in idToFd THEN At(i) ELSE NoConn, Add(Answer(i, packet.last)), failed, rest)
         /\ UNCHANGED <<switchInfoTable, idToFd>>
    [] OTHER -> cont' = Continue(rest) /\ UNCHANGED <<switchInfoTable, idToFd, down>>

\* poll has reported index i, the next one to be read.
ReadAt(i) ==
  /\ cont = "read" /\ i \in ready
  /\ \A j \in ready : i <= j
  /\ ready' = ready \ {i}

-----------------------------------------------------------------------------
(* Plausible bugs.                                                          *)

Free(f) == conn[f] = NoConn /\ \A g \in 1 .. f - 1 : conn[g] # NoConn

AcceptTwice ==                  \* increments socketIdx twice
  /\ cont = "accept" /\ mainSocket = NoFd
  /\ connq' = Tail(connq)
  /\ \E f \in FDs :
       /\ Free(f)
       /\ pfds' = pfds \o <<f, f>>
       /\ conn' = [conn EXCEPT ![f] = Head(connq)]
  /\ cont' = "poll"
  /\ UNCHANGED <<mainSocket, switchInfoTable, idToFd, closed, ready, mainReady, bufferVars>>
  /\ UNCHANGED <<up, down, upEnd, fifo, made>>

AcceptFewer ==                  \* pfds is an entry shorter
  /\ cont = "accept" /\ mainSocket = NoFd
  /\ connq' = Tail(connq)
  /\ \E f \in FDs :
       /\ Free(f)
       /\ conn' = [conn EXCEPT ![f] = Head(connq)]
       /\ IF Len(pfds) + 1 < NumSwitches
          THEN pfds' = Append(pfds, f) /\ UNCHANGED mainSocket
          ELSE mainSocket' = f /\ UNCHANGED pfds
  /\ cont' = "poll"
  /\ UNCHANGED <<switchInfoTable, idToFd, closed, ready, mainReady, bufferVars>>
  /\ UNCHANGED <<up, down, upEnd, fifo, made>>

-----------------------------------------------------------------------------
(* The loop, controller.cpp:180-328.                                        *)

Poll ==
  /\ cont = "poll"
  /\ Readable # {} \/ MainReadable
  /\ ready' = Readable /\ mainReady' = MainReadable
  /\ cont' = IF Readable # {} THEN "read" ELSE "accept"
  /\ buffer' = Nothing /\ longest' = 0
  /\ UNCHANGED <<pfds, mainSocket, conn, switchInfoTable, idToFd, closed, errno>>
  /\ UNCHANGED <<connq, up, down, upEnd, fifo, made>>

ReadPacket(i) ==
  /\ ReadAt(i)
  /\ LET s == At(i) IN
       /\ s # NoConn /\ up[s] # <<>>
       /\ buffer' \in Parsed(Head(up[s]), longest)
       /\ longest' = IF Size(Head(up[s])) > longest THEN Size(Head(up[s])) ELSE longest
       /\ up' = [up EXCEPT ![s] = <<>>]
       /\ Handle(i, buffer', errno, ready \ {i})
  /\ UNCHANGED <<pfds, mainSocket, conn, closed, mainReady, errno, connq, upEnd, fifo, made>>

ReadClosed(i) ==
  /\ ReadAt(i)
  /\ LET s == At(i) IN
       /\ s # NoConn /\ up[s] = <<>> /\ upEnd[s] = "fin"
       /\ conn' = [conn EXCEPT ![pfds[i]] = NoConn]
       /\ closed' = closed \cup {i}
  /\ cont' = Continue(ready \ {i})
  /\ UNCHANGED <<pfds, mainSocket, switchInfoTable, idToFd, mainReady, bufferVars>>
  /\ UNCHANGED <<connq, up, down, upEnd, fifo, made>>

\* read returns -1: the connection was reset, or another index has the same
\* descriptor and has read or closed it.  The packet left in the buffer is
\* handled again, as if it had come from here.
ReadError(i) ==
  /\ ReadAt(i)
  /\ LET s == At(i) IN
       /\ s # NoConn => up[s] = <<>> /\ upEnd[s] # "fin"
       /\ upEnd' = IF s # NoConn /\ upEnd[s] = "rst" THEN [upEnd EXCEPT ![s] = "fin"] ELSE upEnd
  /\ errno' = TRUE
  /\ Handle(i, buffer, TRUE, ready \ {i})
  /\ UNCHANGED <<pfds, mainSocket, conn, closed, mainReady, buffer, longest, connq, up, fifo, made>>

\* The lowest free descriptor is taken.  With an index for every switch given
\* away, it replaces the listening socket.
Accept ==
  /\ cont = "accept" /\ mainSocket = NoFd
  /\ connq' = Tail(connq)
  /\ \E f \in FDs :
       /\ Free(f)
       /\ conn' = [conn EXCEPT ![f] = Head(connq)]
       /\ IF Len(pfds) < NumSwitches
          THEN pfds' = Append(pfds, f) /\ UNCHANGED mainSocket
          ELSE mainSocket' = f /\ UNCHANGED pfds
  /\ cont' = "poll"
  /\ UNCHANGED <<switchInfoTable, idToFd, closed, ready, mainReady, bufferVars>>
  /\ UNCHANGED <<up, down, upEnd, fifo, made>>

\* accept on a connection fails, and the controller exits.
AcceptFails ==
  /\ cont = "accept" /\ mainSocket # NoFd
  /\ cont' = "gone"
  /\ UNCHANGED <<contVars, connq, up, down, upEnd, fifo, made>>

\* The user's exit, or the end of the controller's input.
ContExit ==
  /\ cont = "poll"
  /\ cont' = "gone"
  /\ UNCHANGED <<contVars, connq, up, down, upEnd, fifo, made>>

ContStep ==
  \/ Poll \/ Accept \/ AcceptFails
  \/ \E i \in ready : ReadPacket(i) \/ ReadClosed(i) \/ ReadError(i)
=============================================================================
