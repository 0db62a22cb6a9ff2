----------------------------- MODULE TxnServer -----------------------------
(***************************************************************************)
(* The transaction server (Assignment_3/server.cpp) and its clients        *)
(* (client.cpp).  The server is one select loop over a listening socket    *)
(* and at most MaxClients connections: it accepts into the first free      *)
(* slot, reads a request, works, and replies with the transaction number;  *)
(* it exits when nothing happens for 30 seconds.  A client connects, and   *)
(* for each T line sends a request and blocks until the reply; it may be   *)
(* killed at any moment.                                                   *)
(*                                                                         *)
(* TCP is modelled by what select, read and send tell the two programs: a  *)
(* request to read, end of file (fin), or an error after a reset (rst).    *)
(* A client that dies with an unread reply resets its connection, and so   *)
(* may a reply that reaches a closed socket.  Messages are short enough to *)
(* arrive whole; host names, times and the output files are left out.      *)
(***************************************************************************)
EXTENDS Naturals, Sequences, FiniteSets

CONSTANTS
  Clients,
  MaxClients,    \* max_clients, 30 in the code
  Backlog,       \* connections the kernel holds for accept
  MaxRequests,   \* bound: T lines in a client's input
  NoClient,      \* an empty slot of client_socket
  Other          \* a key of client_completed_tasks that names no client

ASSUME SizeAssumption == MaxClients \in Nat \ {0} /\ Backlog \in Nat \ {0} /\ MaxRequests \in Nat
ASSUME NameAssumption == NoClient \notin Clients /\ Other \notin Clients

Slots == 1 .. MaxClients

VARIABLES
  client,     \* where each client is
  sent,       \* totalTransactions of each client
  got,        \* the numbers each client has received
  req,        \* requests of a client the server has not read
  reply,      \* replies to a client it has not read
  fin, rst,   \* the server's end has received end of file, a reset
  backlog,    \* connections waiting for accept
  server, readfds, sd, client_socket, buffer,
  transactionCount, client_completed_tasks

tcp == <<req, reply, fin, rst>>
clientVars == <<client, sent, got>>
counts == <<transactionCount, client_completed_tasks>>
serverVars == <<server, readfds, sd, client_socket, buffer, counts>>
vars == <<clientVars, tcp, backlog, serverVars>>

\* What the server's message buffer holds: nothing yet, a request or a reply.
Uninitialised == [kind |-> "none", from |-> Other]
Request(c) == [kind |-> "T", from |-> c]
Digits == [kind |-> "digits", from |-> Other]

Init ==
  /\ client = [c \in Clients |-> "idle"]
  /\ sent = [c \in Clients |-> 0] /\ got = [c \in Clients |-> <<>>]
  /\ req = [c \in Clients |-> 0] /\ reply = [c \in Clients |-> <<>>]
  /\ fin = [c \in Clients |-> FALSE] /\ rst = [c \in Clients |-> FALSE]
  /\ backlog = <<>>
  /\ server = "select" /\ readfds = {} /\ sd = 1
  /\ client_socket = [s \in Slots |-> NoClient]
  /\ buffer = Uninitialised
  /\ transactionCount = 0
  /\ client_completed_tasks = [k \in Clients \cup {Other} |-> 0]

Running == server \notin {"exited", "aborted"}

Occupied == {s \in Slots : client_socket[s] # NoClient}
Readable == {s \in Occupied :
               LET c == client_socket[s] IN req[c] > 0 \/ fin[c] \/ rst[c]}

\* The scan reaches slot s, the next one select reported.
Visit(s) ==
  /\ server = "scan" /\ s \in readfds
  /\ \A t \in readfds : s <= t
  /\ readfds' = readfds \ {s}
  /\ UNCHANGED <<clientVars, backlog>>

\* What happens to a message in the buffer, whoever it is from: it is counted,
\* and a T is answered on the socket just read.
Process(s, msg) ==
  /\ buffer' = msg
  /\ transactionCount' = transactionCount + 1
  /\ client_completed_tasks' = [client_completed_tasks EXCEPT ![msg.from] = @ + 1]
  /\ server' = IF msg.kind = "T" THEN "reply" ELSE "scan"
  /\ sd' = s

-----------------------------------------------------------------------------
(* Plausible bugs, one for each property.                                   *)

PipelinedSendRequest(c) ==      \* does not wait for the reply
  /\ client[c] \in {"connected", "waiting"}
  /\ sent[c] < MaxRequests /\ Running
  /\ sent' = [sent EXCEPT ![c] = @ + 1]
  /\ client' = [client EXCEPT ![c] = "waiting"]
  /\ req' = [req EXCEPT ![c] = @ + 1]
  /\ UNCHANGED <<got, reply, fin, rst, backlog, serverVars>>

ConnectUnlimited(c) ==          \* the backlog has no limit
  /\ client[c] = "idle"
  /\ backlog' = IF Running THEN Append(backlog, c) ELSE backlog
  /\ client' = [client EXCEPT ![c] = IF Running THEN "connected" ELSE "failed"]
  /\ UNCHANGED <<sent, got, tcp, serverVars>>

AcceptOldest ==                 \* with every slot taken, takes the first
  /\ server = "accept"
  /\ server' = "scan"
  /\ backlog' = Tail(backlog)
  /\ \E s \in Slots :
       /\ \A t \in Slots \ Occupied : s <= t
       /\ client_socket' = [client_socket EXCEPT ![s] = Head(backlog)]
  /\ UNCHANGED <<clientVars, tcp, readfds, sd, buffer, counts>>

ReadEofAsMessage(s) ==          \* tests read() < 0 where the code tests == 0
  /\ Visit(s)
  /\ LET c == client_socket[s] IN req[c] = 0 /\ fin[c]
  /\ Process(s, buffer)
  /\ UNCHANGED <<tcp, client_socket>>

SendReplyReadBuffer ==          \* formats the number in a buffer of its own
  /\ server = "reply"
  /\ LET c == client_socket[sd] IN
       /\ server' = "scan"
       /\ reply' = IF fin[c] THEN reply ELSE [reply EXCEPT ![c] = Append(@, transactionCount)]
  /\ UNCHANGED <<clientVars, req, fin, rst, backlog, readfds, sd, client_socket, buffer, counts>>

SendReplyFirstSlot ==           \* sends on the first connection
  /\ server = "reply"
  /\ server' = "scan" /\ buffer' = Digits
  /\ \E s \in Occupied :
       /\ \A t \in Occupied : s <= t
       /\ reply' = [reply EXCEPT ![client_socket[s]] = Append(@, transactionCount)]
  /\ UNCHANGED <<clientVars, req, fin, rst, backlog, readfds, sd, client_socket, counts>>

SendReplyOwnCount ==            \* sends the client's count, not the server's
  /\ server = "reply"
  /\ server' = "scan" /\ buffer' = Digits
  /\ LET c == client_socket[sd] IN
       reply' = IF fin[c] THEN reply ELSE [reply EXCEPT ![c] = Append(@, client_completed_tasks[c])]
  /\ UNCHANGED <<clientVars, req, fin, rst, backlog, readfds, sd, client_socket, counts>>

TimeoutWhenEmpty ==             \* times out only when nobody is connected
  /\ server = "select"
  /\ backlog = <<>> /\ Occupied = {}
  /\ server' = "timed_out"
  /\ UNCHANGED <<clientVars, tcp, backlog, readfds, sd, client_socket, buffer, counts>>

-----------------------------------------------------------------------------
(* The client, client.cpp:8-95.                                             *)

Connect(c) ==
  /\ client[c] = "idle"
  /\ IF Running
     THEN /\ Len(backlog) < Backlog
          /\ backlog' = Append(backlog, c)
          /\ client' = [client EXCEPT ![c] = "connected"]
     ELSE client' = [client EXCEPT ![c] = "failed"] /\ UNCHANGED backlog
  /\ UNCHANGED <<sent, got, tcp, serverVars>>

\* A T line.  With the server gone, the send or the recv after it fails, or
\* recv returns 0 and stoi of nothing ends the client.
SendRequest(c) ==
  /\ client[c] = "connected"
  /\ sent[c] < MaxRequests
  /\ sent' = [sent EXCEPT ![c] = @ + 1]
  /\ IF Running
     THEN client' = [client EXCEPT ![c] = "waiting"] /\ req' = [req EXCEPT ![c] = @ + 1]
     ELSE client' = [client EXCEPT ![c] = "failed"] /\ UNCHANGED req
  /\ UNCHANGED <<got, reply, fin, rst, backlog, serverVars>>

\* recv returns every byte there is.
ReceiveReply(c) ==
  /\ client[c] = "waiting" /\ reply[c] # <<>>
  /\ client' = [client EXCEPT ![c] = "connected"]
  /\ got' = [got EXCEPT ![c] = @ \o reply[c]]
  /\ reply' = [reply EXCEPT ![c] = <<>>]
  /\ UNCHANGED <<sent, req, fin, rst, backlog, serverVars>>

LoseServer(c) ==
  /\ client[c] = "waiting" /\ reply[c] = <<>> /\ ~Running
  /\ client' = [client EXCEPT ![c] = "failed"]
  /\ UNCHANGED <<sent, got, tcp, backlog, serverVars>>

\* The end of the input.
CloseClient(c) ==
  /\ client[c] = "connected"
  /\ client' = [client EXCEPT ![c] = "done"]
  /\ fin' = [fin EXCEPT ![c] = TRUE]
  /\ UNCHANGED <<sent, got, req, reply, rst, backlog, serverVars>>

\* The kernel closes a killed client's socket: with a reset if a reply is
\* still unread there, with an end of file otherwise.
KillClient(c) ==
  /\ client[c] \in {"connected", "waiting"}
  /\ client' = [client EXCEPT ![c] = "killed"]
  /\ IF reply[c] = <<>>
     THEN fin' = [fin EXCEPT ![c] = TRUE] /\ UNCHANGED rst
     ELSE rst' = [rst EXCEPT ![c] = TRUE] /\ UNCHANGED fin
  /\ reply' = [reply EXCEPT ![c] = <<>>]
  /\ UNCHANGED <<sent, got, req, backlog, serverVars>>

-----------------------------------------------------------------------------
(* The server, server.cpp:107-224.                                          *)

\* select returns with the sockets that are ready at that moment.
Select ==
  /\ server = "select"
  /\ backlog # <<>> \/ Readable # {}
  /\ readfds' = Readable
  /\ server' = IF backlog # <<>> THEN "accept" ELSE "scan"
  /\ UNCHANGED <<clientVars, tcp, backlog, sd, client_socket, buffer, counts>>

\* select returns 0 after 30 seconds without activity.
Timeout ==
  /\ server = "select"
  /\ backlog = <<>> /\ Readable = {}
  /\ server' = "timed_out"
  /\ UNCHANGED <<clientVars, tcp, backlog, readfds, sd, client_socket, buffer, counts>>

\* The listening socket is closed, the summary printed, the process ends.
Exit ==
  /\ server = "timed_out"
  /\ server' = "exited"
  /\ UNCHANGED <<clientVars, tcp, backlog, readfds, sd, client_socket, buffer, counts>>

\* accept; with every slot taken the new socket is forgotten, open.
Accept ==
  /\ server = "accept"
  /\ server' = "scan"
  /\ backlog' = Tail(backlog)
  /\ LET free == Slots \ Occupied IN
       IF free = {} THEN UNCHANGED client_socket
       ELSE \E s \in free :
              /\ \A t \in free : s <= t
              /\ client_socket' = [client_socket EXCEPT ![s] = Head(backlog)]
  /\ UNCHANGED <<clientVars, tcp, readfds, sd, buffer, counts>>

ReadRequest(s) ==
  /\ Visit(s)
  /\ LET c == client_socket[s] IN
       /\ req[c] > 0
       /\ req' = [req EXCEPT ![c] = 0]
       /\ Process(s, Request(c))
  /\ UNCHANGED <<reply, fin, rst, client_socket>>

ReadEof(s) ==
  /\ Visit(s)
  /\ LET c == client_socket[s] IN req[c] = 0 /\ fin[c]
  /\ client_socket' = [client_socket EXCEPT ![s] = NoClient]
  /\ UNCHANGED <<tcp, server, sd, buffer, counts>>

\* read returns -1, which is not 0: the buffer still holds the last message
\* and is processed as if it had been received.  The next read returns 0.  A
\* reset after an end of file may be reported as either.
ReadError(s) ==
  /\ Visit(s)
  /\ LET c == client_socket[s] IN
       /\ req[c] = 0 /\ rst[c]
       /\ rst' = [rst EXCEPT ![c] = FALSE]
       /\ fin' = [fin EXCEPT ![c] = TRUE]
  /\ Process(s, buffer)
  /\ UNCHANGED <<req, reply, client_socket>>

\* Trans, and the send of the transaction number.  A client that has closed
\* answers with a reset, now or too late to matter; a send on a connection
\* that is already reset ends the server, by SIGPIPE or by its own exit.
SendReply ==
  /\ server = "reply"
  /\ buffer' = Digits
  /\ LET c == client_socket[sd] IN
       IF rst[c] THEN server' = "aborted" /\ UNCHANGED <<reply, rst>>
       ELSE /\ server' = "scan"
            /\ IF fin[c]
               THEN /\ UNCHANGED reply
                    /\ rst' = [rst EXCEPT ![c] = TRUE] \/ UNCHANGED rst
               ELSE /\ reply' = [reply EXCEPT ![c] = Append(@, transactionCount)]
                    /\ UNCHANGED rst
  /\ UNCHANGED <<clientVars, req, fin, backlog, readfds, sd, client_socket, counts>>

EndScan ==
  /\ server = "scan" /\ readfds = {}
  /\ server' = "select"
  /\ UNCHANGED <<clientVars, tcp, backlog, readfds, sd, client_socket, buffer, counts>>

ClientStep(c) ==
  \/ Connect(c) \/ SendRequest(c) \/ ReceiveReply(c) \/ LoseServer(c)
  \/ CloseClient(c) \/ KillClient(c)

ServerStep ==
  \/ Select \/ Timeout \/ Exit \/ Accept
  \/ \E s \in Slots : ReadRequest(s) \/ ReadEof(s) \/ ReadError(s)
  \/ SendReply \/ EndScan

\* The server is gone and no client has anything left to try.
Quiet ==
  /\ ~Running
  /\ \A c \in Clients : client[c] \notin {"idle", "waiting"}
  /\ UNCHANGED vars

Next == ServerStep \/ (\E c \in Clients : ClientStep(c)) \/ Quiet

Spec == Init /\ [][Next]_vars

\* The server process runs (its select times out), and a client's recv
\* returns once there is something to return; nothing makes a client
\* connect, send, close or die.
Fairness ==
  /\ WF_vars(ServerStep)
  /\ \A c \in Clients : WF_vars(ReceiveReply(c) \/ LoseServer(c))

FairSpec == Spec /\ Fairness
-----------------------------------------------------------------------------
(* Properties.                                                              *)

\* The variables have their types.
TypeOK ==
  /\ client \in [Clients -> {"idle", "connected", "waiting", "done", "killed", "failed"}]
  /\ sent \in [Clients -> 0 .. MaxRequests] /\ req \in [Clients -> 0 .. MaxRequests]
  /\ \A c \in Clients : got[c] \in Seq(Nat) /\ reply[c] \in Seq(Nat)
  /\ fin \in [Clients -> BOOLEAN] /\ rst \in [Clients -> BOOLEAN]
  /\ backlog \in Seq(Clients) /\ Len(backlog) <= Backlog
  /\ server \in {"select", "timed_out", "accept", "scan", "reply", "exited", "aborted"}
  /\ readfds \subseteq Slots /\ sd \in Slots
  /\ client_socket \in [Slots -> Clients \cup {NoClient}]
  /\ buffer \in [kind : {"none", "T", "digits"}, from : Clients \cup {Other}]
  /\ transactionCount \in Nat
  /\ client_completed_tasks \in [Clients \cup {Other} -> Nat]

InSlot(c) == \E s \in Slots : client_socket[s] = c
Replying(c) == server = "reply" /\ client_socket[sd] = c

\* A request is never lost, answered twice or answered to somebody else: while
\* the server runs, a waiting client's request is in exactly one place, unread,
\* in the server's hands, or answered; any other live client has had an answer
\* to each request it sent, and nothing more is on its way to it
\* (server.cpp:171-220, client.cpp:54-82).
RequestAccounted ==
  Running => \A c \in Clients :
    LET pending == req[c] + Len(reply[c]) + (IF Replying(c) THEN 1 ELSE 0) IN
    /\ client[c] = "waiting" => pending = 1 /\ sent[c] = Len(got[c]) + 1
    /\ client[c] \in {"connected", "done"} => pending = 0 /\ sent[c] = Len(got[c])

\* The abstract ticket service seen in the server and its clients: a number is
\* given when it is sent.
Standing == [c \in Clients |->
  CASE client[c] \in {"idle", "connected"} -> "ready"
    [] client[c] = "waiting" -> "asked"
    [] OTHER -> "gone"]
Given == IF server = "reply" THEN transactionCount - 1 ELSE transactionCount
OnItsWay == [c \in Clients |-> IF reply[c] = <<>> THEN 0 ELSE Head(reply[c])]

Tickets == INSTANCE TicketService WITH
  Customers <- Clients, NoTicket <- 0,
  state <- Standing, counter <- Given, ticket <- OnItsWay, held <- got, open <- Running

\* What clients see is the abstract ticket service: an answered request gets a
\* number of its own, greater than every number given before, on the connection
\* it came from, though slots and the buffer are shared and messages of dead
\* clients are counted; a closed server issues nothing
\* (server.cpp:171-220, client.cpp:54-82).
ImplementsTickets == Tickets!Spec

\* A transaction number is given to one request, and each client sees its own
\* numbers grow (server.cpp:185, 208).
NumbersUnique == Tickets!Fresh

\* The summary's line for a client says how many of its requests the server
\* has read: no request is credited twice or to another client, though every
\* message passes through one buffer that is not cleared before a read
\* (server.cpp:175, 193-198).
SummaryAgrees ==
  \A c \in Clients :
    client[c] # "failed" => client_completed_tasks[c] + req[c] = sent[c]

\* The server never sends on a connection that is already reset, which would
\* end it for every client: a client has one request outstanding, so the reset
\* of a killed client finds none unread (server.cpp:211).
NeverAborts == server # "aborted"

\* The errors counted as transactions are at most one for each killed client
\* (server.cpp:175, 185).
PhantomBound ==
  client_completed_tasks[Other] <= Cardinality({c \in Clients : client[c] = "killed"})

\* Once in a slot, a connection leaves it only after its client has closed or
\* died: a live client is not dropped (server.cpp:152-161, 182).
LiveKeepsSlot ==
  [][\A c \in Clients : InSlot(c) /\ ~InSlot(c)' => client[c] \in {"done", "killed"}]_vars

\* A client waiting for a reply does not wait for ever, not even one whose
\* connection the server has forgotten (client.cpp:73).
WaitEnds == \A c \in Clients : client[c] = "waiting" ~> client[c] # "waiting"
=============================================================================
