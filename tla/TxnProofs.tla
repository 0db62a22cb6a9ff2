----------------------------- MODULE TxnProofs -----------------------------
(***************************************************************************)
(* Proofs about TxnServer for any clients, slots, backlog and input: types,*)
(* where each request is, what the summary counts, that the server never   *)
(* aborts, and that it implements TicketService.                           *)
(***************************************************************************)
EXTENDS TxnServer, DataFacts, FiniteSetTheorems, SequenceTheorems

-----------------------------------------------------------------------------
(* The strengthening that makes the invariants inductive.                   *)

\* At most one reply is on its way, and no number is 0.
Replies == {<<>>} \cup {<<n>> : n \in Nat \ {0}}

Types ==
  /\ client \in [Clients -> {"idle", "connected", "waiting", "done", "killed", "failed"}]
  /\ sent \in [Clients -> 0 .. MaxRequests] /\ req \in [Clients -> Nat]
  /\ got \in [Clients -> Seq(Nat)] /\ reply \in [Clients -> Replies]
  /\ fin \in [Clients -> BOOLEAN] /\ rst \in [Clients -> BOOLEAN]
  /\ backlog \in Seq(Clients) /\ Len(backlog) <= Backlog
  /\ server \in {"select", "timed_out", "accept", "scan", "reply", "exited"}
  /\ readfds \subseteq Occupied /\ sd \in Slots
  /\ client_socket \in [Slots -> Clients \cup {NoClient}]
  /\ buffer \in [kind : {"none", "T", "digits"}, from : Clients \cup {Other}]
  /\ transactionCount \in Nat
  /\ client_completed_tasks \in [Clients \cup {Other} -> Nat]

\* Where the request of a client is: nowhere, unread, in the server's hands or
\* answered.
None(c) == req[c] = 0 /\ reply[c] = <<>> /\ ~Replying(c)
Unread(c) == req[c] = 1 /\ reply[c] = <<>> /\ ~Replying(c)
InHand(c) == req[c] = 0 /\ reply[c] = <<>> /\ Replying(c)
Answered(c) == req[c] = 0 /\ reply[c] # <<>> /\ ~Replying(c)

Account(c) ==
  /\ client[c] = "idle" => None(c) /\ sent[c] = 0 /\ got[c] = <<>>
  /\ client[c] = "waiting" => (Unread(c) \/ InHand(c) \/ Answered(c)) /\ sent[c] = Len(got[c]) + 1
  /\ client[c] \in {"connected", "done"} => None(c) /\ sent[c] = Len(got[c])
  /\ client[c] = "killed" => (None(c) \/ Unread(c) \/ InHand(c)) /\ (fin[c] \/ rst[c])
  /\ client[c] = "failed" => ~Running
  /\ req[c] <= sent[c]
  /\ fin[c] => client[c] \in {"done", "killed"}
  /\ rst[c] => client[c] = "killed" /\ None(c)

Accounts == \A c \in Clients : Account(c)

\* What the server has in hand.
Hands ==
  /\ server = "accept" => backlog # <<>>
  /\ server = "reply" => /\ client_socket[sd] \in Clients /\ transactionCount > 0
                         /\ buffer = Request(client_socket[sd])
  /\ server # "reply" => buffer.kind # "T" /\ buffer.from = Other

Inv == Types /\ Accounts /\ Hands /\ SummaryAgrees

\* The parts of the invariant, by name.
LEMMA InvParts == Inv => Types /\ Accounts /\ Hands /\ SummaryAgrees
  BY DEF Inv

\* A channel of replies is empty or holds one number.
LEMMA ReplyFacts ==
  ASSUME NEW r \in Replies
  PROVE  /\ r \in Seq(Nat)
         /\ r = <<>> => Len(r) = 0
         /\ r # <<>> => Len(r) = 1 /\ Head(r) \in Nat \ {0} /\ r = <<Head(r)>>
  <1>1. CASE r = <<>>
    BY <1>1
  <1>2. ASSUME NEW n \in Nat \ {0}, r = <<n>>
        PROVE  r \in Seq(Nat) /\ Len(r) = 1 /\ Head(r) = n
    BY <1>2
  <1> QED
    BY <1>1, <1>2 DEF Replies

\* With nobody connected the invariant holds.
LEMMA InitInv == Init => Inv
  <1> SUFFICES ASSUME Init PROVE Inv
    OBVIOUS
  <1>1. Types
    BY SizeAssumption, NameAssumption
    DEF Init, Types, Replies, Slots, Uninitialised
  <1>2. Accounts
    BY DEF Init, Accounts, Account, None, Replying
  <1>3. Hands
    BY DEF Init, Hands, Uninitialised
  <1>4. SummaryAgrees
    BY NameAssumption DEF Init, SummaryAgrees
  <1> QED
    BY <1>1, <1>2, <1>3, <1>4 DEF Inv

-----------------------------------------------------------------------------
(* The clients' steps.                                                      *)

\* A step of one client leaves the accounts of the others alone.
LEMMA OtherAccounts ==
  ASSUME Accounts, NEW c \in Clients, UNCHANGED serverVars,
         \A d \in Clients \ {c} :
           /\ client'[d] = client[d] /\ sent'[d] = sent[d] /\ got'[d] = got[d]
           /\ req'[d] = req[d] /\ reply'[d] = reply[d] /\ fin'[d] = fin[d] /\ rst'[d] = rst[d],
         Account(c)'
  PROVE  Accounts'
  BY DEF Accounts, Account, None, Unread, InHand, Answered, Replying, Running, serverVars

\* A client that connects has nothing under way.
LEMMA ConnectStep ==
  ASSUME Inv, NEW c \in Clients, Connect(c)
  PROVE  Inv'
  <1>1. Types /\ Accounts /\ Hands /\ SummaryAgrees
    BY InvParts
  <1>2. /\ client[c] = "idle" /\ UNCHANGED <<sent, got, tcp, serverVars>>
        /\ client' = [client EXCEPT ![c] = "connected"] \/ (client' = [client EXCEPT ![c] = "failed"] /\ ~Running)
        /\ backlog' = backlog \/ (backlog' = Append(backlog, c) /\ Len(backlog) < Backlog)
    BY DEF Connect
  <1>3. Types'
    <2>1. backlog' \in Seq(Clients) /\ Len(backlog') <= Backlog
      <3>1. backlog \in Seq(Clients) /\ Len(backlog) \in Nat /\ Len(backlog) <= Backlog
        BY <1>1 DEF Types
      <3>2. Append(backlog, c) \in Seq(Clients) /\ Len(Append(backlog, c)) = Len(backlog) + 1
        BY <3>1, Appended
      <3> QED
        BY <1>2, <3>1, <3>2, SizeAssumption
    <2> QED
      BY <1>1, <1>2, <2>1 DEF Types, tcp, serverVars, counts, Occupied
  <1>4. Account(c)'
    BY <1>1, <1>2 DEF Types, Accounts, Account, None, Replying, Running, tcp, serverVars, counts
  <1>5. Accounts'
    <2>1. \A d \in Clients \ {c} : client'[d] = client[d]
      BY <1>1, <1>2 DEF Types
    <2> QED
      BY <1>1, <1>2, <1>4, <2>1, OtherAccounts DEF tcp
  <1>6. Hands'
    BY <1>1, <1>2 DEF Hands, Types, tcp, serverVars, counts
  <1>7. SummaryAgrees'
    BY <1>1, <1>2 DEF SummaryAgrees, Types, tcp, serverVars, counts
  <1> QED
    BY <1>3, <1>5, <1>6, <1>7 DEF Inv

\* A request that is sent is unread, or lost with the server.
LEMMA SendRequestStep ==
  ASSUME Inv, NEW c \in Clients, SendRequest(c)
  PROVE  Inv'
  <1>1. Types /\ Accounts /\ Hands /\ SummaryAgrees
    BY InvParts
  <1>2. /\ client[c] = "connected" /\ sent[c] < MaxRequests
        /\ sent' = [sent EXCEPT ![c] = @ + 1]
        /\ UNCHANGED <<got, reply, fin, rst, backlog, serverVars>>
        /\ \/ client' = [client EXCEPT ![c] = "waiting"] /\ req' = [req EXCEPT ![c] = @ + 1]
           \/ client' = [client EXCEPT ![c] = "failed"] /\ req' = req /\ ~Running
    BY DEF SendRequest
  <1>3. Types'
    <2>1. sent' \in [Clients -> 0 .. MaxRequests] /\ req' \in [Clients -> Nat]
      <3>1. sent[c] \in 0 .. MaxRequests /\ req[c] \in Nat
        BY <1>1 DEF Types
      <3>2. sent[c] + 1 \in 0 .. MaxRequests /\ req[c] + 1 \in Nat
        BY <1>2, <3>1, SizeAssumption
      <3>3. req' = req \/ req' = [req EXCEPT ![c] = @ + 1]
        BY <1>2
      <3>4. sent \in [Clients -> 0 .. MaxRequests] /\ req \in [Clients -> Nat]
        BY <1>1 DEF Types
      <3> QED
        BY <1>2, <3>2, <3>3, <3>4
    <2> QED
      BY <1>1, <1>2, <2>1 DEF Types, serverVars, counts, Occupied
  <1>4. Account(c)'
    <2>1. None(c) /\ sent[c] = Len(got[c]) /\ ~fin[c] /\ ~rst[c]
      BY <1>1, <1>2 DEF Accounts, Account
    <2>2. sent[c] \in Nat /\ req[c] \in Nat
      BY <1>1, SizeAssumption DEF Types
    <2> QED
      BY <1>1, <1>2, <2>1, <2>2 DEF Types, Account, None, Unread, Replying, Running, serverVars, counts
  <1>5. Accounts'
    <2>1. \A d \in Clients \ {c} : client'[d] = client[d] /\ sent'[d] = sent[d] /\ req'[d] = req[d]
      BY <1>1, <1>2 DEF Types
    <2> QED
      BY <1>1, <1>2, <1>4, <2>1, OtherAccounts
  <1>6. Hands'
    BY <1>1, <1>2 DEF Hands, serverVars, counts
  <1>7. SummaryAgrees'
    <2> SUFFICES ASSUME NEW d \in Clients, client'[d] # "failed"
                 PROVE  client_completed_tasks'[d] + req'[d] = sent'[d]
      BY DEF SummaryAgrees
    <2>1. client_completed_tasks' = client_completed_tasks /\ client_completed_tasks[d] \in Nat
      BY <1>1, <1>2 DEF Types, serverVars, counts
    <2>2. CASE d = c
      <3>1. client' = [client EXCEPT ![c] = "waiting"] /\ req' = [req EXCEPT ![c] = @ + 1]
        BY <1>1, <1>2, <2>2 DEF Types
      <3>2. req'[c] = req[c] + 1 /\ sent'[c] = sent[c] + 1 /\ req[c] \in Nat /\ sent[c] \in Nat
        BY <1>1, <1>2, <3>1, SizeAssumption DEF Types
      <3>3. client_completed_tasks[c] + req[c] = sent[c]
        BY <1>1, <1>2 DEF SummaryAgrees
      <3> QED
        BY <2>1, <2>2, <3>2, <3>3
    <2>3. CASE d # c
      <3>1. client'[d] = client[d] /\ sent'[d] = sent[d] /\ req'[d] = req[d]
        BY <1>1, <1>2, <2>3 DEF Types
      <3> QED
        BY <1>1, <2>1, <3>1 DEF SummaryAgrees
    <2> QED
      BY <2>2, <2>3
  <1> QED
    BY <1>3, <1>5, <1>6, <1>7 DEF Inv

\* A client that gets its reply has nothing under way.
LEMMA ReceiveReplyStep ==
  ASSUME Inv, NEW c \in Clients, ReceiveReply(c)
  PROVE  Inv'
  <1>1. Types /\ Accounts /\ Hands /\ SummaryAgrees
    BY InvParts
  <1>2. /\ client[c] = "waiting" /\ reply[c] # <<>>
        /\ client' = [client EXCEPT ![c] = "connected"]
        /\ got' = [got EXCEPT ![c] = @ \o reply[c]]
        /\ reply' = [reply EXCEPT ![c] = <<>>]
        /\ UNCHANGED <<sent, req, fin, rst, backlog, serverVars>>
    BY DEF ReceiveReply
  <1>3. reply[c] \in Seq(Nat) /\ Len(reply[c]) = 1 /\ got[c] \in Seq(Nat)
    BY <1>1, <1>2, ReplyFacts DEF Types
  <1>4. got[c] \o reply[c] \in Seq(Nat) /\ Len(got[c] \o reply[c]) = Len(got[c]) + 1
    <2>1. PICK n \in Nat : reply[c] = <<n>>
      <3>1. reply[c] \in Replies
        BY <1>1 DEF Types
      <3> QED
        BY <1>2, <3>1 DEF Replies
    <2>2. got[c] \o reply[c] = Append(got[c], n)
      BY <1>3, <2>1, AppendIsConcat
    <2> QED
      BY <1>3, <2>2
  <1>5. Types'
    BY <1>1, <1>2, <1>4 DEF Types, serverVars, counts, Occupied, Replies
  <1>6. Account(c)'
    <2>1. Answered(c) /\ sent[c] = Len(got[c]) + 1 /\ ~fin[c] /\ ~rst[c] /\ req[c] <= sent[c]
      BY <1>1, <1>2 DEF Accounts, Account, Unread, InHand
    <2>2. client'[c] = "connected" /\ reply'[c] = <<>> /\ got'[c] = got[c] \o reply[c]
      BY <1>1, <1>2 DEF Types
    <2> QED
      BY <1>2, <1>4, <2>1, <2>2 DEF Account, None, Answered, Replying, serverVars
  <1>7. Accounts'
    <2>1. \A d \in Clients \ {c} : client'[d] = client[d] /\ got'[d] = got[d] /\ reply'[d] = reply[d]
      BY <1>1, <1>2 DEF Types
    <2> QED
      BY <1>1, <1>2, <1>6, <2>1, OtherAccounts
  <1>8. Hands'
    BY <1>1, <1>2 DEF Hands, serverVars, counts
  <1>9. SummaryAgrees'
    BY <1>1, <1>2 DEF SummaryAgrees, Types, serverVars, counts
  <1> QED
    BY <1>5, <1>7, <1>8, <1>9 DEF Inv

\* A client that fails, closes or is killed.
LEMMA LeaveStep ==
  ASSUME Inv, NEW c \in Clients, LoseServer(c) \/ CloseClient(c) \/ KillClient(c)
  PROVE  Inv'
  <1>1. Types /\ Accounts /\ Hands /\ SummaryAgrees
    BY InvParts
  <1>2. /\ client[c] \in {"connected", "waiting"}
        /\ UNCHANGED <<sent, got, req, backlog, serverVars>>
        /\ \/ /\ client[c] = "waiting" /\ ~Running /\ client' = [client EXCEPT ![c] = "failed"]
              /\ UNCHANGED <<reply, fin, rst>>
           \/ /\ client[c] = "connected" /\ client' = [client EXCEPT ![c] = "done"]
              /\ fin' = [fin EXCEPT ![c] = TRUE] /\ UNCHANGED <<reply, rst>>
           \/ /\ client' = [client EXCEPT ![c] = "killed"] /\ reply' = [reply EXCEPT ![c] = <<>>]
              /\ \/ reply[c] = <<>> /\ fin' = [fin EXCEPT ![c] = TRUE] /\ rst' = rst
                 \/ reply[c] # <<>> /\ rst' = [rst EXCEPT ![c] = TRUE] /\ fin' = fin
    BY DEF LoseServer, CloseClient, KillClient, tcp
  <1>3. Types'
    BY <1>1, <1>2 DEF Types, serverVars, counts, Occupied, Replies
  <1>4. Account(c)'
    BY <1>1, <1>2 DEF Types, Accounts, Account, None, Unread, InHand, Answered, Replying, Running, serverVars, counts
  <1>5. Accounts'
    <2>1. \A d \in Clients \ {c} :
            client'[d] = client[d] /\ reply'[d] = reply[d] /\ fin'[d] = fin[d] /\ rst'[d] = rst[d]
      BY <1>1, <1>2 DEF Types
    <2> QED
      BY <1>1, <1>2, <1>4, <2>1, OtherAccounts
  <1>6. Hands'
    BY <1>1, <1>2 DEF Hands, serverVars, counts
  <1>7. SummaryAgrees'
    BY <1>1, <1>2 DEF SummaryAgrees, Types, serverVars, counts
  <1> QED
    BY <1>3, <1>5, <1>6, <1>7 DEF Inv

-----------------------------------------------------------------------------
(* The server's steps.                                                      *)

\* A step of the server that neither reads nor replies.
LEMMA QuietServer ==
  ASSUME Inv, UNCHANGED <<clientVars, tcp, buffer, counts>>,
         server # "reply", server' # "reply",
         ~Running => ~Running',
         server' = "accept" => backlog' # <<>>,
         Types'
  PROVE  Inv'
  <1>1. Types /\ Accounts /\ Hands /\ SummaryAgrees
    BY InvParts
  <1>2. Accounts'
    BY <1>1 DEF Accounts, Account, None, Unread, InHand, Answered, Replying, clientVars, tcp
  <1>3. Hands'
    BY <1>1 DEF Hands
  <1>4. SummaryAgrees'
    BY <1>1 DEF SummaryAgrees, clientVars, tcp, counts
  <1> QED
    BY <1>2, <1>3, <1>4 DEF Inv

\* The server's steps around the reads and sends: requests stay where they are.
LEMMA QuietServerStep ==
  ASSUME Inv, Select \/ Timeout \/ Exit \/ Accept \/ EndScan \/ (\E s \in Slots : ReadEof(s))
  PROVE  Inv'
  <1>1. Types /\ Accounts /\ Hands /\ SummaryAgrees
    BY InvParts
  <1>2. CASE Select
    <2>1. /\ UNCHANGED <<clientVars, tcp, backlog, sd, client_socket, buffer, counts>>
          /\ server = "select" /\ readfds' = Readable
          /\ server' = IF backlog # <<>> THEN "accept" ELSE "scan"
      BY <1>2 DEF Select
    <2>2. Types'
      BY <1>1, <2>1 DEF Types, Readable, Occupied, clientVars, tcp, counts
    <2> QED
      BY <2>1, <2>2, QuietServer DEF Running
  <1>3. CASE Timeout \/ Exit
    <2>1. /\ UNCHANGED <<clientVars, tcp, backlog, readfds, sd, client_socket, buffer, counts>>
          /\ server \in {"select", "timed_out"} /\ server' \in {"timed_out", "exited"}
      BY <1>3 DEF Timeout, Exit
    <2>2. Types'
      BY <1>1, <2>1 DEF Types, Occupied, clientVars, tcp, counts
    <2> QED
      BY <2>1, <2>2, QuietServer DEF Running
  <1>4. CASE Accept
    <2>1. /\ UNCHANGED <<clientVars, tcp, readfds, sd, buffer, counts>>
          /\ server = "accept" /\ server' = "scan" /\ backlog' = Tail(backlog)
          /\ \/ client_socket' = client_socket
             \/ \E s \in Slots \ Occupied : client_socket' = [client_socket EXCEPT ![s] = Head(backlog)]
      BY <1>4 DEF Accept
    <2>2. backlog \in Seq(Clients) /\ backlog # <<>> /\ Len(backlog) <= Backlog
      BY <1>1, <2>1 DEF Types, Hands
    <2>3. Head(backlog) \in Clients /\ backlog' \in Seq(Clients) /\ Len(backlog') <= Backlog
      BY <2>1, <2>2, SizeAssumption
    <2>4. client_socket' \in [Slots -> Clients \cup {NoClient}]
      BY <1>1, <2>1, <2>3 DEF Types
    <2>5. readfds' \subseteq Occupied'
      BY <1>1, <2>1, <2>3, NameAssumption DEF Types, Occupied
    <2>6. Types'
      BY <1>1, <2>1, <2>3, <2>4, <2>5 DEF Types, clientVars, tcp, counts
    <2> QED
      BY <2>1, <2>6, QuietServer DEF Running
  <1>5. CASE EndScan
    <2>1. /\ UNCHANGED <<clientVars, tcp, backlog, readfds, sd, client_socket, buffer, counts>>
          /\ server = "scan" /\ server' = "select"
      BY <1>5 DEF EndScan
    <2>2. Types'
      BY <1>1, <2>1 DEF Types, Occupied, clientVars, tcp, counts
    <2> QED
      BY <2>1, <2>2, QuietServer DEF Running
  <1>6. ASSUME NEW s \in Slots, ReadEof(s) PROVE Inv'
    <2>1. /\ UNCHANGED <<clientVars, tcp, backlog, server, sd, buffer, counts>>
          /\ server = "scan" /\ readfds' = readfds \ {s}
          /\ client_socket' = [client_socket EXCEPT ![s] = NoClient]
      BY <1>6 DEF ReadEof, Visit
    <2>2. readfds' \subseteq Occupied'
      BY <1>1, <2>1 DEF Types, Occupied
    <2>3. Types'
      BY <1>1, <2>1, <2>2 DEF Types, clientVars, tcp, counts
    <2> QED
      BY <2>1, <2>3, QuietServer DEF Running
  <1> QED
    BY <1>2, <1>3, <1>4, <1>5, <1>6

\* What ReadRequest and ReadError do to the server.
LEMMA Processing ==
  ASSUME Inv, NEW s \in Slots, NEW msg \in [kind : {"none", "T", "digits"}, from : Clients \cup {Other}],
         Visit(s), Process(s, msg), client_socket' = client_socket, reply' = reply,
         req' \in [Clients -> Nat], fin' \in [Clients -> BOOLEAN], rst' \in [Clients -> BOOLEAN]
  PROVE  /\ Types' /\ client_socket[s] \in Clients /\ server = "scan"
         /\ server' = IF msg.kind = "T" THEN "reply" ELSE "scan"
         /\ sd' = s /\ buffer' = msg /\ transactionCount' > 0
         /\ client_completed_tasks'[msg.from] = client_completed_tasks[msg.from] + 1
         /\ \A k \in (Clients \cup {Other}) \ {msg.from} : client_completed_tasks'[k] = client_completed_tasks[k]
  <1>1. Types
    BY InvParts
  <1>2. client_socket[s] \in Clients /\ server = "scan"
    BY <1>1 DEF Types, Visit, Occupied
  <1>3. /\ transactionCount' \in Nat /\ transactionCount' > 0
        /\ client_completed_tasks' \in [Clients \cup {Other} -> Nat]
        /\ client_completed_tasks'[msg.from] = client_completed_tasks[msg.from] + 1
        /\ \A k \in (Clients \cup {Other}) \ {msg.from} : client_completed_tasks'[k] = client_completed_tasks[k]
    <2>1. transactionCount \in Nat /\ client_completed_tasks \in [Clients \cup {Other} -> Nat]
      BY <1>1 DEF Types
    <2>2. /\ transactionCount' = transactionCount + 1
          /\ client_completed_tasks' = [client_completed_tasks EXCEPT ![msg.from] = @ + 1]
      BY DEF Process
    <2> QED
      BY <2>1, <2>2
  <1>4. /\ buffer' = msg /\ sd' = s /\ server' = IF msg.kind = "T" THEN "reply" ELSE "scan"
        /\ readfds' \subseteq readfds /\ UNCHANGED <<clientVars, backlog>>
    BY DEF Process, Visit
  <1>5. Types'
    BY <1>1, <1>3, <1>4 DEF Types, Occupied, clientVars
  <1> QED
    BY <1>2, <1>3, <1>4, <1>5

\* A read brings the request into the server's hands.
LEMMA ReadRequestStep ==
  ASSUME Inv, NEW s \in Slots, ReadRequest(s)
  PROVE  Inv'
  <1>1. Types /\ Accounts /\ Hands /\ SummaryAgrees
    BY InvParts
  <1>2. PICK c \in Clients : c = client_socket[s]
    BY <1>1 DEF ReadRequest, Types, Visit, Occupied
  <1>3. /\ Visit(s) /\ Process(s, Request(c)) /\ req[c] > 0 /\ req' = [req EXCEPT ![c] = 0]
        /\ UNCHANGED <<reply, fin, rst, client_socket>> /\ UNCHANGED <<clientVars, backlog>>
    BY <1>2 DEF ReadRequest, Visit
  <1>4. /\ Request(c) \in [kind : {"none", "T", "digits"}, from : Clients \cup {Other}]
        /\ Request(c).kind = "T" /\ Request(c).from = c
    BY <1>2 DEF Request
  <1>5. /\ Types' /\ server = "scan" /\ server' = "reply" /\ sd' = s
        /\ buffer' = Request(c) /\ transactionCount' > 0
        /\ client_completed_tasks'[c] = client_completed_tasks[c] + 1
        /\ \A k \in (Clients \cup {Other}) \ {c} : client_completed_tasks'[k] = client_completed_tasks[k]
    <2>1. req' \in [Clients -> Nat] /\ fin' \in [Clients -> BOOLEAN] /\ rst' \in [Clients -> BOOLEAN]
      BY <1>1, <1>3 DEF Types
    <2> QED
      BY <1>3, <1>4, <2>1, Processing
  <1>6. req'[c] = 0 /\ \A d \in Clients \ {c} : req'[d] = req[d]
    BY <1>1, <1>3, <1>2 DEF Types
  <1>7. c = client_socket'[s]
    BY <1>3, <1>2
  <1>8. Running /\ Running' /\ \A d \in Clients : ~Replying(d) /\ (Replying(d)' <=> d = c)
    BY <1>5, <1>7 DEF Running, Replying
  <1>9. Unread(c) /\ ~rst[c]
    <2>1. Account(c) /\ req[c] > 0 /\ req[c] # 0
      BY <1>1, <1>3, <1>2 DEF Accounts, Types
    <2>2. client[c] \in {"idle", "connected", "waiting", "done", "killed", "failed"}
      BY <1>1, <1>2 DEF Types
    <2> QED
      BY <1>8, <2>1, <2>2 DEF Account, None, Answered, InHand
  <1>10. Accounts'
    <2>1. ASSUME NEW d \in Clients, d # c PROVE Account(d)'
      BY <1>1, <1>3, <1>6, <1>8, <2>1
      DEF Accounts, Account, None, Unread, InHand, Answered, clientVars
    <2>2. Account(c)'
      <3>1. Account(c) /\ sent[c] \in Nat /\ ~None(c)
        BY <1>1, <1>2, <1>9, SizeAssumption DEF Accounts, Types, None, Unread
      <3>2. InHand(c)' /\ ~rst'[c]
        BY <1>3, <1>6, <1>8, <1>9, <1>2 DEF InHand, Unread
      <3> QED
        BY <1>3, <1>6, <1>8, <1>9, <3>1, <3>2 DEF Account, Unread, None, clientVars
    <2> QED
      BY <2>1, <2>2 DEF Accounts
  <1>11. Hands'
    BY <1>2, <1>5, <1>7 DEF Hands
  <1>12. SummaryAgrees'
    <2>1. ASSUME NEW d \in Clients, client'[d] # "failed"
          PROVE  client_completed_tasks'[d] + req'[d] = sent'[d]
      <3>1. client_completed_tasks[d] + req[d] = sent[d] /\ sent'[d] = sent[d]
        BY <1>1, <1>3, <2>1 DEF SummaryAgrees, clientVars
      <3>2. client_completed_tasks[d] \in Nat /\ req[d] \in Nat
        BY <1>1 DEF Types
      <3> QED
        BY <1>5, <1>6, <1>9, <3>1, <3>2 DEF Unread
    <2> QED
      BY <2>1 DEF SummaryAgrees
  <1> QED
    BY <1>5, <1>10, <1>11, <1>12 DEF Inv

\* A reset that is read comes of a killed client without a request.
LEMMA ReadErrorStep ==
  ASSUME Inv, NEW s \in Slots, ReadError(s)
  PROVE  Inv'
  <1>1. Types /\ Accounts /\ Hands /\ SummaryAgrees
    BY InvParts
  <1>1a. PICK c \in Clients : c = client_socket[s]
    BY <1>1 DEF ReadError, Types, Visit, Occupied
  <1>2. /\ Visit(s) /\ Process(s, buffer) /\ req[c] = 0 /\ rst[c]
        /\ rst' = [rst EXCEPT ![c] = FALSE] /\ fin' = [fin EXCEPT ![c] = TRUE]
        /\ UNCHANGED <<req, reply, client_socket>> /\ UNCHANGED <<clientVars, backlog>>
    BY <1>1a DEF ReadError, Visit
  <1>3. buffer.kind # "T" /\ buffer.from = Other
    BY <1>1, <1>2 DEF Visit, Hands
  <1>4. /\ Types' /\ server = "scan" /\ server' = "scan" /\ buffer' = buffer
        /\ \A k \in Clients : client_completed_tasks'[k] = client_completed_tasks[k]
    <2>1. req' \in [Clients -> Nat] /\ fin' \in [Clients -> BOOLEAN] /\ rst' \in [Clients -> BOOLEAN]
      BY <1>1, <1>2 DEF Types
    <2>2. buffer \in [kind : {"none", "T", "digits"}, from : Clients \cup {Other}]
      BY <1>1 DEF Types
    <2> QED
      BY <1>2, <1>3, <2>1, <2>2, Processing, NameAssumption
  <1>5. /\ fin'[c] /\ ~rst'[c]
        /\ \A d \in Clients \ {c} : fin'[d] = fin[d] /\ rst'[d] = rst[d]
    BY <1>1, <1>2, <1>3 DEF Types
  <1>6. Running /\ Running' /\ \A d \in Clients : ~Replying(d) /\ ~Replying(d)'
    BY <1>4 DEF Running, Replying
  <1>7. Accounts'
    <2>1. ASSUME NEW d \in Clients, d # c PROVE Account(d)'
      BY <1>1, <1>2, <1>5, <1>6, <2>1
      DEF Accounts, Account, None, Unread, InHand, Answered, clientVars
    <2>2. Account(c)'
      <3>1. Account(c)
        BY <1>1 DEF Accounts
      <3> QED
        BY <1>2, <1>5, <1>6, <3>1 DEF Account, None, clientVars
    <2> QED
      BY <2>1, <2>2 DEF Accounts
  <1>8. Hands'
    BY <1>3, <1>4 DEF Hands
  <1>9. SummaryAgrees'
    BY <1>1, <1>2, <1>4 DEF SummaryAgrees, clientVars
  <1> QED
    BY <1>4, <1>7, <1>8, <1>9 DEF Inv

\* What a reply does: the client is waiting and gets the number, or has died.
LEMMA Reply ==
  ASSUME Inv, SendReply
  PROVE  \E c \in Clients :
           /\ server = "reply" /\ server' = "scan" /\ buffer' = Digits
           /\ c = client_socket[sd] /\ InHand(c) /\ ~rst[c] /\ transactionCount \in Nat \ {0}
           /\ UNCHANGED <<clientVars, req, fin, backlog, readfds, sd, client_socket, counts>>
           /\ \/ /\ client[c] = "killed" /\ fin[c] /\ reply' = reply
                 /\ rst' = [rst EXCEPT ![c] = TRUE] \/ rst' = rst
              \/ /\ client[c] = "waiting" /\ reply' = [reply EXCEPT ![c] = <<transactionCount>>]
                 /\ rst' = rst
  <1> DEFINE c == client_socket[sd]
  <1>1. Types /\ Accounts /\ Hands /\ SummaryAgrees
    BY InvParts
  <1>2. server = "reply" /\ buffer' = Digits
        /\ UNCHANGED <<clientVars, req, fin, backlog, readfds, sd, client_socket, counts>>
    BY DEF SendReply
  <1>3. c \in Clients /\ Replying(c) /\ Running /\ transactionCount \in Nat \ {0}
    BY <1>1, <1>2 DEF Hands, Replying, Running, Types
  <1>4. InHand(c) /\ ~rst[c] /\ (client[c] = "waiting" \/ (client[c] = "killed" /\ fin[c]))
    BY <1>1, <1>3 DEF Accounts, Account, None, Unread, Answered, Types
  <1>5. fin[c] => client[c] = "killed"
    BY <1>1, <1>3, <1>4 DEF Accounts, Account, None
  <1>6. Append(reply[c], transactionCount) = <<transactionCount>>
    BY <1>4 DEF InHand
  <1>7. /\ server' = "scan"
        /\ \/ /\ client[c] = "killed" /\ fin[c] /\ reply' = reply
              /\ rst' = [rst EXCEPT ![c] = TRUE] \/ rst' = rst
           \/ /\ client[c] = "waiting" /\ reply' = [reply EXCEPT ![c] = Append(@, transactionCount)]
              /\ rst' = rst
    BY <1>4, <1>5 DEF SendReply
  <1> QED
    BY <1>2, <1>3, <1>4, <1>6, <1>7

\* A send answers the request in the server's hands.
LEMMA SendReplyStep ==
  ASSUME Inv, SendReply
  PROVE  Inv'
  <1>1. Types /\ Accounts /\ Hands /\ SummaryAgrees
    BY InvParts
  <1>2. PICK c \in Clients :
           /\ server = "reply" /\ server' = "scan" /\ buffer' = Digits
           /\ c = client_socket[sd] /\ InHand(c) /\ ~rst[c] /\ transactionCount \in Nat \ {0}
           /\ UNCHANGED <<clientVars, req, fin, backlog, readfds, sd, client_socket, counts>>
           /\ \/ /\ client[c] = "killed" /\ fin[c] /\ reply' = reply
                 /\ rst' = [rst EXCEPT ![c] = TRUE] \/ rst' = rst
              \/ /\ client[c] = "waiting" /\ reply' = [reply EXCEPT ![c] = <<transactionCount>>]
                 /\ rst' = rst
    BY Reply
  <1>3. Types'
    <2>1. <<transactionCount>> \in Replies
      BY <1>2 DEF Replies
    <2>2. reply \in [Clients -> Replies] /\ rst \in [Clients -> BOOLEAN]
      BY <1>1 DEF Types
    <2>3. reply' \in [Clients -> Replies]
      BY <1>2, <2>1, <2>2
    <2>4. rst' \in [Clients -> BOOLEAN]
      BY <1>2, <2>2
    <2> QED
      BY <1>1, <1>2, <2>3, <2>4 DEF Types, Occupied, clientVars, counts, Digits
  <1>4. /\ \A d \in Clients \ {c} : reply'[d] = reply[d] /\ rst'[d] = rst[d]
        /\ client[c] = "waiting" => reply'[c] # <<>> /\ rst'[c] = rst[c]
        /\ client[c] = "killed" => reply'[c] = reply[c]
    <2>1. reply \in [Clients -> Replies] /\ rst \in [Clients -> BOOLEAN]
      BY <1>1 DEF Types
    <2>2. <<transactionCount>> # <<>>
      OBVIOUS
    <2>3. CASE reply' = reply /\ client[c] = "killed"
      BY <1>2, <2>1, <2>3
    <2>4. CASE rst' = rst /\ client[c] = "waiting" /\ reply' = [reply EXCEPT ![c] = <<transactionCount>>]
      BY <2>1, <2>2, <2>4
    <2> QED
      BY <1>2, <2>3, <2>4
  <1>5. Running /\ Running' /\ \A d \in Clients : ~Replying(d)' /\ (Replying(d) <=> d = c)
    BY <1>2 DEF Running, Replying
  <1>6. Accounts'
    <2>1. ASSUME NEW d \in Clients, d # c PROVE Account(d)'
      BY <1>1, <1>2, <1>4, <1>5, <2>1
      DEF Accounts, Account, None, Unread, InHand, Answered, clientVars
    <2>2. Account(c)'
      <3>1. Account(c)
        BY <1>1 DEF Accounts
      <3> QED
        BY <1>2, <1>4, <1>5, <3>1 DEF Account, None, Unread, InHand, Answered, clientVars
    <2> QED
      BY <2>1, <2>2 DEF Accounts
  <1>7. Hands'
    BY <1>2 DEF Hands, Digits
  <1>8. SummaryAgrees'
    BY <1>1, <1>2 DEF SummaryAgrees, clientVars, counts
  <1> QED
    BY <1>3, <1>6, <1>7, <1>8 DEF Inv

\* Every step keeps the invariant.
LEMMA StepInv == Inv /\ [Next]_vars => Inv'
  <1> SUFFICES ASSUME Inv, [Next]_vars PROVE Inv'
    OBVIOUS
  <1>1. CASE UNCHANGED vars
    BY <1>1 DEF vars, clientVars, tcp, serverVars, counts, Inv, Types, Accounts, Account, None, Unread,
                InHand, Answered, Replying, Running, Hands, SummaryAgrees, Occupied
  <1>2. CASE ServerStep
    BY <1>2, QuietServerStep, ReadRequestStep, ReadErrorStep, SendReplyStep DEF ServerStep
  <1>3. ASSUME NEW c \in Clients, ClientStep(c) PROVE Inv'
    BY <1>3, ConnectStep, SendRequestStep, ReceiveReplyStep, LeaveStep DEF ClientStep
  <1> QED
    BY <1>1, <1>2, <1>3 DEF Next, Quiet

\* Each request is where its client's state says, and the summary counts the
\* requests that were read (server.cpp:171-220, client.cpp:54-82).
THEOREM Invariance == Spec => []Inv
  BY InitInv, StepInv, PTL DEF Spec

-----------------------------------------------------------------------------
(* The theorems.                                                            *)

\* The variables have their types; the backlog never exceeds its limit.
THEOREM TypeCorrect == Spec => []TypeOK
  <1>1. ASSUME Inv PROVE TypeOK
    <2>1. Types /\ Accounts
      BY <1>1, InvParts
    <2>2. req \in [Clients -> 0 .. MaxRequests]
      BY <2>1, SizeAssumption DEF Types, Accounts, Account
    <2>3. \A c \in Clients : reply[c] \in Seq(Nat)
      BY <2>1, ReplyFacts DEF Types
    <2> QED
      BY <2>1, <2>2, <2>3 DEF Types, TypeOK, Occupied
  <1> QED
    BY <1>1, Invariance, PTL

\* A waiting client's request is in one place; no other client is owed anything
\* (server.cpp:171-220, client.cpp:54-82).
THEOREM NoneLost == Spec => []RequestAccounted
  <1>1. ASSUME Inv, NEW c \in Clients
        PROVE  LET pending == req[c] + Len(reply[c]) + (IF Replying(c) THEN 1 ELSE 0) IN
               /\ client[c] = "waiting" => pending = 1 /\ sent[c] = Len(got[c]) + 1
               /\ client[c] \in {"connected", "done"} => pending = 0 /\ sent[c] = Len(got[c])
    <2>1. Account(c) /\ reply[c] \in Replies
      BY <1>1, InvParts DEF Accounts, Types
    <2>2. Len(reply[c]) = IF reply[c] = <<>> THEN 0 ELSE 1
      BY <2>1, ReplyFacts
    <2> QED
      BY <2>1, <2>2 DEF Account, None, Unread, InHand, Answered
  <1>2. Inv => RequestAccounted
    BY <1>1 DEF RequestAccounted
  <1> QED
    BY <1>2, Invariance, PTL

\* The summary's line of a client says how many of its requests were read
\* (server.cpp:175, 193-198).
THEOREM SummaryRight == Spec => []SummaryAgrees
  <1>1. Inv => SummaryAgrees
    BY DEF Inv
  <1> QED
    BY <1>1, Invariance, PTL

\* The server never sends on a connection that is already reset
\* (server.cpp:211).
THEOREM NoAbort == Spec => []NeverAborts
  <1>1. Inv => NeverAborts
    BY DEF Inv, Types, NeverAborts
  <1> QED
    BY <1>1, Invariance, PTL

\* A connection leaves its slot only after its client has closed or died
\* (server.cpp:152-161, 182): accept fills a free slot, and an end of file is
\* read of nobody else.
THEOREM LiveKept == Spec => LiveKeepsSlot
  <1>1. ASSUME Inv, [Next]_vars, NEW c \in Clients, InSlot(c), ~InSlot(c)'
        PROVE  client[c] \in {"done", "killed"}
    <2>1. Types /\ Account(c) /\ c # NoClient
      BY <1>1, InvParts, NameAssumption DEF Accounts
    <2>2. PICK s \in Slots : client_socket[s] = c
      BY <1>1 DEF InSlot
    <2>3. client_socket'[s] # c
      BY <1>1, <2>2 DEF InSlot
    <2>4. CASE Accept
      <3>1. s \in Occupied
        BY <2>1, <2>2 DEF Occupied
      <3>2. \A t \in Slots \ Occupied : \A d : [client_socket EXCEPT ![t] = d][s] = c
        BY <2>1, <2>2, <3>1 DEF Types
      <3> QED
        BY <2>2, <2>3, <2>4, <3>2 DEF Accept
    <2>5. ASSUME NEW t \in Slots, ReadEof(t) PROVE client[c] \in {"done", "killed"}
      <3>1. t = s
        BY <2>1, <2>2, <2>3, <2>5 DEF ReadEof, Types
      <3>2. fin[c]
        BY <2>2, <2>5, <3>1 DEF ReadEof
      <3> QED
        BY <2>1, <3>2 DEF Account
    <2>6. CASE UNCHANGED client_socket
      BY <2>2, <2>3, <2>6
    <2>7. CASE \E t \in Slots : ReadRequest(t) \/ ReadError(t)
      BY <2>6, <2>7 DEF ReadRequest, ReadError
    <2>8. CASE Select \/ Timeout \/ Exit \/ SendReply \/ EndScan
      BY <2>6, <2>8 DEF Select, Timeout, Exit, SendReply, EndScan
    <2>9. CASE \E d \in Clients : ClientStep(d)
      <3>1. UNCHANGED serverVars
        BY <2>9 DEF ClientStep, Connect, SendRequest, ReceiveReply, LoseServer, CloseClient, KillClient
      <3> QED
        BY <2>6, <3>1 DEF serverVars
    <2>10. CASE UNCHANGED vars
      BY <2>6, <2>10 DEF vars, serverVars
    <2> QED
      BY <1>1, <2>4, <2>5, <2>7, <2>8, <2>9, <2>10 DEF Next, ServerStep, Quiet
  <1>2. Inv /\ [Next]_vars =>
          [\A c \in Clients : InSlot(c) /\ ~InSlot(c)' => client[c] \in {"done", "killed"}]_vars
    BY <1>1
  <1> QED
    BY <1>2, Invariance, PTL DEF Spec, LiveKeepsSlot

-----------------------------------------------------------------------------
(* Errors that are counted as transactions.                                 *)

\* The killed clients that can no longer cause one: no reset is left to read,
\* and none can come.
Settled == {c \in Clients : client[c] = "killed" /\ ~rst[c] /\ req[c] = 0 /\ ~Replying(c)}

PhantomInv == client_completed_tasks[Other] <= Cardinality(Settled)

\* The settled clients can be counted.
LEMMA SettledFacts ==
  ASSUME IsFiniteSet(Clients)
  PROVE  /\ IsFiniteSet(Settled) /\ Cardinality(Settled) \in Nat
         /\ Cardinality(Settled) <= Cardinality({c \in Clients : client[c] = "killed"})
         /\ Cardinality({c \in Clients : client[c] = "killed"}) \in Nat
         /\ IsFiniteSet(Settled') /\ Cardinality(Settled') \in Nat
  <1> DEFINE killed == {c \in Clients : client[c] = "killed"}
  <1>1. IsFiniteSet(killed)
    BY FS_Subset
  <1>2. Settled \in SUBSET killed
    BY DEF Settled
  <1>3. Settled' \in SUBSET Clients
    BY DEF Settled
  <1>4. IsFiniteSet(Settled) /\ Cardinality(Settled) <= Cardinality(killed) /\ IsFiniteSet(Settled')
    BY <1>1, <1>2, <1>3, FS_Subset
  <1> QED
    BY <1>1, <1>4, FS_CardinalityType

\* A killed client that is settled stays so.
LEMMA SettledGrows ==
  ASSUME Inv, [Next]_vars
  PROVE  Settled \subseteq Settled'
  <1>1. Types /\ Accounts /\ Hands
    BY InvParts
  <1> SUFFICES ASSUME NEW c \in Settled PROVE c \in Settled'
    OBVIOUS
  <1>2. c \in Clients /\ client[c] = "killed" /\ ~rst[c] /\ req[c] = 0 /\ ~Replying(c)
    BY DEF Settled
  <1>3. CASE UNCHANGED vars
    BY <1>2, <1>3 DEF vars, clientVars, tcp, serverVars, Settled, Replying
  <1>4. ASSUME NEW d \in Clients, ClientStep(d) PROVE c \in Settled'
    <2>1. d # c /\ UNCHANGED serverVars
      BY <1>2, <1>4 DEF ClientStep, Connect, SendRequest, ReceiveReply, LoseServer, CloseClient, KillClient
    <2>2. client'[c] = client[c] /\ rst'[c] = rst[c] /\ req'[c] = req[c]
      BY <1>1, <1>2, <1>4, <2>1
      DEF Types, ClientStep, Connect, SendRequest, ReceiveReply, LoseServer, CloseClient, KillClient, tcp
    <2> QED
      BY <1>2, <2>1, <2>2 DEF Settled, Replying, serverVars
  <1>5. CASE Select \/ Timeout \/ Exit \/ Accept \/ EndScan \/ (\E s \in Slots : ReadEof(s))
    <2>1. server' # "reply" /\ UNCHANGED <<clientVars, tcp>>
      BY <1>5 DEF Select, Timeout, Exit, Accept, EndScan, ReadEof, Visit
    <2> QED
      BY <1>2, <2>1 DEF Settled, Replying, clientVars, tcp
  <1>6. ASSUME NEW s \in Slots, ReadRequest(s) PROVE c \in Settled'
    <2>1. /\ req[client_socket[s]] > 0 /\ req' = [req EXCEPT ![client_socket[s]] = 0]
          /\ UNCHANGED <<client, rst, client_socket>> /\ sd' = s
      BY <1>6 DEF ReadRequest, Visit, Process, clientVars
    <2>2. client_socket[s] # c
      BY <1>2, <2>1
    <2> QED
      BY <1>1, <1>2, <2>1, <2>2 DEF Settled, Replying, Types
  <1>7. ASSUME NEW s \in Slots, ReadError(s) PROVE c \in Settled'
    <2>1. /\ server = "scan" /\ Process(s, buffer) /\ UNCHANGED <<client, req>>
          /\ rst' = [rst EXCEPT ![client_socket[s]] = FALSE]
      BY <1>7 DEF ReadError, Visit, clientVars
    <2>2. server' # "reply"
      BY <1>1, <2>1 DEF Hands, Process
    <2> QED
      BY <1>1, <1>2, <2>1, <2>2 DEF Settled, Replying, Types
  <1>8. CASE SendReply
    <2>1. PICK d \in Clients : /\ server = "reply" /\ server' = "scan" /\ d = client_socket[sd]
                               /\ UNCHANGED <<clientVars, req>>
                               /\ rst' = [rst EXCEPT ![d] = TRUE] \/ rst' = rst
      BY <1>8, Reply
    <2>2. d # c
      BY <1>2, <2>1 DEF Replying
    <2> QED
      BY <1>1, <1>2, <2>1, <2>2 DEF Settled, Replying, Types, clientVars
  <1> QED
    BY <1>3, <1>4, <1>5, <1>6, <1>7, <1>8 DEF Next, Quiet, ServerStep

\* An error that is counted settles one more client.
LEMMA PhantomStep ==
  ASSUME IsFiniteSet(Clients)
  PROVE  Inv /\ PhantomInv /\ [Next]_vars => PhantomInv'
  <1> SUFFICES ASSUME Inv, PhantomInv, [Next]_vars PROVE PhantomInv'
    OBVIOUS
  <1> DEFINE tasks == client_completed_tasks[Other]
  <1>1. Types /\ Accounts /\ Hands
    BY InvParts
  <1>2. IsFiniteSet(Settled) /\ Cardinality(Settled) \in Nat /\ IsFiniteSet(Settled') /\ Cardinality(Settled') \in Nat
    BY SettledFacts
  <1>3. Settled \subseteq Settled'
    BY SettledGrows
  <1>4. Cardinality(Settled) <= Cardinality(Settled')
    BY <1>2, <1>3, FS_Subset
  <1>5. tasks \in Nat
    BY <1>1 DEF Types
  <1>6. CASE tasks' = tasks
    BY <1>2, <1>4, <1>5, <1>6 DEF PhantomInv
  <1>7. ASSUME NEW s \in Slots, ReadRequest(s) PROVE tasks' = tasks
    BY <1>1, <1>7, NameAssumption DEF ReadRequest, Visit, Process, Request, Types, Occupied
  <1>8. ASSUME NEW s \in Slots, ReadError(s) PROVE PhantomInv'
    <2> DEFINE c == client_socket[s]
    <2>1. /\ c \in Clients /\ server = "scan" /\ Process(s, buffer) /\ req[c] = 0 /\ rst[c]
          /\ rst' = [rst EXCEPT ![c] = FALSE] /\ UNCHANGED <<client, req>>
      BY <1>1, <1>8 DEF ReadError, Visit, Types, Occupied, clientVars
    <2>2. server' # "reply" /\ buffer.from = Other
      BY <1>1, <2>1 DEF Hands, Process
    <2>3. client[c] = "killed"
      BY <1>1, <2>1 DEF Accounts, Account
    <2> HIDE DEF c
    <2>4. c \notin Settled
      BY <2>1 DEF Settled
    <2>5. c \in Settled'
      BY <1>1, <2>1, <2>2, <2>3 DEF Settled, Replying, Types
    <2>6. IsFiniteSet(Settled \cup {c}) /\ Cardinality(Settled \cup {c}) = Cardinality(Settled) + 1
      BY <1>2, <2>4, FS_AddElement
    <2>7. Settled \cup {c} \in SUBSET Settled'
      BY <1>3, <2>5
    <2>8. Cardinality(Settled) + 1 <= Cardinality(Settled')
      BY <1>2, <2>6, <2>7, FS_Subset
    <2>9. tasks' = tasks + 1
      BY <1>1, <2>1, <2>2 DEF Process, Types
    <2> QED
      BY <1>2, <1>5, <2>8, <2>9 DEF PhantomInv
  <1>9. CASE UNCHANGED client_completed_tasks
    BY <1>6, <1>9
  <1>10. \/ UNCHANGED client_completed_tasks
         \/ \E s \in Slots : ReadRequest(s) \/ ReadError(s)
    <2>1. ASSUME NEW c \in Clients, ClientStep(c) PROVE UNCHANGED client_completed_tasks
      BY <2>1 DEF ClientStep, Connect, SendRequest, ReceiveReply, LoseServer, CloseClient, KillClient,
                  serverVars, counts
    <2>2. CASE Select \/ Timeout \/ Exit \/ Accept \/ EndScan \/ SendReply \/ (\E s \in Slots : ReadEof(s))
      BY <2>2 DEF Select, Timeout, Exit, Accept, EndScan, SendReply, ReadEof, counts
    <2> QED
      BY <2>1, <2>2 DEF Next, Quiet, ServerStep, vars, serverVars, counts
  <1> QED
    BY <1>6, <1>7, <1>8, <1>9, <1>10

\* The errors counted as transactions are at most one for each killed client
\* (server.cpp:175, 185).
THEOREM PhantomsBounded ==
  ASSUME IsFiniteSet(Clients)
  PROVE  Spec => []PhantomBound
  <1>1. Init => PhantomInv
    <2>1. Init => client_completed_tasks[Other] = 0
      BY DEF Init
    <2> QED
      BY <2>1, SettledFacts DEF PhantomInv
  <1>2. Inv /\ PhantomInv /\ [Next]_vars => PhantomInv'
    BY PhantomStep
  <1>3. Inv /\ PhantomInv => PhantomBound
    <2>1. Inv => client_completed_tasks[Other] \in Nat
      BY DEF Inv, Types
    <2> QED
      BY <2>1, SettledFacts DEF PhantomInv, PhantomBound
  <1> QED
    BY <1>1, <1>2, <1>3, Invariance, PTL DEF Spec

-----------------------------------------------------------------------------
(* The server implements the ticket service.                                *)

TicketType ==
  /\ Given \in Nat /\ OnItsWay \in [Clients -> Nat] /\ got \in [Clients -> Seq(Nat)]
  /\ \A c \in Clients : reply[c] # <<>> => reply[c] = <<OnItsWay[c]>> /\ OnItsWay[c] # 0
  /\ \A c \in Clients : reply[c] = <<>> => OnItsWay[c] = 0

\* The types of what the ticket service sees.
LEMMA TicketTypes == Inv => TicketType
  <1> SUFFICES ASSUME Inv
               PROVE  /\ Given \in Nat /\ got \in [Clients -> Seq(Nat)]
                      /\ \A c \in Clients :
                           /\ OnItsWay[c] \in Nat
                           /\ reply[c] # <<>> => reply[c] = <<OnItsWay[c]>> /\ OnItsWay[c] # 0
                           /\ reply[c] = <<>> => OnItsWay[c] = 0
    BY DEF OnItsWay, TicketType
  <1>1. Types /\ Hands
    BY InvParts
  <1>2. Given \in Nat
    BY <1>1 DEF Given, Types, Hands
  <1>3. ASSUME NEW c \in Clients
        PROVE  /\ OnItsWay[c] \in Nat
               /\ reply[c] # <<>> => reply[c] = <<OnItsWay[c]>> /\ OnItsWay[c] # 0
               /\ reply[c] = <<>> => OnItsWay[c] = 0
    <2>1. reply[c] \in Replies /\ OnItsWay[c] = IF reply[c] = <<>> THEN 0 ELSE Head(reply[c])
      BY <1>1 DEF Types, OnItsWay
    <2> QED
      BY <2>1, ReplyFacts
  <1> QED
    BY <1>1, <1>2, <1>3 DEF Types

\* Nobody has asked: an initial state of the service.
LEMMA InitTickets == Init => Tickets!Init
  BY DEF Init, Tickets!Init, Standing, Given, OnItsWay, Running

\* A step that changes nothing that the service's users see.
LEMMA Unseen ==
  ASSUME UNCHANGED <<client, reply, got>>, Given' = Given, Running' = Running
  PROVE  UNCHANGED (Tickets!vars)
  BY DEF Standing, OnItsWay, Tickets!vars

\* A step of one client, seen from the service.
LEMMA SeenStep ==
  ASSUME Inv, NEW c \in Clients, UNCHANGED serverVars,
         \A d \in Clients \ {c} : client'[d] = client[d] /\ reply'[d] = reply[d]
  PROVE  /\ Given' = Given /\ Running' = Running
         /\ Standing' = [Standing EXCEPT ![c] = Standing'[c]]
         /\ OnItsWay' = [OnItsWay EXCEPT ![c] = OnItsWay'[c]]
  BY DEF Given, Running, Standing, OnItsWay, serverVars, counts

\* A client's step is a step of a customer, or none.
LEMMA ClientRefines ==
  ASSUME Inv, Inv', NEW c \in Clients, ClientStep(c)
  PROVE  [Tickets!Next]_(Tickets!vars)
  <1>1. Types /\ Account(c)
    BY InvParts DEF Accounts
  <1>2. /\ Given' = Given /\ Running' = Running
        /\ Standing' = [Standing EXCEPT ![c] = Standing'[c]]
        /\ OnItsWay' = [OnItsWay EXCEPT ![c] = OnItsWay'[c]]
    <2>1. UNCHANGED serverVars
      BY DEF ClientStep, Connect, SendRequest, ReceiveReply, LoseServer, CloseClient, KillClient
    <2>2. \A d \in Clients \ {c} : client'[d] = client[d] /\ reply'[d] = reply[d]
      BY <1>1 DEF Types, ClientStep, Connect, SendRequest, ReceiveReply, LoseServer, CloseClient,
                  KillClient, tcp
    <2> QED
      BY <2>1, <2>2, SeenStep
  <1>3. /\ Standing[c] = CASE client[c] \in {"idle", "connected"} -> "ready"
                          [] client[c] = "waiting" -> "asked"
                          [] OTHER -> "gone"
        /\ Standing'[c] = CASE client'[c] \in {"idle", "connected"} -> "ready"
                           [] client'[c] = "waiting" -> "asked"
                           [] OTHER -> "gone"
        /\ Standing \in [Clients -> {"ready", "asked", "gone"}]
    BY DEF Standing
  <1>4. /\ reply[c] = <<>> => OnItsWay[c] = 0
        /\ reply'[c] = <<>> => OnItsWay'[c] = 0
        /\ reply[c] # <<>> => reply[c] = <<OnItsWay[c]>> /\ OnItsWay[c] # 0
        /\ OnItsWay \in [Clients -> Nat] /\ got \in [Clients -> Seq(Nat)]
    <2>1. reply'[c] = <<>> => OnItsWay'[c] = 0
      BY DEF OnItsWay
    <2> QED
      BY <2>1, TicketTypes DEF TicketType
  <1>5. CASE Connect(c) /\ Running
    <2>1. client[c] = "idle" /\ client' = [client EXCEPT ![c] = "connected"] /\ UNCHANGED <<got, reply>>
      BY <1>5 DEF Connect, tcp
    <2>2. Standing' = Standing
      BY <1>1, <1>2, <1>3, <2>1 DEF Types
    <2>3. OnItsWay' = OnItsWay
      BY <2>1 DEF OnItsWay
    <2> QED
      BY <1>2, <2>1, <2>2, <2>3 DEF Tickets!vars
  <1>6. CASE SendRequest(c) /\ Running
    <2>1. client[c] = "connected" /\ client' = [client EXCEPT ![c] = "waiting"] /\ UNCHANGED <<got, reply>>
      BY <1>6 DEF SendRequest
    <2>2. Standing[c] = "ready" /\ Standing'[c] = "asked"
      BY <1>1, <1>3, <2>1 DEF Types
    <2>3. OnItsWay' = OnItsWay
      BY <2>1 DEF OnItsWay
    <2>4. Tickets!Ask(c)
      BY <1>2, <1>6, <2>1, <2>2, <2>3 DEF Tickets!Ask
    <2> QED
      BY <2>4 DEF Tickets!Next
  <1>7. CASE ReceiveReply(c)
    <2>1. /\ client[c] = "waiting" /\ client' = [client EXCEPT ![c] = "connected"] /\ reply[c] # <<>>
          /\ reply' = [reply EXCEPT ![c] = <<>>] /\ got' = [got EXCEPT ![c] = @ \o reply[c]]
      BY <1>7 DEF ReceiveReply
    <2>2. Standing[c] = "asked" /\ Standing'[c] = "ready"
      BY <1>1, <1>3, <2>1 DEF Types
    <2>3. got' = [got EXCEPT ![c] = Append(@, OnItsWay[c])]
      <3>1. got[c] \o reply[c] = Append(got[c], OnItsWay[c])
        <4>1. got[c] \in Seq(Nat) /\ OnItsWay[c] \in Nat /\ reply[c] = <<OnItsWay[c]>>
          BY <1>4, <2>1
        <4>2. Append(got[c], OnItsWay[c]) = got[c] \o <<OnItsWay[c]>>
          BY <4>1, AppendIsConcat
        <4> QED
          BY <4>1, <4>2
      <3> QED
        BY <2>1, <3>1
    <2>4. OnItsWay'[c] = 0 /\ OnItsWay[c] # 0
      BY <1>1, <1>4, <2>1 DEF Types
    <2>5. Tickets!Receive(c)
      BY <1>2, <2>2, <2>3, <2>4 DEF Tickets!Receive
    <2> QED
      BY <2>5 DEF Tickets!Next
  <1>8. CASE \/ (Connect(c) /\ ~Running) \/ (SendRequest(c) /\ ~Running)
             \/ LoseServer(c) \/ CloseClient(c) \/ KillClient(c)
    <2>1. /\ client[c] \in {"idle", "connected", "waiting"} /\ got' = got
          /\ client'[c] \in {"failed", "done", "killed"}
      BY <1>1, <1>8 DEF Types, Connect, SendRequest, LoseServer, CloseClient, KillClient
    <2>2. reply'[c] = <<>>
      BY <1>1, <1>8 DEF Types, Account, None, Connect, SendRequest, LoseServer, CloseClient, KillClient, tcp
    <2>3. Standing[c] # "gone" /\ Standing'[c] = "gone" /\ OnItsWay'[c] = 0
      BY <1>3, <1>4, <2>1, <2>2
    <2>4. Tickets!Leave(c)
      BY <1>2, <2>1, <2>3 DEF Tickets!Leave
    <2> QED
      BY <2>4 DEF Tickets!Next
  <1> QED
    BY <1>5, <1>6, <1>7, <1>8 DEF ClientStep

\* A reply is the issue of a ticket, a counted error a number skipped.
LEMMA ServerRefines ==
  ASSUME Inv, ServerStep
  PROVE  [Tickets!Next]_(Tickets!vars)
  <1>1. Types /\ Hands
    BY InvParts
  <1>2. CASE Select \/ Timeout \/ Accept \/ EndScan \/ (\E s \in Slots : ReadEof(s))
    <2>1. /\ UNCHANGED <<client, reply, got, transactionCount>>
          /\ server \notin {"reply", "exited", "aborted"} /\ server' \notin {"reply", "exited", "aborted"}
      BY <1>1, <1>2 DEF Select, Timeout, Accept, EndScan, ReadEof, Visit, clientVars, tcp, counts
    <2> QED
      BY <2>1, Unseen DEF Given, Running
  <1>3. CASE Exit
    <2>1. /\ UNCHANGED <<client, reply, got, transactionCount>>
          /\ server = "timed_out" /\ server' = "exited"
      BY <1>3 DEF Exit, clientVars, tcp, counts
    <2>2. Tickets!Close
      BY <2>1 DEF Tickets!Close, Given, Running, Standing, OnItsWay
    <2> QED
      BY <2>2 DEF Tickets!Next
  <1>4. ASSUME NEW s \in Slots, ReadRequest(s) PROVE UNCHANGED (Tickets!vars)
    <2>1. /\ UNCHANGED <<client, reply, got>> /\ transactionCount' = transactionCount + 1
          /\ server = "scan" /\ server' = "reply"
      BY <1>4 DEF ReadRequest, Visit, Process, Request, clientVars
    <2> QED
      BY <1>1, <2>1, Unseen DEF Given, Running, Types
  <1>5. ASSUME NEW s \in Slots, ReadError(s) PROVE Tickets!Skip
    <2>1. /\ UNCHANGED <<client, reply, got>> /\ transactionCount' = transactionCount + 1
          /\ server = "scan" /\ server' = "scan"
      BY <1>1, <1>5 DEF ReadError, Visit, Process, Hands, clientVars
    <2> QED
      BY <2>1 DEF Tickets!Skip, Given, Running, Standing, OnItsWay
  <1>6. CASE SendReply
    <2>1. PICK c \in Clients :
            /\ server = "reply" /\ server' = "scan" /\ InHand(c) /\ transactionCount \in Nat \ {0}
            /\ UNCHANGED <<client, got, transactionCount>>
            /\ \/ reply' = reply
               \/ client[c] = "waiting" /\ reply' = [reply EXCEPT ![c] = <<transactionCount>>]
      BY <1>6, Reply DEF clientVars, counts
    <2>2. Given' = Given + 1 /\ Running /\ Running' /\ Standing' = Standing
      BY <2>1 DEF Given, Running, Standing
    <2>3. CASE reply' = reply
      <3>1. Tickets!Skip
        BY <2>1, <2>2, <2>3 DEF Tickets!Skip, OnItsWay
      <3> QED
        BY <3>1 DEF Tickets!Next
    <2>4. CASE client[c] = "waiting" /\ reply' = [reply EXCEPT ![c] = <<transactionCount>>]
      <3>1. Standing[c] = "asked"
        BY <2>4 DEF Standing
      <3>2. OnItsWay[c] = 0
        BY <2>1 DEF OnItsWay, InHand
      <3>3. Given + 1 = transactionCount
        BY <2>1 DEF Given
      <3>4. /\ \A d \in Clients \ {c} : reply'[d] = reply[d]
            /\ reply'[c] = <<transactionCount>> /\ reply'[c] # <<>> /\ Head(reply'[c]) = transactionCount
        <4>1. <<transactionCount>> # <<>> /\ Head(<<transactionCount>>) = transactionCount
          OBVIOUS
        <4> QED
          BY <1>1, <2>4, <4>1 DEF Types
      <3>5. OnItsWay' = [OnItsWay EXCEPT ![c] = Given + 1]
        BY <3>3, <3>4 DEF OnItsWay
      <3>6. Tickets!Issue(c)
        BY <2>1, <2>2, <3>1, <3>2, <3>5 DEF Tickets!Issue
      <3> QED
        BY <3>6 DEF Tickets!Next
    <2> QED
      BY <2>1, <2>3, <2>4
  <1> QED
    BY <1>2, <1>3, <1>4, <1>5, <1>6 DEF ServerStep, Tickets!Next

\* Every step is one of the service, or none.
LEMMA StepTickets ==
  ASSUME Inv, Inv', [Next]_vars
  PROVE  [Tickets!Next]_(Tickets!vars)
  <1>1. CASE UNCHANGED vars
    BY <1>1, Unseen DEF vars, clientVars, tcp, serverVars, counts, Given, Running
  <1> QED
    BY <1>1, ClientRefines, ServerRefines DEF Next, Quiet

\* The server and its clients are the abstract ticket service
\* (server.cpp:171-220, client.cpp:54-82).
THEOREM Refinement == Spec => ImplementsTickets
  <1>1. Inv /\ Inv' /\ [Next]_vars => [Tickets!Next]_(Tickets!vars)
    BY StepTickets
  <1> QED
    BY <1>1, InitTickets, Invariance, PTL DEF Spec, ImplementsTickets, Tickets!Spec

-----------------------------------------------------------------------------
(* What follows for the numbers.                                            *)

\* A number on its way is greater than those its client has.
Growing == \A c \in Clients : \A i \in DOMAIN got[c] : OnItsWay[c] # 0 => got[c][i] < OnItsWay[c]

FreshInv == Tickets!Fresh /\ Growing

\* The service gives no number twice.
LEMMA FreshStep ==
  ASSUME Inv, Inv', FreshInv, [Tickets!Next]_(Tickets!vars)
  PROVE  FreshInv'
  <1>1. /\ Given \in Nat /\ OnItsWay \in [Clients -> Nat] /\ got \in [Clients -> Seq(Nat)]
        /\ Given' \in Nat /\ OnItsWay' \in [Clients -> Nat] /\ got' \in [Clients -> Seq(Nat)]
    <2>1. TicketType /\ TicketType'
      BY TicketTypes, PTL
    <2> QED
      BY <2>1 DEF TicketType
  <1>2. /\ \A c \in Clients : \A i, j \in DOMAIN got[c] : i < j => got[c][i] < got[c][j]
        /\ \A c \in Clients : \A i \in DOMAIN got[c] :
             /\ got[c][i] \in Nat /\ got[c][i] <= Given
             /\ OnItsWay[c] # 0 => got[c][i] < OnItsWay[c]
        /\ \A c \in Clients : OnItsWay[c] <= Given
        /\ \A c, d \in Clients : c # d => Tickets!Numbers(c) \cap Tickets!Numbers(d) = {}
    <2>1. /\ \A c \in Clients : \A i, j \in DOMAIN got[c] : i < j => got[c][i] < got[c][j]
          /\ \A c \in Clients : \A n \in Tickets!Numbers(c) : n <= Given
          /\ \A c, d \in Clients : c # d => Tickets!Numbers(c) \cap Tickets!Numbers(d) = {}
          /\ \A c \in Clients : \A i \in DOMAIN got[c] : OnItsWay[c] # 0 => got[c][i] < OnItsWay[c]
      BY DEF FreshInv, Growing, Tickets!Fresh
    <2>2. \A c \in Clients : \A i \in DOMAIN got[c] : got[c][i] \in Nat /\ got[c][i] \in Tickets!Numbers(c)
      BY <1>1 DEF Tickets!Numbers
    <2>3. \A c \in Clients : OnItsWay[c] = 0 \/ OnItsWay[c] \in Tickets!Numbers(c)
      BY DEF Tickets!Numbers
    <2>4. \A c \in Clients : OnItsWay[c] <= Given
      BY <1>1, <2>1, <2>3
    <2> QED
      BY <2>1, <2>2, <2>4
  <1>2a. \A c \in Clients : \A n \in Tickets!Numbers(c) : n \in Nat /\ n <= Given
    <2> SUFFICES ASSUME NEW c \in Clients, NEW n \in Tickets!Numbers(c) PROVE n \in Nat /\ n <= Given
      OBVIOUS
    <2>1. (\E i \in DOMAIN got[c] : n = got[c][i]) \/ n = OnItsWay[c]
      BY DEF Tickets!Numbers
    <2> QED
      BY <1>1, <1>2, <2>1
  <1>3. ASSUME NEW c \in Clients, Tickets!Issue(c) PROVE FreshInv'
    <2>1. /\ Given' = Given + 1 /\ got' = got /\ OnItsWay[c] = 0 /\ OnItsWay'[c] = Given + 1
          /\ \A d \in Clients \ {c} : OnItsWay'[d] = OnItsWay[d]
      BY <1>1, <1>3 DEF Tickets!Issue
    <2>2. \A d \in Clients : \A n \in Tickets!Numbers(d)' :
            n \in Tickets!Numbers(d) \/ (d = c /\ n = Given + 1)
      BY <2>1 DEF Tickets!Numbers
    <2>3. \A d \in Clients : \A n \in Tickets!Numbers(d) : n # Given + 1 /\ n <= Given + 1
      BY <1>1, <1>2a
    <2>4. \A d, e \in Clients : d # e => Tickets!Numbers(d)' \cap Tickets!Numbers(e)' = {}
      <3> SUFFICES ASSUME NEW d \in Clients, NEW e \in Clients, d # e,
                          NEW n \in Tickets!Numbers(d)', n \in Tickets!Numbers(e)'
                   PROVE  FALSE
        OBVIOUS
      <3>1. /\ n \in Tickets!Numbers(d) \/ (d = c /\ n = Given + 1)
            /\ n \in Tickets!Numbers(e) \/ (e = c /\ n = Given + 1)
        BY <2>2
      <3> QED
        BY <1>2, <2>3, <3>1
    <2>5. \A d \in Clients : \A n \in Tickets!Numbers(d)' : n <= Given'
      BY <1>1, <2>1, <2>2, <2>3
    <2>6. Growing'
      <3>1. ASSUME NEW d \in Clients, NEW i \in DOMAIN got'[d], OnItsWay'[d] # 0
            PROVE  got'[d][i] < OnItsWay'[d]
        <4>1. CASE d = c
          BY <1>1, <1>2, <2>1, <3>1, <4>1
        <4>2. CASE d # c
          BY <1>2, <2>1, <3>1, <4>2
        <4> QED
          BY <4>1, <4>2
      <3> QED
        BY <3>1 DEF Growing
    <2> QED
      BY <1>2, <2>1, <2>4, <2>5, <2>6 DEF FreshInv, Tickets!Fresh
  <1>4. ASSUME NEW c \in Clients, Tickets!Receive(c) PROVE FreshInv'
    <2>1. /\ Given' = Given /\ OnItsWay[c] # 0 /\ OnItsWay'[c] = 0
          /\ got'[c] = Append(got[c], OnItsWay[c])
          /\ \A d \in Clients \ {c} : OnItsWay'[d] = OnItsWay[d] /\ got'[d] = got[d]
      BY <1>1, <1>4 DEF Tickets!Receive
    <2>2. /\ DOMAIN got[c] = 1 .. Len(got[c]) /\ DOMAIN got'[c] = 1 .. Len(got[c]) + 1 /\ Len(got[c]) \in Nat
          /\ \A k \in DOMAIN got[c] : got'[c][k] = got[c][k]
          /\ got'[c][Len(got[c]) + 1] = OnItsWay[c]
      <3>1. got[c] \in Seq(Nat) /\ OnItsWay[c] \in Nat
        BY <1>1
      <3> QED
        BY <2>1, <3>1
    <2>3. \A i \in DOMAIN got'[c] : i \in DOMAIN got[c] \/ (i = Len(got[c]) + 1 /\ got'[c][i] = OnItsWay[c])
      BY <2>2
    <2>4. \A d \in Clients : \A n \in Tickets!Numbers(d)' : n \in Tickets!Numbers(d)
      BY <2>1, <2>2, <2>3 DEF Tickets!Numbers
    <2>5. \A d, e \in Clients : d # e => Tickets!Numbers(d)' \cap Tickets!Numbers(e)' = {}
      BY <1>2, <2>4
    <2>6. \A d \in Clients : \A n \in Tickets!Numbers(d)' : n <= Given'
      BY <1>2a, <2>1, <2>4
    <2>7. ASSUME NEW d \in Clients, NEW i \in DOMAIN got'[d], NEW j \in DOMAIN got'[d], i < j
          PROVE  got'[d][i] < got'[d][j]
      BY <1>2, <2>1, <2>2, <2>3, <2>7
    <2>8. Growing'
      BY <1>2, <2>1 DEF Growing
    <2> QED
      BY <2>5, <2>6, <2>7, <2>8 DEF FreshInv, Tickets!Fresh
  <1>5. ASSUME got' = got, Given' >= Given,
               \A c \in Clients : OnItsWay'[c] \in {OnItsWay[c], 0}
        PROVE  FreshInv'
    <2>1. \A d \in Clients : \A n \in Tickets!Numbers(d)' : n \in Tickets!Numbers(d)
      BY <1>5 DEF Tickets!Numbers
    <2>2. \A d, e \in Clients : d # e => Tickets!Numbers(d)' \cap Tickets!Numbers(e)' = {}
      BY <1>2, <2>1
    <2>3. \A d \in Clients : \A n \in Tickets!Numbers(d)' : n \in Nat /\ n <= Given
      BY <1>2a, <2>1
    <2>4. \A d \in Clients : \A n \in Tickets!Numbers(d)' : n <= Given'
      BY <1>1, <1>5, <2>3
    <2>5. Growing'
      BY <1>2, <1>5 DEF Growing
    <2> QED
      BY <1>2, <1>5, <2>2, <2>4, <2>5 DEF FreshInv, Tickets!Fresh
  <1>6. ASSUME NEW c \in Clients, Tickets!Ask(c) \/ Tickets!Leave(c) PROVE FreshInv'
    BY <1>1, <1>5, <1>6 DEF Tickets!Ask, Tickets!Leave
  <1>7. CASE Tickets!Skip \/ Tickets!Close
    BY <1>1, <1>5, <1>7 DEF Tickets!Skip, Tickets!Close
  <1>8. CASE UNCHANGED (Tickets!vars)
    BY <1>1, <1>5, <1>8 DEF Tickets!vars
  <1> QED
    BY <1>3, <1>4, <1>7, <1>8, <1>6 DEF Tickets!Next

\* A transaction number goes to one request, and each client sees its own
\* numbers grow (server.cpp:185, 208).
THEOREM FreshNumbers == Spec => []NumbersUnique
  <1>1. Init => FreshInv
    BY DEF Init, FreshInv, Growing, Tickets!Fresh, Tickets!Numbers, OnItsWay
  <1>2. Inv /\ Inv' /\ FreshInv /\ [Next]_vars => FreshInv'
    BY StepTickets, FreshStep
  <1>3. FreshInv => NumbersUnique
    BY DEF FreshInv, NumbersUnique
  <1> QED
    BY <1>1, <1>2, <1>3, Invariance, PTL DEF Spec
=============================================================================
