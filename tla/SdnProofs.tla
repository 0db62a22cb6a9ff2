----------------------------- MODULE SdnProofs -----------------------------
(***************************************************************************)
(* Proofs about Sdn for every number of switches, started again in any     *)
(* order any number of times, and any traffic: types, one packet under way *)
(* in a connection, rules that fit, that the controller outlives no        *)
(* switch, that the network implements RuleService, and that the rules     *)
(* count what was admitted.  For addresses of three digits, that the flow  *)
(* tables stay short.  For switches that are started one by one, whose     *)
(* OPENs are no shorter than any QUERY, that rules lead to the owners.     *)
(***************************************************************************)
EXTENDS Sdn, DataFacts, FiniteSetTheorems, SequenceTheorems

-----------------------------------------------------------------------------
(* The strengthening that makes the invariants inductive.                   *)

Requests == {Open(s) : s \in Processes} \cup {Query(src, d) : src \in Sources, d \in Addresses}
Answers == {Ack} \cup {Add(rule) : rule \in Rules}
AtMostOne(messages) == {<<>>} \cup {<<m>> : m \in messages}
Infos == [id : Switches, dests : SUBSET Addresses]

\* What a request may be parsed as.
Parsings ==
  [type : {"OPEN"}, first : Switches, last : Addresses \cup {TooHigh}]
    \cup [type : {"QUERY"}, first : Sources, last : Addresses \cup {TooHigh}]

\* The rule covers what switch s asked about, or what that was taken for.
Fits(s, rule) == Heard[asked[s]] \cap rule.dests # {}

Types ==
  /\ connq \in Seq(Processes)
  /\ pfds \in Seq(FDs) /\ Len(pfds) <= NumSwitches
  /\ conn \in [FDs -> Processes \cup {NoConn}]
  /\ mainSocket \in FDs \cup {NoFd} /\ mainReady \in BOOLEAN
  /\ switchInfoTable \in Seq(Infos)
  /\ idToFd \subseteq DOMAIN pfds
  /\ ready \subseteq DOMAIN pfds /\ closed \subseteq DOMAIN pfds
  /\ buffer \in Parsings \cup {Nothing} /\ longest \in Nat /\ errno \in BOOLEAN
  /\ cont \in {"poll", "read", "accept", "gone"}
  /\ up \in [Processes -> AtMostOne(Requests)] /\ down \in [Processes -> AtMostOne(Answers)]
  /\ upEnd \in [Processes -> {"open", "fin", "rst"}]
  /\ sw \in [Processes -> {"off", "connected", "open", "exited", "failed"}]
  /\ made \in [Processes -> SUBSET Ports]
  /\ ackReceived \in [Processes -> BOOLEAN] /\ addReceived \in [Processes -> BOOLEAN]
  /\ asked \in [Processes -> Addresses]
  /\ flowTable \in [Processes -> Seq(Rules)]
  /\ portToFd \in [Processes -> [Ports -> {"none", "fifo", "stdin"}]]

\* What a switch that has not ended has under way: a request that its own
\* program waits to be answered, or the answer.
Fresh(s) == up[s] = <<>> /\ down[s] = <<>> /\ ~ackReceived[s] /\ addReceived[s]

Asking(s) ==
  /\ sw[s] = "open" /\ down[s] = <<>>
  /\ \/ up[s] = <<Open(s)>> /\ ~ackReceived[s]
     \/ /\ \E src \in Sources : up[s] = <<Query(src, asked[s])>>
        /\ ackReceived[s] /\ ~addReceived[s]

Answered(s) ==
  /\ sw[s] = "open" /\ up[s] = <<>> /\ down[s] # <<>>
  /\ \/ Head(down[s]) = Ack /\ ~ackReceived[s]
     \/ Head(down[s]).type = "ADD" /\ ~addReceived[s] /\ Fits(s, Head(down[s]).rule)

Content(s) ==
  /\ sw[s] \in {"off", "connected"} => Fresh(s)
  /\ sw[s] = "open" =>
       /\ (up[s] = <<>> /\ down[s] = <<>>) \/ Asking(s) \/ Answered(s)
       /\ ~addReceived[s] => ackReceived[s]
  /\ sw[s] \in {"off", "connected", "open"} => upEnd[s] = "open"

Contents == \A s \in Processes : Content(s)

\* A process has one connection at most, accepted or waiting for accept, and a
\* process whose connection waits has been answered nothing.
Connections ==
  /\ \A f, g \in FDs : conn[f] = conn[g] /\ conn[f] # NoConn => f = g
  /\ \A k, l \in DOMAIN connq : connq[k] = connq[l] => k = l
  /\ \A k \in DOMAIN connq : \A f \in FDs : conn[f] # connq[k]
  /\ \A s \in Processes : sw[s] = "off" =>
       (\A f \in FDs : conn[f] # s) /\ (\A k \in DOMAIN connq : connq[k] # s)
  /\ \A k \in DOMAIN connq : Alive(connq[k]) =>
       ~ackReceived[connq[k]] /\ down[connq[k]] = <<>>

\* A connection is there to accept when accept is called.
AcceptReady ==
  /\ cont = "accept" => mainReady
  /\ mainReady /\ mainSocket = NoFd /\ cont \in {"read", "accept"} => connq # <<>>

\* A descriptor that some index closed may be used again; the indices that have
\* it are closed or come after another one of them.
Stale(f) == \E k \in closed : pfds[k] = f
Later(k) == \E i \in DOMAIN pfds : i < k /\ pfds[i] = pfds[k]
Sharing ==
  /\ \A k \in DOMAIN pfds : conn[pfds[k]] = NoConn =>
       Stale(pfds[k]) /\ (k \in closed \/ Later(k))
  /\ \A i, k \in DOMAIN pfds : i < k /\ pfds[i] = pfds[k] =>
       Stale(pfds[k]) /\ (i \in closed \/ Later(i))

\* The switch that was given a closed descriptor is never acknowledged.
Unanswered ==
  cont # "gone" =>
    \A f \in FDs : Stale(f) /\ conn[f] # NoConn /\ Alive(conn[f]) =>
      ~ackReceived[conn[f]] /\ down[conn[f]] = <<>>

\* An index with an entry shares its descriptor with no index that closed it,
\* unless it closed it itself: a failed read writes no ADD to a running switch.
Entries == cont # "gone" => \A k \in idToFd : k \in closed \/ ~Stale(pfds[k])

\* Of the indices with one descriptor, those that were ready, the first finds
\* the packet, and the others nothing.
Round ==
  cont = "read" =>
    \A j \in ready : At(j) # NoConn =>
      /\ \A i \in DOMAIN pfds : i < j /\ pfds[i] = pfds[j] /\ i \notin ready =>
           up[At(j)] = <<>> /\ sw[At(j)] # "connected"
      /\ Alive(At(j)) /\ (\A i \in DOMAIN pfds : i < j /\ pfds[i] = pfds[j] => i \in ready) =>
           up[At(j)] # <<>>

Inv ==
  Types /\ Contents /\ Connections /\ AcceptReady /\ Sharing /\ Unanswered /\ Entries /\ Round

-----------------------------------------------------------------------------
(* Packets, rules and ids.                                                  *)

\* Every process bears the id of a switch, whose addresses are addresses.
LEMMA IdType ==
  ASSUME NEW s \in Processes
  PROVE  /\ Id(s) \in Switches /\ IpRange(Id(s)) \in SUBSET Addresses
         /\ s # NoConn /\ s \in Nat
  <1>1. NumSwitches \in Nat \ {0} /\ Len(Again) \in Nat /\ Again \in Seq(1 .. NumSwitches)
    BY CountAssumption
  <1>2. Id(s) \in Switches
    BY <1>1 DEF Processes, Id, Switches
  <1> QED
    BY <1>1, <1>2 DEF Processes, IpRange, Between, NoConn

\* Addresses are numbers.
LEMMA AddressType == Addresses \subseteq Nat /\ \A d \in Addresses : d <= MaxIp
  BY AddressAssumption DEF MaxIp

\* A packet is known by its type.
LEMMA RequestCases ==
  ASSUME NEW m \in Requests
  PROVE  \/ m.type = "OPEN" /\ \E s \in Processes : m = Open(s)
         \/ m.type = "QUERY" /\ \E src \in Sources, d \in Addresses : m = Query(src, d)
  BY DEF Requests, Open, Query

\* What is parsed is a packet of the same type, whose last number is an address
\* that the packet's may be taken for, or greater than all.
LEMMA ParsedCases ==
  ASSUME NEW m \in Requests, NEW size, NEW packet \in Parsed(m, size)
  PROVE  /\ packet \in Parsings /\ packet.type = m.type /\ packet.first = m.first
         /\ packet.type = "QUERY" /\ packet.last <= MaxIp =>
              m.last \in Addresses /\ packet.last \in Heard[m.last]
  <1>1. packet = m \/ \E n \in Readings(m.last) : packet = [m EXCEPT !.last = n]
    BY DEF Parsed
  <1>2. m.last \in Addresses /\ m.last \in Readings(m.last)
    <2>1. \A s \in Processes : High[Id(s)] \in Addresses
      BY IdType, AddressAssumption
    <2> QED
      BY <2>1 DEF Requests, Open, Query, Readings
  <1>3. \A n \in Readings(m.last) : n \in Addresses \cup {TooHigh}
    BY <1>2 DEF Readings
  <1>4. m = [type |-> m.type, first |-> m.first, last |-> m.last]
    BY DEF Requests, Open, Query
  <1>5. packet.last \in Readings(m.last) /\ packet.type = m.type /\ packet.first = m.first
    BY <1>1, <1>2, <1>4
  <1>6. packet = [type |-> m.type, first |-> m.first, last |-> packet.last]
    BY <1>1, <1>4
  <1>7. \/ m.type = "OPEN" /\ m.first \in Switches
        \/ m.type = "QUERY" /\ m.first \in Sources
    BY IdType DEF Requests, Open, Query
  <1>8. packet \in Parsings
    BY <1>3, <1>5, <1>6, <1>7 DEF Parsings
  <1>9. ASSUME packet.last <= MaxIp PROVE packet.last \in Heard[m.last]
    <2>1. packet.last # TooHigh
      BY <1>9 DEF TooHigh, MaxIp
    <2> QED
      BY <1>2, <1>3, <1>5, <2>1 DEF Heard
  <1> QED
    BY <1>2, <1>5, <1>8, <1>9

\* An answer is an ACK or an ADD of a rule.
LEMMA AnswerCases ==
  ASSUME NEW m \in Answers
  PROVE  \/ m.type = "ACK" /\ m = Ack
         \/ m.type = "ADD" /\ m.rule \in Rules /\ m = Add(m.rule)
  BY DEF Answers, Ack, Add

\* Packets of different types differ.
LEMMA PacketTypes ==
  /\ \A s \in Processes : /\ Open(s) \in Requests /\ Open(s).type = "OPEN"
                          /\ Open(s).first = Id(s) /\ Open(s).last = High[Id(s)]
  /\ \A src \in Sources, d \in Addresses :
       Query(src, d) \in Requests /\ Query(src, d).type = "QUERY" /\ Query(src, d).last = d
  /\ Ack \in Answers /\ Ack.type = "ACK" /\ Nothing.type = ""
  /\ \A rule \in Rules : Add(rule) \in Answers /\ Add(rule).type = "ADD" /\ Add(rule).rule = rule
  <1>1. \A src \in Sources, d \in Addresses : Query(src, d) \in Requests
    BY DEF Requests
  <1>2. \A s \in Processes : Open(s) \in Requests
    BY DEF Requests
  <1> QED
    BY <1>1, <1>2 DEF Answers, Open, Query, Ack, Add, Nothing

\* A channel holds one packet, or none.
LEMMA OneAtMost ==
  ASSUME NEW S, NEW q \in AtMostOne(S)
  PROVE  /\ q = <<>> => Len(q) = 0
         /\ q # <<>> => q = <<Head(q)>> /\ Head(q) \in S /\ Len(q) = 1 /\ q[1] = Head(q) /\ DOMAIN q = {1}
         /\ q = <<>> \/ Len(q) = 1
  <1>1. CASE q = <<>>
    BY <1>1
  <1>2. CASE q # <<>>
    <2>1. PICK m \in S : q = <<m>>
      BY <1>2 DEF AtMostOne
    <2>2. DOMAIN <<m>> = {1}
      OBVIOUS
    <2> QED
      BY <2>1, <2>2
  <1> QED
    BY <1>1, <1>2

\* What is written to an empty connection is all there is in it.
LEMMA One ==
  ASSUME NEW S, NEW m \in S
  PROVE  /\ Append(<<>>, m) = <<m>> /\ <<m>> \in AtMostOne(S) /\ <<>> \in AtMostOne(S)
         /\ <<m>> # <<>> /\ Head(<<m>>) = m
  BY DEF AtMostOne

\* Numbers have a few characters, and packets their sum.
LEMMA SizeType ==
  /\ \A n : Width(n) \in 1 .. 4
  /\ \A m \in Requests : Size(m) \in Nat
  <1>1. \A n : Width(n) \in 1 .. 4
    BY DEF Width
  <1>2. ASSUME NEW m \in Requests PROVE Size(m) \in Nat
    <2>1. \A n : Width(n) \in Nat
      BY <1>1
    <2> QED
      BY <2>1, RequestCases DEF Size
  <1> QED
    BY <1>1, <1>2

\* The rule given for an address covers it.
LEMMA AnswerCovers ==
  ASSUME Types, NEW i, NEW d \in Addresses
  PROVE  Answer(i, d) \in Rules /\ d \in Answer(i, d).dests
  <1>1. CASE FirstOwner(d) = {}
    BY <1>1 DEF Answer, Rule, Rules
  <1>2. CASE FirstOwner(d) # {}
    <2>1. (CHOOSE k \in FirstOwner(d) : TRUE) \in FirstOwner(d)
      BY <1>2
    <2>2. PICK k : k = (CHOOSE n \in FirstOwner(d) : TRUE)
      OBVIOUS
    <2>3. k \in DOMAIN switchInfoTable /\ d \in switchInfoTable[k].dests
      BY <2>1, <2>2 DEF FirstOwner
    <2>4. switchInfoTable[k] \in Infos
      BY <2>3 DEF Types
    <2>5. Answer(i, d) = Rule(switchInfoTable[k].dests, "FORWARD", IF switchInfoTable[k].id > i THEN 2 ELSE 1)
      BY <1>2, <2>2 DEF Answer
    <2> QED
      BY <2>3, <2>4, <2>5 DEF Infos, Rule, Rules
  <1> QED
    BY <1>1, <1>2

-----------------------------------------------------------------------------
(* What the controller does with what it has read.                          *)

\* A packet of the right kind is written to the switch at index i.
Delivers(i, packet, failed) ==
  /\ At(i) # NoConn /\ Alive(At(i)) /\ i \notin closed
  /\ failed => cont' = "gone"
  /\ \E m \in Answers :
       /\ down' = [down EXCEPT ![At(i)] = Append(@, m)]
       /\ \/ packet.type = "OPEN" /\ m = Ack
          \/ /\ packet.type = "QUERY" /\ packet.last <= MaxIp /\ i \in idToFd
             /\ m.type = "ADD" /\ packet.last \in m.rule.dests

\* What is handled is answered by its type: an OPEN by an ACK, a QUERY by a rule
\* that covers the address it was parsed to have, if the index has an entry.
LEMMA HandleEffect ==
  ASSUME Types, NEW i \in DOMAIN pfds, NEW packet \in Parsings \cup {Nothing},
         NEW failed \in BOOLEAN, NEW rest, Handle(i, packet, failed, rest)
  PROVE  /\ switchInfoTable' \in Seq(Infos)
         /\ cont' \in {"poll", "read", "accept", "gone"} /\ (cont' = "accept" => mainReady)
         /\ down' = down \/ Delivers(i, packet, failed)
         /\ \/ idToFd' = idToFd
            \/ idToFd' = idToFd \cup {i} /\ (failed /\ i \notin closed => cont' = "gone")
  <1>1. switchInfoTable \in Seq(Infos)
    BY DEF Types
  <1>2. CASE packet.type = "OPEN"
    <2>1. packet.first \in Switches
      BY <1>2, PacketTypes DEF Parsings
    <2>2. Between(Low[packet.first], packet.last) \in SUBSET Addresses
      BY DEF Between
    <2>3. /\ switchInfoTable' = Append(switchInfoTable,
               [id |-> packet.first, dests |-> Between(Low[packet.first], packet.last)])
          /\ idToFd' = idToFd \cup {i} /\ Send(i, At(i), Ack, failed, rest)
      BY <1>2 DEF Handle
    <2>4. switchInfoTable' \in Seq(Infos)
      BY <1>1, <2>1, <2>2, <2>3 DEF Infos
    <2>5. Ack \in Answers
      BY PacketTypes
    <2>6. /\ cont' \in {"poll", "read", "accept", "gone"} /\ (cont' = "accept" => mainReady)
          /\ failed /\ i \notin closed => cont' = "gone"
          /\ \/ down' = down
             \/ /\ At(i) # NoConn /\ Alive(At(i)) /\ i \notin closed /\ (failed => cont' = "gone")
                /\ down' = [down EXCEPT ![At(i)] = Append(@, Ack)]
      BY <2>3 DEF Send, Continue
    <2> QED
      BY <1>2, <2>3, <2>4, <2>5, <2>6 DEF Delivers
  <1>3. CASE packet.type = "QUERY" /\ packet.last <= MaxIp
    <2>1. packet.last \in Addresses
      <3>1. packet.last \in Addresses \cup {TooHigh}
        BY <1>3, PacketTypes DEF Parsings
      <3> QED
        BY <1>3, <3>1 DEF TooHigh, MaxIp
    <2>2. Answer(i, packet.last) \in Rules /\ packet.last \in Answer(i, packet.last).dests
      BY <2>1, AnswerCovers
    <2>3. /\ Send(i, IF i \in idToFd THEN At(i) ELSE NoConn, Add(Answer(i, packet.last)), failed, rest)
          /\ UNCHANGED <<switchInfoTable, idToFd>>
      BY <1>3 DEF Handle
    <2>4. /\ Add(Answer(i, packet.last)) \in Answers /\ Add(Answer(i, packet.last)).type = "ADD"
          /\ packet.last \in Add(Answer(i, packet.last)).rule.dests
      BY <2>2, PacketTypes
    <2> DEFINE m == Add(Answer(i, packet.last))
    <2> DEFINE s == IF i \in idToFd THEN At(i) ELSE NoConn
    <2>5. /\ cont' \in {"poll", "read", "accept", "gone"} /\ (cont' = "accept" => mainReady)
          /\ \/ down' = down
             \/ /\ s # NoConn /\ Alive(s) /\ i \notin closed /\ (failed => cont' = "gone")
                /\ down' = [down EXCEPT ![s] = Append(@, m)]
      <3> HIDE DEF m, s
      <3> QED
        BY <2>3 DEF Send, Continue, m, s
    <2> QED
      BY <1>1, <1>3, <2>3, <2>4, <2>5 DEF Delivers
  <1>4. CASE packet.type # "OPEN" /\ ~(packet.type = "QUERY" /\ packet.last <= MaxIp)
    BY <1>1, <1>4 DEF Handle, Continue
  <1> QED
    BY <1>2, <1>3, <1>4

\* The switch that is answered waits for this answer, and if it has a
\* descriptor that was closed before, the controller ends.
Delivered(i) ==
  /\ At(i) \in Processes /\ sw[At(i)] = "open" /\ down[At(i)] = <<>> /\ up'[At(i)] = <<>>
  /\ cont' = "gone" \/ ~Stale(pfds[i])
  /\ \E m \in Answers :
       /\ down' = [down EXCEPT ![At(i)] = <<m>>]
       /\ \/ m = Ack /\ ~ackReceived[At(i)]
          \/ m.type = "ADD" /\ ~addReceived[At(i)] /\ Fits(At(i), m.rule)

\* The connection behind an index.
LEMMA ConnType ==
  ASSUME Types, NEW i \in DOMAIN pfds
  PROVE  /\ i \in Nat /\ pfds[i] \in FDs /\ At(i) \in Processes \cup {NoConn}
         /\ At(i) # NoConn => At(i) \in Processes
  BY DEF Types, At

\* The first of the indices with one descriptor finds the packet.
LEMMA FirstToRead ==
  ASSUME Inv, NEW i \in ready, ReadAt(i), At(i) # NoConn, up[At(i)] # <<>>
  PROVE  /\ ~Later(i)
         /\ i \notin closed => ~Stale(pfds[i])
  <1>1. i \in DOMAIN pfds /\ \A j \in ready : i <= j
    BY DEF Inv, Types, ReadAt
  <1>2. \A e \in DOMAIN pfds : e \in Nat
    BY DEF Inv, Types
  <1>3. ~Later(i)
    <2> SUFFICES ASSUME NEW e \in DOMAIN pfds, e < i, pfds[e] = pfds[i] PROVE FALSE
      BY DEF Later
    <2>1. e \notin ready
      BY <1>1, <1>2
    <2> QED
      BY <2>1 DEF Inv, Round, ReadAt
  <1>4. ASSUME i \notin closed, Stale(pfds[i]) PROVE FALSE
    <2>1. PICK e \in closed : pfds[e] = pfds[i]
      BY <1>4 DEF Stale
    <2>2. e \in DOMAIN pfds /\ e # i
      BY <1>4 DEF Inv, Types
    <2>3. ~(e < i)
      BY <1>3, <2>1, <2>2 DEF Later
    <2>4. i < e
      BY <1>1, <1>2, <2>2, <2>3
    <2> QED
      BY <1>1, <1>3, <1>4, <2>1, <2>2, <2>4 DEF Inv, Sharing
  <1> QED
    BY <1>3, <1>4

\* A read that finds a packet answers what its switch waits for.
LEMMA ReadPacketDelivers ==
  ASSUME Inv, NEW i \in ready, ReadPacket(i)
  PROVE  /\ switchInfoTable' \in Seq(Infos)
         /\ cont' \in {"poll", "read", "accept", "gone"} /\ (cont' = "accept" => mainReady)
         /\ Head(up[At(i)]) \in Requests /\ buffer' \in Parsings
         /\ down' = down \/ Delivered(i)
         /\ idToFd' = idToFd \/ (idToFd' = idToFd \cup {i} /\ up[At(i)] # <<>>)
  <1> DEFINE s == At(i)
  <1>1. i \in DOMAIN pfds /\ s \in Processes /\ up[s] # <<>> /\ ReadAt(i)
    BY ConnType DEF Inv, Types, ReadPacket
  <1>2. up[s] \in AtMostOne(Requests)
    BY <1>1 DEF Inv, Types
  <1>3. up[s] = <<Head(up[s])>> /\ Head(up[s]) \in Requests
    BY <1>1, <1>2, OneAtMost
  <1>4. longest \in Nat /\ errno \in BOOLEAN /\ Types
    BY DEF Inv, Types
  <1>5. /\ buffer' \in Parsed(Head(up[s]), longest) /\ up' = [up EXCEPT ![s] = <<>>]
        /\ Handle(i, buffer', errno, ready \ {i})
    BY DEF ReadPacket
  <1>10. /\ buffer' \in Parsings /\ buffer'.type = Head(up[s]).type
         /\ buffer'.type = "QUERY" /\ buffer'.last <= MaxIp => buffer'.last \in Heard[Head(up[s]).last]
    BY <1>3, <1>5, ParsedCases
  <1>6. /\ switchInfoTable' \in Seq(Infos)
        /\ cont' \in {"poll", "read", "accept", "gone"} /\ (cont' = "accept" => mainReady)
        /\ down' = down \/ Delivers(i, buffer', errno)
        /\ idToFd' = idToFd \/ idToFd' = idToFd \cup {i}
    BY <1>1, <1>4, <1>5, <1>10, HandleEffect
  <1>7. ASSUME Delivers(i, buffer', errno) PROVE Delivered(i)
    <2>1. Alive(s) /\ i \notin closed /\ s # NoConn
      BY <1>7 DEF Delivers
    <2>2. Content(s)
      BY <1>1 DEF Inv, Contents
    <2>3. Asking(s)
      BY <1>1, <2>1, <2>2 DEF Content, Alive, Fresh, Answered
    <2>4. up'[s] = <<>>
      BY <1>1, <1>5 DEF Inv, Types
    <2>5. ~Stale(pfds[i])
      BY <1>1, <2>1, FirstToRead
    <2>6. PICK m \in Answers :
            /\ down' = [down EXCEPT ![s] = Append(@, m)]
            /\ \/ Head(up[s]).type = "OPEN" /\ m = Ack
               \/ /\ Head(up[s]).type = "QUERY" /\ m.type = "ADD"
                  /\ buffer'.last \in Heard[Head(up[s]).last] /\ buffer'.last \in m.rule.dests
      BY <1>7, <1>10 DEF Delivers
    <2>7. down' = [down EXCEPT ![s] = <<m>>]
      BY <2>3, <2>6, <1>1 DEF Asking, Inv, Types
    <2>8. asked[s] \in Addresses
      BY <1>1 DEF Inv, Types
    <2>9. \/ Head(up[s]) = Open(s) /\ ~ackReceived[s]
          \/ (\E src \in Sources : Head(up[s]) = Query(src, asked[s])) /\ ~addReceived[s]
      BY <2>3 DEF Asking
    <2>10. CASE Head(up[s]) = Open(s) /\ ~ackReceived[s]
      <3>1. Head(up[s]).type = "OPEN"
        BY <1>1, <2>10, PacketTypes
      <3>2. m = Ack
        BY <2>6, <3>1
      <3> QED
        BY <1>1, <2>3, <2>4, <2>5, <2>7, <2>10, <3>2 DEF Delivered, Asking
    <2>11. CASE (\E src \in Sources : Head(up[s]) = Query(src, asked[s])) /\ ~addReceived[s]
      <3> PICK src \in Sources : Head(up[s]) = Query(src, asked[s])
        BY <2>11
      <3>1. Head(up[s]).type = "QUERY" /\ Head(up[s]).last = asked[s]
        BY DEF Query
      <3>2. m.type = "ADD" /\ Fits(s, m.rule)
        BY <2>6, <3>1 DEF Fits
      <3> QED
        BY <1>1, <2>3, <2>4, <2>5, <2>7, <2>11, <3>2 DEF Delivered, Asking
    <2> QED
      BY <2>9, <2>10, <2>11
  <1> QED
    BY <1>1, <1>3, <1>6, <1>7, <1>10

\* A failed read gives a rule to nobody, for its index has no entry or was
\* closed; an ACK it may send, and then ends the controller.
LEMMA ReadErrorDelivers ==
  ASSUME Inv, NEW i \in ready, ReadError(i)
  PROVE  /\ switchInfoTable' \in Seq(Infos)
         /\ cont' \in {"poll", "read", "accept", "gone"} /\ (cont' = "accept" => mainReady)
         /\ down' = down \/ Delivered(i)
         /\ idToFd' = idToFd \/ (idToFd' = idToFd \cup {i} /\ (i \notin closed => cont' = "gone"))
         /\ At(i) # NoConn => up[At(i)] = <<>> /\ sw[At(i)] # "connected"
  <1> DEFINE s == At(i)
  <1>1. i \in DOMAIN pfds /\ ReadAt(i) /\ (s # NoConn => s \in Processes /\ up[s] = <<>>)
    BY ConnType DEF Inv, Types, ReadError
  <1>2. buffer \in Parsings \cup {Nothing} /\ Types
    BY DEF Inv, Types
  <1>3. Handle(i, buffer, TRUE, ready \ {i}) /\ up' = up
    BY DEF ReadError
  <1>4. /\ switchInfoTable' \in Seq(Infos)
        /\ cont' \in {"poll", "read", "accept", "gone"} /\ (cont' = "accept" => mainReady)
        /\ down' = down \/ Delivers(i, buffer, TRUE)
        /\ idToFd' = idToFd \/ (idToFd' = idToFd \cup {i} /\ (i \notin closed => cont' = "gone"))
    BY <1>1, <1>2, <1>3, HandleEffect
  <1>5. ASSUME s # NoConn, Alive(s)
        PROVE  /\ s \in Processes /\ up[s] = <<>> /\ sw[s] = "open"
               /\ ~ackReceived[s] /\ down[s] = <<>>
               /\ i \in idToFd => i \in closed
    <2>1. PICK e \in DOMAIN pfds : e < i /\ pfds[e] = pfds[i] /\ e \notin ready
      BY <1>1, <1>5 DEF Inv, Round, ReadAt
    <2>2. sw[s] = "open"
      BY <1>1, <1>5, <2>1 DEF Inv, Round, ReadAt, Alive
    <2>3. Stale(pfds[i]) /\ pfds[i] \in FDs /\ cont # "gone"
      BY <1>1, <2>1, ConnType DEF Inv, Sharing, ReadAt
    <2>4. ~ackReceived[s] /\ down[s] = <<>>
      BY <1>5, <2>3 DEF Inv, Unanswered, At
    <2>5. i \in idToFd => i \in closed
      BY <2>3 DEF Inv, Entries
    <2> QED
      BY <1>1, <1>5, <2>2, <2>4, <2>5
  <1>6. ASSUME Delivers(i, buffer, TRUE) PROVE Delivered(i)
    <2>1. Alive(s) /\ s # NoConn /\ cont' = "gone" /\ i \notin closed
      BY <1>6 DEF Delivers
    <2>2. /\ s \in Processes /\ up[s] = <<>> /\ sw[s] = "open"
          /\ ~ackReceived[s] /\ down[s] = <<>> /\ i \notin idToFd
      BY <1>5, <2>1
    <2>3. PICK m \in Answers : down' = [down EXCEPT ![s] = Append(@, m)] /\ m = Ack
      BY <1>6, <2>2 DEF Delivers
    <2>4. down' = [down EXCEPT ![s] = <<m>>]
      BY <2>2, <2>3 DEF Inv, Types
    <2> QED
      BY <1>3, <2>1, <2>2, <2>3, <2>4 DEF Delivered
  <1>7. s # NoConn => sw[s] # "connected"
    BY <1>5 DEF Alive
  <1> QED
    BY <1>1, <1>4, <1>6, <1>7

-----------------------------------------------------------------------------
(* The steps of the controller keep the invariant.                          *)

\* An answer is written to one empty connection.
LEMMA DeliveredType ==
  ASSUME Types, NEW i \in ready, down' = down \/ Delivered(i)
  PROVE  /\ down' \in [Processes -> AtMostOne(Answers)]
         /\ \A t \in Processes : t # At(i) => down'[t] = down[t]
  <1>1. ASSUME Delivered(i) PROVE down' \in [Processes -> AtMostOne(Answers)]
    <2>1. PICK m \in Answers : down' = [down EXCEPT ![At(i)] = <<m>>]
      BY <1>1 DEF Delivered
    <2>2. <<m>> \in AtMostOne(Answers)
      BY DEF AtMostOne
    <2> QED
      BY <2>1, <2>2 DEF Types
  <1>2. ASSUME NEW t \in Processes, t # At(i) PROVE down'[t] = down[t]
    BY <1>2 DEF Delivered, Types
  <1> QED
    BY <1>1, <1>2 DEF Types

\* What both kinds of read do.
Reads(i) ==
  /\ ReadAt(i)
  /\ down' = down \/ Delivered(i)
  /\ switchInfoTable' \in Seq(Infos)
  /\ cont' \in {"poll", "read", "accept", "gone"} /\ (cont' = "accept" => mainReady)
  /\ idToFd' = idToFd \/ (idToFd' = idToFd \cup {i} /\ (i \notin closed => cont' = "gone" \/ ~Stale(pfds[i])))
  /\ buffer' \in Parsings \cup {Nothing} /\ errno' \in BOOLEAN
  /\ longest' \in Nat
  /\ up' = up \/ (At(i) \in Processes /\ up' = [up EXCEPT ![At(i)] = <<>>])
  /\ \/ upEnd' = upEnd
     \/ At(i) \in Processes /\ upEnd[At(i)] = "rst" /\ upEnd' = [upEnd EXCEPT ![At(i)] = "fin"]
  /\ At(i) # NoConn => up'[At(i)] = <<>> /\ sw[At(i)] # "connected"
  /\ UNCHANGED <<pfds, mainSocket, conn, closed, mainReady, connq, made, sw, switchVars>>

\* Both kinds of read have the effect of Reads:
LEMMA ReadPacketReads ==
  ASSUME Inv, NEW i \in ready, ReadPacket(i), UNCHANGED <<sw, switchVars>>
  PROVE  Reads(i)
  <1> DEFINE s == At(i)
  <1>1. i \in DOMAIN pfds /\ s \in Processes /\ up[s] # <<>> /\ ReadAt(i) /\ s # NoConn
    BY ConnType DEF Inv, Types, ReadPacket
  <1>2. up' = [up EXCEPT ![s] = <<>>] /\ buffer' \in Parsings /\ Head(up[s]) \in Requests
    BY ReadPacketDelivers DEF ReadPacket
  <1>3. up'[s] = <<>>
    BY <1>1, <1>2 DEF Inv, Types
  <1>4. Size(Head(up[s])) \in Nat /\ longest \in Nat
    BY <1>2, SizeType DEF Inv, Types
  <1>5. longest' \in Nat
    BY <1>4 DEF ReadPacket
  <1>6. sw[s] # "connected"
    BY <1>1 DEF Inv, Contents, Content, Fresh
  <1>7. idToFd' = idToFd \/ (idToFd' = idToFd \cup {i} /\ (i \notin closed => ~Stale(pfds[i])))
    <2>1. ASSUME i \notin closed PROVE ~Stale(pfds[i])
      BY <1>1, <2>1, FirstToRead
    <2> QED
      BY <2>1, ReadPacketDelivers
  <1>8. UNCHANGED <<pfds, mainSocket, conn, closed, mainReady, errno, connq, upEnd, made, sw, switchVars>>
    BY DEF ReadPacket
  <1> QED
    BY <1>1, <1>2, <1>3, <1>5, <1>6, <1>7, <1>8, ReadPacketDelivers DEF Reads, Inv, Types

\* the failed one too.
LEMMA ReadErrorReads ==
  ASSUME Inv, NEW i \in ready, ReadError(i), UNCHANGED <<sw, switchVars>>
  PROVE  Reads(i)
  <1>1. i \in DOMAIN pfds /\ (At(i) # NoConn => At(i) \in Processes)
    BY ConnType DEF Inv, Types
  <1>2. ReadAt(i) /\ errno' = TRUE /\ up' = up /\ longest' = longest /\ buffer' = buffer
    BY DEF ReadError
  <1>3. UNCHANGED <<pfds, mainSocket, conn, closed, mainReady, connq, made, sw, switchVars>>
    BY DEF ReadError
  <1>4. \/ upEnd' = upEnd
        \/ At(i) \in Processes /\ upEnd[At(i)] = "rst" /\ upEnd' = [upEnd EXCEPT ![At(i)] = "fin"]
    BY <1>1 DEF ReadError
  <1>5. longest \in Nat /\ buffer \in Parsings \cup {Nothing}
    BY DEF Inv, Types
  <1> QED
    BY <1>2, <1>3, <1>4, <1>5, ReadErrorDelivers DEF Reads

\* Reads keep the types,
LEMMA ReadsTypes ==
  ASSUME Inv, NEW i \in ready, Reads(i)
  PROVE  Types'
  <1>1. down' \in [Processes -> AtMostOne(Answers)]
    BY DeliveredType DEF Inv, Reads
  <1>2. up' \in [Processes -> AtMostOne(Requests)]
    BY DEF Inv, Types, Reads, AtMostOne
  <1>3. upEnd' \in [Processes -> {"open", "fin", "rst"}]
    BY DEF Inv, Types, Reads
  <1>4. ready' \subseteq DOMAIN pfds
    BY DEF Inv, Types, Reads, ReadAt
  <1>5. UNCHANGED <<pfds, mainSocket, conn, closed, mainReady, connq, made, sw, switchVars>>
    BY DEF Reads
  <1> QED
    BY <1>1, <1>2, <1>3, <1>4, <1>5 DEF Inv, Types, Reads, switchVars

\* what each switch has under way,
LEMMA ReadsContents ==
  ASSUME Inv, NEW i \in ready, Reads(i)
  PROVE  Contents'
  <1> SUFFICES ASSUME NEW t \in Processes PROVE Content(t)'
    BY DEF Contents
  <1>1. Content(t) /\ i \in DOMAIN pfds
    BY DEF Inv, Contents, Types
  <1>2. UNCHANGED <<sw, ackReceived, addReceived, asked>>
    BY DEF Reads, switchVars
  <1>3. up'[t] = up[t] \/ up'[t] = <<>>
    BY DEF Reads, Inv, Types
  <1>4. upEnd[t] = "open" => upEnd'[t] = "open"
    BY DEF Reads, Inv, Types
  <1>5. CASE down'[t] = down[t]
    BY <1>1, <1>2, <1>3, <1>4, <1>5 DEF Content, Fresh, Asking, Answered, Fits
  <1>6. CASE down'[t] # down[t]
    <2>1. t = At(i) /\ Delivered(i)
      BY <1>6, DeliveredType DEF Reads, Inv
    <2>2. PICK m \in Answers :
            /\ down' = [down EXCEPT ![t] = <<m>>]
            /\ \/ m = Ack /\ ~ackReceived[t]
               \/ m.type = "ADD" /\ ~addReceived[t] /\ Fits(t, m.rule)
      BY <2>1 DEF Delivered
    <2>3. down'[t] = <<m>>
      BY <2>2 DEF Inv, Types
    <2>4. Head(down'[t]) = m /\ down'[t] # <<>>
      BY <2>3
    <2>5. sw[t] = "open" /\ up'[t] = <<>>
      BY <2>1 DEF Delivered
    <2>6. Answered(t)'
      BY <1>2, <2>2, <2>4, <2>5 DEF Answered, Fits
    <2> QED
      BY <1>1, <1>2, <1>4, <2>5, <2>6 DEF Content
  <1> QED
    BY <1>5, <1>6

\* what the rest of the round will find,
LEMMA ReadsRound ==
  ASSUME Inv, NEW i \in ready, Reads(i)
  PROVE  Round'
  <1> SUFFICES ASSUME NEW j \in ready', (At(j) # NoConn)'
               PROVE  /\ \A e \in DOMAIN pfds : e < j /\ pfds[e] = pfds[j] /\ e \notin ready' =>
                           up'[At(j)] = <<>> /\ sw[At(j)] # "connected"
                      /\ Alive(At(j)) /\ (\A e \in DOMAIN pfds : e < j /\ pfds[e] = pfds[j] => e \in ready') =>
                           up'[At(j)] # <<>>
    BY DEF Round, Reads, At, Alive
  <1>1. j \in ready /\ j # i /\ i < j /\ i \in DOMAIN pfds /\ j \in DOMAIN pfds
    <2>1. j \in ready /\ j # i /\ i <= j
      BY DEF Reads, ReadAt
    <2> QED
      BY <2>1, ConnType DEF Inv, Types
  <1>2. At(j) # NoConn /\ At(j) \in Processes /\ At(j)' = At(j)
    BY <1>1, ConnType DEF Inv, Reads, At
  <1>3. cont = "read" /\ ready' = ready \ {i}
    BY DEF Reads, ReadAt
  <1>4. CASE pfds[i] = pfds[j]
    <2>1. At(i) = At(j)
      BY <1>4 DEF At
    <2>2. up'[At(j)] = <<>> /\ sw[At(j)] # "connected"
      BY <1>2, <2>1 DEF Reads
    <2> QED
      BY <1>1, <1>3, <1>4, <2>2
  <1>5. CASE pfds[i] # pfds[j]
    <2>1. At(i) # At(j)
      BY <1>1, <1>2, <1>5, ConnType DEF Inv, Connections, At
    <2>2. up'[At(j)] = up[At(j)]
      BY <1>2, <2>1 DEF Reads, Inv, Types
    <2> QED
      BY <1>1, <1>2, <1>3, <1>5, <2>2 DEF Inv, Round
  <1> QED
    BY <1>4, <1>5

\* and the whole invariant.
LEMMA ReadsStep ==
  ASSUME Inv, NEW i \in ready, Reads(i)
  PROVE  Inv'
  <1>1. i \in DOMAIN pfds /\ pfds[i] \in FDs /\ (At(i) # NoConn => At(i) \in Processes) /\ Types
    BY ConnType DEF Inv, Types
  <1>2. UNCHANGED <<pfds, mainSocket, conn, closed, mainReady, connq, sw, ackReceived>>
    BY DEF Reads, switchVars
  <1>3. \A t \in Processes : t # At(i) => down'[t] = down[t]
    BY DeliveredType DEF Reads, Inv
  <1>4. Connections'
    <2>1. \A k \in DOMAIN connq : connq[k] \in Processes /\ connq[k] # At(i)
      BY <1>1 DEF Inv, Types, Connections, At
    <2> QED
      BY <1>2, <1>3, <2>1 DEF Inv, Connections, Alive
  <1>5. AcceptReady'
    BY <1>2 DEF Inv, AcceptReady, Reads, ReadAt
  <1>6. Sharing'
    BY <1>2 DEF Inv, Sharing, Stale, Later
  <1>7. Unanswered'
    <2> SUFFICES ASSUME cont' # "gone", NEW f \in FDs, Stale(f), conn[f] # NoConn, Alive(conn[f])
                 PROVE  ~ackReceived[conn[f]] /\ down'[conn[f]] = <<>>
      BY <1>2 DEF Unanswered, Stale, Alive
    <2>1. ~ackReceived[conn[f]] /\ down[conn[f]] = <<>>
      BY DEF Inv, Unanswered, Reads, ReadAt
    <2>2. conn[f] \in Processes
      BY DEF Inv, Types
    <2>3. CASE conn[f] # At(i)
      BY <1>3, <2>1, <2>2, <2>3
    <2>4. CASE conn[f] = At(i)
      <3>1. f = pfds[i]
        BY <1>1, <2>4 DEF Inv, Connections, At
      <3> QED
        BY <2>1, <3>1 DEF Reads, Delivered
    <2> QED
      BY <2>3, <2>4
  <1>8. Entries'
    <2>1. cont = "read"
      BY DEF Reads, ReadAt
    <2> QED
      BY <1>2, <2>1 DEF Inv, Entries, Stale, Reads
  <1> QED
    BY <1>4, <1>5, <1>6, <1>7, <1>8, ReadsTypes, ReadsContents, ReadsRound DEF Inv

\* A read of 0 closes the descriptor and leaves the connection to nobody.
LEMMA ReadClosedStep ==
  ASSUME Inv, NEW i \in ready, ReadClosed(i), UNCHANGED <<sw, switchVars>>
  PROVE  Inv'
  <1>1. /\ i \in DOMAIN pfds /\ i \in Nat /\ pfds[i] \in FDs /\ At(i) \in Processes
        /\ At(i) # NoConn /\ upEnd[At(i)] = "fin" /\ \A j \in ready : i <= j
    BY ConnType DEF Inv, Types, ReadClosed, ReadAt
  <1>2. /\ conn' = [conn EXCEPT ![pfds[i]] = NoConn] /\ closed' = closed \cup {i}
        /\ ready' = ready \ {i} /\ cont' \in {"read", "accept", "poll"} /\ cont = "read"
        /\ (cont' = "accept" => mainReady)
    BY DEF ReadClosed, ReadAt, Continue
  <1>3. /\ UNCHANGED <<pfds, mainSocket, switchInfoTable, idToFd, mainReady, bufferVars>>
        /\ UNCHANGED <<connq, up, down, upEnd, made, sw, switchVars>>
    BY DEF ReadClosed
  <1>4. \A f \in FDs : conn'[f] = IF f = pfds[i] THEN NoConn ELSE conn[f]
    BY <1>1, <1>2 DEF Inv, Types
  <1>5. Types'
    BY <1>1, <1>2, <1>3 DEF Inv, Types, bufferVars, switchVars
  <1>6. Contents'
    BY <1>3 DEF Inv, Contents, Content, Fresh, Asking, Answered, Fits, switchVars
  <1>7. Connections'
    <2>1. \A s \in Processes : s # NoConn
      BY IdType
    <2>2. \A k \in DOMAIN connq : connq[k] \in Processes
      BY DEF Inv, Types
    <2> QED
      BY <1>3, <1>4, <2>1, <2>2 DEF Inv, Connections, Alive, switchVars
  <1>8. AcceptReady'
    BY <1>2, <1>3 DEF Inv, AcceptReady
  <1>9. \A f \in FDs : (\E c \in closed' : pfds[c] = f) <=> Stale(f) \/ f = pfds[i]
    BY <1>1, <1>2 DEF Stale
  <1>10. \A k \in DOMAIN pfds : k \in Nat /\ pfds[k] \in FDs
    BY DEF Inv, Types
  <1>11. ASSUME NEW k \in DOMAIN pfds, conn'[pfds[k]] = NoConn
         PROVE  (\E c \in closed' : pfds[c] = pfds[k]) /\ (k \in closed' \/ Later(k))
    <2>1. CASE conn[pfds[k]] = NoConn
      <3>1. Stale(pfds[k]) /\ (k \in closed \/ Later(k))
        BY <2>1 DEF Inv, Sharing
      <3> QED
        BY <1>2, <1>9, <1>10, <3>1
    <2>2. CASE conn[pfds[k]] # NoConn
      <3>1. pfds[k] = pfds[i]
        BY <1>4, <1>10, <1>11, <2>2
      <3>2. k = i \/ k < i \/ i < k
        BY <1>1, <1>10
      <3>3. k < i => Later(k) \/ k \in closed
        BY <1>1, <3>1 DEF Inv, Sharing
      <3>4. i < k => Later(k)
        BY <1>1, <3>1 DEF Later
      <3> QED
        BY <1>1, <1>2, <3>1, <3>2, <3>3, <3>4
    <2> QED
      BY <2>1, <2>2
  <1>12. Sharing'
    <2>1. ASSUME NEW e \in DOMAIN pfds, NEW k \in DOMAIN pfds, e < k, pfds[e] = pfds[k]
          PROVE  (\E c \in closed' : pfds[c] = pfds[k]) /\ (e \in closed' \/ Later(e))
      <3>1. Stale(pfds[k]) /\ (e \in closed \/ Later(e))
        BY <2>1 DEF Inv, Sharing
      <3> QED
        BY <1>2, <1>9, <1>10, <3>1
    <2> QED
      BY <1>3, <1>11, <2>1 DEF Sharing, Stale, Later
  <1>13. Unanswered'
    <2> SUFFICES ASSUME NEW f \in FDs, \E c \in closed' : pfds[c] = f, conn'[f] # NoConn, Alive(conn'[f])
                 PROVE  ~ackReceived[conn'[f]] /\ down[conn'[f]] = <<>>
      BY <1>3 DEF Unanswered, Stale, Alive, switchVars
    <2>1. conn'[f] = conn[f] /\ f # pfds[i]
      BY <1>4
    <2>2. Stale(f)
      BY <1>9, <2>1
    <2> QED
      BY <1>2, <2>1, <2>2 DEF Inv, Unanswered
  <1>14. Round'
    <2> SUFFICES ASSUME NEW j \in ready', (At(j) # NoConn)'
                 PROVE  /\ \A e \in DOMAIN pfds : e < j /\ pfds[e] = pfds[j] /\ e \notin ready' =>
                             up[At(j)] = <<>> /\ sw[At(j)] # "connected"
                        /\ Alive(At(j)) /\ (\A e \in DOMAIN pfds : e < j /\ pfds[e] = pfds[j] => e \in ready') =>
                             up[At(j)] # <<>>
                        /\ At(j)' = At(j)
      BY <1>3 DEF Round, Alive
    <2>1. j \in ready /\ j \in DOMAIN pfds /\ j # i
      BY <1>2 DEF Inv, Types
    <2>2. pfds[j] # pfds[i] /\ At(j)' = At(j)
      BY <1>3, <1>4, <1>10, <2>1 DEF At
    <2>3. At(j) # NoConn
      BY <2>2
    <2> QED
      BY <1>2, <2>1, <2>2, <2>3 DEF Inv, Round
  <1>15. Entries'
    <2> SUFFICES ASSUME NEW k \in idToFd, k \notin closed', \E c \in closed' : pfds[c] = pfds[k]
                 PROVE  FALSE
      BY <1>3 DEF Entries, Stale
    <2>1. k \in DOMAIN pfds /\ k # i /\ k \notin closed
      BY <1>2 DEF Inv, Types
    <2>2. ~Stale(pfds[k])
      BY <1>2, <2>1 DEF Inv, Entries
    <2>3. pfds[k] = pfds[i]
      BY <1>9, <1>10, <2>1, <2>2
    <2>4. k < i \/ i < k
      BY <1>1, <1>10, <2>1
    <2> QED
      BY <1>1, <2>1, <2>2, <2>3, <2>4 DEF Inv, Sharing
  <1> QED
    BY <1>5, <1>6, <1>7, <1>8, <1>12, <1>13, <1>14, <1>15 DEF Inv

\* A poll sees the packets that are there.
LEMMA PollStep ==
  ASSUME Inv, Poll, UNCHANGED <<sw, switchVars>>
  PROVE  Inv'
  <1>1. /\ ready' = Readable /\ mainReady' = MainReadable /\ cont = "poll"
        /\ cont' = IF Readable # {} THEN "read" ELSE "accept"
        /\ Readable # {} \/ MainReadable
        /\ buffer' = Nothing /\ longest' = 0
    BY DEF Poll
  <1>2. /\ UNCHANGED <<pfds, mainSocket, conn, switchInfoTable, idToFd, closed, errno>>
        /\ UNCHANGED <<connq, up, down, upEnd, made, sw, switchVars>>
    BY DEF Poll
  <1>3. Readable \subseteq DOMAIN pfds /\ MainReadable \in BOOLEAN
    BY DEF Readable, MainReadable, HasInput
  <1>4. Types'
    BY <1>1, <1>2, <1>3 DEF Inv, Types, switchVars
  <1>5. Contents' /\ Connections' /\ Sharing' /\ Unanswered' /\ Entries'
    BY <1>1, <1>2 DEF Inv, Contents, Content, Fresh, Asking, Answered, Fits, Connections, Sharing, Stale,
      Later, Unanswered, Entries, Alive, switchVars
  <1>6. AcceptReady'
    BY <1>1, <1>2 DEF AcceptReady, MainReadable
  <1>7. Round'
    <2> SUFFICES ASSUME NEW j \in Readable, At(j) # NoConn
                 PROVE  /\ \A e \in DOMAIN pfds : pfds[e] = pfds[j] => e \in Readable
                        /\ Alive(At(j)) => up[At(j)] # <<>>
      BY <1>1, <1>2 DEF Round, At, Alive
    <2>1. HasInput(At(j)) /\ At(j) \in Processes
      BY <1>3, ConnType DEF Readable, Inv
    <2>2. Alive(At(j)) => upEnd[At(j)] = "open"
      BY <2>1 DEF Inv, Contents, Content, Alive
    <2> QED
      BY <2>1, <2>2 DEF HasInput, Readable, At
  <1> QED
    BY <1>4, <1>5, <1>6, <1>7 DEF Inv

\* An accept takes the lowest free descriptor, which some index may have closed.
LEMMA AcceptStep ==
  ASSUME Inv, Accept, UNCHANGED <<sw, switchVars>>
  PROVE  Inv'
  <1>1. cont = "accept" /\ mainSocket = NoFd /\ cont' = "poll" /\ connq' = Tail(connq)
    BY DEF Accept
  <1>2. /\ UNCHANGED <<switchInfoTable, idToFd, closed, ready, mainReady, bufferVars>>
        /\ UNCHANGED <<up, down, upEnd, made, sw, switchVars>>
    BY DEF Accept
  <1>3. PICK f \in FDs :
          /\ conn[f] = NoConn /\ conn' = [conn EXCEPT ![f] = Head(connq)]
          /\ \/ Len(pfds) < NumSwitches /\ pfds' = Append(pfds, f) /\ UNCHANGED mainSocket
             \/ mainSocket' = f /\ UNCHANGED pfds
    BY DEF Accept, Free
  <1>4. connq # <<>> /\ connq \in Seq(Processes) /\ pfds \in Seq(FDs) /\ NumSwitches \in Nat
    BY <1>1, CountAssumption DEF Inv, AcceptReady, Types
  <1>5. /\ Head(connq) \in Processes /\ Tail(connq) \in Seq(Processes) /\ Head(connq) = connq[1]
        /\ 1 \in DOMAIN connq
        /\ \A k \in DOMAIN Tail(connq) : k + 1 \in DOMAIN connq /\ k + 1 # 1 /\ Tail(connq)[k] = connq[k + 1]
    BY <1>4
  <1>6. \A g \in FDs : conn'[g] = IF g = f THEN Head(connq) ELSE conn[g]
    BY <1>3 DEF Inv, Types
  <1>7. /\ pfds' \in Seq(FDs) /\ Len(pfds') <= NumSwitches
        /\ DOMAIN pfds \subseteq DOMAIN pfds' /\ \A k \in DOMAIN pfds : pfds'[k] = pfds[k]
        /\ \A k \in DOMAIN pfds' : k \in Nat /\ pfds'[k] \in FDs
        /\ \A k \in DOMAIN pfds' : k \notin DOMAIN pfds => pfds'[k] = f /\ \A e \in DOMAIN pfds : e < k
        /\ \A k, l \in DOMAIN pfds' : k \notin DOMAIN pfds /\ l \notin DOMAIN pfds => k = l
    <2>1. CASE pfds' = pfds
      BY <1>4, <2>1 DEF Inv, Types
    <2>2. CASE Len(pfds) < NumSwitches /\ pfds' = Append(pfds, f)
      <3>1. /\ Len(pfds) \in Nat /\ Len(pfds') = Len(pfds) + 1 /\ pfds' \in Seq(FDs)
            /\ DOMAIN pfds = 1 .. Len(pfds) /\ DOMAIN pfds' = 1 .. Len(pfds) + 1
            /\ pfds'[Len(pfds) + 1] = f /\ \A k \in DOMAIN pfds : pfds'[k] = pfds[k]
        BY <1>4, <2>2
      <3> QED
        BY <1>4, <2>2, <3>1
    <2> QED
      BY <1>3, <2>1, <2>2
  <1>8. \A k \in DOMAIN pfds : k \in Nat /\ pfds[k] \in FDs
    BY DEF Inv, Types
  <1>9. closed \subseteq DOMAIN pfds
    BY DEF Inv, Types
  <1>10. Types'
    <2>1. conn' \in [FDs -> Processes \cup {NoConn}] /\ mainSocket' \in FDs \cup {NoFd}
      BY <1>3, <1>5 DEF Inv, Types
    <2>2. ready' \subseteq DOMAIN pfds' /\ closed' \subseteq DOMAIN pfds' /\ idToFd' \subseteq DOMAIN pfds'
      BY <1>2, <1>7 DEF Inv, Types
    <2> QED
      BY <1>1, <1>2, <1>5, <1>7, <2>1, <2>2 DEF Inv, Types, bufferVars, switchVars
  <1>11. Contents'
    BY <1>2 DEF Inv, Contents, Content, Fresh, Asking, Answered, Fits, switchVars
  <1>12. Connections'
    <2>1. \A g, h \in FDs : conn'[g] = conn'[h] /\ conn'[g] # NoConn => g = h
      BY <1>5, <1>6 DEF Inv, Connections
    <2>2. \A k, l \in DOMAIN Tail(connq) : Tail(connq)[k] = Tail(connq)[l] => k = l
      <3>1. \A k, l \in DOMAIN Tail(connq) : Tail(connq)[k] = Tail(connq)[l] => k + 1 = l + 1
        BY <1>5 DEF Inv, Connections
      <3>2. \A k \in DOMAIN Tail(connq) : k \in Nat
        BY <1>5
      <3> QED
        BY <3>1, <3>2
    <2>3. \A k \in DOMAIN Tail(connq) : \A g \in FDs : conn'[g] # Tail(connq)[k]
      BY <1>5, <1>6 DEF Inv, Connections
    <2>4. \A s \in Processes : sw[s] = "off" =>
            (\A g \in FDs : conn'[g] # s) /\ (\A k \in DOMAIN Tail(connq) : Tail(connq)[k] # s)
      BY <1>5, <1>6 DEF Inv, Connections
    <2>5. \A k \in DOMAIN Tail(connq) : Alive(Tail(connq)[k]) =>
            ~ackReceived[Tail(connq)[k]] /\ down[Tail(connq)[k]] = <<>>
      BY <1>5 DEF Inv, Connections
    <2> QED
      BY <1>1, <1>2, <2>1, <2>2, <2>3, <2>4, <2>5 DEF Connections, Alive, switchVars
  <1>13. AcceptReady' /\ Round'
    BY <1>1 DEF AcceptReady, Round
  <1>14. \A g \in FDs : Stale(g) => \E c \in closed : pfds'[c] = g
    BY <1>7, <1>9 DEF Stale
  <1>15. \A k \in DOMAIN pfds : Later(k) => \E e \in DOMAIN pfds' : e < k /\ pfds'[e] = pfds'[k]
    BY <1>7 DEF Later
  <1>16. Sharing'
    <2>1. \A k \in DOMAIN pfds : pfds[k] = f => Stale(f) /\ (k \in closed \/ Later(k))
      BY <1>3 DEF Inv, Sharing
    <2>2. ASSUME NEW k \in DOMAIN pfds', conn'[pfds'[k]] = NoConn
          PROVE  /\ \E c \in closed : pfds'[c] = pfds'[k]
                 /\ k \in closed \/ \E e \in DOMAIN pfds' : e < k /\ pfds'[e] = pfds'[k]
      <3>1. pfds'[k] # f
        BY <1>5, <1>6, <1>7, <2>2, IdType
      <3>2. k \in DOMAIN pfds /\ pfds'[k] = pfds[k] /\ conn[pfds[k]] = NoConn
        BY <1>6, <1>7, <2>2, <3>1
      <3>3. Stale(pfds[k]) /\ (k \in closed \/ Later(k))
        BY <3>2 DEF Inv, Sharing
      <3> QED
        BY <1>8, <1>14, <1>15, <3>2, <3>3
    <2>3. ASSUME NEW e \in DOMAIN pfds', NEW k \in DOMAIN pfds', e < k, pfds'[e] = pfds'[k]
          PROVE  /\ \E c \in closed : pfds'[c] = pfds'[k]
                 /\ e \in closed \/ \E l \in DOMAIN pfds' : l < e /\ pfds'[l] = pfds'[e]
      <3>1. e \in DOMAIN pfds /\ pfds'[e] = pfds[e] /\ pfds[e] \in FDs
        BY <1>7, <1>8, <2>3
      <3>2. Stale(pfds[e]) /\ (e \in closed \/ Later(e))
        <4>1. CASE k \in DOMAIN pfds
          BY <1>7, <2>3, <3>1, <4>1 DEF Inv, Sharing
        <4>2. CASE k \notin DOMAIN pfds
          BY <1>7, <2>1, <2>3, <3>1, <4>2
        <4> QED
          BY <4>1, <4>2
      <3> QED
        BY <1>14, <1>15, <2>3, <3>1, <3>2
    <2> QED
      BY <1>2, <2>2, <2>3 DEF Sharing, Stale, Later
  <1>17. Unanswered'
    <2> SUFFICES ASSUME NEW g \in FDs, Stale(g), conn'[g] # NoConn, Alive(conn'[g])
                 PROVE  ~ackReceived[conn'[g]] /\ down[conn'[g]] = <<>>
      <3>1. \A g \in FDs : (\E c \in closed : pfds'[c] = g) => Stale(g)
        BY <1>7, <1>9 DEF Stale
      <3> QED
        BY <1>2, <3>1 DEF Unanswered, Stale, Alive, switchVars
    <2>1. CASE g = f
      BY <1>5, <1>6, <2>1 DEF Inv, Connections
    <2>2. CASE g # f
      BY <1>1, <1>6, <2>2 DEF Inv, Unanswered
    <2> QED
      BY <2>1, <2>2
  <1>18. Entries'
    <2>1. \A g \in FDs : (\E c \in closed : pfds'[c] = g) => Stale(g)
      BY <1>7, <1>9 DEF Stale
    <2>2. \A k \in idToFd : k \in DOMAIN pfds /\ pfds'[k] = pfds[k] /\ pfds[k] \in FDs
      BY <1>7, <1>8 DEF Inv, Types
    <2> QED
      BY <1>1, <1>2, <2>1, <2>2 DEF Inv, Entries, Stale
  <1> QED
    BY <1>10, <1>11, <1>12, <1>13, <1>16, <1>17, <1>18 DEF Inv

\* Nothing happens, or the controller ends.
LEMMA EndStep ==
  ASSUME Inv, cont' \in {cont, "gone"}, UNCHANGED <<contVars, connq, up, down, upEnd, fifo, made, sw, switchVars>>
  PROVE  Inv'
  <1>1. UNCHANGED <<pfds, mainSocket, conn, switchInfoTable, idToFd, closed, ready, mainReady, buffer, longest, errno>>
    BY DEF contVars, bufferVars
  <1>2. UNCHANGED <<ackReceived, addReceived, asked, flowTable, portToFd>>
    BY DEF switchVars
  <1>3. Types'
    BY <1>1, <1>2 DEF Inv, Types
  <1>4. Contents' /\ Connections'
    BY <1>1, <1>2 DEF Inv, Contents, Content, Fresh, Asking, Answered, Fits, Connections, Alive
  <1>5. AcceptReady' /\ Sharing' /\ Unanswered' /\ Entries'
    BY <1>1, <1>2 DEF Inv, AcceptReady, Sharing, Stale, Later, Unanswered, Entries, Alive
  <1>6. Round'
    BY <1>1, <1>2 DEF Inv, Round, At, Alive
  <1> QED
    BY <1>3, <1>4, <1>5, <1>6 DEF Inv

\* So the controller keeps the invariant.
LEMMA ContStepKeeps ==
  ASSUME Inv, ContStep \/ ContExit, UNCHANGED <<sw, switchVars>>
  PROVE  Inv'
  <1>1. CASE Poll
    BY <1>1, PollStep
  <1>2. CASE Accept
    BY <1>2, AcceptStep
  <1>3. CASE AcceptFails \/ ContExit
    BY <1>3, EndStep DEF AcceptFails, ContExit
  <1>4. CASE \E i \in ready : ReadPacket(i) \/ ReadClosed(i) \/ ReadError(i)
    BY <1>4, ReadPacketReads, ReadErrorReads, ReadsStep, ReadClosedStep
  <1> QED
    BY <1>1, <1>2, <1>3, <1>4 DEF ContStep

-----------------------------------------------------------------------------
(* The steps of a switch keep the invariant.                                *)

\* A switch changes its own state.  Unless it ends, it leaves a request that
\* the controller has not read where it is, and takes an answer only to learn
\* from it; before its ACK it sends nothing after its OPEN.
SwitchChange(s) ==
  /\ Alive(s) /\ sw'[s] \in {"open", "exited", "failed"}
  /\ \A t \in Processes : t # s =>
       /\ sw'[t] = sw[t] /\ up'[t] = up[t] /\ down'[t] = down[t] /\ upEnd'[t] = upEnd[t]
       /\ ackReceived'[t] = ackReceived[t] /\ addReceived'[t] = addReceived[t] /\ asked'[t] = asked[t]
  /\ sw'[s] = "open" =>
       /\ down'[s] = down[s] \/ down'[s] = <<>>
       /\ ackReceived'[s] = ackReceived[s] \/ down[s] # <<>>
       /\ up'[s] = up[s] \/ up'[s] # <<>>
       /\ sw[s] = "open" /\ ~ackReceived[s] => up'[s] = up[s]
  /\ sw'[s] # "open" => up'[s] = up[s]
  /\ UNCHANGED <<connq, cont, contVars>>
  /\ Types' /\ Content(s)'

\* A change of one switch keeps the invariant.
LEMMA SwitchChangeStep ==
  ASSUME Inv, NEW s \in Processes, SwitchChange(s)
  PROVE  Inv'
  <1>1. /\ UNCHANGED <<connq, cont, pfds, mainSocket, conn, idToFd, closed, ready, mainReady>>
        /\ Types'
    BY DEF SwitchChange, contVars, bufferVars
  <1>2. \A t \in Processes : Alive(t)' => Alive(t)
    BY DEF SwitchChange, Alive
  <1>3. \A t \in Processes : Alive(t)' /\ ~ackReceived[t] /\ down[t] = <<>> =>
          ~ackReceived'[t] /\ down'[t] = <<>>
    BY DEF SwitchChange, Alive
  <1>4. Contents'
    <2> SUFFICES ASSUME NEW t \in Processes, t # s PROVE Content(t)'
      BY DEF Contents, SwitchChange
    <2>1. /\ sw'[t] = sw[t] /\ up'[t] = up[t] /\ down'[t] = down[t] /\ upEnd'[t] = upEnd[t]
          /\ ackReceived'[t] = ackReceived[t] /\ addReceived'[t] = addReceived[t] /\ asked'[t] = asked[t]
      BY DEF SwitchChange
    <2>2. Content(t)
      BY DEF Inv, Contents
    <2> QED
      BY <2>1, <2>2 DEF Content, Fresh, Asking, Answered, Fits
  <1>5. Connections'
    <2>1. \A k \in DOMAIN connq : connq[k] \in Processes
      BY DEF Inv, Types
    <2>2. ASSUME NEW k \in DOMAIN connq, sw'[connq[k]] \in {"connected", "open"}
          PROVE  ~ackReceived'[connq[k]] /\ down'[connq[k]] = <<>>
      <3>1. PICK t \in Processes : t = connq[k]
        BY <2>1
      <3>2. Alive(t)' /\ Alive(t)
        BY <1>2, <2>2, <3>1 DEF Alive
      <3>3. ~ackReceived[t] /\ down[t] = <<>>
        BY <3>1, <3>2 DEF Inv, Connections
      <3> QED
        BY <1>3, <3>1, <3>2, <3>3
    <2>3. \A t \in Processes : sw'[t] = "off" => sw[t] = "off"
      BY DEF SwitchChange
    <2> QED
      BY <1>1, <2>2, <2>3 DEF Inv, Connections, Alive
  <1>6. AcceptReady' /\ Sharing' /\ Entries'
    BY <1>1 DEF Inv, AcceptReady, Sharing, Stale, Later, Entries
  <1>7. Unanswered'
    <2>1. \A f \in FDs : conn[f] # NoConn => conn[f] \in Processes
      BY DEF Inv, Types
    <2> SUFFICES ASSUME cont # "gone", NEW f \in FDs, Stale(f), conn[f] # NoConn,
                        sw'[conn[f]] \in {"connected", "open"}
                 PROVE  ~ackReceived'[conn[f]] /\ down'[conn[f]] = <<>>
      BY <1>1 DEF Unanswered, Stale, Alive
    <2>2. Alive(conn[f])' /\ Alive(conn[f])
      BY <1>1, <1>2, <2>1 DEF Alive
    <2> QED
      BY <1>1, <1>3, <2>1, <2>2 DEF Inv, Unanswered, Alive
  <1>8. Round'
    <2> SUFFICES ASSUME cont = "read", NEW j \in ready, At(j) # NoConn
                 PROVE  /\ \A i \in DOMAIN pfds : i < j /\ pfds[i] = pfds[j] /\ i \notin ready =>
                             up'[At(j)] = <<>> /\ sw'[At(j)] # "connected"
                        /\ /\ sw'[At(j)] \in {"connected", "open"}
                           /\ \A i \in DOMAIN pfds : i < j /\ pfds[i] = pfds[j] => i \in ready
                           => up'[At(j)] # <<>>
      BY <1>1 DEF Round, At, Alive
    <2>1. j \in DOMAIN pfds /\ At(j) \in Processes /\ pfds[j] \in FDs
      BY ConnType DEF Inv, Types
    <2>3. CASE At(j) # s
      BY <2>1, <2>3 DEF Inv, Round, SwitchChange, Alive
    <2>4. CASE At(j) = s
      <3>1. ASSUME NEW i \in DOMAIN pfds, i < j, pfds[i] = pfds[j], i \notin ready
            PROVE  up'[s] = <<>> /\ sw'[s] # "connected"
        <4>1. up[s] = <<>> /\ sw[s] = "open"
          BY <2>4, <3>1 DEF Inv, Round, SwitchChange, Alive
        <4>2. ~ackReceived[s]
          BY <2>1, <2>4, <3>1 DEF Inv, Sharing, Unanswered, At, SwitchChange
        <4>3. sw'[s] = "open" => up'[s] = <<>>
          BY <4>1, <4>2 DEF SwitchChange
        <4>4. sw'[s] # "open" => up'[s] = up[s]
          BY DEF SwitchChange
        <4> QED
          BY <4>1, <4>3, <4>4 DEF SwitchChange
      <3>2. ASSUME sw'[s] \in {"connected", "open"},
                   \A i \in DOMAIN pfds : i < j /\ pfds[i] = pfds[j] => i \in ready
            PROVE  up'[s] # <<>>
        <4>1. up[s] # <<>>
          BY <2>4, <3>2 DEF Inv, Round, SwitchChange
        <4> QED
          BY <3>2, <4>1 DEF SwitchChange
      <3> QED
        BY <2>4, <3>1, <3>2
    <2> QED
      BY <2>3, <2>4
  <1> QED
    BY <1>1, <1>4, <1>5, <1>6, <1>7, <1>8 DEF Inv

\* The program goes on, or ends.
GoesOn(s) == UNCHANGED <<sw, upEnd>> \/ Stop(s, "exited") \/ Stop(s, "failed")

\* A step after which a switch goes on, exits or fails.
LEMMA GoesOnEffect ==
  ASSUME Types, NEW s \in Processes, Alive(s), GoesOn(s)
  PROVE  /\ sw' \in [Processes -> {"off", "connected", "open", "exited", "failed"}]
         /\ upEnd' \in [Processes -> {"open", "fin", "rst"}]
         /\ \A t \in Processes : t # s => sw'[t] = sw[t] /\ upEnd'[t] = upEnd[t]
         /\ sw'[s] \in {"exited", "failed"} \/ (sw'[s] = sw[s] /\ upEnd'[s] = upEnd[s])
  BY DEF GoesOn, Stop, Types

\* A relay touches FIFOs only.
LEMMA SendRelayEffect ==
  ASSUME Types, NEW s \in Processes, NEW p, NEW fd, NEW d, NEW queues, SendRelay(s, p, fd, d, queues)
  PROVE  /\ GoesOn(s)
         /\ portToFd' \in [Processes -> [Ports -> {"none", "fifo", "stdin"}]]
  <1>1. GoesOn(s)
    BY DEF SendRelay, GoesOn
  <1>2. portToFd' = portToFd \/ \E v \in {"fifo", "stdin"} : portToFd' = [portToFd EXCEPT ![s][p] = v]
    BY DEF SendRelay
  <1>3. ASSUME NEW v \in {"fifo", "stdin"}, portToFd' = [portToFd EXCEPT ![s][p] = v]
        PROVE  portToFd' \in [Processes -> [Ports -> {"none", "fifo", "stdin"}]]
    <2>1. portToFd[s] \in [Ports -> {"none", "fifo", "stdin"}]
      BY DEF Types
    <2>2. [portToFd[s] EXCEPT ![p] = v] \in [Ports -> {"none", "fifo", "stdin"}]
      BY <2>1
    <2>3. portToFd' = [portToFd EXCEPT ![s] = [portToFd[s] EXCEPT ![p] = v]]
      BY <1>3
    <2> QED
      BY <2>2, <2>3 DEF Types
  <1> QED
    BY <1>1, <1>2, <1>3 DEF Types

\* An OPEN is the first packet of its connection.
LEMMA SendOpenStep ==
  ASSUME Inv, NEW s \in Processes, SendOpen(s), UNCHANGED <<cont, contVars>>
  PROVE  SwitchChange(s)
  <1>1. sw[s] = "connected" /\ Fresh(s) /\ upEnd[s] = "open"
    BY DEF SendOpen, Inv, Contents, Content
  <1>2. Open(s) \in Requests
    BY PacketTypes
  <1>3. up' = [up EXCEPT ![s] = <<Open(s)>>] /\ sw' = [sw EXCEPT ![s] = "open"]
    BY <1>1 DEF SendOpen, Fresh, Inv, Types
  <1>4. UNCHANGED <<switchVars, connq, down, upEnd, fifo, made, cont, contVars>>
    BY DEF SendOpen
  <1>5. up' \in [Processes -> AtMostOne(Requests)] /\ up'[s] = <<Open(s)>> /\ sw'[s] = "open"
    BY <1>2, <1>3 DEF Inv, Types, AtMostOne
  <1>6. Types'
    BY <1>3, <1>4, <1>5 DEF Inv, Types, switchVars, contVars, bufferVars
  <1>7. Content(s)'
    BY <1>1, <1>4, <1>5 DEF Content, Fresh, Asking, switchVars
  <1> QED
    BY <1>1, <1>3, <1>4, <1>5, <1>6, <1>7 DEF SwitchChange, Alive, Inv, Types, switchVars

\* A program that ends, or goes on with what it had.
LEMMA QuietStep ==
  ASSUME Inv, NEW s \in Processes, Alive(s), GoesOn(s), sw'[s] # "connected",
         made' \in [Processes -> SUBSET Ports],
         portToFd' \in [Processes -> [Ports -> {"none", "fifo", "stdin"}]],
         flowTable' \in [Processes -> Seq(Rules)],
         UNCHANGED <<cont, contVars, connq, up, down, ackReceived, addReceived, asked>>
  PROVE  SwitchChange(s)
  <1>1. /\ sw' \in [Processes -> {"off", "connected", "open", "exited", "failed"}]
        /\ upEnd' \in [Processes -> {"open", "fin", "rst"}]
        /\ \A t \in Processes : t # s => sw'[t] = sw[t] /\ upEnd'[t] = upEnd[t]
        /\ sw'[s] \in {"exited", "failed"} \/ (sw'[s] = sw[s] /\ upEnd'[s] = upEnd[s])
    BY GoesOnEffect DEF Inv
  <1>2. Types'
    BY <1>1 DEF Inv, Types, contVars, bufferVars
  <1>3. Content(s)'
    BY <1>1 DEF Inv, Contents, Content, Fresh, Asking, Answered, Fits
  <1> QED
    BY <1>1, <1>2, <1>3 DEF SwitchChange, Alive

\* FIFOs, relays and the ends of a switch ask nothing and answer nothing.
LEMMA OtherSteps ==
  ASSUME Inv, NEW s \in Processes, MakeFifo(s) \/ ControllerGone(s) \/ Leave(s) \/ \E p \in Ports : ReadRelay(s, p),
         UNCHANGED <<cont, contVars>>
  PROVE  SwitchChange(s)
  <1>1. sw[s] \in {"connected", "open", "exited", "failed", "off"} /\ Types
    BY DEF Inv, Types
  <1>2. CASE MakeFifo(s)
    <2>1. Alive(s) /\ sw[s] = "open"
      BY <1>2 DEF MakeFifo, Alive
    <2>2. GoesOn(s) /\ made' \in [Processes -> SUBSET Ports]
      <3>1. PICK p \in Ports :
              \/ Stop(s, "failed") /\ UNCHANGED made
              \/ made' = [made EXCEPT ![s] = @ \cup {p}] /\ UNCHANGED <<sw, upEnd>>
        BY <1>2 DEF MakeFifo, Wanted
      <3>2. made[s] \cup {p} \in SUBSET Ports /\ made \in [Processes -> SUBSET Ports]
        BY <1>1 DEF Types
      <3> QED
        BY <3>1, <3>2 DEF GoesOn
    <2>3. sw'[s] # "connected"
      BY <2>1, <2>2, GoesOnEffect DEF Inv
    <2> QED
      BY <1>1, <1>2, <2>1, <2>2, <2>3, QuietStep DEF MakeFifo, switchVars, Types
  <1>3. CASE ControllerGone(s) \/ Leave(s)
    <2>1. Alive(s) /\ Stop(s, "exited") /\ UNCHANGED <<switchVars, connq, up, down, made>>
      BY <1>3 DEF ControllerGone, Leave, Looping, Alive
    <2>2. sw'[s] = "exited"
      BY <1>1, <2>1 DEF Stop, Types
    <2> QED
      BY <1>1, <2>1, <2>2, QuietStep DEF GoesOn, switchVars, Types
  <1>4. CASE \E p \in Ports : ReadRelay(s, p)
    <2>1. Alive(s) /\ sw[s] = "open" /\ UNCHANGED <<ackReceived, addReceived, asked, flowTable, connq, up, down, made>>
      BY <1>4 DEF ReadRelay, Looping, Alive
    <2>2. GoesOn(s) /\ portToFd' \in [Processes -> [Ports -> {"none", "fifo", "stdin"}]]
      <3>1. \/ UNCHANGED <<sw, upEnd, portToFd>>
            \/ \E q, fd, d, queues : SendRelay(s, q, fd, d, queues)
        BY <1>4 DEF ReadRelay
      <3> QED
        BY <1>1, <3>1, SendRelayEffect DEF GoesOn, Types
    <2>3. sw'[s] # "connected"
      BY <2>1, <2>2, GoesOnEffect DEF Inv
    <2> QED
      BY <1>1, <2>1, <2>2, <2>3, QuietStep DEF Types
  <1> QED
    BY <1>2, <1>3, <1>4

\* A rule counts one more packet.
LEMMA Counted ==
  ASSUME NEW rules \in Seq(Rules), NEW k \in DOMAIN rules,
         NEW g, g = [rules EXCEPT ![k].pktCount = @ + 1]
  PROVE  /\ g \in Seq(Rules) /\ DOMAIN g = DOMAIN rules
         /\ \A j \in DOMAIN rules : /\ g[j].dests = rules[j].dests
                                   /\ g[j].action = rules[j].action /\ g[j].port = rules[j].port
  <1>1. rules[k] \in Rules
    OBVIOUS
  <1>2. PICK n \in Nat : n = rules[k].pktCount + 1
    BY <1>1 DEF Rules
  <1> DEFINE r == [rules[k] EXCEPT !.pktCount = n]
  <1>3. r \in Rules /\ r.dests = rules[k].dests /\ r.action = rules[k].action /\ r.port = rules[k].port
    BY <1>1 DEF Rules
  <1>4. g = [rules EXCEPT ![k] = r]
    BY <1>2
  <1> QED
    BY <1>3, <1>4

\* A switch that may admit has nothing under way.
LEMMA NothingUnderWay ==
  ASSUME Inv, NEW s \in Processes, sw[s] = "open", NotWaiting(s)
  PROVE  up[s] = <<>> /\ down[s] = <<>>
  BY DEF Inv, Contents, Content, Asking, Answered, NotWaiting

\* A QUERY is written to an empty connection.
LEMMA AdmitStep ==
  ASSUME Inv, NEW s \in Processes, NEW d \in Addresses, Admit(s, d), UNCHANGED <<cont, contVars>>
  PROVE  SwitchChange(s)
  <1>1. /\ sw[s] = "open" /\ Alive(s) /\ up[s] = <<>> /\ down[s] = <<>> /\ Types
        /\ ackReceived[s] /\ addReceived[s] /\ upEnd[s] = "open"
    BY NothingUnderWay DEF Admit, Looping, NotWaiting, Alive, Inv, Contents, Content
  <1>2. UNCHANGED <<ackReceived, connq, down, made>>
    BY DEF Admit
  <1>3. CASE AdmitUnknown(s, d)
    <2>6. PICK src \in Sources : up' = [up EXCEPT ![s] = Append(@, Query(src, d))]
      BY <1>3 DEF AdmitUnknown
    <2>7. Append(up[s], Query(src, d)) = <<Query(src, d)>>
      BY <1>1
    <2>1. /\ up' = [up EXCEPT ![s] = <<Query(src, d)>>] /\ addReceived' = [addReceived EXCEPT ![s] = FALSE]
          /\ asked' = [asked EXCEPT ![s] = d] /\ UNCHANGED <<sw, flowTable, portToFd, upEnd>>
      BY <1>3, <2>6, <2>7 DEF AdmitUnknown
    <2>2. Query(src, d) \in Requests
      BY PacketTypes
    <2>3. up' \in [Processes -> AtMostOne(Requests)] /\ up'[s] = <<Query(src, d)>> /\ asked'[s] = d /\ ~addReceived'[s]
      BY <1>1, <2>1, <2>2 DEF Types, AtMostOne
    <2>4. Types'
      BY <1>1, <1>2, <2>1, <2>3 DEF Types, contVars, bufferVars
    <2>5. Content(s)'
      BY <1>1, <1>2, <2>1, <2>3 DEF Content, Asking
    <2> QED
      BY <1>1, <1>2, <2>1, <2>3, <2>4, <2>5 DEF SwitchChange, Types
  <1>4. CASE AdmitKnown(s, d)
    <2>1. PICK k \in Match(s, d) :
            /\ flowTable' = [flowTable EXCEPT ![s][k].pktCount = @ + 1]
            /\ \/ SendRelay(s, flowTable[s][k].port, portToFd[s][flowTable[s][k].port], d, fifo)
               \/ UNCHANGED <<sw, upEnd, fifo, portToFd, relayOut>>
      BY <1>4 DEF AdmitKnown
    <2>2. UNCHANGED <<addReceived, asked, up>>
      BY <1>4 DEF AdmitKnown
    <2>3. flowTable' \in [Processes -> Seq(Rules)]
      <3>1. flowTable[s] \in Seq(Rules) /\ k \in DOMAIN flowTable[s]
        BY <1>1, <2>1 DEF Types, Match
      <3>2. [flowTable[s] EXCEPT ![k].pktCount = @ + 1] \in Seq(Rules)
        BY <3>1, Counted
      <3>3. flowTable' = [flowTable EXCEPT ![s] = [flowTable[s] EXCEPT ![k].pktCount = @ + 1]]
        BY <2>1
      <3> QED
        BY <1>1, <3>2, <3>3 DEF Types
    <2>4. GoesOn(s) /\ portToFd' \in [Processes -> [Ports -> {"none", "fifo", "stdin"}]]
      BY <1>1, <2>1, SendRelayEffect DEF GoesOn, Types
    <2>5. sw'[s] # "connected"
      BY <1>1, <2>4, GoesOnEffect
    <2> QED
      BY <1>1, <1>2, <2>2, <2>3, <2>4, <2>5, QuietStep DEF Types
  <1> QED
    BY <1>3, <1>4 DEF Admit

\* An ACK is what an unacknowledged switch waits for.
LEMMA ReadAckStep ==
  ASSUME Inv, NEW s \in Processes, ReadAck(s), UNCHANGED <<cont, contVars>>
  PROVE  SwitchChange(s)
  <1>1. /\ sw[s] = "open" /\ Alive(s) /\ Types /\ down[s] # <<>> /\ upEnd[s] = "open"
        /\ Content(s)
    BY DEF ReadAck, ReadSocket, Looping, Alive, Inv, Contents, Content
  <1>2. up[s] = <<>> /\ (~addReceived[s] => ackReceived[s])
    BY <1>1 DEF Content, Asking, Answered
  <1>3. /\ down' = [down EXCEPT ![s] = <<>>] /\ ackReceived' = [ackReceived EXCEPT ![s] = TRUE]
        /\ UNCHANGED <<addReceived, asked, flowTable, portToFd, sw, connq, up, upEnd, made>>
    BY DEF ReadAck, ReadSocket
  <1>4. down' \in [Processes -> AtMostOne(Answers)] /\ down'[s] = <<>>
    BY <1>1, <1>3 DEF Types, AtMostOne
  <1>5. Types'
    BY <1>1, <1>3, <1>4 DEF Types, contVars, bufferVars
  <1>6. Content(s)'
    BY <1>1, <1>2, <1>3, <1>4 DEF Content, Types
  <1> QED
    BY <1>1, <1>3, <1>4, <1>5, <1>6 DEF SwitchChange, Types

\* An ADD is read whole, and its rule comes last in the table.
LEMMA ReadAddEffect ==
  ASSUME Inv, NEW s \in Processes, ReadAdd(s)
  PROVE  /\ sw[s] = "open" /\ Alive(s) /\ up[s] = <<>> /\ down[s] = <<Head(down[s])>>
         /\ Head(down[s]) \in Answers /\ Head(down[s]).type = "ADD" /\ Head(down[s]).rule \in Rules
         /\ ackReceived[s] /\ ~addReceived[s] /\ Fits(s, Head(down[s]).rule)
         /\ down' = [down EXCEPT ![s] = <<>>] /\ addReceived' = [addReceived EXCEPT ![s] = TRUE]
         /\ flowTable' = [flowTable EXCEPT ![s] = Append(@, Head(down[s]).rule)]
         /\ GoesOn(s) /\ portToFd' \in [Processes -> [Ports -> {"none", "fifo", "stdin"}]]
  <1>1. /\ sw[s] = "open" /\ Alive(s) /\ Types /\ down[s] # <<>> /\ Head(down[s]).type = "ADD"
        /\ Content(s) /\ down[s] \in AtMostOne(Answers)
    BY DEF ReadAdd, ReadSocket, Looping, Alive, Inv, Contents, Types
  <1>2. down[s] = <<Head(down[s])>> /\ Head(down[s]) \in Answers
    BY <1>1, OneAtMost
  <1>3. Head(down[s]).rule \in Rules /\ Head(down[s]) # Ack
    BY <1>1, <1>2, AnswerCases, PacketTypes
  <1>4. Answered(s)
    BY <1>1 DEF Content, Asking
  <1>5. up[s] = <<>> /\ ackReceived[s] /\ ~addReceived[s] /\ Fits(s, Head(down[s]).rule)
    BY <1>1, <1>3, <1>4 DEF Answered, Content
  <1>6. /\ down' = [down EXCEPT ![s] = <<>>] /\ addReceived' = [addReceived EXCEPT ![s] = TRUE]
        /\ flowTable' = [flowTable EXCEPT ![s] = Append(@, Head(down[s]).rule)]
    BY DEF ReadAdd, ReadSocket, AddRule
  <1>7. \/ UNCHANGED <<sw, upEnd, portToFd>>
        \/ \E p, fd, d, queues : SendRelay(s, p, fd, d, queues)
    BY DEF ReadAdd
  <1>8. GoesOn(s) /\ portToFd' \in [Processes -> [Ports -> {"none", "fifo", "stdin"}]]
    BY <1>1, <1>7, SendRelayEffect DEF GoesOn, Types
  <1> QED
    BY <1>1, <1>2, <1>3, <1>5, <1>6, <1>8

\* An ADD is what a switch with a question waits for.
LEMMA ReadAddStep ==
  ASSUME Inv, NEW s \in Processes, ReadAdd(s), UNCHANGED <<cont, contVars>>
  PROVE  SwitchChange(s)
  <1>1. /\ sw[s] = "open" /\ Alive(s) /\ up[s] = <<>> /\ down[s] # <<>> /\ ackReceived[s]
        /\ Head(down[s]).rule \in Rules
        /\ down' = [down EXCEPT ![s] = <<>>] /\ addReceived' = [addReceived EXCEPT ![s] = TRUE]
        /\ flowTable' = [flowTable EXCEPT ![s] = Append(@, Head(down[s]).rule)]
        /\ GoesOn(s) /\ portToFd' \in [Processes -> [Ports -> {"none", "fifo", "stdin"}]]
    BY ReadAddEffect
  <1>2. UNCHANGED <<ackReceived, asked, connq, up, made>> /\ Types
    BY DEF ReadAdd, Inv
  <1>3. /\ sw' \in [Processes -> {"off", "connected", "open", "exited", "failed"}]
        /\ upEnd' \in [Processes -> {"open", "fin", "rst"}]
        /\ \A t \in Processes : t # s => sw'[t] = sw[t] /\ upEnd'[t] = upEnd[t]
        /\ sw'[s] \in {"exited", "failed"} \/ (sw'[s] = sw[s] /\ upEnd'[s] = upEnd[s])
    BY <1>1, <1>2, GoesOnEffect
  <1>4. flowTable' \in [Processes -> Seq(Rules)]
    BY <1>1, <1>2 DEF Types
  <1>5. down' \in [Processes -> AtMostOne(Answers)] /\ down'[s] = <<>> /\ addReceived'[s]
    BY <1>1, <1>2 DEF Types, AtMostOne
  <1>6. Types'
    BY <1>1, <1>2, <1>3, <1>4, <1>5 DEF Types, contVars, bufferVars
  <1>7. upEnd[s] = "open"
    BY <1>1 DEF Inv, Contents, Content
  <1>8. Content(s)'
    BY <1>1, <1>2, <1>3, <1>5, <1>7 DEF Content
  <1> QED
    BY <1>1, <1>2, <1>3, <1>5, <1>6, <1>8 DEF SwitchChange, Types

\* A process that connects is in no other connection.
LEMMA ConnectStep ==
  ASSUME Inv, NEW s \in Processes, Connect(s), UNCHANGED <<cont, contVars>>
  PROVE  Inv'
  <1>1. /\ sw[s] = "off" /\ sw' = [sw EXCEPT ![s] = "connected"] /\ connq' = Append(connq, s)
        /\ UNCHANGED <<switchVars, up, down, upEnd, fifo, made, cont, contVars>>
    BY DEF Connect
  <1>2. /\ UNCHANGED <<pfds, mainSocket, conn, idToFd, closed, ready, mainReady>>
        /\ UNCHANGED <<ackReceived, addReceived, asked>>
    BY <1>1 DEF contVars, bufferVars, switchVars
  <1>3. Types /\ Fresh(s) /\ upEnd[s] = "open"
    BY <1>1 DEF Inv, Contents, Content
  <1>4. \A t \in Processes : sw'[t] = IF t = s THEN "connected" ELSE sw[t]
    BY <1>1, <1>3 DEF Types
  <1>5. /\ connq' \in Seq(Processes) /\ connq' # <<>>
        /\ \A k \in DOMAIN connq' :
             (k \in DOMAIN connq /\ connq'[k] = connq[k]) \/ (k \notin DOMAIN connq /\ connq'[k] = s)
        /\ \A k, l \in DOMAIN connq' : k \notin DOMAIN connq /\ l \notin DOMAIN connq => k = l
    <2>1. connq \in Seq(Processes)
      BY <1>3 DEF Types
    <2>2. /\ connq' \in Seq(Processes) /\ Len(connq) \in Nat /\ Len(connq') = Len(connq) + 1
          /\ DOMAIN connq = 1 .. Len(connq) /\ DOMAIN connq' = 1 .. Len(connq) + 1
          /\ \A k \in DOMAIN connq : connq'[k] = connq[k]
          /\ connq'[Len(connq) + 1] = s
      BY <1>1, <2>1
    <2> QED
      BY <2>2
  <1>6. (\A f \in FDs : conn[f] # s) /\ (\A k \in DOMAIN connq : connq[k] # s /\ connq[k] \in Processes)
    BY <1>1, <1>3 DEF Inv, Connections, Types
  <1>7. Types'
    BY <1>1, <1>3, <1>5 DEF Types, switchVars, contVars, bufferVars
  <1>8. Contents'
    BY <1>1, <1>2, <1>3, <1>4 DEF Inv, Contents, Content, Fresh, Asking, Answered, Fits
  <1>9. Connections'
    <2>1. \A k, l \in DOMAIN connq' : connq'[k] = connq'[l] => k = l
      BY <1>5, <1>6 DEF Inv, Connections
    <2>2. \A k \in DOMAIN connq' : \A f \in FDs : conn[f] # connq'[k]
      BY <1>5, <1>6 DEF Inv, Connections
    <2>3. \A t \in Processes : sw'[t] = "off" =>
            (\A f \in FDs : conn[f] # t) /\ (\A k \in DOMAIN connq' : connq'[k] # t)
      BY <1>4, <1>5, <1>6 DEF Inv, Connections
    <2>4. ASSUME NEW k \in DOMAIN connq', sw'[connq'[k]] \in {"connected", "open"}
          PROVE  ~ackReceived[connq'[k]] /\ down[connq'[k]] = <<>>
      <3>1. CASE k \in DOMAIN connq
        <4>1. connq'[k] = connq[k] /\ Alive(connq[k])
          BY <1>4, <1>5, <1>6, <2>4, <3>1 DEF Alive
        <4> QED
          BY <3>1, <4>1 DEF Inv, Connections
      <3>2. CASE k \notin DOMAIN connq
        BY <1>3, <1>5, <3>2 DEF Fresh
      <3> QED
        BY <3>1, <3>2
    <2> QED
      BY <1>1, <1>2, <2>1, <2>2, <2>3, <2>4 DEF Inv, Connections, Alive
  <1>10. AcceptReady' /\ Sharing' /\ Entries'
    BY <1>1, <1>2, <1>5 DEF Inv, AcceptReady, Sharing, Stale, Later, Entries
  <1>11. \A f \in FDs : conn[f] # NoConn => conn[f] \in Processes /\ conn[f] # s
    BY <1>3, <1>6 DEF Types
  <1>12. Unanswered'
    <2> SUFFICES ASSUME cont # "gone", NEW f \in FDs, Stale(f), conn[f] # NoConn,
                        sw'[conn[f]] \in {"connected", "open"}
                 PROVE  ~ackReceived[conn[f]] /\ down[conn[f]] = <<>>
      BY <1>1, <1>2 DEF Unanswered, Stale, Alive
    <2>1. Alive(conn[f])
      BY <1>4, <1>11 DEF Alive
    <2> QED
      BY <2>1 DEF Inv, Unanswered
  <1>13. Round'
    <2>1. ASSUME NEW j \in ready, At(j) # NoConn PROVE sw'[At(j)] = sw[At(j)]
      <3>1. j \in DOMAIN pfds /\ At(j) \in Processes /\ pfds[j] \in FDs
        BY <1>3, <2>1, ConnType DEF Types
      <3> QED
        BY <1>4, <1>6, <3>1 DEF At
    <2> QED
      BY <1>1, <1>2, <2>1 DEF Inv, Round, At, Alive
  <1> QED
    BY <1>7, <1>8, <1>9, <1>10, <1>12, <1>13 DEF Inv

-----------------------------------------------------------------------------
(* The invariant.                                                           *)

\* With no switch started the invariant holds.
LEMMA InvInit == Init => Inv
  <1> SUFFICES ASSUME Init PROVE Inv
    OBVIOUS
  <1>1. /\ connq = <<>> /\ pfds = <<>> /\ conn = [f \in FDs |-> NoConn] /\ mainSocket = NoFd
        /\ switchInfoTable = <<>> /\ idToFd = {} /\ closed = {} /\ ready = {} /\ mainReady = FALSE
        /\ buffer = Nothing /\ longest = 0 /\ errno = FALSE /\ cont = "poll"
    BY DEF Init, NetInit, ContInit
  <1>2. /\ up = [s \in Processes |-> <<>>] /\ down = [s \in Processes |-> <<>>]
        /\ upEnd = [s \in Processes |-> "open"] /\ made = [s \in Processes |-> {}]
        /\ sw = [s \in Processes |-> "off"]
        /\ ackReceived = [s \in Processes |-> FALSE] /\ addReceived = [s \in Processes |-> TRUE]
        /\ asked = [s \in Processes |-> Low[Id(s)]]
        /\ portToFd = [s \in Processes |-> [p \in Ports |-> "none"]]
    BY DEF Init, NetInit, SwitchInit
  <1>3. flowTable \in [Processes -> Seq(Rules)]
    <2>1. ASSUME NEW s \in Processes
          PROVE  [Rule(IpRange(Id(s)), "FORWARD", 3) EXCEPT !.pktCount = 0] \in Rules
      <3>1. IpRange(Id(s)) \in SUBSET Addresses
        BY IdType
      <3> QED
        BY <3>1 DEF Rule, Rules
    <2>2. flowTable = [s \in Processes |-> <<[Rule(IpRange(Id(s)), "FORWARD", 3) EXCEPT !.pktCount = 0]>>]
      BY DEF Init, SwitchInit
    <2>3. \A r \in Rules : <<r>> \in Seq(Rules)
      OBVIOUS
    <2> QED
      BY <2>1, <2>2, <2>3
  <1>4. Types
    <2>1. up \in [Processes -> AtMostOne(Requests)] /\ down \in [Processes -> AtMostOne(Answers)]
      BY <1>2 DEF AtMostOne
    <2>2. asked \in [Processes -> Addresses]
      BY <1>2, IdType, AddressAssumption
    <2>3. Len(pfds) <= NumSwitches /\ connq \in Seq(Processes) /\ pfds \in Seq(FDs) /\ switchInfoTable \in Seq(Infos)
      BY <1>1, CountAssumption
    <2> QED
      BY <1>1, <1>2, <1>3, <2>1, <2>2, <2>3 DEF Types
  <1>5. Contents
    BY <1>2 DEF Contents, Content, Fresh
  <1>6. Connections
    <2>1. \A s \in Processes : s # NoConn
      BY IdType
    <2> QED
      BY <1>1, <2>1 DEF Connections
  <1>7. AcceptReady /\ Sharing /\ Unanswered /\ Entries /\ Round
    BY <1>1 DEF AcceptReady, Sharing, Unanswered, Entries, Round, Stale
  <1> QED
    BY <1>4, <1>5, <1>6, <1>7 DEF Inv

\* Every step of a switch that has connected is such a change.
LEMMA SwitchStepKeeps ==
  ASSUME Inv, NEW s \in Processes, SwitchStep(s) \/ Leave(s), UNCHANGED <<cont, contVars>>
  PROVE  SwitchChange(s)
  BY SendOpenStep, OtherSteps, AdmitStep, ReadAckStep, ReadAddStep DEF SwitchStep

\* Every step keeps the invariant.
LEMMA InvStep == Inv /\ [Next]_vars => Inv'
  <1> SUFFICES ASSUME Inv, [Next]_vars PROVE Inv'
    OBVIOUS
  <1>1. CASE (ContStep \/ ContExit) /\ UNCHANGED <<sw, switchVars>>
    BY <1>1, ContStepKeeps
  <1>2. ASSUME NEW s \in Processes, Connect(s) \/ SwitchStep(s) \/ Leave(s), UNCHANGED <<cont, contVars>>
        PROVE  Inv'
    BY <1>2, ConnectStep, SwitchStepKeeps, SwitchChangeStep
  <1>3. CASE UNCHANGED vars
    BY <1>3, EndStep DEF vars, netVars, contVars, switchVars
  <1> QED
    BY <1>1, <1>2, <1>3 DEF Next

\* What a switch has under way is the request it waits to be answered, or the
\* answer, though descriptors are given again to others and errors and buffers
\* outlive their reads (controller.cpp:180-328, switch.cpp:292-537).
THEOREM Invariance == Spec => []Inv
  BY InvInit, InvStep, PTL DEF Spec

-----------------------------------------------------------------------------
(* The theorems.                                                            *)

\* The variables have their types, and at most numSwitches indices are used
\* (controller.cpp:106, 314).
THEOREM TypeCorrect == Spec => []TypeOK
  <1>1. Inv => TypeOK
    <2> SUFFICES ASSUME Types PROVE TypeOK
      BY DEF Inv
    <2>1. \A i \in DOMAIN connq : connq[i] \in Processes
      BY DEF Types
    <2>2. \A i \in DOMAIN pfds : pfds[i] \in FDs
      BY DEF Types
    <2>3. \A s \in Processes : \A k \in DOMAIN flowTable[s] : flowTable[s][k] \in Rules
      BY DEF Types
    <2> QED
      BY <2>1, <2>2, <2>3 DEF Types, TypeOK
  <1> QED
    BY <1>1, Invariance, PTL

\* Two packets never meet in the connection of a running switch
\* (controller.cpp:222, switch.cpp:457).
THEOREM NeverTwo == Spec => []OneUnderWay
  <1>1. Inv => OneUnderWay
    <2> SUFFICES ASSUME Inv, NEW s \in Processes, Alive(s)
                 PROVE  Len(up[s]) + Len(down[s]) <=
                          IF sw[s] # "connected" /\ ~(ackReceived[s] /\ addReceived[s]) THEN 1 ELSE 0
      BY DEF OneUnderWay
    <2>1. up[s] \in AtMostOne(Requests) /\ down[s] \in AtMostOne(Answers) /\ Content(s)
      BY DEF Inv, Types, Contents
    <2>2. /\ up[s] = <<>> => Len(up[s]) = 0
          /\ up[s] # <<>> => Len(up[s]) = 1
          /\ down[s] = <<>> => Len(down[s]) = 0
          /\ down[s] # <<>> => Len(down[s]) = 1
      BY <2>1, OneAtMost
    <2>3. sw[s] = "connected" => up[s] = <<>> /\ down[s] = <<>>
      BY <2>1 DEF Content, Fresh
    <2>4. sw[s] = "open" =>
            \/ up[s] = <<>> /\ down[s] = <<>>
            \/ (up[s] = <<>> \/ down[s] = <<>>) /\ ~(ackReceived[s] /\ addReceived[s])
      BY <2>1 DEF Content, Asking, Answered
    <2>5. CASE up[s] = <<>> /\ down[s] = <<>>
      <3>1. Len(up[s]) = 0 /\ Len(down[s]) = 0
        BY <2>2, <2>5
      <3> QED
        BY <3>1
    <2>6. CASE ~(up[s] = <<>> /\ down[s] = <<>>)
      <3>1. (up[s] = <<>> \/ down[s] = <<>>) /\ ~(ackReceived[s] /\ addReceived[s]) /\ sw[s] # "connected"
        BY <2>3, <2>4, <2>6 DEF Alive
      <3>2. \/ Len(up[s]) = 0 /\ Len(down[s]) = 1
            \/ Len(up[s]) = 1 /\ Len(down[s]) = 0
        BY <2>2, <2>6, <3>1
      <3>3. \A a, b : (a = 0 /\ b = 1) \/ (a = 1 /\ b = 0) => a + b <= 1
        OBVIOUS
      <3>4. Len(up[s]) + Len(down[s]) <= 1
        BY <3>2, <3>3
      <3> QED
        BY <3>1, <3>4
    <2> QED
      BY <2>5, <2>6
  <1> QED
    BY <1>1, Invariance, PTL

\* A rule on its way to a running switch covers the address it waits to learn
\* about, or one that the address may be read as, followed by the tail of a
\* longer packet (controller.cpp:213-296).
THEOREM RulesFit == Spec => []AnswerFits
  <1>1. Inv => AnswerFits
    <2> SUFFICES ASSUME Inv, NEW s \in Processes, NEW k \in DOMAIN down[s],
                        Alive(s), down[s][k].type = "ADD"
                 PROVE  ~addReceived[s] /\ Fits(s, down[s][k].rule)
      BY DEF AnswerFits, Fits
    <2>1. down[s] \in AtMostOne(Answers) /\ Content(s)
      BY DEF Inv, Types, Contents
    <2>2. down[s] # <<>> /\ down[s][k] = Head(down[s])
      BY <2>1, OneAtMost
    <2>3. Answered(s)
      BY <2>1, <2>2 DEF Content, Alive, Fresh, Asking
    <2> QED
      BY <2>2, <2>3, PacketTypes DEF Answered
  <1> QED
    BY <1>1, Invariance, PTL

\* Addresses of three digits are never mistaken for each other.
LEMMA HeardRight ==
  ASSUME ThreeDigits, NEW d \in Addresses
  PROVE  Readings(d) \cap Addresses = {d} /\ Heard[d] = {d}
  <1>1. \A e \in Addresses : e \in 101 .. 999
    BY DEF ThreeDigits
  <1>2. ASSUME NEW e \in Addresses, NEW k \in {10, 100, 1000, 10000}, e \div k = d PROVE FALSE
    <2>1. e \in 101 .. 999 /\ d \in 101 .. 999
      BY <1>1
    <2>2. CASE k = 10
      BY <1>2, <2>1, <2>2
    <2>3. CASE k = 100
      BY <1>2, <2>1, <2>3
    <2>4. CASE k = 1000
      BY <1>2, <2>1, <2>4
    <2>5. CASE k = 10000
      BY <1>2, <2>1, <2>5
    <2> QED
      BY <2>2, <2>3, <2>4, <2>5
  <1>3. TooHigh \notin Addresses
    BY <1>1 DEF TooHigh, MaxIp
  <1> QED
    BY <1>2, <1>3 DEF Readings, Heard

\* And with such addresses every rule covers the address that was asked about,
\* whatever the buffer held before (controller.cpp:213-296).
THEOREM RulesExact ==
  ASSUME ThreeDigits
  PROVE  Spec => []\A s \in Processes : \A k \in DOMAIN down[s] :
                   Alive(s) /\ down[s][k].type = "ADD" =>
                     ~addReceived[s] /\ asked[s] \in down[s][k].rule.dests
  <1> DEFINE Exact == \A s \in Processes : \A k \in DOMAIN down[s] :
                        Alive(s) /\ down[s][k].type = "ADD" =>
                          ~addReceived[s] /\ asked[s] \in down[s][k].rule.dests
  <1>1. ASSUME Inv, AnswerFits PROVE Exact
    <2>1. SUFFICES ASSUME NEW s \in Processes, NEW k \in DOMAIN down[s], Alive(s), down[s][k].type = "ADD"
                   PROVE  ~addReceived[s] /\ asked[s] \in down[s][k].rule.dests
      OBVIOUS
    <2>2. asked[s] \in Addresses
      BY <1>1 DEF Inv, Types
    <2>3. Heard[asked[s]] = {asked[s]}
      BY <2>2, HeardRight
    <2> QED
      BY <1>1, <2>1, <2>3 DEF AnswerFits
  <1> QED
    BY <1>1, RulesFit, Invariance, PTL

-----------------------------------------------------------------------------
(* Who ends the controller.                                                 *)

\* A switch is started again only after its program has ended.
OneAtATime ==
  \A s, t \in Processes : s < t /\ Id(s) = Id(t) /\ sw[t] # "off" => Ended(s)

\* While no switch has ended, nothing has failed, and no index was closed.
Peace == \A s \in Processes : ~Ended(s)
Untroubled == Peace => closed = {} /\ ~errno /\ mainSocket = NoFd

\* It stays so while what it speaks of does.
LEMMA UntroubledStays ==
  ASSUME Untroubled, Peace' => Peace, UNCHANGED <<closed, errno, mainSocket>>
  PROVE  Untroubled'
  BY DEF Untroubled

\* Each index has a connection of its own, whose switch runs.
LEMMA IndicesOwn ==
  ASSUME Inv, Untroubled, Peace
  PROVE  /\ \A i \in DOMAIN pfds : At(i) \in Processes /\ Alive(At(i)) /\ upEnd[At(i)] = "open"
         /\ \A i, j \in DOMAIN pfds : At(i) = At(j) => i = j
         /\ \A i \in DOMAIN pfds : i \notin closed
  <1>1. \A f : ~Stale(f)
    BY DEF Untroubled, Stale
  <1>2. \A i \in DOMAIN pfds : At(i) # NoConn /\ pfds[i] \in FDs /\ i \in Nat
    BY <1>1, ConnType DEF Inv, Sharing, At
  <1>3. ASSUME NEW i \in DOMAIN pfds
        PROVE  At(i) \in Processes /\ Alive(At(i)) /\ upEnd[At(i)] = "open"
    <2>1. At(i) \in Processes
      BY <1>2, ConnType DEF Inv
    <2>2. sw[At(i)] # "off"
      BY <1>2, <2>1 DEF Inv, Connections, At
    <2>3. Alive(At(i))
      BY <2>1, <2>2 DEF Peace, Ended, Alive, Inv, Types
    <2> QED
      BY <2>1, <2>3 DEF Inv, Contents, Content, Alive
  <1>4. ASSUME NEW i \in DOMAIN pfds, NEW j \in DOMAIN pfds, At(i) = At(j) PROVE i = j
    <2>1. pfds[i] = pfds[j]
      BY <1>2, <1>4 DEF Inv, Connections, At
    <2>2. ~(i < j) /\ ~(j < i)
      BY <1>1, <2>1 DEF Inv, Sharing
    <2> QED
      BY <1>2, <2>2
  <1> QED
    BY <1>3, <1>4 DEF Untroubled

\* There is an index for every switch that connects.
LEMMA IndicesSuffice ==
  ASSUME Inv, Untroubled, Peace, OneAtATime, connq # <<>>
  PROVE  Len(pfds) < NumSwitches
  <1> SUFFICES ASSUME Len(pfds) = NumSwitches PROVE FALSE
    <2>1. Len(pfds) <= NumSwitches /\ Len(pfds) \in Nat /\ NumSwitches \in Nat
      BY CountAssumption DEF Inv, Types
    <2> QED
      BY <2>1
  <1> DEFINE n == NumSwitches
             Of == [i \in 1 .. n + 1 |-> IF i = n + 1 THEN Head(connq) ELSE At(i)]
             Ids == [i \in 1 .. n + 1 |-> Id(Of[i])]
  <1>1. n \in Nat /\ DOMAIN pfds = 1 .. n
    BY CountAssumption DEF Inv, Types
  <1>2. /\ Head(connq) \in Processes /\ sw[Head(connq)] # "off"
        /\ \A f \in FDs : conn[f] # Head(connq)
    <2>1. connq \in Seq(Processes)
      BY DEF Inv, Types
    <2>2. 1 \in DOMAIN connq /\ Head(connq) = connq[1] /\ Head(connq) \in Processes
      BY <2>1
    <2> QED
      BY <2>2 DEF Inv, Connections
  <1>3. \A i \in 1 .. n : At(i) \in Processes /\ At(i) # Head(connq) /\ sw[At(i)] # "off"
    <2>1. \A i \in 1 .. n : At(i) \in Processes /\ Alive(At(i)) /\ pfds[i] \in FDs
      BY <1>1, IndicesOwn, ConnType DEF Inv
    <2> QED
      BY <1>2, <2>1 DEF At, Alive
  <1>4. \A i \in 1 .. n + 1 : Of[i] \in Processes /\ sw[Of[i]] # "off"
    BY <1>1, <1>2, <1>3
  <1>5. \A i, j \in 1 .. n + 1 : Of[i] = Of[j] => i = j
    BY <1>1, <1>2, <1>3, IndicesOwn
  <1>6. \A s, t \in Processes : sw[s] # "off" /\ sw[t] # "off" /\ Id(s) = Id(t) => s = t
    <2> SUFFICES ASSUME NEW s \in Processes, NEW t \in Processes,
                        sw[s] # "off", sw[t] # "off", Id(s) = Id(t)
                 PROVE  ~(s < t) /\ ~(t < s)
      BY IdType
    <2> QED
      BY DEF OneAtATime, Peace
  <1>7. Ids \in [1 .. n + 1 -> Switches]
    BY <1>4, IdType
  <1>8. /\ IsFiniteSet(1 .. n + 1) /\ Cardinality(1 .. n + 1) = n + 1
        /\ IsFiniteSet(Switches) /\ Cardinality(Switches) = n
    BY <1>1, FS_Interval, CountAssumption DEF Switches
  <1>9. PICK i \in 1 .. n + 1, j \in 1 .. n + 1 : i # j /\ Ids[i] = Ids[j]
    <2> HIDE DEF Ids
    <2>1. Cardinality(Switches) < Cardinality(1 .. n + 1)
      BY <1>1, <1>8
    <2> QED
      BY <1>7, <1>8, <2>1, FS_PigeonHole
  <1>10. Id(Of[i]) = Id(Of[j])
    BY <1>9
  <1>11. Of[i] = Of[j]
    BY <1>4, <1>6, <1>10
  <1> QED
    BY <1>5, <1>9, <1>11

\* A read in such a round finds the packet of a running switch.
LEMMA ReadsFind ==
  ASSUME Inv, Untroubled, Peace, NEW i \in ready, ReadAt(i)
  PROVE  At(i) \in Processes /\ Alive(At(i)) /\ up[At(i)] # <<>> /\ upEnd[At(i)] = "open"
  <1>1. i \in DOMAIN pfds /\ cont = "read"
    BY DEF Inv, Types, ReadAt
  <1>2. At(i) \in Processes /\ Alive(At(i)) /\ upEnd[At(i)] = "open" /\ At(i) # NoConn
    BY <1>1, IndicesOwn, IdType
  <1>3. \A e \in DOMAIN pfds : ~(e < i /\ pfds[e] = pfds[i])
    <2> SUFFICES ASSUME NEW e \in DOMAIN pfds, e < i, pfds[e] = pfds[i] PROVE FALSE
      OBVIOUS
    <2>1. At(e) = At(i)
      BY DEF At
    <2>2. e = i /\ i \in Nat
      BY <1>1, <2>1, IndicesOwn, ConnType DEF Inv
    <2> QED
      BY <2>2
  <1>4. up[At(i)] # <<>>
    BY <1>1, <1>2, <1>3 DEF Inv, Round
  <1> QED
    BY <1>2, <1>4

\* The index of a switch that was answered has an entry.
HasEntry ==
  Peace => \A k \in DOMAIN pfds :
    At(k) # NoConn /\ (ackReceived[At(k)] \/ down[At(k)] # <<>>) => k \in idToFd

\* A read that is answered gives the index its entry, or finds it.
LEMMA ReadEnters ==
  ASSUME Inv, Untroubled, Peace, HasEntry, NEW i \in ready, ReadPacket(i)
  PROVE  /\ buffer'.type = "QUERY" => i \in idToFd
         /\ down' = down \/ i \in idToFd'
         /\ idToFd \subseteq idToFd' /\ \A t \in Processes : t # At(i) => down'[t] = down[t]
  <1>1. /\ i \in DOMAIN pfds /\ At(i) \in Processes /\ At(i) # NoConn /\ Alive(At(i))
        /\ up[At(i)] # <<>> /\ buffer' \in Parsed(Head(up[At(i)]), longest)
        /\ Handle(i, buffer', errno, ready \ {i})
    BY ReadsFind, IdType DEF ReadPacket, Inv, Types
  <1>2. PICK m \in Requests : up[At(i)] = <<m>>
    BY <1>1 DEF Inv, Types, AtMostOne
  <1>3. Head(up[At(i)]) = m /\ buffer'.type = m.type
    <2>1. Head(up[At(i)]) = m
      BY <1>2
    <2> QED
      BY <1>1, <2>1, ParsedCases
  <1>4. m.type = "QUERY" => i \in idToFd
    <2> SUFFICES ASSUME m.type = "QUERY" PROVE ackReceived[At(i)]
      BY <1>1 DEF HasEntry
    <2>1. \A s : Open(s).type = "OPEN"
      BY DEF Open
    <2>2. Head(up[At(i)]) # Open(At(i))
      BY <1>3, <2>1
    <2> QED
      BY <1>1, <1>2, <2>2 DEF Inv, Contents, Content, Fresh, Asking, Answered, Alive
  <1>5. down' = down \/ i \in idToFd'
    BY <1>1, <1>3, <1>4 DEF Handle
  <1>6. idToFd \subseteq idToFd'
    BY <1>1 DEF Handle
  <1>7. \A t \in Processes : t # At(i) => down'[t] = down[t]
    BY <1>1 DEF Handle, Send, Inv, Types
  <1> QED
    BY <1>3, <1>4, <1>5, <1>6, <1>7

\* The controller goes on while no switch has ended.
LEMMA PeaceKept ==
  ASSUME Inv, Untroubled, OneAtATime, HasEntry, Peace, ContStep
  PROVE  /\ cont' # "gone" /\ UNCHANGED <<closed, errno, mainSocket>>
  <1>1. cont # "gone"
    BY DEF ContStep, Poll, Accept, AcceptFails, ReadPacket, ReadClosed, ReadError, ReadAt
  <1>2. CASE Poll
    BY <1>2 DEF Poll
  <1>3. CASE Accept
    <2>1. connq # <<>>
      BY <1>3 DEF Inv, AcceptReady, Accept
    <2>2. Len(pfds) < NumSwitches
      BY <2>1, IndicesSuffice
    <2> QED
      BY <1>3, <2>2 DEF Accept, bufferVars
  <1>4. CASE AcceptFails
    BY <1>4 DEF AcceptFails, Untroubled
  <1>5. ASSUME NEW i \in ready, ReadPacket(i)
        PROVE  cont' # "gone" /\ UNCHANGED <<closed, errno, mainSocket>>
    <2>1. At(i) # NoConn /\ Alive(At(i)) /\ upEnd[At(i)] # "rst"
      BY <1>5, ReadsFind, IdType DEF ReadPacket
    <2>2. ~errno
      BY DEF Untroubled
    <2>3. Continue(ready \ {i}) # "gone"
      BY DEF Continue
    <2>4. buffer'.type = "QUERY" => i \in idToFd
      BY <1>5, ReadEnters
    <2>5. Handle(i, buffer', errno, ready \ {i})
      BY <1>5 DEF ReadPacket
    <2>6. cont' # "gone"
      BY <2>1, <2>2, <2>3, <2>4, <2>5 DEF Handle, Send
    <2> QED
      BY <1>5, <2>6 DEF ReadPacket
  <1>6. ASSUME NEW i \in ready, ReadClosed(i) \/ ReadError(i) PROVE FALSE
    <2>1. /\ At(i) # NoConn /\ up[At(i)] # <<>> /\ upEnd[At(i)] = "open"
      BY <1>6, ReadsFind, IdType DEF ReadClosed, ReadError
    <2> QED
      BY <1>6, <2>1 DEF ReadClosed, ReadError
  <1> QED
    BY <1>2, <1>3, <1>4, <1>5, <1>6 DEF ContStep

\* So do the entries,
LEMMA EntriesKept ==
  ASSUME Inv, Untroubled, OneAtATime, HasEntry, Peace, ContStep, UNCHANGED <<sw, switchVars>>
  PROVE  HasEntry'
  <1> SUFFICES ASSUME NEW k \in DOMAIN pfds', At(k)' # NoConn,
                      ackReceived[At(k)'] \/ down'[At(k)'] # <<>>
               PROVE  k \in idToFd'
    BY DEF HasEntry, switchVars
  <1>1. CASE Poll \/ AcceptFails
    BY <1>1 DEF Poll, AcceptFails, contVars, HasEntry, At
  <1>2. CASE Accept
    <2>1. /\ connq # <<>> /\ UNCHANGED <<idToFd, down>>
      BY <1>2 DEF Inv, AcceptReady, Accept
    <2>2. Len(pfds) < NumSwitches
      BY <2>1, IndicesSuffice
    <2>3. PICK f \in FDs : pfds' = Append(pfds, f) /\ conn[f] = NoConn /\ conn' = [conn EXCEPT ![f] = Head(connq)]
      BY <1>2, <2>2 DEF Accept, Free
    <2>4. /\ Head(connq) \in Processes /\ Head(connq) = connq[1] /\ 1 \in DOMAIN connq
      <3>1. connq \in Seq(Processes)
        BY DEF Inv, Types
      <3> QED
        BY <2>1, <3>1
    <2>5. (k \in DOMAIN pfds /\ pfds'[k] = pfds[k]) \/ pfds'[k] = f
      BY <2>3 DEF Inv, Types
    <2>6. CASE pfds'[k] = f
      <3>1. At(k)' = Head(connq)
        BY <2>3, <2>6 DEF At, Inv, Types
      <3>2. Alive(Head(connq))
        BY <2>4 DEF Inv, Connections, Peace, Ended, Alive, Types
      <3>3. ~ackReceived[Head(connq)] /\ down[Head(connq)] = <<>>
        BY <2>4, <3>2 DEF Inv, Connections
      <3> QED
        BY <2>1, <3>1, <3>3
    <2>7. CASE k \in DOMAIN pfds /\ pfds'[k] = pfds[k] /\ pfds'[k] # f
      <3>1. At(k)' = At(k)
        BY <2>3, <2>7, ConnType DEF At, Inv, Types
      <3> QED
        BY <2>1, <2>7, <3>1 DEF HasEntry
    <2> QED
      BY <2>5, <2>6, <2>7
  <1>3. ASSUME NEW i \in ready, ReadPacket(i) PROVE k \in idToFd'
    <2>1. /\ i \in DOMAIN pfds /\ UNCHANGED <<pfds, conn>> /\ At(k)' = At(k) /\ k \in DOMAIN pfds
      BY <1>3 DEF ReadPacket, Inv, Types, At
    <2>2. /\ down' = down \/ i \in idToFd'
          /\ idToFd \subseteq idToFd' /\ \A t \in Processes : t # At(i) => down'[t] = down[t]
      BY <1>3, ReadEnters
    <2>3. At(k) \in Processes /\ (At(k) = At(i) => k = i)
      BY <2>1, IndicesOwn
    <2> QED
      BY <2>1, <2>2, <2>3 DEF HasEntry
  <1>4. ASSUME NEW i \in ready, ReadClosed(i) \/ ReadError(i) PROVE FALSE
    <2>1. /\ At(i) # NoConn /\ up[At(i)] # <<>> /\ upEnd[At(i)] = "open"
      BY <1>4, ReadsFind, IdType DEF ReadClosed, ReadError
    <2> QED
      BY <1>4, <2>1 DEF ReadClosed, ReadError
  <1> QED
    BY <1>1, <1>2, <1>3, <1>4 DEF ContStep

\* and a switch that starts or goes on has no answer but by its entry.
LEMMA SwitchKeepsEntry ==
  ASSUME Inv, HasEntry, Peace, NEW s \in Processes, UNCHANGED contVars,
         SwitchChange(s) \/ UNCHANGED <<ackReceived, down>>
  PROVE  HasEntry'
  <1>1. UNCHANGED <<pfds, conn, idToFd>>
    BY DEF contVars
  <1>2. CASE UNCHANGED <<ackReceived, down>>
    BY <1>1, <1>2 DEF HasEntry, At
  <1>3. CASE SwitchChange(s)
    <2> SUFFICES ASSUME Peace', NEW k \in DOMAIN pfds, At(k) # NoConn, ackReceived'[At(k)] \/ down'[At(k)] # <<>>
                 PROVE  ackReceived[At(k)] \/ down[At(k)] # <<>>
      BY <1>1 DEF HasEntry, At
    <2>1. At(k) \in Processes
      BY ConnType DEF Inv
    <2>2. sw'[s] = "open"
      BY <1>3 DEF SwitchChange, Peace, Ended
    <2> QED
      BY <1>3, <2>1, <2>2 DEF SwitchChange
  <1> QED
    BY <1>2, <1>3

\* A switch that has ended has ended for good.
LEMMA EndedStays ==
  ASSUME Inv, [Next]_vars
  PROVE  \A s \in Processes : (Ended(s) => Ended(s)') /\ (sw[s] = "off" => sw'[s] = "off" \/ Connect(s))
  <1>1. CASE UNCHANGED sw
    BY <1>1 DEF Ended
  <1>2. ASSUME NEW s \in Processes, Connect(s)
        PROVE  \A t \in Processes : (Ended(t) => Ended(t)') /\ (sw[t] = "off" => sw'[t] = "off" \/ Connect(t))
    BY <1>2 DEF Connect, Ended, Inv, Types
  <1>3. ASSUME NEW s \in Processes, SwitchStep(s) \/ Leave(s), UNCHANGED <<cont, contVars>>
        PROVE  \A t \in Processes : (Ended(t) => Ended(t)') /\ (sw[t] = "off" => sw'[t] = "off" \/ Connect(t))
    <2>1. SwitchChange(s)
      BY <1>3, SwitchStepKeeps
    <2> QED
      BY <2>1 DEF SwitchChange, Ended, Alive
  <1> QED
    BY <1>1, <1>2, <1>3 DEF Next, vars, netVars

\* Programs with one id follow one another.
LEMMA OneAtATimeStep ==
  ASSUME Inv, OneAtATime, [Next]_vars
  PROVE  OneAtATime'
  <1> SUFFICES ASSUME NEW s \in Processes, NEW t \in Processes, s < t, Id(s) = Id(t), sw'[t] # "off"
               PROVE  Ended(s)'
    BY DEF OneAtATime
  <1>1. CASE sw[t] # "off"
    BY <1>1, EndedStays DEF OneAtATime
  <1>2. CASE Connect(t)
    <2>1. s \in 1 .. t - 1
      BY IdType DEF Processes
    <2>2. Ended(s)
      BY <1>2, <2>1 DEF Connect, MayStart
    <2> QED
      BY <2>2, EndedStays
  <1> QED
    BY <1>1, <1>2, EndedStays

\* The controller ends by itself only after a switch has: every switch has an
\* index, each index its own connection, and each read its packet
\* (controller.cpp:63, 222, 314).
THEOREM ControllerStays == Spec => ControllerOutlivesNone
  <1>1. Init => OneAtATime /\ Untroubled /\ HasEntry
    BY DEF Init, NetInit, SwitchInit, ContInit, OneAtATime, Untroubled, HasEntry
  <1>2. Inv /\ OneAtATime /\ Untroubled /\ HasEntry /\ [Next]_vars => OneAtATime' /\ Untroubled' /\ HasEntry'
    <2> SUFFICES ASSUME Inv, OneAtATime, Untroubled, HasEntry, [Next]_vars PROVE Untroubled' /\ HasEntry'
      BY OneAtATimeStep
    <2>1. Peace' => Peace
      BY EndedStays DEF Peace
    <2>2. CASE ~Peace
      BY <2>1, <2>2 DEF Untroubled, HasEntry
    <2>3. CASE Peace /\ ContStep /\ UNCHANGED <<sw, switchVars>>
      BY <2>1, <2>3, PeaceKept, EntriesKept, UntroubledStays
    <2>4. ASSUME UNCHANGED contVars PROVE Untroubled'
      BY <2>1, <2>4, UntroubledStays DEF contVars, bufferVars
    <2>5. CASE Peace /\ UNCHANGED <<contVars, ackReceived, down>>
      <3>1. 1 \in Processes
        BY CountAssumption DEF Processes
      <3> QED
        BY <2>4, <2>5, <3>1, SwitchKeepsEntry
    <2>6. ASSUME Peace, NEW s \in Processes, Connect(s) \/ SwitchStep(s) \/ Leave(s), UNCHANGED <<cont, contVars>>
          PROVE  Untroubled' /\ HasEntry'
      <3>1. CASE Connect(s)
        BY <2>5, <2>6, <3>1 DEF Connect, switchVars
      <3>2. CASE SwitchStep(s) \/ Leave(s)
        BY <2>4, <2>6, <3>2, SwitchStepKeeps, SwitchKeepsEntry
      <3> QED
        BY <2>6, <3>1, <3>2
    <2>7. CASE Peace /\ ContExit /\ UNCHANGED <<sw, switchVars>>
      BY <2>5, <2>7 DEF ContExit, switchVars
    <2>8. CASE Peace /\ UNCHANGED vars
      BY <2>5, <2>8 DEF vars, netVars, switchVars
    <2> QED
      BY <2>2, <2>3, <2>6, <2>7, <2>8 DEF Next
  <1>3. Inv /\ OneAtATime /\ Untroubled /\ HasEntry /\ [Next]_vars =>
          [cont' = "gone" /\ cont \in {"read", "accept"} => \E s \in Processes : Ended(s)]_vars
    <2> SUFFICES ASSUME Inv, OneAtATime, Untroubled, HasEntry, [Next]_vars,
                        cont' = "gone", cont \in {"read", "accept"}, Peace
                 PROVE  FALSE
      BY DEF Peace
    <2>1. CASE ContStep
      BY <2>1, PeaceKept
    <2>2. CASE ContExit
      BY <2>2 DEF ContExit
    <2>3. CASE UNCHANGED cont
      BY <2>3
    <2> QED
      BY <2>1, <2>2, <2>3 DEF Next, vars, netVars
  <1> QED
    BY <1>1, <1>2, <1>3, Invariance, PTL DEF Spec, ControllerOutlivesNone

-----------------------------------------------------------------------------
(* The refinement.                                                          *)

Below == {pair \in Nat \X Nat : pair[1] < pair[2]}

\* Numbers have least elements.
LEMMA BelowWellFounded == IsWellFoundedOn(Below, Nat)
  <1>1. OpToRel(<, Nat) = Below
    BY DEF OpToRel, Below
  <1> QED
    BY <1>1, NatLessThanWellFounded

\* If some rule covers an address there is a first one that does.
LEMMA FirstMatch ==
  ASSUME Types, NEW s \in Processes, NEW d, Match(s, d) = {}, NEW k \in DOMAIN flowTable[s]
  PROVE  d \notin flowTable[s][k].dests
  <1> SUFFICES ASSUME d \in flowTable[s][k].dests PROVE FALSE
    OBVIOUS
  <1> DEFINE Covering == {j \in DOMAIN flowTable[s] : d \in flowTable[s][j].dests}
  <1>1. DOMAIN flowTable[s] = 1 .. Len(flowTable[s]) /\ Len(flowTable[s]) \in Nat
    BY DEF Types
  <1>2. Covering \subseteq Nat /\ Covering # {}
    BY <1>1
  <1>3. PICK j \in Covering : \A i \in Covering : ~ (<<i, j>> \in Below)
    <2> HIDE DEF Covering
    <2> QED
      BY <1>2, BelowWellFounded, WFMin
  <1>4. \A i \in Covering : ~(i < j)
    BY <1>2, <1>3 DEF Below
  <1>5. \A i \in 1 .. j - 1 : d \notin flowTable[s][i].dests
    BY <1>1, <1>4
  <1>6. j \in Match(s, d)
    BY <1>5 DEF Match
  <1> QED
    BY <1>6

\* The two mappings, of one switch.
OffersOf(packets) == {packets[k].rule.dests : k \in {j \in DOMAIN packets : packets[j].type = "ADD"}}
DestsOf(rules) == [k \in DOMAIN rules |-> rules[k].dests]

\* The mapping, one switch at a time.
LEMMA Mapping ==
  /\ Question = [s \in Processes |-> IF addReceived[s] THEN NoQuestion ELSE asked[s]]
  /\ Offers = [s \in Processes |-> OffersOf(down[s])]
  /\ Known = [s \in Processes |-> DestsOf(flowTable[s])]
  BY DEF Question, Offers, Known, OffersOf, DestsOf

\* And after a step.
LEMMA MappingAfter ==
  /\ Question' = [s \in Processes |-> IF addReceived'[s] THEN NoQuestion ELSE asked'[s]]
  /\ Offers' = [s \in Processes |-> OffersOf(down'[s])]
  /\ Known' = [s \in Processes |-> DestsOf(flowTable'[s])]
  BY DEF Question, Offers, Known, OffersOf, DestsOf

\* What is on its way is the rule in the connection.
LEMMA OffersOne ==
  /\ OffersOf(<<>>) = {}
  /\ \A m : OffersOf(<<m>>) = IF m.type = "ADD" THEN {m.rule.dests} ELSE {}
  <1>1. \A m : DOMAIN <<m>> = {1} /\ <<m>>[1] = m
    OBVIOUS
  <1>2. DOMAIN <<>> = {}
    OBVIOUS
  <1> QED
    BY <1>1, <1>2 DEF OffersOf

\* What is left of a flow table without ports and counters,
LEMMA DestsType ==
  ASSUME NEW rules \in Seq(Rules)
  PROVE  /\ DestsOf(rules) \in Seq(SUBSET Addresses) /\ Len(DestsOf(rules)) = Len(rules)
         /\ DOMAIN DestsOf(rules) = DOMAIN rules
         /\ \A k \in DOMAIN rules : DestsOf(rules)[k] = rules[k].dests
  <1>1. DOMAIN rules = 1 .. Len(rules) /\ Len(rules) \in Nat
    OBVIOUS
  <1>2. \A k \in DOMAIN rules : rules[k].dests \in SUBSET Addresses
    <2>1. \A k \in DOMAIN rules : rules[k] \in Rules
      OBVIOUS
    <2> QED
      BY <2>1 DEF Rules
  <1>3. DestsOf(rules) = [k \in 1 .. Len(rules) |-> rules[k].dests]
    BY <1>1 DEF DestsOf
  <1> QED
    BY <1>1, <1>2, <1>3

\* when a rule is added,
LEMMA DestsAppended ==
  ASSUME NEW rules \in Seq(Rules), NEW rule \in Rules
  PROVE  DestsOf(Append(rules, rule)) = Append(DestsOf(rules), rule.dests)
  <1> DEFINE more == Append(rules, rule)
  <1>1. /\ more \in Seq(Rules) /\ Len(rules) \in Nat /\ Len(more) = Len(rules) + 1
        /\ \A k \in 1 .. Len(rules) : more[k] = rules[k]
        /\ more[Len(rules) + 1] = rule /\ DOMAIN rules = 1 .. Len(rules) /\ DOMAIN more = 1 .. Len(rules) + 1
    OBVIOUS
  <1>2. rule.dests \in SUBSET Addresses
    BY DEF Rules
  <1>3. /\ Append(DestsOf(rules), rule.dests) \in Seq(SUBSET Addresses)
        /\ Len(Append(DestsOf(rules), rule.dests)) = Len(rules) + 1
        /\ \A k \in 1 .. Len(rules) : Append(DestsOf(rules), rule.dests)[k] = rules[k].dests
        /\ Append(DestsOf(rules), rule.dests)[Len(rules) + 1] = rule.dests
    BY <1>1, <1>2, DestsType
  <1>4. /\ DestsOf(more) \in Seq(SUBSET Addresses) /\ Len(DestsOf(more)) = Len(rules) + 1
        /\ \A k \in 1 .. Len(rules) + 1 : DestsOf(more)[k] = more[k].dests
    BY <1>1, DestsType
  <1>5. \A k \in 1 .. Len(rules) + 1 : DestsOf(more)[k] = Append(DestsOf(rules), rule.dests)[k]
    BY <1>1, <1>3, <1>4
  <1> QED
    BY <1>1, <1>3, <1>4, <1>5, SeqEqual

\* and when a packet is counted.
LEMMA DestsCounted ==
  ASSUME NEW rules \in Seq(Rules), NEW k \in DOMAIN rules
  PROVE  DestsOf([rules EXCEPT ![k].pktCount = @ + 1]) = DestsOf(rules)
  BY Counted DEF DestsOf

\* A step that asks, offers and adds nothing is none of the service.
LEMMA MappingStays ==
  ASSUME UNCHANGED <<addReceived, asked>>,
         \A s \in Processes : OffersOf(down'[s]) = OffersOf(down[s]),
         \A s \in Processes : DestsOf(flowTable'[s]) = DestsOf(flowTable[s])
  PROVE  UNCHANGED Service!vars
  <1>1. Question' = Question
    BY Mapping, MappingAfter
  <1>2. Offers' = Offers
    BY Mapping, MappingAfter
  <1>3. Known' = Known
    BY Mapping, MappingAfter
  <1> QED
    BY <1>1, <1>2, <1>3 DEF Service!vars

\* The initial states are those of the service.
LEMMA RefinesInit == Init => Service!Init
  <1> SUFFICES ASSUME Init PROVE Service!Init
    OBVIOUS
  <1>1. /\ addReceived = [s \in Processes |-> TRUE] /\ down = [s \in Processes |-> <<>>]
        /\ flowTable = [s \in Processes |-> <<[Rule(IpRange(Id(s)), "FORWARD", 3) EXCEPT !.pktCount = 0]>>]
    BY DEF Init, NetInit, SwitchInit
  <1>2. Question = [s \in Processes |-> NoQuestion]
    BY <1>1, Mapping
  <1>3. Offers = [s \in Processes |-> {}]
    BY <1>1, Mapping, OffersOne
  <1>4. ASSUME NEW s \in Processes PROVE DestsOf(flowTable[s]) = <<IpRange(Id(s))>>
    <2> DEFINE own == [Rule(IpRange(Id(s)), "FORWARD", 3) EXCEPT !.pktCount = 0]
    <2>1. flowTable[s] = <<own>> /\ own.dests = IpRange(Id(s))
      BY <1>1 DEF Rule
    <2>2. DOMAIN <<own>> = {1} /\ <<own>>[1] = own
      OBVIOUS
    <2>3. DestsOf(<<own>>) = [k \in {1} |-> own.dests]
      BY <2>2 DEF DestsOf
    <2>4. <<IpRange(Id(s))>> = [k \in {1} |-> IpRange(Id(s))]
      OBVIOUS
    <2> QED
      BY <2>1, <2>3, <2>4
  <1>5. Known = [s \in Processes |-> <<IpRange(Id(s))>>]
    BY <1>4, Mapping
  <1> QED
    BY <1>2, <1>3, <1>5 DEF Service!Init

\* What the controller sends is an offer, if it is a rule.
LEMMA ReadRefines ==
  ASSUME Inv, NEW i \in ready, Reads(i)
  PROVE  Service!Next \/ UNCHANGED Service!vars
  <1>1. UNCHANGED <<addReceived, asked, flowTable>>
    BY DEF Reads, switchVars
  <1>2. CASE down' = down
    BY <1>1, <1>2, MappingStays
  <1>3. CASE Delivered(i)
    <2> DEFINE s == At(i)
    <2>1. s \in Processes /\ down[s] = <<>>
      BY <1>3 DEF Delivered
    <2>2. PICK m \in Answers :
            /\ down' = [down EXCEPT ![s] = <<m>>]
            /\ m = Ack \/ (m.type = "ADD" /\ ~addReceived[s] /\ Fits(s, m.rule))
      BY <1>3 DEF Delivered
    <2>3. \A t \in Processes : down'[t] = IF t = s THEN <<m>> ELSE down[t]
      BY <2>2 DEF Inv, Types
    <2>4. CASE m.type # "ADD"
      <3>1. \A t \in Processes : OffersOf(down'[t]) = OffersOf(down[t])
        BY <2>1, <2>3, <2>4, OffersOne
      <3> QED
        BY <1>1, <3>1, MappingStays
    <2>5. CASE m.type = "ADD"
      <3>1. ~addReceived[s] /\ Fits(s, m.rule) /\ asked[s] \in Addresses /\ m.rule \in Rules
        BY <2>1, <2>2, <2>5, PacketTypes, AnswerCases DEF Inv, Types
      <3>2. Question' = Question /\ Known' = Known
        BY <1>1, Mapping, MappingAfter
      <3>3. Question[s] = asked[s] /\ Offers[s] = {}
        BY <2>1, <3>1, Mapping, OffersOne
      <3>4. NoQuestion \notin Addresses
        BY AddressType DEF NoQuestion
      <3>5. Offers' = [Offers EXCEPT ![s] = {m.rule.dests}]
        <4>1. \A t \in Processes : OffersOf(down'[t]) = IF t = s THEN {m.rule.dests} ELSE OffersOf(down[t])
          BY <2>3, <2>5, OffersOne
        <4>2. Offers' = [t \in Processes |-> OffersOf(down'[t])]
          BY Mapping, MappingAfter
        <4> QED
          BY <2>1, <4>1, <4>2, Mapping, MappingAfter
      <3>6. m.rule.dests \in SUBSET Addresses
        BY <3>1 DEF Rules
      <3>7. Service!Offer(s)
        BY <3>1, <3>2, <3>3, <3>4, <3>5, <3>6 DEF Service!Offer, Fits
      <3> QED
        BY <2>1, <3>7 DEF Service!Next
    <2> QED
      BY <2>4, <2>5
  <1> QED
    BY <1>2, <1>3 DEF Reads

\* A step of the controller is an offer, or none.
LEMMA ContRefines ==
  ASSUME Inv, ContStep \/ ContExit, UNCHANGED <<sw, switchVars>>
  PROVE  Service!Next \/ UNCHANGED Service!vars
  <1>1. CASE Poll \/ Accept \/ AcceptFails \/ ContExit \/ \E i \in ready : ReadClosed(i)
    <2>1. UNCHANGED <<addReceived, asked, down, flowTable>>
      BY <1>1 DEF Poll, Accept, AcceptFails, ContExit, ReadClosed, switchVars
    <2> QED
      BY <2>1, MappingStays
  <1>2. CASE \E i \in ready : ReadPacket(i) \/ ReadError(i)
    BY <1>2, ReadPacketReads, ReadErrorReads, ReadRefines
  <1> QED
    BY <1>1, <1>2 DEF ContStep

\* A switch asks about what it has no rule for.
LEMMA AdmitRefines ==
  ASSUME Inv, NEW s \in Processes, NEW d \in Addresses, Admit(s, d)
  PROVE  Service!Next \/ UNCHANGED Service!vars
  <1>1. addReceived[s] /\ down' = down /\ Types
    BY DEF Admit, NotWaiting, Inv
  <1>2. CASE AdmitUnknown(s, d)
    <2>1. /\ Match(s, d) = {} /\ addReceived' = [addReceived EXCEPT ![s] = FALSE]
          /\ asked' = [asked EXCEPT ![s] = d] /\ flowTable' = flowTable
      BY <1>2 DEF AdmitUnknown
    <2>2. Question[s] = NoQuestion
      BY <1>1, Mapping, MappingAfter
    <2>3. \A t \in Processes : addReceived'[t] = (IF t = s THEN FALSE ELSE addReceived[t])
      BY <1>1, <2>1 DEF Types
    <2>4. \A t \in Processes : asked'[t] = IF t = s THEN d ELSE asked[t]
      BY <1>1, <2>1 DEF Types
    <2>5. Question' = [Question EXCEPT ![s] = d]
      <3>1. Question' = [t \in Processes |-> IF addReceived'[t] THEN NoQuestion ELSE asked'[t]]
        BY Mapping, MappingAfter
      <3>2. \A t \in Processes : (IF addReceived'[t] THEN NoQuestion ELSE asked'[t])
              = IF t = s THEN d ELSE IF addReceived[t] THEN NoQuestion ELSE asked[t]
        BY <2>3, <2>4
      <3> QED
        BY <3>1, <3>2, Mapping, MappingAfter
    <2>6. Offers' = Offers /\ Known' = Known
      BY <1>1, <2>1, Mapping, MappingAfter
    <2>7. ~Service!Covered(s, d)
      <3> SUFFICES ASSUME NEW k \in DOMAIN Known[s] PROVE d \notin Known[s][k]
        BY DEF Service!Covered
      <3>1. flowTable[s] \in Seq(Rules) /\ Known[s] = DestsOf(flowTable[s])
        BY <1>1, Mapping DEF Types
      <3>2. k \in DOMAIN flowTable[s] /\ Known[s][k] = flowTable[s][k].dests
        BY <3>1, DestsType
      <3> QED
        BY <1>1, <2>1, <3>2, FirstMatch
    <2>8. Service!Ask(s)
      BY <2>2, <2>5, <2>6, <2>7 DEF Service!Ask
    <2> QED
      BY <2>8 DEF Service!Next
  <1>3. CASE AdmitKnown(s, d)
    <2>1. PICK k \in Match(s, d) : flowTable' = [flowTable EXCEPT ![s][k].pktCount = @ + 1]
      BY <1>3 DEF AdmitKnown
    <2>2. flowTable[s] \in Seq(Rules) /\ k \in DOMAIN flowTable[s]
      BY <1>1, <2>1 DEF Types, Match
    <2>3. \A t \in Processes :
            flowTable'[t] = IF t = s THEN [flowTable[s] EXCEPT ![k].pktCount = @ + 1] ELSE flowTable[t]
      BY <1>1, <2>1 DEF Types
    <2>4. \A t \in Processes : DestsOf(flowTable'[t]) = DestsOf(flowTable[t])
      BY <2>2, <2>3, DestsCounted
    <2>5. UNCHANGED <<addReceived, asked>>
      BY <1>3 DEF AdmitKnown
    <2> QED
      BY <1>1, <2>4, <2>5, MappingStays
  <1> QED
    BY <1>2, <1>3 DEF Admit

\* A switch that reads an ADD learns the rule it was offered.
LEMMA ReadAddRefines ==
  ASSUME Inv, NEW s \in Processes, ReadAdd(s)
  PROVE  Service!Next
  <1> DEFINE rule == Head(down[s]).rule
  <1>1. /\ down[s] = <<Head(down[s])>> /\ Head(down[s]).type = "ADD" /\ rule \in Rules
        /\ down' = [down EXCEPT ![s] = <<>>] /\ addReceived' = [addReceived EXCEPT ![s] = TRUE]
        /\ flowTable' = [flowTable EXCEPT ![s] = Append(@, rule)]
    BY ReadAddEffect
  <1>2. Types /\ asked' = asked
    BY DEF Inv, ReadAdd
  <1>3. Offers[s] = {rule.dests}
    <2>1. OffersOf(down[s]) = {rule.dests}
      BY <1>1, OffersOne
    <2> QED
      BY <2>1, Mapping, MappingAfter
  <1>4. Offers' = [Offers EXCEPT ![s] = {}]
    <2>1. \A t \in Processes : OffersOf(down'[t]) = IF t = s THEN {} ELSE OffersOf(down[t])
      BY <1>1, <1>2, OffersOne DEF Types
    <2>2. Offers' = [t \in Processes |-> OffersOf(down'[t])]
      BY Mapping, MappingAfter
    <2> QED
      BY <2>1, <2>2, Mapping, MappingAfter
  <1>5. Question' = [Question EXCEPT ![s] = NoQuestion]
    <2>1. \A t \in Processes : addReceived'[t] = (IF t = s THEN TRUE ELSE addReceived[t])
      BY <1>1, <1>2 DEF Types
    <2>2. Question' = [t \in Processes |-> IF addReceived'[t] THEN NoQuestion ELSE asked[t]]
      BY <1>2, Mapping, MappingAfter
    <2> QED
      BY <2>1, <2>2, Mapping, MappingAfter
  <1>6. Known' = [Known EXCEPT ![s] = Append(@, rule.dests)]
    <2>1. flowTable[s] \in Seq(Rules)
      BY <1>2 DEF Types
    <2>2. \A t \in Processes : flowTable'[t] = IF t = s THEN Append(flowTable[s], rule) ELSE flowTable[t]
      BY <1>1, <1>2 DEF Types
    <2>3. \A t \in Processes :
            DestsOf(flowTable'[t]) = IF t = s THEN Append(DestsOf(flowTable[s]), rule.dests) ELSE DestsOf(flowTable[t])
      <3>1. DestsOf(Append(flowTable[s], rule)) = Append(DestsOf(flowTable[s]), rule.dests)
        BY <1>1, <2>1, DestsAppended
      <3> QED
        BY <2>2, <3>1
    <2>4. Known' = [t \in Processes |-> DestsOf(flowTable'[t])]
      BY Mapping, MappingAfter
    <2> QED
      BY <2>3, <2>4, Mapping, MappingAfter
  <1>7. Service!Learn(s)
    BY <1>3, <1>4, <1>5, <1>6 DEF Service!Learn
  <1> QED
    BY <1>7 DEF Service!Next

\* A step of a switch asks, learns, or is none.
LEMMA SwitchRefines ==
  ASSUME Inv, NEW s \in Processes, Connect(s) \/ SwitchStep(s) \/ Leave(s)
  PROVE  Service!Next \/ UNCHANGED Service!vars
  <1>1. CASE \/ Connect(s) \/ SendOpen(s) \/ MakeFifo(s) \/ ControllerGone(s) \/ Leave(s)
             \/ \E p \in Ports : ReadRelay(s, p)
    <2>1. UNCHANGED <<addReceived, asked, down, flowTable>>
      BY <1>1 DEF Connect, SendOpen, MakeFifo, ControllerGone, Leave, ReadRelay, switchVars
    <2> QED
      BY <2>1, MappingStays
  <1>2. CASE ReadAck(s)
    <2>1. down[s] # <<>> /\ Head(down[s]).type = "ACK" /\ down' = [down EXCEPT ![s] = <<>>]
      BY <1>2 DEF ReadAck, ReadSocket
    <2>2. UNCHANGED <<addReceived, asked, flowTable>>
      BY <1>2 DEF ReadAck
    <2>3. down[s] = <<Head(down[s])>>
      BY <2>1, OneAtMost DEF Inv, Types
    <2>4. OffersOf(down[s]) = {}
      BY <2>1, <2>3, OffersOne
    <2>5. \A t \in Processes : OffersOf(down'[t]) = OffersOf(down[t])
      BY <2>1, <2>4, OffersOne DEF Inv, Types
    <2> QED
      BY <2>2, <2>5, MappingStays
  <1>3. CASE ReadAdd(s)
    BY <1>3, ReadAddRefines
  <1>4. CASE \E d \in Addresses : Admit(s, d)
    BY <1>4, AdmitRefines
  <1> QED
    BY <1>1, <1>2, <1>3, <1>4 DEF SwitchStep

\* A step of the network is one of the service, or none.
LEMMA StepService == Inv /\ [Next]_vars => [Service!Next]_(Service!vars)
  <1> SUFFICES ASSUME Inv, [Next]_vars PROVE Service!Next \/ UNCHANGED Service!vars
    OBVIOUS
  <1>1. CASE (ContStep \/ ContExit) /\ UNCHANGED <<sw, switchVars>>
    BY <1>1, ContRefines
  <1>2. CASE \E s \in Processes : Connect(s) \/ SwitchStep(s) \/ Leave(s)
    BY <1>2, SwitchRefines
  <1>3. CASE UNCHANGED vars
    BY <1>3, MappingStays DEF vars, netVars, switchVars
  <1> QED
    BY <1>1, <1>2, <1>3 DEF Next

\* The controller and the switches are the abstract rule service
\* (controller.cpp:222-296, switch.cpp:358-394, 482-512).
THEOREM Refinement == Spec => ImplementsRules
  BY StepService, RefinesInit, Invariance, PTL DEF Spec, ImplementsRules, Service!Spec

-----------------------------------------------------------------------------
(* What follows for the tables.                                             *)

\* A question is about what no rule covers, and a rule on its way covers it.
RuleInv ==
  /\ Service!EachNew
  /\ \A s \in Processes : Question[s] # NoQuestion =>
       \A k \in DOMAIN Known[s] : Question[s] \notin Known[s][k]
  /\ \A s \in Processes : \A rule \in Offers[s] : Question[s] # NoQuestion /\ Question[s] \in rule

\* The flow tables, which are never cleared, have no more rules than there are
\* addresses: a question is not asked again once its rule is there, however the
\* rules overlap (switch.cpp:358-394, 497-512).
TableBounded == \A s \in Processes : Len(flowTable[s]) <= Cardinality(Addresses)

\* What the service knows has its types.
LEMMA ServiceTypes ==
  Types => /\ Known \in [Processes -> Seq(SUBSET Addresses)]
           /\ Question \in [Processes -> Int] /\ Offers = [s \in Processes |-> Offers[s]]
           /\ \A s \in Processes :
                /\ Known[s] \in Seq(SUBSET Addresses) /\ Len(Known[s]) = Len(flowTable[s])
                /\ DOMAIN Known[s] = 1 .. Len(Known[s])
  <1> SUFFICES ASSUME Types
               PROVE  /\ Known \in [Processes -> Seq(SUBSET Addresses)]
                      /\ Question \in [Processes -> Int] /\ Offers = [s \in Processes |-> Offers[s]]
                      /\ \A s \in Processes :
                           /\ Known[s] \in Seq(SUBSET Addresses) /\ Len(Known[s]) = Len(flowTable[s])
                           /\ DOMAIN Known[s] = 1 .. Len(Known[s])
    OBVIOUS
  <1>1. ASSUME NEW s \in Processes
        PROVE  /\ DestsOf(flowTable[s]) \in Seq(SUBSET Addresses)
               /\ Len(DestsOf(flowTable[s])) = Len(flowTable[s])
               /\ DOMAIN DestsOf(flowTable[s]) = 1 .. Len(DestsOf(flowTable[s]))
    <2>1. flowTable[s] \in Seq(Rules)
      BY DEF Types
    <2>2. /\ DestsOf(flowTable[s]) \in Seq(SUBSET Addresses)
          /\ Len(DestsOf(flowTable[s])) = Len(flowTable[s])
      BY <2>1, DestsType
    <2> QED
      BY <2>2, LenProperties
  <1>2. Known \in [Processes -> Seq(SUBSET Addresses)]
    BY <1>1, Mapping
  <1>3. Question \in [Processes -> Int]
    <2>1. asked \in [Processes -> Addresses] /\ addReceived \in [Processes -> BOOLEAN]
      BY DEF Types
    <2>2. Addresses \subseteq Int /\ NoQuestion \in Int
      BY AddressType DEF NoQuestion
    <2>3. \A s \in Processes : (IF addReceived[s] THEN NoQuestion ELSE asked[s]) \in Int
      BY <2>1, <2>2
    <2> QED
      BY <2>3, Mapping
  <1>4. Offers = [s \in Processes |-> Offers[s]]
    BY Mapping
  <1> QED
    BY <1>1, <1>2, <1>3, <1>4, Mapping

\* As do the tables after a step.
LEMMA KnownTypeAfter == Types' => (\A s \in Processes : Known[s] \in Seq(SUBSET Addresses))'
  <1>1. Types => \A s \in Processes : Known[s] \in Seq(SUBSET Addresses)
    BY ServiceTypes
  <1> QED
    BY <1>1, PTL

\* The service adds no rule that is not needed.
LEMMA RuleStep ==
  ASSUME ThreeDigits, Types, Types', RuleInv, [Service!Next]_(Service!vars)
  PROVE  RuleInv'
  <1>1. /\ Known \in [Processes -> Seq(SUBSET Addresses)] /\ Question \in [Processes -> Int]
        /\ Offers = [s \in Processes |-> Offers[s]]
        /\ \A s \in Processes : Known[s] \in Seq(SUBSET Addresses) /\ DOMAIN Known[s] = 1 .. Len(Known[s])
    BY ServiceTypes
  <1>2. /\ \A s \in Processes : \A k \in DOMAIN Known[s] :
             \E d \in Known[s][k] : \A j \in 1 .. k - 1 : d \notin Known[s][j]
        /\ \A s \in Processes : Question[s] # NoQuestion =>
             \A k \in DOMAIN Known[s] : Question[s] \notin Known[s][k]
        /\ \A s \in Processes : \A rule \in Offers[s] : Question[s] # NoQuestion /\ Question[s] \in rule
    BY DEF RuleInv, Service!EachNew
  <1>3. ASSUME NEW a \in Processes, Service!Ask(a) PROVE RuleInv'
    <2>1. PICK d \in Addresses :
            /\ ~Service!Covered(a, d) /\ Question' = [Question EXCEPT ![a] = d]
            /\ Question[a] = NoQuestion /\ Offers' = Offers /\ Known' = Known
      BY <1>3 DEF Service!Ask
    <2>2. \A k \in DOMAIN Known[a] : d \notin Known[a][k]
      BY <2>1 DEF Service!Covered
    <2>3. Question'[a] = d /\ \A s \in Processes \ {a} : Question'[s] = Question[s]
      BY <1>1, <2>1
    <2>4. Offers[a] = {}
      BY <1>2, <2>1
    <2> QED
      BY <1>2, <2>1, <2>2, <2>3, <2>4 DEF RuleInv, Service!EachNew
  <1>4. ASSUME NEW a \in Processes, Service!Offer(a) PROVE RuleInv'
    <2>1. PICK rule \in SUBSET Addresses :
            /\ Heard[Question[a]] \cap rule # {} /\ Offers' = [Offers EXCEPT ![a] = {rule}]
            /\ Question[a] # NoQuestion /\ Question' = Question /\ Known' = Known
      BY <1>4 DEF Service!Offer
    <2>3. Question[a] \in Addresses
      BY <2>1, Mapping DEF Types
    <2>4. Question[a] \in rule
      BY <2>1, <2>3, HeardRight
    <2>2. Offers'[a] = {rule} /\ \A s \in Processes \ {a} : Offers'[s] = Offers[s]
      BY <1>1, <2>1
    <2> QED
      BY <1>2, <2>1, <2>2, <2>4 DEF RuleInv, Service!EachNew
  <1>5. ASSUME NEW a \in Processes, Service!Learn(a) PROVE RuleInv'
    <2>1. PICK rule \in Offers[a] :
            /\ Known' = [Known EXCEPT ![a] = Append(@, rule)]
            /\ Question' = [Question EXCEPT ![a] = NoQuestion] /\ Offers' = [Offers EXCEPT ![a] = {}]
      BY <1>5 DEF Service!Learn
    <2>2. /\ Question'[a] = NoQuestion /\ Offers'[a] = {} /\ Known'[a] = Append(Known[a], rule)
          /\ \A s \in Processes \ {a} :
               Question'[s] = Question[s] /\ Offers'[s] = Offers[s] /\ Known'[s] = Known[s]
      BY <1>1, <2>1
    <2>3. Question[a] \in rule /\ \A k \in DOMAIN Known[a] : Question[a] \notin Known[a][k]
      BY <1>2, <2>1
    <2>4. /\ Len(Known[a]) \in Nat /\ DOMAIN Known[a] = 1 .. Len(Known[a])
          /\ DOMAIN Known'[a] = 1 .. Len(Known[a]) + 1
          /\ \A j \in DOMAIN Known[a] : Known'[a][j] = Known[a][j]
          /\ Known'[a][Len(Known[a]) + 1] = rule
      <3>1. Known[a] \in Seq(SUBSET Addresses) /\ Known'[a] \in Seq(SUBSET Addresses)
        BY <1>1, KnownTypeAfter
      <3> QED
        BY <2>2, <3>1, LenProperties
    <2>5. ASSUME NEW k \in DOMAIN Known'[a]
          PROVE  \E d \in Known'[a][k] : \A j \in 1 .. k - 1 : d \notin Known'[a][j]
      <3>1. CASE k \in DOMAIN Known[a]
        <4>1. \A j \in 1 .. k - 1 : j \in DOMAIN Known[a]
          BY <2>4, <3>1
        <4> QED
          BY <1>2, <2>4, <3>1, <4>1
      <3>2. CASE k = Len(Known[a]) + 1
        <4>1. \A j \in 1 .. k - 1 : j \in DOMAIN Known[a]
          BY <2>4, <3>2
        <4> QED
          BY <2>3, <2>4, <3>2, <4>1
      <3> QED
        BY <2>4, <3>1, <3>2
    <2>6. Service!EachNew'
      BY <1>2, <2>2, <2>5 DEF Service!EachNew
    <2> QED
      BY <1>2, <2>2, <2>6 DEF RuleInv
  <1>6. CASE UNCHANGED Service!vars
    BY <1>2, <1>6 DEF Service!vars, RuleInv, Service!EachNew
  <1> QED
    BY <1>3, <1>4, <1>5, <1>6 DEF Service!Next

\* A table whose rules each cover something new is not longer than there are
\* addresses.
LEMMA NewBounded ==
  ASSUME Types, RuleInv
  PROVE  TableBounded
  <1> SUFFICES ASSUME NEW s \in Processes PROVE Len(flowTable[s]) <= Cardinality(Addresses)
    BY DEF TableBounded
  <1> DEFINE n == Len(Known[s])
             New(k) == CHOOSE d \in Known[s][k] : \A j \in 1 .. k - 1 : d \notin Known[s][j]
             f == [k \in 1 .. n |-> New(k)]
  <1>1. /\ n = Len(flowTable[s]) /\ n \in Nat /\ DOMAIN Known[s] = 1 .. n
        /\ \A k \in 1 .. n : Known[s][k] \in SUBSET Addresses
    BY ServiceTypes
  <1>2. \A k \in 1 .. n : /\ New(k) \in Known[s][k]
                          /\ \A j \in 1 .. k - 1 : New(k) \notin Known[s][j]
    BY <1>1 DEF RuleInv, Service!EachNew
  <1>3. IsFiniteSet(Addresses)
    <2>1. MaxIp \in Nat
      BY DEF MaxIp
    <2> QED
      BY <2>1, AddressType, FS_BoundedSetOfNaturals
  <1>4. f \in Injection(1 .. n, Addresses)
    <2>1. f \in [1 .. n -> Addresses]
      BY <1>1, <1>2
    <2>2. ASSUME NEW j \in 1 .. n, NEW k \in 1 .. n, f[j] = f[k] PROVE j = k
      <3>1. New(j) = New(k)
        BY <2>2
      <3>2. j \in Int /\ k \in Int /\ (j < k => j \in 1 .. k - 1) /\ (k < j => k \in 1 .. j - 1)
        BY <1>1
      <3> HIDE DEF New
      <3> QED
        BY <1>2, <3>1, <3>2
    <2> QED
      BY <2>1, <2>2 DEF Injection, IsInjective
  <1>5. Cardinality(1 .. n) <= Cardinality(Addresses)
    BY <1>3, <1>4, FS_Injection
  <1>6. Cardinality(1 .. n) = n
    <2>1. 1 \in Int /\ n \in Int
      BY <1>1
    <2>2. Cardinality(1 .. n) = IF 1 > n THEN 0 ELSE n - 1 + 1
      BY <2>1, FS_Interval
    <2> QED
      BY <1>1, <2>2
  <1> QED
    BY <1>1, <1>5, <1>6

\* With addresses of three digits every rule of a switch is needed for some
\* address, so that its table, of which nothing is ever removed, stays within
\* the number of addresses (switch.cpp:358-394, 482-512).
THEOREM TablesBounded ==
  ASSUME ThreeDigits
  PROVE  Spec => [](Service!EachNew /\ TableBounded)
  <1>1. Init => RuleInv
    <2> SUFFICES ASSUME Init PROVE RuleInv
      OBVIOUS
    <2>1. /\ Question = [s \in Processes |-> NoQuestion] /\ Offers = [s \in Processes |-> {}]
          /\ Known = [s \in Processes |-> <<IpRange(Id(s))>>]
      BY RefinesInit DEF Service!Init
    <2>2. \A s \in Processes :
            /\ DOMAIN Known[s] = {1} /\ Known[s][1] = IpRange(Id(s))
            /\ \E d \in Known[s][1] : TRUE
      <3>1. ASSUME NEW s \in Processes PROVE Low[Id(s)] \in IpRange(Id(s))
        <4>1. Id(s) \in Switches
          BY IdType
        <4>2. Low[Id(s)] \in Addresses /\ Low[Id(s)] <= High[Id(s)]
          BY <4>1, AddressAssumption
        <4>3. Low[Id(s)] \in Nat
          BY <4>2, AddressType
        <4> QED
          BY <4>2, <4>3 DEF IpRange, Between
      <3> QED
        BY <2>1, <3>1
    <2>3. Service!EachNew
      BY <2>2 DEF Service!EachNew
    <2> QED
      BY <2>1, <2>3 DEF RuleInv
  <1>2. Inv /\ Inv' /\ RuleInv /\ [Next]_vars => RuleInv'
    BY StepService, RuleStep DEF Inv
  <1>3. Inv /\ RuleInv => Service!EachNew /\ TableBounded
    BY NewBounded DEF Inv, RuleInv
  <1> QED
    BY <1>1, <1>2, <1>3, Invariance, PTL DEF Spec

-----------------------------------------------------------------------------
(* What is written to a switch, and what its rules count.                   *)

\* An ACK, or the rule for some address, is written at index i.
Writes(i) ==
  /\ cont = "read" /\ i \in DOMAIN pfds /\ i \notin closed /\ At(i) \in Processes
  /\ \E m \in Answers :
       /\ m = Ack \/ \E d \in Addresses : m = Add(Answer(i, d))
       /\ down' = [down EXCEPT ![At(i)] = Append(@, m)]

\* What is handled is answered with one of these.
LEMMA HandleWrites ==
  ASSUME Types, cont = "read", NEW i \in DOMAIN pfds, NEW packet \in Parsings \cup {Nothing},
         NEW failed \in BOOLEAN, NEW rest, Handle(i, packet, failed, rest)
  PROVE  down' = down \/ Writes(i)
  <1>1. CASE packet.type = "OPEN"
    <2>1. Send(i, At(i), Ack, failed, rest) /\ Ack \in Answers
      BY <1>1, PacketTypes DEF Handle
    <2>2. \/ down' = down
          \/ At(i) # NoConn /\ i \notin closed /\ down' = [down EXCEPT ![At(i)] = Append(@, Ack)]
      BY <2>1 DEF Send
    <2> QED
      BY <2>1, <2>2, ConnType DEF Writes
  <1>2. CASE packet.type = "QUERY" /\ packet.last <= MaxIp
    <2>1. packet.last \in Addresses
      <3>1. packet.last \in Addresses \cup {TooHigh}
        BY <1>2, PacketTypes DEF Parsings
      <3> QED
        BY <1>2, <3>1 DEF TooHigh, MaxIp
    <2> DEFINE m == Add(Answer(i, packet.last))
               s == IF i \in idToFd THEN At(i) ELSE NoConn
    <2>2. Send(i, s, m, failed, rest)
      BY <1>2 DEF Handle
    <2>3. m \in Answers
      BY <2>1, AnswerCovers, PacketTypes
    <2>4. down' = down \/ (s # NoConn /\ i \notin closed /\ down' = [down EXCEPT ![s] = Append(@, m)])
      <3> HIDE DEF m, s
      <3> QED
        BY <2>2 DEF Send
    <2> QED
      BY <2>1, <2>3, <2>4, ConnType DEF Writes
  <1>3. CASE packet.type # "OPEN" /\ ~(packet.type = "QUERY" /\ packet.last <= MaxIp)
    BY <1>3 DEF Handle
  <1> QED
    BY <1>1, <1>2, <1>3

\* The controller writes in a read only.
LEMMA ContWrites ==
  ASSUME Inv, ContStep \/ ContExit
  PROVE  down' = down \/ \E i \in ready : Writes(i)
  <1>1. CASE Poll \/ Accept \/ AcceptFails \/ ContExit \/ \E i \in ready : ReadClosed(i)
    BY <1>1 DEF Poll, Accept, AcceptFails, ContExit, ReadClosed
  <1>2. ASSUME NEW i \in ready, ReadPacket(i) PROVE down' = down \/ Writes(i)
    <2>1. buffer' \in Parsings /\ i \in DOMAIN pfds /\ cont = "read" /\ Types /\ errno \in BOOLEAN
      BY <1>2, ReadPacketDelivers DEF Inv, Types, ReadPacket, ReadAt
    <2>2. Handle(i, buffer', errno, ready \ {i})
      BY <1>2 DEF ReadPacket
    <2> QED
      BY <2>1, <2>2, HandleWrites
  <1>3. ASSUME NEW i \in ready, ReadError(i) PROVE down' = down \/ Writes(i)
    <2>1. buffer \in Parsings \cup {Nothing} /\ i \in DOMAIN pfds /\ cont = "read" /\ Types
      BY <1>3 DEF Inv, Types, ReadError, ReadAt
    <2>2. Handle(i, buffer, TRUE, ready \ {i})
      BY <1>3 DEF ReadError
    <2> QED
      BY <2>1, <2>2, HandleWrites
  <1> QED
    BY <1>1, <1>2, <1>3 DEF ContStep

\* What is under way to a switch was, or is what is written now.
LEMMA DownKinds ==
  ASSUME Inv, [Next]_vars, NEW s \in Processes, NEW k \in DOMAIN down'[s]
  PROVE  \/ k \in DOMAIN down[s] /\ down'[s][k] = down[s][k]
         \/ /\ cont = "read"
            /\ \E i \in DOMAIN pfds \ closed :
                 /\ At(i) = s
                 /\ down'[s][k] = Ack \/ \E d \in Addresses : down'[s][k] = Add(Answer(i, d))
  <1>1. CASE down' = down
    BY <1>1
  <1>2. ASSUME NEW i \in ready, Writes(i)
        PROVE  \/ k \in DOMAIN down[s] /\ down'[s][k] = down[s][k]
               \/ /\ cont = "read"
                  /\ \E j \in DOMAIN pfds \ closed :
                       /\ At(j) = s
                       /\ down'[s][k] = Ack \/ \E d \in Addresses : down'[s][k] = Add(Answer(j, d))
    <2>1. PICK m \in Answers :
            /\ m = Ack \/ \E d \in Addresses : m = Add(Answer(i, d))
            /\ down' = [down EXCEPT ![At(i)] = Append(@, m)]
      BY <1>2 DEF Writes
    <2>2. down \in [Processes -> AtMostOne(Answers)] /\ down[s] \in AtMostOne(Answers)
      BY DEF Inv, Types
    <2>3. CASE At(i) # s
      BY <2>1, <2>2, <2>3
    <2>4. CASE At(i) = s
      <3>1. down'[s] = Append(down[s], m)
        BY <2>1, <2>2, <2>4
      <3>2. down[s] \in Seq(Answers)
        <4>1. CASE down[s] = <<>>
          BY <4>1
        <4>2. CASE down[s] # <<>>
          <5>1. PICK a \in Answers : down[s] = <<a>>
            BY <2>2, <4>2 DEF AtMostOne
          <5>2. <<a>> \in Seq(Answers)
            OBVIOUS
          <5> QED
            BY <5>1, <5>2
        <4> QED
          BY <4>1, <4>2
      <3>3. (k \in DOMAIN down[s] /\ down'[s][k] = down[s][k]) \/ down'[s][k] = m
        BY <3>1, <3>2
      <3> QED
        BY <1>2, <2>1, <2>4, <3>3 DEF Writes
    <2> QED
      BY <2>3, <2>4
  <1>3. ASSUME NEW t \in Processes, down' = [down EXCEPT ![t] = <<>>]
        PROVE  k \in DOMAIN down[s] /\ down'[s][k] = down[s][k]
    <2>1. down'[s] = down[s] \/ down'[s] = <<>>
      BY <1>3 DEF Inv, Types
    <2> QED
      BY <2>1
  <1>4. CASE ContStep \/ ContExit
    BY <1>1, <1>2, <1>4, ContWrites
  <1>5. ASSUME NEW t \in Processes, Connect(t) \/ SwitchStep(t) \/ Leave(t)
        PROVE  down' = down \/ down' = [down EXCEPT ![t] = <<>>]
    BY <1>5 DEF Connect, SwitchStep, Leave, SendOpen, MakeFifo, Admit, ReadAck, ReadAdd, ReadSocket,
      ControllerGone, ReadRelay
  <1>6. CASE UNCHANGED vars
    BY <1>1, <1>6 DEF vars, netVars
  <1> QED
    BY <1>1, <1>3, <1>4, <1>5, <1>6 DEF Next

\* Every step but an admission and the reading of an ADD leaves the rules and
\* what they count.
LEMMA RuleKinds ==
  ASSUME [Next]_vars
  PROVE  \/ UNCHANGED <<flowTable, admit, addReceived>>
         \/ \E s \in Processes : ReadAdd(s) \/ \E d \in Addresses : Admit(s, d)
  <1>1. UNCHANGED switchVars => UNCHANGED <<flowTable, admit, addReceived>>
    BY DEF switchVars
  <1>2. ASSUME NEW s \in Processes, SwitchStep(s)
        PROVE  \/ UNCHANGED <<flowTable, admit, addReceived>>
               \/ ReadAdd(s) \/ \E d \in Addresses : Admit(s, d)
    <2>1. CASE SendOpen(s) \/ MakeFifo(s) \/ ControllerGone(s)
      <3>1. UNCHANGED switchVars
        BY <2>1 DEF SendOpen, MakeFifo, ControllerGone
      <3> QED
        BY <1>1, <3>1
    <2>2. CASE ReadAck(s) \/ \E p \in Ports : ReadRelay(s, p)
      BY <2>2 DEF ReadAck, ReadRelay
    <2> QED
      BY <1>2, <2>1, <2>2 DEF SwitchStep
  <1>3. ASSUME NEW s \in Processes, Connect(s) \/ Leave(s) PROVE UNCHANGED switchVars
    BY <1>3 DEF Connect, Leave
  <1>4. CASE UNCHANGED vars
    BY <1>1, <1>4 DEF vars
  <1> QED
    BY <1>1, <1>2, <1>3, <1>4 DEF Next

\* What the rules of a switch have counted.
CountedBy(s) == Total(PktCounts(flowTable[s]))

\* A rule on its way counts the packet that waits for it.
CountsInv ==
  /\ \A s \in Processes : \A k \in DOMAIN down[s] :
       down[s][k].type = "ADD" => down[s][k].rule.pktCount = 1
  /\ admit \in [Processes -> Nat]
  /\ \A s \in Processes : admit[s] = CountedBy(s) + (IF addReceived[s] THEN 0 ELSE 1)

\* Rules count in numbers.
LEMMA RulesCount ==
  /\ \A rule \in Rules : rule.pktCount \in Nat
  /\ Types => \A s \in Processes : CountedBy(s) \in Nat /\ flowTable[s] \in Seq(Rules)
  <1>1. \A rule \in Rules : rule.pktCount \in Nat
    BY DEF Rules
  <1>2. ASSUME Types, NEW s \in Processes PROVE CountedBy(s) \in Nat /\ flowTable[s] \in Seq(Rules)
    <2>1. flowTable[s] \in Seq(Rules)
      BY <1>2 DEF Types
    <2> QED
      BY <1>1, <2>1, PktTotal DEF CountedBy
  <1> QED
    BY <1>1, <1>2

\* The rule of an answer has counted one packet.
LEMMA AnswerCounts == ASSUME NEW i, NEW d PROVE Answer(i, d).pktCount = 1
  BY DEF Answer, Rule

\* A packet that is admitted is counted or waits.
LEMMA AdmitAccounts ==
  ASSUME Inv, CountsInv, NEW s \in Processes, NEW d \in Addresses, Admit(s, d)
  PROVE  /\ admit' \in [Processes -> Nat]
         /\ \A t \in Processes : admit'[t] = CountedBy(t)' + (IF addReceived'[t] THEN 0 ELSE 1)
  <1>1. /\ addReceived[s] /\ admit' = [admit EXCEPT ![s] = @ + 1] /\ admit \in [Processes -> Nat] /\ Types
    BY DEF Admit, NotWaiting, CountsInv, Inv
  <1>2. /\ admit' \in [Processes -> Nat] /\ admit'[s] = admit[s] + 1
        /\ \A t \in Processes \ {s} : admit'[t] = admit[t]
    BY <1>1
  <1>3. \A t \in Processes : /\ CountedBy(t) \in Nat /\ admit[t] \in Nat
                             /\ admit[t] = CountedBy(t) + (IF addReceived[t] THEN 0 ELSE 1)
    BY <1>1, RulesCount DEF CountsInv
  <1>4. CASE AdmitUnknown(s, d)
    <2>1. flowTable' = flowTable /\ addReceived' = [addReceived EXCEPT ![s] = FALSE]
      BY <1>4 DEF AdmitUnknown
    <2>2. ~addReceived'[s] /\ \A t \in Processes \ {s} : addReceived'[t] = addReceived[t]
      BY <1>1, <2>1 DEF Types
    <2>3. \A t \in Processes : CountedBy(t)' = CountedBy(t)
      BY <2>1 DEF CountedBy
    <2> QED
      BY <1>1, <1>2, <1>3, <2>2, <2>3
  <1>5. CASE AdmitKnown(s, d)
    <2>1. PICK k \in Match(s, d) : flowTable' = [flowTable EXCEPT ![s][k].pktCount = @ + 1]
      BY <1>5 DEF AdmitKnown
    <2> DEFINE table == flowTable[s]
               counting == [table EXCEPT ![k].pktCount = @ + 1]
    <2>2. table \in Seq(Rules) /\ k \in DOMAIN table
      BY <1>1, <2>1 DEF Types, Match
    <2>3. "pktCount" \in DOMAIN table[k]
      <3>1. table[k] \in Rules
        BY <2>2
      <3> QED
        BY <3>1 DEF Rules
    <2>4. Total(PktCounts(counting)) = Total(PktCounts(table)) + 1
      <3> HIDE DEF table
      <3> QED
        BY <2>2, <2>3, RulesCount, PktRaised
    <2>5. flowTable' = [flowTable EXCEPT ![s] = counting]
      BY <2>1
    <2>6. flowTable'[s] = counting /\ \A t \in Processes \ {s} : flowTable'[t] = flowTable[t]
      BY <1>1, <2>5 DEF Types
    <2>7. CountedBy(s)' = CountedBy(s) + 1 /\ \A t \in Processes \ {s} : CountedBy(t)' = CountedBy(t)
      BY <2>4, <2>6 DEF CountedBy
    <2>8. addReceived' = addReceived
      BY <1>5 DEF AdmitKnown
    <2> QED
      BY <1>1, <1>2, <1>3, <2>7, <2>8
  <1> QED
    BY <1>4, <1>5 DEF Admit

\* The packet that waited is counted by the rule that comes.
LEMMA ReadAddAccounts ==
  ASSUME Inv, CountsInv, NEW s \in Processes, ReadAdd(s)
  PROVE  /\ admit' \in [Processes -> Nat]
         /\ \A t \in Processes : admit'[t] = CountedBy(t)' + (IF addReceived'[t] THEN 0 ELSE 1)
  <1>1. PICK rule \in Rules : rule = Head(down[s]).rule
    BY ReadAddEffect
  <1>2. /\ ~addReceived[s] /\ addReceived' = [addReceived EXCEPT ![s] = TRUE] /\ Types
        /\ flowTable' = [flowTable EXCEPT ![s] = Append(@, rule)] /\ admit' = admit
    BY <1>1, ReadAddEffect DEF ReadAdd, Inv
  <1>3. rule.pktCount = 1
    <2>1. /\ down[s] = <<Head(down[s])>> /\ Head(down[s]).type = "ADD"
      BY ReadAddEffect
    <2>2. 1 \in DOMAIN down[s] /\ down[s][1] = Head(down[s])
      BY <2>1
    <2> QED
      BY <1>1, <2>1, <2>2 DEF CountsInv
  <1>4. /\ addReceived'[s] /\ flowTable'[s] = Append(flowTable[s], rule)
        /\ \A t \in Processes \ {s} : addReceived'[t] = addReceived[t] /\ flowTable'[t] = flowTable[t]
    BY <1>2 DEF Types
  <1>5. CountedBy(s)' = CountedBy(s) + 1 /\ \A t \in Processes \ {s} : CountedBy(t)' = CountedBy(t)
    BY <1>2, <1>3, <1>4, RulesCount, PktAdded DEF CountedBy
  <1>6. \A t \in Processes : /\ CountedBy(t) \in Nat /\ admit[t] \in Nat
                             /\ admit[t] = CountedBy(t) + (IF addReceived[t] THEN 0 ELSE 1)
    BY <1>2, RulesCount DEF CountsInv
  <1>7. admit' \in [Processes -> Nat]
    BY <1>2 DEF CountsInv
  <1> QED
    BY <1>2, <1>4, <1>5, <1>6, <1>7

\* Every step keeps the account.
LEMMA CountsStep == Inv /\ CountsInv /\ [Next]_vars => CountsInv'
  <1> SUFFICES ASSUME Inv, CountsInv, [Next]_vars PROVE CountsInv'
    OBVIOUS
  <1>1. ASSUME NEW s \in Processes, NEW k \in DOMAIN down'[s], down'[s][k].type = "ADD"
        PROVE  down'[s][k].rule.pktCount = 1
    <2>1. CASE k \in DOMAIN down[s] /\ down'[s][k] = down[s][k]
      BY <1>1, <2>1 DEF CountsInv
    <2>2. CASE ~(k \in DOMAIN down[s] /\ down'[s][k] = down[s][k])
      <3>1. down'[s][k] = Ack \/ \E i, d : down'[s][k] = Add(Answer(i, d))
        BY <2>2, DownKinds
      <3>2. PICK i, d : down'[s][k] = Add(Answer(i, d))
        BY <1>1, <3>1 DEF Ack
      <3> QED
        BY <3>2, AnswerCounts DEF Add
    <2> QED
      BY <2>1, <2>2
  <1>2. /\ admit' \in [Processes -> Nat]
        /\ \A s \in Processes : admit'[s] = CountedBy(s)' + (IF addReceived'[s] THEN 0 ELSE 1)
    <2>1. CASE UNCHANGED <<flowTable, admit, addReceived>>
      BY <2>1 DEF CountsInv, CountedBy
    <2> QED
      BY <2>1, RuleKinds, AdmitAccounts, ReadAddAccounts
  <1> QED
    BY <1>1, <1>2 DEF CountsInv

\* A switch has admitted what its rules count and the packet that waits for its
\* rule (switch.cpp:336-394, 482-512).
THEOREM AllAccounted == Spec => []PacketsAccounted
  <1>1. Init => CountsInv
    <2> SUFFICES ASSUME Init PROVE CountsInv
      OBVIOUS
    <2>1. \A s \in Processes : /\ flowTable[s] = <<[Rule(IpRange(Id(s)), "FORWARD", 3) EXCEPT !.pktCount = 0]>>
                               /\ admit[s] = 0 /\ addReceived[s] /\ down[s] = <<>>
      BY DEF Init, NetInit, SwitchInit
    <2>2. admit \in [Processes -> Nat]
      BY DEF Init, SwitchInit
    <2>3. \A s \in Processes : CountedBy(s) = 0
      <3>1. ASSUME NEW s \in Processes PROVE [Rule(IpRange(Id(s)), "FORWARD", 3) EXCEPT !.pktCount = 0].pktCount = 0
        BY DEF Rule
      <3> QED
        BY <2>1, <3>1, PktNothing DEF CountedBy
    <2>4. \A s \in Processes : DOMAIN down[s] = {}
      <3>1. DOMAIN <<>> = {}
        OBVIOUS
      <3> QED
        BY <2>1, <3>1
    <2>5. ASSUME NEW s \in Processes
          PROVE  admit[s] = CountedBy(s) + (IF addReceived[s] THEN 0 ELSE 1)
      <3>1. admit[s] = 0 /\ CountedBy(s) = 0 /\ addReceived[s]
        BY <2>1, <2>3
      <3> QED
        BY <3>1
    <2> QED
      BY <2>2, <2>4, <2>5 DEF CountsInv
  <1>2. CountsInv => PacketsAccounted
    BY DEF CountsInv, CountedBy, PacketsAccounted
  <1> QED
    BY <1>1, <1>2, CountsStep, Invariance, PTL DEF Spec

-----------------------------------------------------------------------------
(* Switches that are started once, each after the one before it was         *)
(* acknowledged.                                                            *)

OneByOne == Start = "one_by_one" /\ Again = <<>>

\* The indices are those of the switches, in the order they were started, and
\* all but the last that was started have been acknowledged.
InOrder ==
  /\ mainSocket = NoFd
  /\ \A k \in DOMAIN connq : connq[k] = Len(pfds) + k /\ ~ackReceived[connq[k]]
  /\ \A s \in Processes : sw[s] = "off" <=> s > Len(pfds) + Len(connq)
  /\ \A s, t \in Processes : sw[s] # "off" /\ t < s => ackReceived[t]

\* No QUERY is longer than an OPEN, and no address belongs to two switches.
OpensLonger ==
  \A s \in Processes, src \in Sources, d \in Addresses : Size(Query(src, d)) <= Size(Open(s))
OwnRanges == \A o, q \in Switches : IpRange(o) \cap IpRange(q) # {} => o = q

\* So there is one OPEN at most, it is not read after a longer packet, and every
\* switch is entered in the table with its own addresses.
IsOpen(queue) == queue # <<>> /\ Head(queue).type = "OPEN"
RoundOpens ==
  cont = "read" =>
    /\ \A j \in ready : At(j) # NoConn =>
         /\ sw[At(j)] \notin {"off", "connected"}
         /\ IsOpen(up[At(j)]) => longest <= Size(Head(up[At(j)]))
    /\ buffer.type = "OPEN" => buffer.last = High[buffer.first]
Entered == \A k \in DOMAIN switchInfoTable : switchInfoTable[k].dests = IpRange(switchInfoTable[k].id)
Opens ==
  /\ \A s \in Processes : IsOpen(up[s]) => ~ackReceived[s] /\ sw[s] # "off"
  /\ RoundOpens /\ Entered

\* An index that was not closed has its switch, or nobody for good.
OwnIndices ==
  cont # "gone" =>
    /\ \A f \in FDs : Stale(f) /\ conn[f] # NoConn => ~ackReceived[conn[f]]
    /\ \A i \in DOMAIN pfds \ closed :
         At(i) = i \/ (At(i) = NoConn /\ Ended(i) /\ ~ackReceived[i])

\* A rule for switch s leads toward the owner.
Toward(s, rule) ==
  rule.action = "FORWARD" /\ rule.port # 3 =>
    \A o \in Switches : IpRange(o) \cap rule.dests # {} => rule.port = IF o > Id(s) THEN 2 ELSE 1

Directions ==
  \A s \in Processes :
    /\ \A k \in DOMAIN down[s] : down[s][k].type = "ADD" => Toward(s, down[s][k].rule)
    /\ \A k \in DOMAIN flowTable[s] : Toward(s, flowTable[s][k])

\* With addresses of three digits no QUERY is longer than an OPEN.
LEMMA ThreeDigitsOpen ==
  ASSUME ThreeDigits
  PROVE  OpensLonger
  <1> SUFFICES ASSUME NEW s \in Processes, NEW src \in Sources, NEW d \in Addresses
               PROVE  Size(Query(src, d)) <= Size(Open(s))
    BY DEF OpensLonger
  <1>1. Width(src) = 3 /\ Width(d) = 3
    BY DEF ThreeDigits, Width
  <1>2. \A n : Width(n) \in 1 .. 4
    BY SizeType
  <1>3. Size(Query(src, d)) = 7 + Width(src) + Width(d)
    BY DEF Size, Query
  <1>4. Size(Open(s)) = 9 + Width(Id(s)) + Width(Neighbour(Id(s), 1)) + Width(Neighbour(Id(s), 2))
          + Width(Low[Id(s)]) + Width(High[Id(s)])
    BY DEF Size, Open
  <1> QED
    BY <1>1, <1>2, <1>3, <1>4

\* Every process is the first program of its switch.
LEMMA Alone ==
  ASSUME OneByOne
  PROVE  /\ Processes = 1 .. NumSwitches /\ Switches = 1 .. NumSwitches /\ NumSwitches \in Nat
         /\ \A s \in Processes : Id(s) = s /\ s \in Nat /\ s # NoConn
  BY CountAssumption DEF OneByOne, Processes, Switches, Id, NoConn

\* What a step does to the start, the end and the ACK of a switch.
LEMMA SwitchKinds ==
  ASSUME Inv, [Next]_vars, NEW s \in Processes
  PROVE  /\ ackReceived[s] => ackReceived'[s]
         /\ ackReceived'[s] => ackReceived[s] \/ (Alive(s) /\ up[s] = <<>> /\ down[s] # <<>>)
         /\ sw'[s] = "off" <=> sw[s] = "off" /\ ~Connect(s)
         /\ Ended(s) => Ended(s)'
         /\ sw[s] = "open" => sw'[s] # "connected"
         /\ IsOpen(up'[s]) => up'[s] = up[s] \/ sw[s] = "connected"
  <1>0. Types /\ Content(s)
    BY DEF Inv, Contents
  <1>1. CASE (ContStep \/ ContExit) /\ UNCHANGED <<sw, switchVars>>
    <2>1. up'[s] = up[s] \/ up'[s] = <<>>
      BY <1>0, <1>1 DEF ContStep, ContExit, Poll, Accept, AcceptFails, ReadPacket, ReadClosed, ReadError, Types
    <2>2. sw'[s] = sw[s] /\ ackReceived'[s] = ackReceived[s]
      BY <1>1 DEF switchVars
    <2>3. ~Connect(s)
      BY <1>0, <1>1 DEF Connect, Types
    <2> QED
      BY <2>1, <2>2, <2>3 DEF IsOpen, Ended
  <1>2. ASSUME NEW t \in Processes, Connect(t)
        PROVE  /\ ackReceived' = ackReceived /\ up' = up
               /\ sw'[s] = IF s = t THEN "connected" ELSE sw[s]
               /\ sw[t] = "off" /\ (Connect(s) <=> s = t)
    BY <1>0, <1>2 DEF Connect, Types, switchVars
  <1>3. ASSUME NEW t \in Processes, SwitchStep(t) \/ Leave(t), UNCHANGED <<cont, contVars>>
        PROVE  /\ ackReceived[s] => ackReceived'[s]
               /\ ackReceived'[s] => ackReceived[s] \/ (Alive(s) /\ up[s] = <<>> /\ down[s] # <<>>)
               /\ s # t => sw'[s] = sw[s]
               /\ s = t => Alive(s) /\ sw'[s] \in {"open", "exited", "failed"}
               /\ IsOpen(up'[s]) => up'[s] = up[s] \/ sw[s] = "connected"
               /\ ~Connect(s)
    <2>1. SwitchChange(t)
      BY <1>3, SwitchStepKeeps
    <2>2. /\ s # t => sw'[s] = sw[s] /\ up'[s] = up[s] /\ ackReceived'[s] = ackReceived[s]
          /\ s = t => Alive(s) /\ sw'[s] \in {"open", "exited", "failed"}
      BY <2>1 DEF SwitchChange
    <2>3. \/ UNCHANGED ackReceived
          \/ /\ Alive(t) /\ up[t] = <<>> /\ down[t] # <<>>
             /\ ackReceived' = [ackReceived EXCEPT ![t] = TRUE]
      <3>1. CASE ReadAck(t)
        <4>1. sw[t] = "open" /\ down[t] # <<>> /\ ackReceived' = [ackReceived EXCEPT ![t] = TRUE]
          BY <3>1 DEF ReadAck, ReadSocket, Looping
        <4>2. up[t] = <<>>
          BY <4>1 DEF Inv, Contents, Content, Asking, Answered
        <4> QED
          BY <4>1, <4>2 DEF Alive
      <3>2. CASE ~ReadAck(t)
        BY <1>3, <3>2 DEF SwitchStep, SendOpen, MakeFifo, Admit, ReadAdd, ControllerGone, ReadRelay,
          Leave, switchVars
      <3> QED
        BY <3>1, <3>2
    <2>4. IsOpen(up'[t]) => up'[t] = up[t] \/ sw[t] = "connected"
      <3>1. CASE SendOpen(t)
        BY <3>1 DEF SendOpen
      <3>2. ASSUME NEW d \in Addresses, Admit(t, d)
            PROVE  up'[t] = up[t] \/ \E src \in Sources : up'[t] = <<Query(src, d)>>
        <4>1. up[t] = <<>>
          BY <3>2, NothingUnderWay DEF Admit, Looping
        <4>2. up \in [Processes -> AtMostOne(Requests)]
          BY <1>0 DEF Types
        <4>3. CASE AdmitUnknown(t, d)
          <5>1. PICK src \in Sources : up' = [up EXCEPT ![t] = Append(@, Query(src, d))]
            BY <4>3 DEF AdmitUnknown
          <5>2. up'[t] = <<Query(src, d)>>
            BY <4>1, <4>2, <5>1
          <5> QED
            BY <5>2
        <4>4. CASE AdmitKnown(t, d)
          BY <4>4 DEF AdmitKnown
        <4> QED
          BY <3>2, <4>3, <4>4 DEF Admit
      <3>3. CASE ~SendOpen(t) /\ ~\E d \in Addresses : Admit(t, d)
        <4>1. up' = up
          BY <1>3, <3>3 DEF SwitchStep, MakeFifo, ReadAck, ReadAdd, ControllerGone, ReadRelay, Leave
        <4> QED
          BY <4>1
      <3>4. \A src, d : ~IsOpen(<<Query(src, d)>>)
        BY DEF IsOpen, Query
      <3> QED
        BY <3>1, <3>2, <3>3, <3>4
    <2>5. ~Connect(s)
      <3>1. CASE s = t
        BY <2>2, <3>1 DEF Connect, Alive
      <3>2. CASE s # t
        BY <1>0, <2>2, <3>2 DEF Connect, Types
      <3> QED
        BY <3>1, <3>2
    <2> QED
      BY <1>0, <2>2, <2>3, <2>4, <2>5 DEF Types
  <1>4. CASE UNCHANGED vars
    <2>1. sw'[s] = sw[s] /\ up'[s] = up[s] /\ ackReceived'[s] = ackReceived[s]
      BY <1>4 DEF vars, netVars, switchVars
    <2>2. ~Connect(s)
      BY <1>0, <2>1 DEF Connect, Types
    <2> QED
      BY <2>1, <2>2 DEF IsOpen, Ended
  <1>5. CASE \E t \in Processes : Connect(t)
    BY <1>2, <1>5 DEF Ended
  <1>6. CASE \E t \in Processes : (SwitchStep(t) \/ Leave(t)) /\ UNCHANGED <<cont, contVars>>
    BY <1>3, <1>6 DEF Ended, Alive
  <1> QED
    BY <1>1, <1>4, <1>5, <1>6 DEF Next

\* Connections come by a connect and go by an accept.
LEMMA QueueKinds ==
  ASSUME Inv, [Next]_vars
  PROVE  \/ UNCHANGED <<connq, pfds, mainSocket>> /\ \A s \in Processes : ~Connect(s)
         \/ Accept /\ UNCHANGED <<sw, switchVars>> /\ \A s \in Processes : ~Connect(s)
         \/ \E s \in Processes : Connect(s) /\ UNCHANGED contVars
  <1>0. Types
    BY DEF Inv
  <1>1. ASSUME connq' = connq, NEW s \in Processes, Connect(s) PROVE FALSE
    <2>1. Append(connq, s) = connq /\ connq \in Seq(Processes)
      BY <1>0, <1>1 DEF Connect, Types
    <2> QED
      BY <2>1
  <1>2. ASSUME UNCHANGED sw, NEW s \in Processes, Connect(s) PROVE FALSE
    BY <1>0, <1>2 DEF Connect, Types
  <1>3. CASE (ContStep \/ ContExit) /\ UNCHANGED <<sw, switchVars>>
    <2>1. Accept \/ UNCHANGED <<connq, pfds, mainSocket>>
      BY <1>3 DEF ContStep, ContExit, Poll, AcceptFails, ReadPacket, ReadClosed, ReadError, contVars
    <2> QED
      BY <1>2, <1>3, <2>1
  <1>4. ASSUME NEW t \in Processes, SwitchStep(t) \/ Leave(t), UNCHANGED <<cont, contVars>>
        PROVE  UNCHANGED <<connq, pfds, mainSocket>>
    BY <1>4, SwitchStepKeeps DEF SwitchChange, contVars
  <1>5. CASE UNCHANGED vars
    <2>1. UNCHANGED <<connq, pfds, mainSocket>>
      BY <1>5 DEF vars, netVars, contVars
    <2> QED
      BY <1>1, <2>1
  <1> QED
    BY <1>1, <1>3, <1>4, <1>5 DEF Next

\* A switch connects after the one before it was acknowledged, as the next of
\* those that have not started.
LEMMA ConnectsNext ==
  ASSUME OneByOne, Inv, InOrder, NEW s \in Processes, Connect(s)
  PROVE  s = Len(pfds) + Len(connq) + 1 /\ \A t \in Processes : t < s => ackReceived[t]
  <1>1. /\ sw[s] = "off" /\ s \in 1 .. NumSwitches /\ NumSwitches \in Nat
        /\ s # 1 => ackReceived[s - 1]
    BY Alone DEF Connect, MayStart, OneByOne
  <1>2. Len(pfds) \in Nat /\ Len(connq) \in Nat /\ s > Len(pfds) + Len(connq)
    BY <1>1 DEF Inv, Types, InOrder
  <1>3. CASE s = 1
    BY <1>2, <1>3, Alone
  <1>4. CASE s # 1
    <2>1. s - 1 \in Processes /\ ackReceived[s - 1]
      BY <1>1, <1>4, Alone
    <2>2. sw[s - 1] # "off"
      BY <2>1 DEF Inv, Contents, Content, Fresh
    <2>3. ~(s - 1 > Len(pfds) + Len(connq))
      BY <2>1, <2>2 DEF InOrder
    <2>4. s = Len(pfds) + Len(connq) + 1
      BY <1>1, <1>2, <2>3
    <2>5. \A t \in Processes : t < s - 1 => ackReceived[t]
      BY <2>1, <2>2 DEF InOrder
    <2>6. \A t \in Processes : t < s => t < s - 1 \/ t = s - 1
      BY <1>1, Alone
    <2> QED
      BY <2>1, <2>4, <2>5, <2>6
  <1> QED
    BY <1>3, <1>4

\* The order is kept: what is accepted is the next of those that have started.
LEMMA InOrderStep ==
  ASSUME OneByOne, Inv, InOrder, [Next]_vars
  PROVE  InOrder'
  <1>0. /\ Types /\ connq \in Seq(Processes) /\ pfds \in Seq(FDs) /\ Len(pfds) \in Nat /\ Len(connq) \in Nat
        /\ DOMAIN connq = 1 .. Len(connq)
    BY DEF Inv, Types
  <1>1. \A s, t \in Processes : sw'[s] # "off" /\ t < s => ackReceived'[t]
    <2> SUFFICES ASSUME NEW s \in Processes, NEW t \in Processes, sw'[s] # "off", t < s PROVE ackReceived[t]
      BY SwitchKinds
    <2>1. CASE sw[s] # "off"
      BY <2>1 DEF InOrder
    <2>2. CASE sw[s] = "off"
      <3>1. Connect(s)
        BY <2>2, SwitchKinds
      <3> QED
        BY <3>1, ConnectsNext
    <2> QED
      BY <2>1, <2>2
  <1>2. \A k \in DOMAIN connq : connq[k] \in Processes /\ ~ackReceived'[connq[k]]
    <2> SUFFICES ASSUME NEW k \in DOMAIN connq PROVE connq[k] \in Processes /\ ~ackReceived'[connq[k]]
      OBVIOUS
    <2>1. connq[k] \in Processes /\ ~ackReceived[connq[k]]
      BY <1>0 DEF InOrder
    <2>2. Alive(connq[k]) => down[connq[k]] = <<>>
      BY DEF Inv, Connections
    <2> QED
      BY <2>1, <2>2, SwitchKinds
  <1>3. CASE UNCHANGED <<connq, pfds, mainSocket>> /\ \A s \in Processes : ~Connect(s)
    <2>1. \A s \in Processes : sw'[s] = "off" <=> sw[s] = "off"
      BY <1>3, SwitchKinds
    <2> QED
      BY <1>1, <1>2, <1>3, <2>1 DEF InOrder
  <1>4. CASE Accept /\ UNCHANGED <<sw, switchVars>>
    <2>1. connq # <<>> /\ connq' = Tail(connq)
      BY <1>4 DEF Accept, Inv, AcceptReady, InOrder
    <2>2. connq[1] = Len(pfds) + 1 /\ connq[1] \in Processes
      BY <1>0, <2>1 DEF InOrder
    <2>3. Len(pfds) < NumSwitches
      BY <1>0, <2>2, Alone
    <2>4. mainSocket' = mainSocket /\ \E f \in FDs : pfds' = Append(pfds, f)
      BY <1>4, <2>3 DEF Accept
    <2>5. Len(pfds') = Len(pfds) + 1
      BY <1>0, <2>4
    <2>6. /\ Len(Tail(connq)) = Len(connq) - 1
          /\ \A k \in DOMAIN Tail(connq) : k + 1 \in DOMAIN connq /\ Tail(connq)[k] = connq[k + 1] /\ k \in Nat
      BY <1>0, <2>1
    <2>7. \A k \in DOMAIN connq : connq[k] = Len(pfds) + k
      BY DEF InOrder
    <2>8. \A k \in DOMAIN Tail(connq) : Tail(connq)[k] = Len(pfds') + k /\ ~ackReceived'[Tail(connq)[k]]
      BY <1>0, <1>2, <2>5, <2>6, <2>7
    <2>9. \A s \in Processes : sw'[s] = "off" <=> s > Len(pfds') + Len(Tail(connq))
      <3>a. \A p, q \in Nat : (p + 1) + (q - 1) = p + q
        OBVIOUS
      <3>b. Len(pfds) \in Nat /\ Len(connq) \in Nat
        BY <1>0
      <3>c. Len(Tail(connq)) = Len(connq) - 1
        BY <2>6
      <3>1. Len(pfds') + Len(Tail(connq)) = Len(pfds) + Len(connq)
        BY <2>5, <3>a, <3>b, <3>c
      <3> QED
        BY <1>4, <3>1 DEF InOrder
    <2> QED
      BY <1>1, <2>1, <2>4, <2>8, <2>9 DEF InOrder
  <1>5. ASSUME NEW s \in Processes, Connect(s), UNCHANGED contVars PROVE InOrder'
    <2>1. s = Len(pfds) + Len(connq) + 1 /\ s \in Nat
      BY <1>5, ConnectsNext, Alone
    <2>2. connq' = Append(connq, s) /\ UNCHANGED <<pfds, mainSocket>> /\ UNCHANGED ackReceived /\ sw[s] = "off"
      BY <1>5 DEF Connect, contVars, switchVars
    <2>3. ~ackReceived[s]
      BY <2>2 DEF Inv, Contents, Content, Fresh
    <2>4. /\ Len(connq') = Len(connq) + 1
          /\ \A k \in DOMAIN connq' : (k \in DOMAIN connq /\ connq'[k] = connq[k]) \/ (k = Len(connq) + 1 /\ connq'[k] = s)
      BY <1>0, <2>2
    <2>5. \A k \in DOMAIN connq' : connq'[k] = Len(pfds') + k /\ ~ackReceived'[connq'[k]]
      BY <1>0, <1>2, <2>1, <2>2, <2>3, <2>4 DEF InOrder
    <2>6. \A t \in Processes : sw'[t] = "off" <=> sw[t] = "off" /\ t # s
      BY <1>0, <1>5 DEF Connect, Types
    <2>7. \A t \in Processes : sw[t] = "off" <=> t > Len(pfds) + Len(connq)
      BY DEF InOrder
    <2>8. \A t \in Processes : sw'[t] = "off" <=> t > Len(pfds') + Len(connq')
      BY <1>0, <2>1, <2>2, <2>4, <2>6, <2>7, Alone
    <2>9. mainSocket' = NoFd
      BY <2>2 DEF InOrder
    <2> QED
      BY <1>1, <2>5, <2>8, <2>9 DEF InOrder
  <1> QED
    BY <1>3, <1>4, <1>5, QueueKinds

\* Two switches are never both unacknowledged.
LEMMA OneUnacknowledged ==
  ASSUME OneByOne, InOrder, NEW s \in Processes, NEW t \in Processes,
         sw[s] # "off", sw[t] # "off", ~ackReceived[s], ~ackReceived[t]
  PROVE  s = t
  <1>1. ~(s < t) /\ ~(t < s)
    BY DEF InOrder
  <1> QED
    BY <1>1, Alone

\* An OPEN is read after none that is longer, and parsed as it is.
LEMMA OpenWhole ==
  ASSUME Inv, Opens, NEW i \in ready, ReadPacket(i)
  PROVE  /\ At(i) \in Processes /\ Head(up[At(i)]) \in Requests /\ up[At(i)] # <<>>
         /\ buffer'.type = "OPEN" =>
              IsOpen(up[At(i)]) /\ buffer'.last = High[buffer'.first]
         /\ ~IsOpen(up[At(i)]) => Head(up[At(i)]).type = "QUERY"
  <1> DEFINE packet == Head(up[At(i)])
  <1>1. /\ cont = "read" /\ At(i) # NoConn /\ up[At(i)] # <<>>
        /\ buffer' \in Parsed(packet, longest) /\ packet \in Requests
    BY ReadPacketDelivers DEF ReadPacket, ReadAt
  <1>2. At(i) \in Processes
    BY <1>1, ConnType DEF Inv, Types
  <1>3. packet.type = "OPEN" => IsOpen(up[At(i)])
    BY <1>1 DEF IsOpen
  <1>4. buffer'.type = packet.type
    BY <1>1, ParsedCases
  <1>5. packet.type = "OPEN" => buffer' = packet
    BY <1>1, <1>3 DEF Opens, RoundOpens, Parsed
  <1>6. ASSUME packet.type = "OPEN" PROVE packet.last = High[packet.first]
    <2>1. PICK s \in Processes : packet = Open(s)
      BY <1>1, <1>6, RequestCases
    <2>2. Open(s).first = Id(s) /\ Open(s).last = High[Id(s)]
      BY PacketTypes
    <2> HIDE DEF packet
    <2> QED
      BY <2>1, <2>2
  <1>7. packet.type # "OPEN" => packet.type = "QUERY"
    BY <1>1, RequestCases
  <1> QED
    BY <1>1, <1>2, <1>3, <1>4, <1>5, <1>6, <1>7

\* An OPEN that is whole is entered so.
LEMMA HandleEnters ==
  ASSUME Types, Entered, NEW i, NEW packet, NEW failed, NEW rest,
         Handle(i, packet, failed, rest),
         packet.type = "OPEN" => packet.last = High[packet.first]
  PROVE  Entered'
  <1>1. switchInfoTable \in Seq(Infos)
    BY DEF Types
  <1>2. CASE packet.type = "OPEN"
    <2> DEFINE info == [id |-> packet.first, dests |-> IpRange(packet.first)]
    <2>1. switchInfoTable' = Append(switchInfoTable, info)
      BY <1>2 DEF Handle, IpRange
    <2>2. \A k \in DOMAIN switchInfoTable' :
            (k \in DOMAIN switchInfoTable /\ switchInfoTable'[k] = switchInfoTable[k]) \/ switchInfoTable'[k] = info
      <3> HIDE DEF info
      <3> QED
        BY <1>1, <2>1
    <2> QED
      BY <2>2 DEF Entered
  <1>3. CASE packet.type # "OPEN"
    BY <1>3 DEF Handle, Entered
  <1> QED
    BY <1>2, <1>3

\* No OPEN is read in a round after a longer packet.
LEMMA RoundOpensStep ==
  ASSUME OneByOne, OpensLonger, Inv, InOrder, Opens, [Next]_vars
  PROVE  RoundOpens'
  <1>0. Types /\ RoundOpens /\ \A j \in ready : j \in DOMAIN pfds
    BY DEF Opens, Inv, Types
  <1>1. CASE Poll /\ UNCHANGED <<sw, switchVars>>
    <2>1. /\ ready' = Readable /\ UNCHANGED <<pfds, conn, up, sw>> /\ longest' = 0 /\ buffer' = Nothing
      BY <1>1 DEF Poll
    <2>2. ASSUME NEW j \in Readable, At(j) # NoConn
          PROVE  /\ sw[At(j)] \notin {"off", "connected"}
                 /\ IsOpen(up[At(j)]) => longest' <= Size(Head(up[At(j)]))
      <3>1. At(j) \in Processes /\ HasInput(At(j))
        BY <1>0, <2>2, ConnType DEF Readable
      <3>2. Content(At(j)) /\ (up[At(j)] # <<>> \/ upEnd[At(j)] # "open")
        BY <3>1 DEF HasInput, Inv, Contents
      <3>3. IsOpen(up[At(j)]) => Size(Head(up[At(j)])) \in Nat
        BY <1>0, <3>1, OneAtMost, SizeType DEF IsOpen, Types
      <3> QED
        BY <2>1, <3>2, <3>3 DEF Content, Fresh
    <2>3. buffer'.type # "OPEN"
      BY <2>1, PacketTypes
    <2> QED
      BY <2>1, <2>2, <2>3 DEF RoundOpens, At
  <1>2. ASSUME NEW i \in ready, ReadPacket(i), UNCHANGED <<sw, switchVars>> PROVE RoundOpens'
    <2> DEFINE s == At(i)
               packet == Head(up[s])
    <2>1. /\ cont = "read" /\ ready' = ready \ {i} /\ UNCHANGED <<pfds, conn, sw>>
          /\ up' = [up EXCEPT ![s] = <<>>]
          /\ longest' = IF Size(packet) > longest THEN Size(packet) ELSE longest
      BY <1>2 DEF ReadPacket, ReadAt
    <2>2. /\ s \in Processes /\ packet \in Requests
          /\ buffer'.type = "OPEN" => IsOpen(up[s]) /\ buffer'.last = High[buffer'.first]
          /\ ~IsOpen(up[s]) => packet.type = "QUERY"
      BY <1>2, OpenWhole
    <2>3. ASSUME NEW j \in ready', At(j) # NoConn
          PROVE  /\ sw[At(j)] \notin {"off", "connected"}
                 /\ IsOpen(up'[At(j)]) => longest' <= Size(Head(up'[At(j)]))
      <3>1. j \in ready /\ At(j) \in Processes /\ sw[At(j)] \notin {"off", "connected"}
        BY <1>0, <2>1, <2>3, ConnType DEF RoundOpens
      <3>2. up'[At(j)] = IF At(j) = s THEN <<>> ELSE up[At(j)]
        BY <1>0, <2>1, <3>1 DEF Types
      <3>3. ASSUME IsOpen(up'[At(j)]) PROVE longest' <= Size(Head(up'[At(j)]))
        <4>1. At(j) # s /\ IsOpen(up[At(j)]) /\ up'[At(j)] = up[At(j)]
          BY <3>2, <3>3 DEF IsOpen
        <4>2. longest <= Size(Head(up[At(j)]))
          BY <1>0, <2>1, <2>3, <3>1, <4>1 DEF RoundOpens
        <4>3. ~IsOpen(up[s])
          BY <2>1, <2>2, <3>1, <4>1, OneUnacknowledged DEF Opens
        <4>4. PICK src \in Sources, d \in Addresses : packet = Query(src, d)
          BY <2>2, <4>3, RequestCases
        <4>5. PICK t \in Processes : Head(up[At(j)]) = Open(t)
          <5>1. Head(up[At(j)]) \in Requests /\ Head(up[At(j)]).type = "OPEN"
            BY <1>0, <3>1, <4>1, OneAtMost DEF IsOpen, Types
          <5> QED
            BY <5>1, RequestCases
        <4>6. Size(packet) <= Size(Head(up[At(j)]))
          BY <4>4, <4>5 DEF OpensLonger
        <4> QED
          BY <2>1, <4>1, <4>2, <4>6
      <3> QED
        BY <3>1, <3>3
    <2>4. \A j \in ready' : At(j)' = At(j)
      BY <2>1 DEF At
    <2> QED
      BY <2>1, <2>2, <2>3, <2>4 DEF RoundOpens
  <1>3. ASSUME NEW i \in ready, ReadClosed(i) \/ ReadError(i), UNCHANGED <<sw, switchVars>> PROVE RoundOpens'
    <2>1. /\ cont = "read" /\ ready' = ready \ {i} /\ UNCHANGED <<pfds, sw, up, buffer, longest>>
          /\ conn' = conn \/ conn' = [conn EXCEPT ![pfds[i]] = NoConn]
      BY <1>3 DEF ReadClosed, ReadError, ReadAt, bufferVars
    <2>2. \A j \in ready' : At(j)' = At(j) \/ At(j)' = NoConn
      <3>1. \A j \in ready' : pfds[j] \in FDs
        BY <1>0, <2>1, ConnType
      <3> QED
        BY <1>0, <2>1, <3>1 DEF At, Types
    <2> QED
      BY <1>0, <2>1, <2>2 DEF RoundOpens
  <1>4. CASE UNCHANGED <<cont, contVars>>
    <2>1. UNCHANGED <<cont, ready, pfds, conn, buffer, longest>>
      BY <1>4 DEF contVars, bufferVars
    <2>2. ASSUME cont = "read", NEW j \in ready, At(j) # NoConn
          PROVE  /\ sw'[At(j)] \notin {"off", "connected"}
                 /\ IsOpen(up'[At(j)]) => up'[At(j)] = up[At(j)]
      <3>1. At(j) \in Processes /\ sw[At(j)] \notin {"off", "connected"}
        BY <1>0, <2>2, ConnType DEF RoundOpens
      <3>2. sw[At(j)] = "open" \/ Ended(At(j))
        BY <1>0, <3>1 DEF Types, Ended
      <3> QED
        BY <3>1, <3>2, SwitchKinds DEF Ended
    <2>3. \A j \in ready : At(j)' = At(j)
      BY <2>1 DEF At
    <2> QED
      BY <1>0, <2>1, <2>2, <2>3 DEF RoundOpens
  <1>5. CASE cont' # "read"
    BY <1>5 DEF RoundOpens
  <1>6. CASE Accept \/ AcceptFails \/ ContExit
    BY <1>5, <1>6 DEF Accept, AcceptFails, ContExit
  <1>7. CASE UNCHANGED vars
    BY <1>4, <1>7 DEF vars, netVars
  <1> QED
    BY <1>1, <1>2, <1>3, <1>4, <1>6, <1>7 DEF Next, ContStep

\* So there is one OPEN at most.
LEMMA OpensStep ==
  ASSUME OneByOne, OpensLonger, Inv, InOrder, Opens, [Next]_vars
  PROVE  Opens'
  <1>0. Types /\ Entered
    BY DEF Opens, Inv
  <1>1. ASSUME NEW s \in Processes, IsOpen(up'[s]) PROVE ~ackReceived'[s] /\ sw'[s] # "off"
    <2>1. Content(s)
      BY DEF Inv, Contents
    <2>2. CASE IsOpen(up[s])
      <3>1. ~ackReceived[s] /\ sw[s] # "off" /\ up[s] # <<>>
        BY <2>2 DEF Opens, IsOpen
      <3> QED
        BY <3>1, SwitchKinds
    <2>3. CASE sw[s] = "connected"
      <3>1. ~ackReceived[s] /\ down[s] = <<>>
        BY <2>1, <2>3 DEF Content, Fresh
      <3> QED
        BY <2>3, <3>1, SwitchKinds
    <2> QED
      BY <1>1, <2>2, <2>3, SwitchKinds
  <1>2. Entered'
    <2>1. ASSUME NEW i \in ready, ReadPacket(i) PROVE Entered'
      <3>1. buffer'.type = "OPEN" => buffer'.last = High[buffer'.first]
        BY <2>1, OpenWhole
      <3> QED
        BY <1>0, <2>1, <3>1, HandleEnters DEF ReadPacket
    <2>2. ASSUME NEW i \in ready, ReadError(i) PROVE Entered'
      <3>1. buffer.type = "OPEN" => buffer.last = High[buffer.first]
        BY <2>2 DEF Opens, RoundOpens, ReadError, ReadAt
      <3> QED
        BY <1>0, <2>2, <3>1, HandleEnters DEF ReadError
    <2>3. CASE UNCHANGED switchInfoTable
      BY <1>0, <2>3 DEF Entered
    <2>4. UNCHANGED contVars => UNCHANGED switchInfoTable
      BY DEF contVars
    <2>5. CASE Poll \/ Accept \/ AcceptFails \/ ContExit \/ \E i \in ready : ReadClosed(i)
      BY <2>3, <2>4, <2>5 DEF Poll, Accept, AcceptFails, ContExit, ReadClosed
    <2>6. CASE UNCHANGED vars
      BY <2>3, <2>4, <2>6 DEF vars
    <2> QED
      BY <2>1, <2>2, <2>3, <2>4, <2>5, <2>6 DEF Next, ContStep
  <1>3. RoundOpens'
    BY RoundOpensStep
  <1> QED
    BY <1>1, <1>2, <1>3 DEF Opens

\* An accept takes the next switch that was started, at the index of its number.
LEMMA AcceptsNext ==
  ASSUME OneByOne, Inv, InOrder, Accept
  PROVE  LET n == Len(pfds) + 1 IN
           /\ n \in Processes /\ sw[n] # "off" /\ ~ackReceived[n]
           /\ closed' = closed /\ Len(pfds') = n
           /\ \E f \in FDs :
                /\ conn[f] = NoConn /\ conn' = [conn EXCEPT ![f] = n] /\ pfds' = Append(pfds, f)
  <1> DEFINE n == Len(pfds) + 1
  <1>1. /\ connq \in Seq(Processes) /\ pfds \in Seq(FDs) /\ Len(pfds) \in Nat /\ Len(connq) \in Nat
        /\ connq # <<>>
    BY DEF Inv, Types, AcceptReady, InOrder, Accept
  <1>2. 1 \in DOMAIN connq /\ Head(connq) = connq[1] /\ Len(connq) >= 1
    BY <1>1
  <1>3. Head(connq) = n /\ n \in Processes /\ ~ackReceived[n]
    BY <1>1, <1>2 DEF InOrder
  <1>4. sw[n] # "off" /\ Len(pfds) < NumSwitches
    <2>1. ~(n > Len(pfds) + Len(connq))
      BY <1>1, <1>2
    <2> QED
      BY <1>1, <1>3, <2>1, Alone DEF InOrder
  <1>5. PICK f \in FDs : conn[f] = NoConn /\ conn' = [conn EXCEPT ![f] = n] /\ pfds' = Append(pfds, f)
    BY <1>3, <1>4 DEF Accept, Free
  <1>6. closed' = closed /\ Len(pfds') = n
    BY <1>1, <1>5 DEF Accept
  <1> QED
    BY <1>3, <1>4, <1>5, <1>6

\* Every step but an accept and the end of a connection leaves the indices, and
\* a controller that is gone stays so.
LEMMA IndexKinds ==
  ASSUME [Next]_vars
  PROVE  /\ cont' # "gone" => cont # "gone"
         /\ \/ UNCHANGED <<pfds, conn, closed>>
            \/ Accept /\ UNCHANGED <<sw, switchVars>>
            \/ \E i \in ready : ReadClosed(i) /\ UNCHANGED <<sw, switchVars>>
  <1>1. UNCHANGED contVars => UNCHANGED <<pfds, conn, closed>>
    BY DEF contVars
  <1>2. UNCHANGED vars => UNCHANGED <<cont, contVars>>
    BY DEF vars, netVars
  <1>3. CASE (ContStep \/ ContExit) /\ UNCHANGED <<sw, switchVars>>
    <2>1. cont # "gone"
      BY <1>3 DEF ContStep, ContExit, Poll, Accept, AcceptFails, ReadPacket, ReadClosed, ReadError, ReadAt
    <2>2. CASE AcceptFails \/ ContExit
      BY <1>1, <2>1, <2>2 DEF AcceptFails, ContExit
    <2>3. CASE Poll \/ \E i \in ready : ReadPacket(i) \/ ReadError(i)
      BY <2>1, <2>3 DEF Poll, ReadPacket, ReadError
    <2>4. CASE Accept \/ \E i \in ready : ReadClosed(i)
      BY <1>3, <2>1, <2>4
    <2> QED
      BY <1>3, <2>2, <2>3, <2>4 DEF ContStep
  <1>4. CASE UNCHANGED <<cont, contVars>>
    BY <1>1, <1>4
  <1> QED
    BY <1>2, <1>3, <1>4 DEF Next

\* The switch that was given a closed descriptor gets no ACK.
LEMMA StaleStep ==
  ASSUME OneByOne, Inv, InOrder, OwnIndices, [Next]_vars, cont' # "gone",
         NEW f \in FDs, Stale(f)', conn'[f] # NoConn
  PROVE  ~ackReceived'[conn'[f]]
  <1>0. Types /\ cont # "gone"
    BY IndexKinds DEF Inv
  <1>1. CASE UNCHANGED <<pfds, conn, closed>>
    <2>1. Stale(f) /\ conn'[f] = conn[f] /\ conn[f] \in Processes
      BY <1>0, <1>1 DEF Stale, Types
    <2>2. ~ackReceived[conn[f]] /\ (Alive(conn[f]) => down[conn[f]] = <<>>)
      BY <1>0, <2>1 DEF OwnIndices, Inv, Unanswered
    <2> QED
      BY <2>1, <2>2, SwitchKinds
  <1>2. CASE Accept /\ UNCHANGED <<sw, switchVars>>
    <2>1. PICK g \in FDs : /\ conn' = [conn EXCEPT ![g] = Len(pfds) + 1] /\ pfds' = Append(pfds, g)
                           /\ ~ackReceived[Len(pfds) + 1] /\ closed' = closed
      BY <1>2, AcceptsNext
    <2>2. \A k \in DOMAIN pfds : pfds'[k] = pfds[k]
      BY <1>0, <2>1 DEF Types
    <2>3. Stale(f)
      BY <1>0, <2>1, <2>2 DEF Stale, Types
    <2>4. conn'[f] = (IF f = g THEN Len(pfds) + 1 ELSE conn[f]) /\ ackReceived' = ackReceived
      BY <1>0, <1>2, <2>1 DEF Types, switchVars
    <2> QED
      BY <1>0, <2>1, <2>3, <2>4 DEF OwnIndices
  <1>3. ASSUME NEW i \in ready, ReadClosed(i), UNCHANGED <<sw, switchVars>> PROVE ~ackReceived'[conn'[f]]
    <2>1. /\ conn' = [conn EXCEPT ![pfds[i]] = NoConn] /\ closed' = closed \cup {i}
          /\ pfds' = pfds /\ ackReceived' = ackReceived
      BY <1>3 DEF ReadClosed, switchVars
    <2>2. f # pfds[i] /\ conn'[f] = conn[f]
      BY <1>0, <2>1 DEF Types
    <2>3. Stale(f)
      BY <2>1, <2>2 DEF Stale
    <2> QED
      BY <1>0, <2>1, <2>2, <2>3 DEF OwnIndices
  <1> QED
    BY <1>1, <1>2, <1>3, IndexKinds

\* An index keeps its switch, and loses it only when the switch has ended
\* without an ACK.
LEMMA OwnStep ==
  ASSUME OneByOne, Inv, InOrder, OwnIndices, [Next]_vars, cont' # "gone",
         NEW i \in DOMAIN pfds', i \notin closed'
  PROVE  At(i)' = i \/ (At(i)' = NoConn /\ Ended(i)' /\ ~ackReceived'[i])
  <1>0. /\ Types /\ cont # "gone" /\ pfds \in Seq(FDs) /\ Len(pfds) \in Nat
        /\ \A j \in DOMAIN pfds : j \in Processes /\ j <= Len(pfds)
    <2>1. Types /\ cont # "gone" /\ pfds \in Seq(FDs)
      BY IndexKinds DEF Inv, Types
    <2>2. Len(pfds) <= NumSwitches /\ DOMAIN pfds = 1 .. Len(pfds) /\ Len(pfds) \in Nat
      BY <2>1 DEF Types
    <2> QED
      BY <2>1, <2>2, Alone
  <1>1. CASE UNCHANGED <<pfds, conn, closed>>
    <2>1. At(i)' = At(i) /\ i \in DOMAIN pfds /\ i \notin closed /\ i \in Processes
      BY <1>0, <1>1 DEF At
    <2>2. At(i) = i \/ (At(i) = NoConn /\ Ended(i) /\ ~ackReceived[i])
      BY <1>0, <2>1 DEF OwnIndices
    <2>3. Ended(i) => ~Alive(i)
      BY DEF Ended, Alive
    <2> QED
      BY <2>1, <2>2, <2>3, SwitchKinds
  <1>2. CASE Accept /\ UNCHANGED <<sw, switchVars>>
    <2> DEFINE n == Len(pfds) + 1
    <2>1. PICK g \in FDs : /\ conn[g] = NoConn /\ conn' = [conn EXCEPT ![g] = n] /\ pfds' = Append(pfds, g)
                           /\ n \in Processes /\ sw[n] # "off" /\ closed' = closed
      BY <1>2, AcceptsNext
    <2>2. \/ i \in DOMAIN pfds /\ pfds'[i] = pfds[i] /\ pfds[i] \in FDs
          \/ i = n /\ pfds'[i] = g
      BY <1>0, <2>1
    <2>3. CASE i = n /\ pfds'[i] = g
      BY <1>0, <2>1, <2>3 DEF At, Types
    <2>4. CASE i \in DOMAIN pfds /\ pfds'[i] = pfds[i] /\ pfds[i] \in FDs
      <3>1. At(i) = i \/ (At(i) = NoConn /\ Ended(i) /\ ~ackReceived[i])
        BY <1>0, <2>1, <2>4 DEF OwnIndices
      <3>2. ackReceived[i]
        <4>1. i \in Processes /\ i < n
          BY <1>0, <2>4, Alone
        <4> QED
          BY <2>1, <4>1 DEF InOrder
      <3>3. At(i) = i /\ i \in Processes
        BY <1>0, <2>4, <3>1, <3>2
      <3>4. pfds[i] # g
        BY <2>1, <3>3, Alone DEF At
      <3> QED
        BY <1>0, <2>1, <2>4, <3>3, <3>4 DEF At, Types
    <2> QED
      BY <2>2, <2>3, <2>4
  <1>3. ASSUME NEW k \in ready, ReadClosed(k), UNCHANGED <<sw, switchVars>>
        PROVE  At(i)' = i \/ (At(i)' = NoConn /\ Ended(i)' /\ ~ackReceived'[i])
    <2>1. /\ conn' = [conn EXCEPT ![pfds[k]] = NoConn] /\ closed' = closed \cup {k}
          /\ pfds' = pfds /\ ackReceived' = ackReceived /\ sw' = sw
          /\ At(k) # NoConn /\ upEnd[At(k)] = "fin" /\ k \in DOMAIN pfds
      BY <1>0, <1>3 DEF ReadClosed, switchVars, Types
    <2>2. i \in DOMAIN pfds /\ i \notin closed /\ i # k /\ pfds[i] \in FDs /\ i \in Processes
      BY <1>0, <2>1
    <2>3. At(i) = i \/ (At(i) = NoConn /\ Ended(i) /\ ~ackReceived[i])
      BY <1>0, <2>2 DEF OwnIndices
    <2>4. Ended(i)' = Ended(i)
      BY <2>1 DEF Ended
    <2>5. CASE pfds[i] # pfds[k]
      <3>1. At(i)' = At(i)
        BY <1>0, <2>1, <2>2, <2>5 DEF At, Types
      <3> QED
        BY <2>1, <2>3, <2>4, <3>1
    <2>6. CASE pfds[i] = pfds[k]
      <3>1. At(i)' = NoConn /\ At(i) = i
        BY <1>0, <2>1, <2>2, <2>3, <2>6 DEF At, Types
      <3>2. Ended(i)
        BY <1>0, <2>1, <2>2, <2>6, <3>1, IdType DEF At, Inv, Contents, Content, Ended, Types,
          Connections
      <3>3. Stale(pfds[i])
        <4>1. i < k \/ k < i
          BY <1>0, <2>1, <2>2, Alone
        <4> QED
          BY <2>1, <2>2, <2>6, <4>1 DEF Inv, Sharing
      <3>4. ~ackReceived[i]
        BY <1>0, <2>1, <2>2, <2>6, <3>1, <3>3 DEF OwnIndices, At
      <3> QED
        BY <2>1, <2>4, <3>1, <3>2, <3>4
    <2> QED
      BY <2>5, <2>6
  <1> QED
    BY <1>1, <1>2, <1>3, IndexKinds

\* The indices go on standing for the switches.
LEMMA OwnIndicesStep ==
  ASSUME OneByOne, Inv, InOrder, OwnIndices, [Next]_vars
  PROVE  OwnIndices'
  <1> SUFFICES ASSUME cont' # "gone"
               PROVE  /\ \A f \in FDs : Stale(f)' /\ conn'[f] # NoConn => ~ackReceived'[conn'[f]]
                      /\ \A i \in DOMAIN pfds' \ closed' :
                           At(i)' = i \/ (At(i)' = NoConn /\ Ended(i)' /\ ~ackReceived'[i])
    BY DEF OwnIndices, FDs
  <1> QED
    BY StaleStep, OwnStep

\* An answer to switch i leads toward the owner.
LEMMA AnswerToward ==
  ASSUME OneByOne, OwnRanges, Types, Entered, NEW i \in Processes, NEW d
  PROVE  Toward(i, Answer(i, d))
  <1>1. CASE FirstOwner(d) = {}
    BY <1>1 DEF Answer, Rule, Toward
  <1>2. CASE FirstOwner(d) # {}
    <2>1. PICK k : k = (CHOOSE n \in FirstOwner(d) : TRUE) /\ k \in FirstOwner(d)
      BY <1>2
    <2>2. k \in DOMAIN switchInfoTable
      BY <2>1 DEF FirstOwner
    <2>3. /\ switchInfoTable[k].dests = IpRange(switchInfoTable[k].id)
          /\ switchInfoTable[k].id \in Nat /\ switchInfoTable[k].id \in Switches
      <3>1. switchInfoTable[k] \in Infos
        BY <2>2 DEF Types
      <3>2. switchInfoTable[k].id \in 1 .. NumSwitches /\ NumSwitches \in Nat
        BY <3>1, Alone DEF Infos
      <3>3. switchInfoTable[k].id \in Nat
        BY <3>2
      <3> QED
        BY <2>2, <3>2, <3>3, Alone DEF Entered
    <2>4. Answer(i, d) = Rule(switchInfoTable[k].dests, "FORWARD", IF switchInfoTable[k].id > i THEN 2 ELSE 1)
      BY <1>2, <2>1 DEF Answer
    <2>5. PICK id \in Nat : id = switchInfoTable[k].id
      BY <2>3
    <2>6. Answer(i, d).dests = IpRange(id) /\ Answer(i, d).port = IF id > i THEN 2 ELSE 1
      BY <2>3, <2>4, <2>5 DEF Rule
    <2>7. \A o \in Switches : IpRange(o) \cap IpRange(id) # {} => o = id
      BY <2>3, <2>5 DEF OwnRanges
    <2>8. Id(i) = i
      BY Alone
    <2> QED
      BY <2>6, <2>7, <2>8 DEF Toward
  <1> QED
    BY <1>1, <1>2

\* A rule is changed in what it counts only, or comes from the controller.
LEMMA RulesStay ==
  ASSUME Inv, [Next]_vars, NEW s \in Processes, NEW k \in DOMAIN flowTable'[s]
  PROVE  \/ /\ k \in DOMAIN flowTable[s] /\ flowTable'[s][k].dests = flowTable[s][k].dests
            /\ flowTable'[s][k].action = flowTable[s][k].action
            /\ flowTable'[s][k].port = flowTable[s][k].port
         \/ /\ 1 \in DOMAIN down[s] /\ down[s][1].type = "ADD"
            /\ flowTable'[s][k] = down[s][1].rule
  <1>0. flowTable \in [Processes -> Seq(Rules)] /\ flowTable[s] \in Seq(Rules)
    BY DEF Inv, Types
  <1>1. CASE UNCHANGED flowTable
    BY <1>1
  <1>2. ASSUME NEW t \in Processes, NEW d \in Addresses, Admit(t, d)
        PROVE  /\ k \in DOMAIN flowTable[s] /\ flowTable'[s][k].dests = flowTable[s][k].dests
               /\ flowTable'[s][k].action = flowTable[s][k].action
               /\ flowTable'[s][k].port = flowTable[s][k].port
    <2>1. CASE AdmitUnknown(t, d)
      BY <2>1 DEF AdmitUnknown
    <2>2. CASE AdmitKnown(t, d)
      <3>1. PICK n \in Match(t, d) : flowTable' = [flowTable EXCEPT ![t][n].pktCount = @ + 1]
        BY <2>2 DEF AdmitKnown
      <3>2. flowTable' = [flowTable EXCEPT ![t] = [flowTable[t] EXCEPT ![n].pktCount = @ + 1]]
        BY <3>1
      <3>3. CASE s # t
        BY <1>0, <3>2, <3>3
      <3>4. CASE s = t
        <4>1. flowTable'[s] = [flowTable[s] EXCEPT ![n].pktCount = @ + 1] /\ n \in DOMAIN flowTable[s]
          BY <1>0, <3>1, <3>2, <3>4 DEF Match
        <4> QED
          BY <1>0, <4>1, Counted
      <3> QED
        BY <3>3, <3>4
    <2> QED
      BY <1>2, <2>1, <2>2 DEF Admit
  <1>3. ASSUME NEW t \in Processes, ReadAdd(t)
        PROVE  \/ k \in DOMAIN flowTable[s] /\ flowTable'[s][k] = flowTable[s][k]
               \/ /\ 1 \in DOMAIN down[s] /\ down[s][1].type = "ADD"
                  /\ flowTable'[s][k] = down[s][1].rule
    <2>1. PICK rule \in Rules : rule = Head(down[t]).rule
      BY <1>3, ReadAddEffect
    <2>2. /\ flowTable' = [flowTable EXCEPT ![t] = Append(@, rule)]
          /\ down[t] = <<Head(down[t])>> /\ Head(down[t]).type = "ADD"
      BY <1>3, <2>1, ReadAddEffect
    <2>3. 1 \in DOMAIN down[t] /\ down[t][1] = Head(down[t])
      BY <2>2
    <2>4. CASE s # t
      BY <1>0, <2>2, <2>4
    <2>5. CASE s = t
      <3>1. flowTable'[s] = Append(flowTable[s], rule)
        BY <1>0, <2>2, <2>5
      <3>2. (k \in DOMAIN flowTable[s] /\ flowTable'[s][k] = flowTable[s][k]) \/ flowTable'[s][k] = rule
        BY <1>0, <3>1
      <3> QED
        BY <2>1, <2>2, <2>3, <2>5, <3>2
    <2> QED
      BY <2>4, <2>5
  <1> QED
    BY <1>1, <1>2, <1>3, RuleKinds

\* Rules go on leading toward the owners.
LEMMA DirectionsStep ==
  ASSUME OneByOne, OwnRanges, Inv, Opens, OwnIndices, Directions, [Next]_vars
  PROVE  Directions'
  <1>1. ASSUME NEW s \in Processes, NEW k \in DOMAIN down'[s], down'[s][k].type = "ADD"
        PROVE  Toward(s, down'[s][k].rule)
    <2>1. CASE k \in DOMAIN down[s] /\ down'[s][k] = down[s][k]
      BY <1>1, <2>1 DEF Directions
    <2>2. CASE ~(k \in DOMAIN down[s] /\ down'[s][k] = down[s][k])
      <3>1. PICK i \in DOMAIN pfds \ closed :
              /\ At(i) = s /\ cont = "read"
              /\ down'[s][k] = Ack \/ \E d \in Addresses : down'[s][k] = Add(Answer(i, d))
        BY <2>2, DownKinds
      <3>2. i = s
        BY <3>1, Alone DEF OwnIndices
      <3>3. PICK d \in Addresses : down'[s][k] = Add(Answer(s, d))
        BY <1>1, <3>1, <3>2, PacketTypes
      <3>4. Toward(s, Answer(s, d))
        BY AnswerToward DEF Inv, Opens
      <3> QED
        BY <3>3, <3>4 DEF Add
    <2> QED
      BY <2>1, <2>2
  <1>2. ASSUME NEW s \in Processes, NEW k \in DOMAIN flowTable'[s]
        PROVE  Toward(s, flowTable'[s][k])
    <2>1. CASE k \in DOMAIN flowTable[s] /\ flowTable'[s][k].dests = flowTable[s][k].dests
               /\ flowTable'[s][k].action = flowTable[s][k].action
               /\ flowTable'[s][k].port = flowTable[s][k].port
      BY <2>1 DEF Directions, Toward
    <2>2. CASE 1 \in DOMAIN down[s] /\ down[s][1].type = "ADD" /\ flowTable'[s][k] = down[s][1].rule
      BY <2>2 DEF Directions
    <2> QED
      BY <2>1, <2>2, RulesStay
  <1> QED
    BY <1>1, <1>2 DEF Directions, Toward

\* When every switch is started once, after the one before it was acknowledged,
\* no QUERY is longer than an OPEN and the ranges are disjoint, the index of a
\* connection is the number of its switch for good, and every rule that forwards
\* leads toward the switch that owns its addresses (controller.cpp:264-285).
THEOREM RulesLeadTowards ==
  ASSUME OneByOne, OpensLonger, OwnRanges
  PROVE  Spec => []ForwardTowards
  <1>1. Init => InOrder /\ Opens /\ OwnIndices /\ Directions
    <2> SUFFICES ASSUME Init PROVE InOrder /\ Opens /\ OwnIndices /\ Directions
      OBVIOUS
    <2>1. /\ connq = <<>> /\ pfds = <<>> /\ mainSocket = NoFd /\ closed = {} /\ cont = "poll"
          /\ switchInfoTable = <<>>
          /\ \A s \in Processes : /\ sw[s] = "off" /\ up[s] = <<>> /\ down[s] = <<>>
                                  /\ flowTable[s] = <<[Rule(IpRange(Id(s)), "FORWARD", 3) EXCEPT !.pktCount = 0]>>
      BY DEF Init, NetInit, ContInit, SwitchInit
    <2>2. Len(<<>>) = 0 /\ DOMAIN <<>> = {}
      OBVIOUS
    <2>3. InOrder
      <3>1. Len(pfds) + Len(connq) = 0
        BY <2>1, <2>2
      <3>2. \A s \in Processes : s > 0
        BY Alone
      <3> QED
        BY <2>1, <2>2, <3>1, <3>2 DEF InOrder
    <2>4. Opens /\ OwnIndices
      BY <2>1, <2>2 DEF Opens, RoundOpens, Entered, IsOpen, OwnIndices, Stale
    <2>5. ASSUME NEW s \in Processes, NEW k \in DOMAIN flowTable[s] PROVE Toward(s, flowTable[s][k])
      <3>1. [Rule(IpRange(Id(s)), "FORWARD", 3) EXCEPT !.pktCount = 0].port = 3
        BY DEF Rule
      <3>2. flowTable[s][k].port = 3
        <4>1. PICK r : r = [Rule(IpRange(Id(s)), "FORWARD", 3) EXCEPT !.pktCount = 0]
          OBVIOUS
        <4>2. flowTable[s] = <<r>> /\ r.port = 3
          BY <2>1, <3>1, <4>1
        <4>3. DOMAIN <<r>> = {1} /\ <<r>>[1] = r
          OBVIOUS
        <4> QED
          BY <4>2, <4>3
      <3> QED
        BY <3>2 DEF Toward
    <2> QED
      BY <2>1, <2>2, <2>3, <2>4, <2>5 DEF Directions
  <1>2. Inv /\ InOrder /\ Opens /\ OwnIndices /\ Directions /\ [Next]_vars =>
          InOrder' /\ Opens' /\ OwnIndices' /\ Directions'
    BY InOrderStep, OpensStep, OwnIndicesStep, DirectionsStep
  <1>3. Directions => ForwardTowards
    BY DEF Directions, Toward, ForwardTowards
  <1> QED
    BY <1>1, <1>2, <1>3, Invariance, PTL DEF Spec
=============================================================================
