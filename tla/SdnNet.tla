------------------------------- MODULE SdnNet -------------------------------
(***************************************************************************)
(* What the controller and the switches of a3sdn (test2/) share: addresses,*)
(* packets, the TCP connection of each switch to the controller and the    *)
(* FIFOs between neighbours.                                               *)
(*                                                                         *)
(* Switches stand in a line: port 1 of a switch leads to the one before    *)
(* it, port 2 to the one after.  A switch whose program has ended may be   *)
(* started again, so connections belong to processes, of which several may *)
(* bear the same switch's id, one after the other.  FIFOs belong to ids.   *)
(*                                                                         *)
(* A packet is kept as the first and the last of its numbers, a rule as the*)
(* destinations it covers.  A packet arrives whole; what is in a connection*)
(* or a FIFO is read at once, and only its first packet is parsed.  Read   *)
(* over a longer packet, it ends in the tail of the longer one, whose      *)
(* digits may run on from its last number: how many do is left open.       *)
(***************************************************************************)
EXTENDS Integers, Sequences, FiniteSets

CONSTANTS
  NumSwitches,
  Again,        \* the switches that are started once more, in no order
  Low, High,    \* ipLow and ipHigh of each switch
  Addresses,    \* destinations of the traffic, and the bounds of the ranges
  Sources       \* source addresses of the traffic

MaxIp == 1000
TooHigh == MaxIp + 1    \* stands for every number greater than MaxIp
Switches == 1 .. NumSwitches

ASSUME CountAssumption == NumSwitches \in Nat \ {0} /\ Again \in Seq(1 .. NumSwitches)
ASSUME AddressAssumption ==
  /\ Addresses \subseteq 0 .. MaxIp
  /\ Sources \subseteq 0 .. MaxIp /\ Sources # {}
  /\ Low \in [Switches -> Addresses] /\ High \in [Switches -> Addresses]
  /\ \A s \in Switches : Low[s] <= High[s]

Processes == 1 .. NumSwitches + Len(Again)
Id(s) == IF s <= NumSwitches THEN s ELSE Again[s - NumSwitches]
Ports == {1, 2}
NoSwitch == -1          \* "null" on the command line

Neighbour(s, p) ==
  LET n == IF p = 1 THEN s - 1 ELSE s + 1
  IN IF n \in Switches THEN n ELSE NoSwitch

\* The addresses from low to high.
Between(low, high) == {d \in Addresses : low <= d /\ d <= high}
IpRange(s) == Between(Low[s], High[s])

\* The id is the first number of an OPEN, ipHigh the last; a QUERY has the
\* packet's source and destination.
Open(s) == [type |-> "OPEN", first |-> Id(s), last |-> High[Id(s)]]
Query(src, d) == [type |-> "QUERY", first |-> src, last |-> d]
Nothing == [type |-> "", first |-> 0, last |-> 0]

\* Characters of a number, and of "OPEN:id,port1Id,port2Id,ipLow,ipHigh" or
\* "QUERY:srcIp,destIp".
Width(n) ==
  CASE n \in 0 .. 9 -> 1
    [] n \in 10 .. 99 \cup {NoSwitch} -> 2
    [] n \in 100 .. 999 -> 3
    [] OTHER -> 4
Size(packet) ==
  CASE packet.type = "OPEN" ->
         LET s == packet.first IN
         9 + Width(s) + Width(Neighbour(s, 1)) + Width(Neighbour(s, 2)) + Width(Low[s]) + Width(High[s])
    [] packet.type = "QUERY" -> 7 + Width(packet.first) + Width(packet.last)
    [] OTHER -> 0

\* What n may be read as when a tail follows: n itself, if the tail begins with
\* no digit, or n continued by one to four digits.
Readings(n) == {n, TooHigh} \cup {e \in Addresses : \E k \in {10, 100, 1000, 10000} : e \div k = n}

\* What a packet is parsed as when the longest read before it in the buffer has
\* this size.
Parsed(packet, longest) ==
  IF longest <= Size(packet) THEN {packet}
  ELSE {[packet EXCEPT !.last = n] : n \in Readings(packet.last)}

\* Every address has three digits, and none can be continued: 1000 would be 100
\* and a digit.
ThreeDigits == Addresses \cup Sources \subseteq 101 .. 999

Rule(dests, action, port) == [dests |-> dests, action |-> action, port |-> port, pktCount |-> 1]
Ack == [type |-> "ACK", rule |-> Rule({}, "DROP", 0)]
Add(rule) == [type |-> "ADD", rule |-> rule]

VARIABLES
  connq,    \* connections waiting for accept
  up, down, \* packets of each connection, to and from the controller
  upEnd,    \* the switch's end of it: "open", "fin" or "rst"
  fifo,     \* addresses relayed, by sender and receiver
  made,     \* the ports a process has made a FIFO for, and reads it
  sw,       \* where each switch's program is
  cont      \* where the controller is in its loop, or "gone"

NetInit ==
  /\ connq = <<>>
  /\ up = [s \in Processes |-> <<>>] /\ down = [s \in Processes |-> <<>>]
  /\ upEnd = [s \in Processes |-> "open"]
  /\ fifo = [c \in Switches \X Switches |-> <<>>]
  /\ made = [s \in Processes |-> {}]

Alive(s) == sw[s] \in {"connected", "open"}
Ended(s) == sw[s] \in {"exited", "failed"}

\* The ports that need a FIFO to read from; with all of them open, the loop.
Wanted(s) == {p \in Ports : Neighbour(Id(s), p) # NoSwitch}
Looping(s) == sw[s] = "open" /\ Wanted(s) \subseteq made[s]
=============================================================================
