------------------------------ MODULE A2Proofs ------------------------------
(***************************************************************************)
(* Proofs about A2w22 for every number of switches and every length of     *)
(* their traffic files, and however often they are started again: type     *)
(* correctness, no HELLO lost, no rule unasked, no rule that counts more   *)
(* than was admitted, and rules that forward to registered switches only.  *)
(***************************************************************************)
EXTENDS A2w22, DataFacts, FiniteSetTheorems, SequenceTheorems

-----------------------------------------------------------------------------
(* The strengthening that makes the invariants inductive.                   *)

InMessages == [type : {"HELLO", "ASK", "RELAY"}, arg : Addresses]
OutMessages ==
  [type : {"HELLO_ACK", "ADD_FORWARD", "ADD_DROP"}, dest : Addresses, port1 : Int]

Types ==
  /\ inFifo \in [Switches -> Seq(InMessages)]
  /\ outFifo \in [Switches -> Seq(OutMessages)]
  /\ switches \in Seq(Switches)
  /\ forwardingTable \in [Switches -> Seq(Rules)]
  /\ admit \in [Switches -> Nat]
  /\ ask \in [Switches -> Nat]
  /\ add \in [Switches -> Nat]
  /\ sw \in [Switches -> {"off", "on", "exited", "crashed"}]
  /\ cont \in {"on", "exited"}
  /\ starts \in [Switches -> Nat]

\* A switch asks only for what it has admitted.
Bounds ==
  \A s \in Switches : admit[s] <= MaxLines[s] /\ ask[s] <= admit[s] /\ starts[s] <= MaxStarts[s]

\* The FIFO of a switch that has not started is empty.
Unstarted == \A s \in Switches : sw[s] = "off" => inFifo[s] = <<>>

Inv == Types /\ Bounds /\ Unstarted /\ AddForAsk /\ HelloFirst

-----------------------------------------------------------------------------
(* Counting messages in a FIFO.                                             *)

Indices(queue, types) == {i \in DOMAIN queue : queue[i].type \in types}

\* The messages of some types in a FIFO can be counted.
LEMMA IndicesFinite ==
  ASSUME NEW S, NEW queue \in Seq(S), NEW types
  PROVE  /\ IsFiniteSet(Indices(queue, types))
         /\ Cardinality(Indices(queue, types)) \in Nat
         /\ Count(queue, types) = Cardinality(Indices(queue, types))
  <1>1. DOMAIN queue = 1 .. Len(queue) /\ Len(queue) \in Nat
    BY LenProperties
  <1>2. IsFiniteSet(1 .. Len(queue))
    BY <1>1, FS_Interval
  <1>3. Indices(queue, types) \in SUBSET (1 .. Len(queue))
    BY <1>1 DEF Indices
  <1>4. IsFiniteSet(Indices(queue, types))
    BY <1>2, <1>3, FS_Subset
  <1>5. Cardinality(Indices(queue, types)) \in Nat
    BY <1>4, FS_CardinalityType
  <1> QED
    BY <1>4, <1>5 DEF Count, Indices

\* Their count is a number,
LEMMA CountType ==
  ASSUME NEW S, NEW queue \in Seq(S), NEW types
  PROVE  Count(queue, types) \in Nat
  BY IndicesFinite

\* of an empty FIFO 0.
LEMMA CountEmpty == ASSUME NEW types PROVE Count(<<>>, types) = 0
  <1>1. {i \in DOMAIN <<>> : <<>>[i].type \in types} = {}
    OBVIOUS
  <1> QED
    BY <1>1, FS_EmptySet DEF Count

\* One more message counts one more if it is of these types.
LEMMA CountAppend ==
  ASSUME NEW S, NEW queue \in Seq(S), NEW m \in S, NEW types
  PROVE  Count(Append(queue, m), types) =
           Count(queue, types) + (IF m.type \in types THEN 1 ELSE 0)
  <1> DEFINE longer == Append(queue, m)
             n == Len(queue) + 1
  <1>1. /\ DOMAIN queue = 1 .. Len(queue) /\ DOMAIN longer = 1 .. n
        /\ Len(queue) \in Nat
        /\ longer[n] = m /\ \A i \in 1 .. Len(queue) : longer[i] = queue[i]
    OBVIOUS
  <1>2. n \notin Indices(queue, types)
    BY <1>1 DEF Indices
  <1>3. Indices(longer, types) =
          IF m.type \in types THEN Indices(queue, types) \cup {n} ELSE Indices(queue, types)
    BY <1>1 DEF Indices
  <1>4. longer \in Seq(S)
    OBVIOUS
  <1> HIDE DEF longer, n
  <1>5. Cardinality(Indices(queue, types) \cup {n}) = Cardinality(Indices(queue, types)) + 1
    BY <1>2, IndicesFinite, FS_AddElement
  <1>6. /\ Count(longer, types) = Cardinality(Indices(longer, types))
        /\ Count(queue, types) = Cardinality(Indices(queue, types))
        /\ Count(queue, types) \in Nat
    BY <1>4, IndicesFinite
  <1>7. Count(longer, types) = Count(queue, types) + (IF m.type \in types THEN 1 ELSE 0)
    BY <1>3, <1>5, <1>6
  <1> QED
    BY <1>7 DEF longer

\* A FIFO that begins with such a message has at least one.
LEMMA CountHead ==
  ASSUME NEW S, NEW queue \in Seq(S), NEW types, queue # <<>>, Head(queue).type \in types
  PROVE  Count(queue, types) \in Nat /\ Count(queue, types) >= 1
  <1>1. 1 \in Indices(queue, types)
    BY DEF Indices
  <1>2. Cardinality(Indices(queue, types)) # 0
    BY <1>1, IndicesFinite, FS_EmptySet
  <1> QED
    BY <1>2, IndicesFinite

-----------------------------------------------------------------------------
(* Every step preserves the invariant.                                      *)

\* Messages have the types of their FIFOs.
LEMMA Messages ==
  /\ \A s \in Switches : Hello(s) \in InMessages /\ Relay(s) \in InMessages
  /\ \A d \in Addresses : Ask(d) \in InMessages /\ AddDrop(d) \in OutMessages
  /\ \A s \in Switches : AddForward(s) \in OutMessages
  /\ HelloAck \in OutMessages
  BY A2Assumption
     DEF InMessages, OutMessages, Hello, Relay, Ask, AddDrop, AddForward, HelloAck,
         Addresses, Switches, Nowhere, Left

Asks(s) == Count(inFifo[s], {"ASK"})
Adds(s) == Count(outFifo[s], {"ADD_FORWARD", "ADD_DROP"})

\* The counts of ASK and ADD are numbers.
LEMMA OwnCounts ==
  ASSUME Types
  PROVE  \A s \in Switches : Asks(s) \in Nat /\ Adds(s) \in Nat
  BY CountType DEF Types, Asks, Adds

\* A step of switch s, or of the controller for it, that keeps the balance of
\* s keeps all.
LEMMA Balance ==
  ASSUME AddForAsk, NEW s \in Switches,
         Asks(s)' + Adds(s)' + add'[s] <= ask'[s],
         \A r \in Switches \ {s} :
           inFifo'[r] = inFifo[r] /\ outFifo'[r] = outFifo[r] /\ add'[r] = add[r] /\ ask'[r] = ask[r]
  PROVE  AddForAsk'
  BY DEF AddForAsk, Asks, Adds

\* The balance of one switch.
LEMMA OwnBalance ==
  ASSUME Types, AddForAsk, NEW s \in Switches
  PROVE  /\ Asks(s) \in Nat /\ Adds(s) \in Nat /\ add[s] \in Nat /\ ask[s] \in Nat
         /\ Asks(s) + Adds(s) + add[s] <= ask[s]
  BY OwnCounts DEF AddForAsk, Asks, Adds, Types

\* A switch starts with its HELLO, behind what is left in the FIFO.
LEMMA StartStep ==
  ASSUME Inv, NEW s \in Switches, Start(s)
  PROVE  Inv'
  <1>1. Types /\ Bounds /\ Unstarted /\ AddForAsk /\ HelloFirst
    BY DEF Inv
  <1> DEFINE in == Kept(inFifo[s])
             out == Kept(outFifo[s])
  <1>2. /\ starts[s] < MaxStarts[s] /\ sw' = [sw EXCEPT ![s] = "on"]
        /\ starts' = [starts EXCEPT ![s] = @ + 1]
        /\ inFifo' = [inFifo EXCEPT ![s] = Append(in, Hello(s))] /\ outFifo' = [outFifo EXCEPT ![s] = out]
        /\ forwardingTable' = [forwardingTable EXCEPT ![s] = <<OwnRule(s)>>]
        /\ UNCHANGED <<switches, admit, ask, add, cont>>
    BY DEF Start
  <1>3. /\ in \in Seq(InMessages) /\ out \in Seq(OutMessages) /\ Hello(s) \in InMessages
        /\ in = inFifo[s] \/ in = <<>>
        /\ out = outFifo[s] \/ out = <<>>
    BY <1>1, Messages DEF Types, Kept
  <1> HIDE DEF in, out
  <1>4. /\ inFifo' \in [Switches -> Seq(InMessages)] /\ inFifo'[s] = Append(in, Hello(s))
        /\ \A r \in Switches \ {s} : inFifo'[r] = inFifo[r]
        /\ outFifo' \in [Switches -> Seq(OutMessages)] /\ outFifo'[s] = out
        /\ \A r \in Switches \ {s} : outFifo'[r] = outFifo[r]
    BY <1>1, <1>2, <1>3 DEF Types
  <1>5. /\ inFifo'[s] # <<>>
        /\ in = <<>> => Head(inFifo'[s]) = Hello(s)
        /\ in # <<>> => Head(inFifo'[s]) = Head(in)
    BY <1>3, <1>4
  <1>6. /\ sw' \in [Switches -> {"off", "on", "exited", "crashed"}] /\ sw'[s] = "on"
        /\ \A r \in Switches \ {s} : sw'[r] = sw[r]
        /\ starts' \in [Switches -> Nat] /\ starts'[s] = starts[s] + 1
        /\ \A r \in Switches \ {s} : starts'[r] = starts[r]
    BY <1>1, <1>2 DEF Types
  <1>7. Types'
    <2>1. OwnRule(s) \in Rules
      BY DEF OwnRule, Rules, Addresses
    <2>2. forwardingTable' \in [Switches -> Seq(Rules)]
      BY <1>1, <1>2, <2>1 DEF Types
    <2> QED
      BY <1>1, <1>2, <1>4, <1>6, <2>2 DEF Types
  <1>8. Bounds'
    <2>1. MaxStarts[s] \in Nat /\ starts[s] \in Nat
      BY <1>1, A2Assumption DEF Types
    <2> QED
      BY <1>1, <1>2, <1>6, <2>1 DEF Bounds
  <1>9. Unstarted'
    BY <1>1, <1>4, <1>6 DEF Unstarted
  <1>10. Asks(s)' <= Asks(s) /\ Asks(s)' \in Nat
    <2>1. Count(Append(in, Hello(s)), {"ASK"}) = Count(in, {"ASK"}) + 0
      BY <1>3, CountAppend DEF Hello
    <2>2. Count(in, {"ASK"}) \in Nat /\ Asks(s) \in Nat
      BY <1>1, <1>3, CountType, OwnCounts
    <2>3. in = inFifo[s] => Count(in, {"ASK"}) = Asks(s)
      BY DEF Asks
    <2>4. Count(in, {"ASK"}) = Asks(s) \/ Count(in, {"ASK"}) = 0
      BY <1>3, <2>3, CountEmpty
    <2>5. Asks(s)' = Count(in, {"ASK"})
      BY <1>4, <2>1, <2>2 DEF Asks
    <2> QED
      BY <2>2, <2>4, <2>5
  <1>11. Adds(s)' <= Adds(s) /\ Adds(s)' \in Nat
    <2>1. Adds(s) \in Nat /\ (out = outFifo[s] => Adds(s)' = Adds(s))
      BY <1>1, <1>4, OwnCounts DEF Adds
    <2>2. out = <<>> => Adds(s)' = 0
      BY <1>4, CountEmpty DEF Adds
    <2> QED
      BY <1>3, <2>1, <2>2
  <1>12. AddForAsk'
    <2>1. Asks(s)' + Adds(s)' + add'[s] <= ask'[s]
      BY <1>1, <1>2, <1>10, <1>11, OwnBalance
    <2> QED
      BY <1>1, <1>2, <1>4, <2>1, Balance
  <1>13. HelloFirst'
    <2>1. \/ Head(inFifo'[s]) = Hello(s)
          \/ \E k \in DOMAIN switches' : switches'[k] = s
      BY <1>1, <1>2, <1>3, <1>5 DEF Unstarted, HelloFirst
    <2> QED
      BY <1>1, <1>2, <1>4, <1>5, <1>6, <2>1 DEF HelloFirst
  <1> QED
    BY <1>7, <1>8, <1>9, <1>12, <1>13 DEF Inv

\* An ASK is counted when it is written.
LEMMA AdmitUnknownStep ==
  ASSUME Inv, NEW s \in Switches, NEW d \in Addresses, Admit(s, d), AdmitUnknown(s, d)
  PROVE  Inv'
  <1>1. Types /\ Bounds /\ Unstarted /\ AddForAsk /\ HelloFirst
    BY DEF Inv
  <1>2. /\ sw[s] = "on" /\ admit[s] < MaxLines[s]
        /\ admit' = [admit EXCEPT ![s] = @ + 1] /\ ask' = [ask EXCEPT ![s] = @ + 1]
        /\ inFifo' = [inFifo EXCEPT ![s] = Append(@, Ask(d))]
        /\ UNCHANGED <<outFifo, switches, forwardingTable, add, sw, cont, starts>>
    BY DEF Admit, AdmitUnknown
  <1>3. /\ inFifo' \in [Switches -> Seq(InMessages)]
        /\ inFifo'[s] = Append(inFifo[s], Ask(d)) /\ inFifo'[s] # <<>>
        /\ inFifo[s] # <<>> => Head(inFifo'[s]) = Head(inFifo[s])
        /\ \A r \in Switches \ {s} : inFifo'[r] = inFifo[r]
    <2>1. inFifo \in [Switches -> Seq(InMessages)] /\ Ask(d) \in InMessages
      BY <1>1, Messages DEF Types
    <2> QED
      BY <1>2, <2>1, Written
  <1>4. /\ admit' \in [Switches -> Nat] /\ ask' \in [Switches -> Nat]
        /\ admit'[s] = admit[s] + 1 /\ ask'[s] = ask[s] + 1
        /\ \A r \in Switches \ {s} : admit'[r] = admit[r] /\ ask'[r] = ask[r]
    BY <1>1, <1>2 DEF Types
  <1>5. Types'
    BY <1>1, <1>2, <1>3, <1>4 DEF Types
  <1>6. Bounds' /\ Unstarted'
    <2>1. MaxLines[s] \in Nat /\ admit[s] \in Nat /\ ask[s] \in Nat
      BY <1>1, A2Assumption DEF Types
    <2> QED
      BY <1>1, <1>2, <1>3, <1>4, <2>1 DEF Bounds, Unstarted
  <1>7. Asks(s)' = Asks(s) + 1
    <2>1. inFifo[s] \in Seq(InMessages) /\ Ask(d) \in InMessages /\ Ask(d).type = "ASK"
      BY <1>1, Messages DEF Types, Ask
    <2> QED
      BY <1>3, <2>1, CountAppend DEF Asks
  <1>8. Adds(s)' = Adds(s)
    BY <1>2 DEF Adds
  <1>9. Asks(s)' + Adds(s)' + add'[s] <= ask'[s]
    BY <1>1, <1>2, <1>4, <1>7, <1>8, OwnBalance
  <1>10. AddForAsk'
    BY <1>1, <1>2, <1>3, <1>4, <1>9, Balance
  <1>11. HelloFirst'
    BY <1>1, <1>2, <1>3 DEF HelloFirst
  <1> QED
    BY <1>5, <1>6, <1>10, <1>11 DEF Inv

\* A relay neither asks nor answers.
LEMMA AdmitKnownStep ==
  ASSUME Inv, NEW s \in Switches, NEW d \in Addresses, Admit(s, d),
         NEW k \in Match(s, d), AdmitKnown(s, k)
  PROVE  Inv'
  <1>1. Types /\ Bounds /\ Unstarted /\ AddForAsk /\ HelloFirst
    BY DEF Inv
  <1>2. /\ sw[s] = "on" /\ admit[s] < MaxLines[s]
        /\ admit' = [admit EXCEPT ![s] = @ + 1]
        /\ forwardingTable' = [forwardingTable EXCEPT ![s][k].pktCount = @ + 1]
        /\ inFifo' = inFifo \/ inFifo' = [inFifo EXCEPT ![s] = Append(@, Relay(s))]
        /\ sw' = sw \/ sw' = [sw EXCEPT ![s] = "crashed"]
        /\ UNCHANGED <<outFifo, switches, ask, add, cont, starts>>
    BY DEF Admit, AdmitKnown
  <1>3. /\ inFifo' \in [Switches -> Seq(InMessages)]
        /\ inFifo'[s] = inFifo[s] \/ inFifo'[s] = Append(inFifo[s], Relay(s))
        /\ inFifo[s] # <<>> => inFifo'[s] # <<>> /\ Head(inFifo'[s]) = Head(inFifo[s])
        /\ \A r \in Switches \ {s} : inFifo'[r] = inFifo[r]
    <2>1. inFifo \in [Switches -> Seq(InMessages)] /\ Relay(s) \in InMessages
      BY <1>1, Messages DEF Types
    <2>2. CASE inFifo' = inFifo
      BY <2>1, <2>2
    <2>3. CASE inFifo' = [inFifo EXCEPT ![s] = Append(@, Relay(s))]
      BY <2>1, <2>3, Written
    <2> QED
      BY <1>2, <2>2, <2>3
  <1>4. /\ admit' \in [Switches -> Nat] /\ admit'[s] = admit[s] + 1
        /\ \A r \in Switches \ {s} : admit'[r] = admit[r]
    BY <1>1, <1>2 DEF Types
  <1>5. /\ sw' \in [Switches -> {"off", "on", "exited", "crashed"}]
        /\ \A r \in Switches : sw'[r] = "off" <=> sw[r] = "off"
    BY <1>1, <1>2 DEF Types
  <1>6. forwardingTable' \in [Switches -> Seq(Rules)]
    <2> DEFINE q == forwardingTable[s]
               rule == [q[k] EXCEPT !.pktCount = @ + 1]
    <2>1. q \in Seq(Rules) /\ k \in DOMAIN q
      BY <1>1 DEF Types, Match
    <2>2. q[k] \in Rules
      BY <2>1
    <2>3. rule \in Rules
      BY <2>2 DEF Rules
    <2>4. [q EXCEPT ![k] = rule] \in Seq(Rules)
      BY <2>1, <2>3
    <2>5. forwardingTable' = [forwardingTable EXCEPT ![s] = [q EXCEPT ![k] = rule]]
      BY <1>2
    <2> QED
      BY <1>1, <2>4, <2>5 DEF Types
  <1>7. Types'
    BY <1>1, <1>2, <1>3, <1>4, <1>5, <1>6 DEF Types
  <1>8. Bounds' /\ Unstarted'
    <2>1. MaxLines[s] \in Nat /\ admit[s] \in Nat /\ ask[s] \in Nat
      BY <1>1, A2Assumption DEF Types
    <2>2. Bounds'
      BY <1>1, <1>2, <1>4, <2>1 DEF Bounds
    <2>3. Unstarted'
      BY <1>1, <1>2, <1>3, <1>5 DEF Unstarted
    <2> QED
      BY <2>2, <2>3
  <1>9. Asks(s)' = Asks(s)
    <2>1. inFifo[s] \in Seq(InMessages) /\ Relay(s) \in InMessages /\ Relay(s).type = "RELAY"
      BY <1>1, Messages DEF Types, Relay
    <2>2. Count(Append(inFifo[s], Relay(s)), {"ASK"}) = Count(inFifo[s], {"ASK"}) + 0
      BY <2>1, CountAppend
    <2>3. Count(inFifo[s], {"ASK"}) \in Nat
      BY <2>1, CountType
    <2>4. Count(Append(inFifo[s], Relay(s)), {"ASK"}) = Count(inFifo[s], {"ASK"})
      BY <2>2, <2>3
    <2>5. inFifo'[s] = inFifo[s] \/ inFifo'[s] = Append(inFifo[s], Relay(s))
      BY <1>3
    <2> QED
      BY <2>4, <2>5, Zenon DEF Asks
  <1>10. Adds(s)' = Adds(s)
    BY <1>2 DEF Adds
  <1>11. AddForAsk'
    BY <1>1, <1>2, <1>3, <1>9, <1>10, Balance, OwnBalance
  <1>12. HelloFirst'
    BY <1>1, <1>2, <1>3, <1>5 DEF HelloFirst
  <1> QED
    BY <1>7, <1>8, <1>11, <1>12 DEF Inv

\* A read takes one ADD at most for all that were written.
LEMMA SwitchReceiveStep ==
  ASSUME Inv, NEW s \in Switches, SwitchReceive(s)
  PROVE  Inv'
  <1>1. Types /\ Bounds /\ Unstarted /\ AddForAsk /\ HelloFirst
    BY DEF Inv
  <1> DEFINE m == Head(outFifo[s])
  <1>2. /\ outFifo[s] # <<>> /\ outFifo' = [outFifo EXCEPT ![s] = <<>>]
        /\ UNCHANGED <<inFifo, switches, admit, ask, sw, cont, starts>>
        /\ m.type = "HELLO_ACK" => forwardingTable' = forwardingTable /\ add' = add
        /\ m.type = "ADD_FORWARD" => AddForwardRule(s, m) /\ add' = [add EXCEPT ![s] = @ + 1]
        /\ m.type = "ADD_DROP" => AddDropRule(s, m.dest) /\ add' = [add EXCEPT ![s] = @ + 1]
    BY DEF SwitchReceive, Taken
  <1>3. outFifo \in [Switches -> Seq(OutMessages)] /\ outFifo[s] \in Seq(OutMessages) /\ m \in OutMessages
    BY <1>1, <1>2 DEF Types
  <1>4. m.type \in {"HELLO_ACK", "ADD_FORWARD", "ADD_DROP"} /\ m.dest \in Addresses
    BY <1>3 DEF OutMessages
  <1>5. /\ outFifo' \in [Switches -> Seq(OutMessages)] /\ outFifo'[s] = <<>>
        /\ \A r \in Switches \ {s} : outFifo'[r] = outFifo[r]
    BY <1>2, <1>3, Emptied
  <1>6. m.type # "HELLO_ACK" => Adds(s) >= 1
    BY <1>2, <1>3, <1>4, CountHead DEF Adds
  <1> HIDE DEF m
  <1>7. /\ add' \in [Switches -> Nat]
        /\ \A r \in Switches \ {s} : add'[r] = add[r]
        /\ add'[s] = add[s] + (IF m.type = "HELLO_ACK" THEN 0 ELSE 1)
    <2>1. add \in [Switches -> Nat]
      BY <1>1 DEF Types
    <2>2. add' = IF m.type = "HELLO_ACK" THEN add ELSE [add EXCEPT ![s] = @ + 1]
      BY <1>2, <1>4
    <2> QED
      BY <2>1, <2>2
  <1>8. forwardingTable' \in [Switches -> Seq(Rules)]
    <2>1. forwardingTable \in [Switches -> Seq(Rules)]
      BY <1>1 DEF Types
    <2>2. CASE m.type = "ADD_FORWARD"
      <3>1. [dest |-> m.dest, action |-> "FORWARD", port |-> ForwardingPort(s, m), pktCount |-> 1] \in Rules
        BY <1>4 DEF ForwardingPort, Rules
      <3>2. forwardingTable' = [forwardingTable EXCEPT ![s] = Append(@,
              [dest |-> m.dest, action |-> "FORWARD", port |-> ForwardingPort(s, m), pktCount |-> 1])]
        BY <1>2, <2>2 DEF AddForwardRule
      <3> QED
        BY <2>1, <3>1, <3>2, Written
    <2>3. CASE m.type = "ADD_DROP"
      <3>1. [dest |-> m.dest, action |-> "DROP", port |-> 0, pktCount |-> 1] \in Rules
        BY <1>4 DEF Rules
      <3>2. forwardingTable' = [forwardingTable EXCEPT ![s] = Append(@,
              [dest |-> m.dest, action |-> "DROP", port |-> 0, pktCount |-> 1])]
        BY <1>2, <2>3 DEF AddDropRule
      <3> QED
        BY <2>1, <3>1, <3>2, Written
    <2> QED
      BY <1>2, <1>4, <2>1, <2>2, <2>3
  <1>9. Types'
    BY <1>1, <1>2, <1>5, <1>7, <1>8 DEF Types
  <1>10. Bounds' /\ Unstarted' /\ HelloFirst'
    BY <1>1, <1>2 DEF Bounds, Unstarted, HelloFirst
  <1>11. Adds(s)' = 0 /\ Asks(s)' = Asks(s)
    BY <1>2, <1>5, CountEmpty DEF Adds, Asks
  <1>12. Asks(s)' + Adds(s)' + add'[s] <= ask'[s]
    BY <1>1, <1>2, <1>6, <1>7, <1>11, OwnBalance
  <1>13. AddForAsk'
    BY <1>1, <1>2, <1>5, <1>7, <1>12, Balance
  <1> QED
    BY <1>9, <1>10, <1>13 DEF Inv

\* An ADD is written for an ASK that was read.
LEMMA ControllerReceiveStep ==
  ASSUME Inv, NEW s \in Switches, ControllerReceive(s)
  PROVE  Inv'
  <1>1. Types /\ Bounds /\ Unstarted /\ AddForAsk /\ HelloFirst
    BY DEF Inv
  <1> DEFINE m == Head(inFifo[s])
             reply == IF \E k \in DOMAIN switches : switches[k] = m.arg
                      THEN AddForward(m.arg) ELSE AddDrop(m.arg)
  <1>2. /\ inFifo[s] # <<>> /\ inFifo' = [inFifo EXCEPT ![s] = <<>>]
        /\ UNCHANGED <<forwardingTable, admit, ask, add, sw, cont, starts>>
        /\ m.type = "HELLO" => /\ switches' = Append(switches, s)
                               /\ outFifo' = [outFifo EXCEPT ![s] = Append(@, HelloAck)]
        /\ m.type = "ASK" => /\ outFifo' = [outFifo EXCEPT ![s] = Append(@, reply)]
                             /\ switches' = switches
        /\ m.type = "RELAY" => switches' = switches /\ outFifo' = outFifo
    BY DEF ControllerReceive, Taken, Answer
  <1>3. /\ inFifo \in [Switches -> Seq(InMessages)] /\ inFifo[s] \in Seq(InMessages) /\ m \in InMessages
        /\ outFifo \in [Switches -> Seq(OutMessages)] /\ outFifo[s] \in Seq(OutMessages)
        /\ switches \in Seq(Switches)
    <2>1. /\ inFifo \in [Switches -> Seq(InMessages)] /\ inFifo[s] \in Seq(InMessages)
          /\ outFifo \in [Switches -> Seq(OutMessages)] /\ outFifo[s] \in Seq(OutMessages)
          /\ switches \in Seq(Switches)
      BY <1>1 DEF Types
    <2>2. inFifo[s] # <<>>
      BY <1>2
    <2>3. m \in InMessages
      BY <2>1, <2>2
    <2> QED
      BY <2>1, <2>3
  <1>4. m.type \in {"HELLO", "ASK", "RELAY"} /\ m.arg \in Addresses
    BY <1>3 DEF InMessages
  <1>5. m = Hello(s) => m.type = "HELLO"
    BY DEF Hello
  <1>6. m.type = "ASK" => Asks(s) >= 1
    BY <1>2, <1>3, CountHead DEF Asks
  <1>7. reply \in OutMessages /\ reply.type \in {"ADD_FORWARD", "ADD_DROP"}
    <2>1. (\E k \in DOMAIN switches : switches[k] = m.arg) => m.arg \in Switches
      BY <1>3
    <2> QED
      BY <1>4, <2>1, Messages DEF AddForward, AddDrop
  <1>8. m = Head(inFifo[s])
    OBVIOUS
  <1> HIDE DEF m, reply
  <1>9. /\ inFifo' \in [Switches -> Seq(InMessages)] /\ inFifo'[s] = <<>>
        /\ \A r \in Switches \ {s} : inFifo'[r] = inFifo[r]
    BY <1>2, <1>3, Emptied
  <1>10. /\ outFifo' \in [Switches -> Seq(OutMessages)]
         /\ \A r \in Switches \ {s} : outFifo'[r] = outFifo[r]
         /\ m.type = "HELLO" => outFifo'[s] = Append(outFifo[s], HelloAck)
         /\ m.type = "ASK" => outFifo'[s] = Append(outFifo[s], reply)
         /\ m.type = "RELAY" => outFifo'[s] = outFifo[s]
    <2>1. CASE m.type = "HELLO"
      <3>1. outFifo' = [outFifo EXCEPT ![s] = Append(@, HelloAck)] /\ HelloAck \in OutMessages
        BY <1>2, <2>1, Messages
      <3> QED
        BY <1>3, <2>1, <3>1, Written
    <2>2. CASE m.type = "ASK"
      <3>1. outFifo' = [outFifo EXCEPT ![s] = Append(@, reply)]
        BY <1>2, <2>2
      <3> QED
        BY <1>3, <1>7, <2>2, <3>1, Written
    <2>3. CASE m.type = "RELAY"
      BY <1>2, <1>3, <2>3
    <2> QED
      BY <1>4, <2>1, <2>2, <2>3
  <1>11. /\ switches' \in Seq(Switches)
         /\ \A k \in DOMAIN switches : k \in DOMAIN switches' /\ switches'[k] = switches[k]
         /\ m.type = "HELLO" => \E k \in DOMAIN switches' : switches'[k] = s
    <2>1. CASE m.type = "HELLO"
      <3>1. switches' = Append(switches, s)
        BY <1>2, <2>1
      <3>2. /\ switches' \in Seq(Switches)
            /\ \A k \in DOMAIN switches : k \in DOMAIN switches' /\ switches'[k] = switches[k]
            /\ Len(switches') \in DOMAIN switches' /\ switches'[Len(switches')] = s
        BY <1>3, <3>1, Appended
      <3> QED
        BY <3>2
    <2>2. CASE m.type # "HELLO"
      BY <1>2, <1>3, <1>4, <2>2
    <2> QED
      BY <2>1, <2>2
  <1>12. Types'
    BY <1>1, <1>2, <1>9, <1>10, <1>11 DEF Types
  <1>13. Bounds' /\ Unstarted'
    BY <1>1, <1>2, <1>9 DEF Bounds, Unstarted
  <1>14. Asks(s)' = 0
    BY <1>9, CountEmpty DEF Asks
  <1>15. Adds(s)' <= Adds(s) + Asks(s) /\ Adds(s)' \in Nat
    <2>1. CASE m.type = "ASK"
      <3>1. Adds(s)' = Adds(s) + 1
        <4>1. outFifo'[s] = Append(outFifo[s], reply)
          BY <1>10, <2>1
        <4> QED
          BY <1>3, <1>7, <4>1, CountAppend DEF Adds
      <3> QED
        BY <1>1, <1>6, <2>1, <3>1, OwnBalance
    <2>2. CASE m.type = "HELLO"
      <3>1. HelloAck.type = "HELLO_ACK"
        BY DEF HelloAck
      <3>2. Adds(s)' = Adds(s) + 0
        <4>1. outFifo'[s] = Append(outFifo[s], HelloAck) /\ HelloAck \in OutMessages
          BY <1>10, <2>2, Messages
        <4>2. HelloAck.type \notin {"ADD_FORWARD", "ADD_DROP"}
          BY <3>1
        <4>3. Count(Append(outFifo[s], HelloAck), {"ADD_FORWARD", "ADD_DROP"}) =
                Count(outFifo[s], {"ADD_FORWARD", "ADD_DROP"}) + 0
          BY <1>3, <4>1, <4>2, CountAppend
        <4> QED
          BY <4>1, <4>3 DEF Adds
      <3> QED
        BY <1>1, <3>2, OwnBalance
    <2>3. CASE m.type = "RELAY"
      BY <1>1, <1>10, <2>3, OwnBalance DEF Adds
    <2> QED
      BY <1>4, <2>1, <2>2, <2>3
  <1>16. Asks(s)' + Adds(s)' + add'[s] <= ask'[s]
    BY <1>1, <1>2, <1>14, <1>15, OwnBalance
  <1>17. AddForAsk'
    BY <1>1, <1>2, <1>9, <1>10, <1>16, Balance
  <1>18. HelloFirst'
    BY <1>1, <1>2, <1>5, <1>8, <1>9, <1>11 DEF HelloFirst
  <1> QED
    BY <1>12, <1>13, <1>17, <1>18 DEF Inv

\* With all FIFOs empty the invariant holds.
LEMMA InitInv == Init => Inv
  <1> SUFFICES ASSUME Init PROVE Inv
    OBVIOUS
  <1>1. Types
    BY A2Assumption DEF Init, Types, OwnRule, Rules, Addresses, Switches, Nowhere
  <1>2. Bounds /\ Unstarted /\ HelloFirst
    BY A2Assumption DEF Init, Bounds, Unstarted, HelloFirst
  <1>3. AddForAsk
    BY CountEmpty DEF Init, AddForAsk
  <1> QED
    BY <1>1, <1>2, <1>3 DEF Inv

\* Every step keeps the invariant.
LEMMA StepInv == Inv /\ [Next]_vars => Inv'
  <1> SUFFICES ASSUME Inv, [Next]_vars PROVE Inv'
    OBVIOUS
  <1>1. CASE UNCHANGED vars
    BY <1>1 DEF vars, Inv, Types, Bounds, Unstarted, AddForAsk, HelloFirst
  <1>2. ASSUME NEW s \in Switches, SwitchExit(s) PROVE Inv'
    BY <1>2 DEF SwitchExit, Inv, Types, Bounds, Unstarted, AddForAsk, HelloFirst
  <1>3. CASE ControllerExit
    BY <1>3 DEF ControllerExit, Inv, Types, Bounds, Unstarted, AddForAsk, HelloFirst
  <1>4. ASSUME NEW s \in Switches, NEW d \in Addresses, Admit(s, d) PROVE Inv'
    BY <1>4, AdmitKnownStep, AdmitUnknownStep DEF Admit
  <1> QED
    BY <1>1, <1>2, <1>3, <1>4, StartStep, SwitchReceiveStep, ControllerReceiveStep DEF Next

\* No HELLO is behind another message, no ADD without its ASK, and no ASK
\* without a line (controller.cpp:92-195, switch.cpp:49-167).
THEOREM Invariance == Spec => []Inv
  BY InitInv, StepInv, PTL DEF Spec

-----------------------------------------------------------------------------
(* The theorems.                                                            *)

\* The variables have their types and no switch asks for more than it admitted
\* or is given more rules than it asked for.
THEOREM TypeCorrect == Spec => []TypeOK
  <1>1. Inv => TypeOK
    <2> SUFFICES ASSUME Inv PROVE TypeOK
      OBVIOUS
    <2>1. \A s \in Switches : add[s] <= ask[s]
      BY OwnBalance DEF Inv
    <2>2. \A s \in Switches :
            /\ admit[s] \in 0 .. MaxLines[s] /\ ask[s] \in 0 .. admit[s] /\ add[s] \in 0 .. ask[s]
            /\ starts[s] \in 0 .. MaxStarts[s]
      BY <2>1, A2Assumption DEF Inv, Types, Bounds
    <2> QED
      BY <2>2 DEF Inv, Types, TypeOK
  <1> QED
    BY <1>1, Invariance, PTL

\* A HELLO is never lost, though a reader drops all but the first message
\* (w22/switch.cpp:68-97, w22/controller.cpp:167-177).
THEOREM HelloNeverLost == Spec => []HelloFirst
  <1>1. Inv => HelloFirst
    BY DEF Inv
  <1> QED
    BY <1>1, Invariance, PTL

\* Every ADD answers an ASK of its own (w22/controller.cpp:178-193).
THEOREM NoRuleUnasked == Spec => []AddForAsk
  <1>1. Inv => AddForAsk
    BY DEF Inv
  <1> QED
    BY <1>1, Invariance, PTL

-----------------------------------------------------------------------------
(* What the rules count.                                                    *)

\* What the rules of a switch have counted.
Counted(s) == Total(PktCounts(forwardingTable[s]))

\* A packet that was asked about and whose ADD has not been read is counted by no
\* rule, nor is one that only a rule of an earlier program has counted.
CountsInv == \A s \in Switches : Counted(s) + ask[s] <= admit[s] + add[s]

\* Rules count in numbers.
LEMMA RulesCount ==
  /\ \A rule \in Rules : rule.pktCount \in Nat
  /\ Types => \A s \in Switches : Counted(s) \in Nat
  <1>1. \A rule \in Rules : rule.pktCount \in Nat
    BY DEF Rules
  <1>2. ASSUME Types, NEW s \in Switches PROVE Counted(s) \in Nat
    <2>1. forwardingTable[s] \in Seq(Rules)
      BY <1>2 DEF Types
    <2> QED
      BY <1>1, <2>1, PktTotal DEF Counted
  <1> QED
    BY <1>1, <1>2

\* A step of one switch that raises both sides, or neither, keeps the balance.
LEMMA CountsBalance ==
  ASSUME Types, CountsInv, NEW s \in Switches,
         Counted(s)' + ask'[s] <= admit'[s] + add'[s],
         \A r \in Switches \ {s} :
           /\ forwardingTable'[r] = forwardingTable[r]
           /\ admit'[r] = admit[r] /\ ask'[r] = ask[r] /\ add'[r] = add[r]
  PROVE  CountsInv'
  BY DEF CountsInv, Counted

\* A rule that matches counts the packet, and any other packet is asked about.
LEMMA AdmitCounts ==
  ASSUME Types, CountsInv, NEW s \in Switches, NEW d \in Addresses, Admit(s, d)
  PROVE  CountsInv'
  <1>1. /\ admit'[s] = admit[s] + 1 /\ add' = add
        /\ \A r \in Switches \ {s} : admit'[r] = admit[r]
        /\ admit[s] \in Nat /\ ask[s] \in Nat /\ add[s] \in Nat /\ Counted(s) \in Nat
        /\ Counted(s) + ask[s] <= admit[s] + add[s]
    BY RulesCount DEF Admit, Types, CountsInv
  <1>2. CASE AdmitUnknown(s, d)
    <2>1. /\ ask'[s] = ask[s] + 1 /\ \A r \in Switches \ {s} : ask'[r] = ask[r]
          /\ forwardingTable' = forwardingTable
      BY <1>2 DEF AdmitUnknown, Types
    <2>2. Counted(s)' = Counted(s)
      BY <2>1 DEF Counted
    <2>3. Counted(s)' + ask'[s] <= admit'[s] + add'[s]
      BY <1>1, <2>1, <2>2
    <2> QED
      BY <1>1, <2>1, <2>3, CountsBalance
  <1>3. ASSUME NEW k \in Match(s, d), AdmitKnown(s, k) PROVE CountsInv'
    <2> DEFINE rules == forwardingTable[s]
               counting == [rules EXCEPT ![k].pktCount = @ + 1]
    <2>1. ask' = ask /\ forwardingTable' = [forwardingTable EXCEPT ![s] = counting]
      BY <1>3 DEF AdmitKnown
    <2>2. rules \in Seq(Rules) /\ k \in DOMAIN rules
      BY <1>3 DEF Types, Match
    <2>3. "pktCount" \in DOMAIN rules[k]
      <3>1. rules[k] \in Rules
        BY <2>2
      <3> QED
        BY <3>1 DEF Rules
    <2>4. Total(PktCounts(counting)) = Total(PktCounts(rules)) + 1
      <3> HIDE DEF rules
      <3> QED
        BY <2>2, <2>3, RulesCount, PktRaised
    <2>5. /\ forwardingTable'[s] = counting
          /\ \A r \in Switches \ {s} : forwardingTable'[r] = forwardingTable[r]
      BY <2>1 DEF Types
    <2>6. Counted(s)' = Counted(s) + 1
      BY <2>4, <2>5 DEF Counted
    <2>7. Counted(s)' + ask'[s] <= admit'[s] + add'[s]
      BY <1>1, <2>1, <2>6
    <2> QED
      BY <1>1, <2>1, <2>5, <2>7, CountsBalance
  <1> QED
    BY <1>2, <1>3 DEF Admit

\* The rule of an ADD counts the packet that asked for it.
LEMMA ReceiveCounts ==
  ASSUME Types, CountsInv, NEW s \in Switches, SwitchReceive(s)
  PROVE  CountsInv'
  <1>1. /\ admit[s] \in Nat /\ ask[s] \in Nat /\ add[s] \in Nat /\ Counted(s) \in Nat
        /\ Counted(s) + ask[s] <= admit[s] + add[s] /\ admit' = admit /\ ask' = ask
    BY RulesCount DEF SwitchReceive, Types, CountsInv
  <1>2. outFifo[s] \in Seq(OutMessages) /\ outFifo[s] # <<>>
    BY DEF SwitchReceive, Types
  <1>3. PICK m \in OutMessages : m = Head(outFifo[s])
    BY <1>2
  <1>4. m.dest \in Addresses
    BY <1>3 DEF OutMessages
  <1>5. \/ UNCHANGED <<forwardingTable, add>>
        \/ /\ \E rule \in Rules : /\ rule.pktCount = 1
                                  /\ forwardingTable' = [forwardingTable EXCEPT ![s] = Append(@, rule)]
           /\ add' = [add EXCEPT ![s] = @ + 1]
    <2>1. CASE AddForwardRule(s, m) /\ add' = [add EXCEPT ![s] = @ + 1]
      <3> DEFINE rule == [dest |-> m.dest, action |-> "FORWARD", port |-> ForwardingPort(s, m), pktCount |-> 1]
      <3>1. rule \in Rules /\ rule.pktCount = 1
        BY <1>4 DEF ForwardingPort, Rules
      <3> QED
        BY <2>1, <3>1 DEF AddForwardRule
    <2>2. CASE AddDropRule(s, m.dest) /\ add' = [add EXCEPT ![s] = @ + 1]
      <3> DEFINE rule == [dest |-> m.dest, action |-> "DROP", port |-> 0, pktCount |-> 1]
      <3>1. rule \in Rules /\ rule.pktCount = 1
        BY <1>4 DEF Rules
      <3> QED
        BY <2>2, <3>1 DEF AddDropRule
    <2> QED
      BY <1>3, <2>1, <2>2 DEF SwitchReceive, Taken
  <1>6. CASE UNCHANGED <<forwardingTable, add>>
    BY <1>1, <1>6 DEF CountsInv, Counted
  <1>7. ASSUME NEW rule \in Rules, rule.pktCount = 1,
               forwardingTable' = [forwardingTable EXCEPT ![s] = Append(@, rule)],
               add' = [add EXCEPT ![s] = @ + 1]
        PROVE  CountsInv'
    <2>1. /\ forwardingTable[s] \in Seq(Rules) /\ forwardingTable'[s] = Append(forwardingTable[s], rule)
          /\ \A r \in Switches \ {s} : forwardingTable'[r] = forwardingTable[r] /\ add'[r] = add[r]
          /\ add'[s] = add[s] + 1
      BY <1>7 DEF Types
    <2>2. Counted(s)' = Counted(s) + 1
      BY <1>7, <2>1, RulesCount, PktAdded DEF Counted
    <2>3. add'[s] = add[s] + 1 /\ admit'[s] = admit[s] /\ ask'[s] = ask[s]
      BY <1>1, <2>1
    <2>4. Counted(s)' + ask'[s] <= admit'[s] + add'[s]
      BY <1>1, <2>2, <2>3
    <2> QED
      BY <1>1, <2>1, <2>4, CountsBalance
  <1> QED
    BY <1>5, <1>6, <1>7

\* The table of a program that starts has counted nothing.
LEMMA StartCounts ==
  ASSUME Types, CountsInv, NEW s \in Switches, Start(s)
  PROVE  CountsInv'
  <1>1. /\ forwardingTable' = [forwardingTable EXCEPT ![s] = <<OwnRule(s)>>]
        /\ UNCHANGED <<admit, ask, add>>
    BY DEF Start
  <1>2. forwardingTable'[s] = <<OwnRule(s)>> /\ \A r \in Switches \ {s} : forwardingTable'[r] = forwardingTable[r]
    BY <1>1 DEF Types
  <1>3. OwnRule(s).pktCount = 0
    BY DEF OwnRule
  <1>4. Counted(s)' = 0
    BY <1>2, <1>3, PktNothing DEF Counted
  <1>5. /\ Counted(s) \in Nat /\ ask[s] \in Nat /\ admit[s] \in Nat /\ add[s] \in Nat
        /\ Counted(s) + ask[s] <= admit[s] + add[s]
    BY RulesCount DEF Types, CountsInv
  <1>6. Counted(s)' + ask'[s] <= admit'[s] + add'[s]
    BY <1>1, <1>4, <1>5
  <1> QED
    BY <1>1, <1>2, <1>6, CountsBalance

\* Every step keeps the balance.
LEMMA CountsStep == Inv /\ CountsInv /\ [Next]_vars => CountsInv'
  <1> SUFFICES ASSUME Inv, CountsInv, [Next]_vars PROVE CountsInv'
    OBVIOUS
  <1>1. Types
    BY DEF Inv
  <1>2. ASSUME NEW s \in Switches, ControllerReceive(s) \/ SwitchExit(s) PROVE CountsInv'
    BY <1>2 DEF ControllerReceive, SwitchExit, CountsInv, Counted
  <1>3. CASE ControllerExit \/ UNCHANGED vars
    BY <1>3 DEF ControllerExit, vars, CountsInv, Counted
  <1> QED
    BY <1>1, <1>2, <1>3, StartCounts, AdmitCounts, ReceiveCounts DEF Next

\* The rules of a switch never count more packets than it admitted, whatever was
\* asked and lost meanwhile (w22/switch.cpp:82-98, 143-156).
THEOREM CountsRight == Spec => []CountNeverOver
  <1>1. Init => CountsInv
    <2> SUFFICES ASSUME Init, NEW s \in Switches PROVE Counted(s) + ask[s] <= admit[s] + add[s]
      BY DEF CountsInv
    <2>1. forwardingTable[s] = <<OwnRule(s)>> /\ admit[s] = 0 /\ ask[s] = 0 /\ add[s] = 0
      BY DEF Init
    <2>2. OwnRule(s).pktCount = 0
      BY DEF OwnRule
    <2>3. Counted(s) = 0
      BY <2>1, <2>2, PktNothing DEF Counted
    <2> QED
      BY <2>1, <2>3
  <1>2. Inv /\ CountsInv => CountNeverOver
    <2> SUFFICES ASSUME Inv, CountsInv, NEW s \in Switches PROVE Counted(s) <= admit[s]
      BY DEF CountNeverOver, Counted
    <2>1. add[s] \in Nat /\ ask[s] \in Nat /\ add[s] <= ask[s]
      BY OwnBalance DEF Inv
    <2>2. Counted(s) \in Nat /\ admit[s] \in Nat /\ Counted(s) + ask[s] <= admit[s] + add[s]
      BY RulesCount DEF Inv, Types, CountsInv
    <2> QED
      BY <2>1, <2>2
  <1> QED
    BY <1>1, <1>2, InitInv, StepInv, CountsStep, PTL DEF Spec

-----------------------------------------------------------------------------
(* What the controller knows, and what the switches have from it.           *)

Listed(s) == \E k \in DOMAIN switches : switches[k] = s

\* A switch forwards to nobody but itself and switches that have registered
\* (w22/controller.cpp:178-193, w22/switch.cpp:143-156).
ForwardsKnown ==
  \A s \in Switches : \A k \in DOMAIN forwardingTable[s] :
    forwardingTable[s][k].action = "FORWARD" =>
      forwardingTable[s][k].dest = s \/ Listed(forwardingTable[s][k].dest)

\* Nobody is told to forward to one the controller does not know.
AddsKnown ==
  \A s \in Switches : \A k \in DOMAIN outFifo[s] :
    outFifo[s][k].type = "ADD_FORWARD" => Listed(outFifo[s][k].dest)

KnownInv == ForwardsKnown /\ AddsKnown

\* A program that starts forwards to its own port, and an earlier one's ADD is of
\* a switch that is known.
LEMMA StartKnown ==
  ASSUME Types, KnownInv, NEW s \in Switches, Start(s)
  PROVE  KnownInv'
  <1>1. /\ forwardingTable' = [forwardingTable EXCEPT ![s] = <<OwnRule(s)>>]
        /\ outFifo' = [outFifo EXCEPT ![s] = Kept(outFifo[s])] /\ switches' = switches
    BY DEF Start
  <1>2. /\ forwardingTable'[s] = <<OwnRule(s)>> /\ \A r \in Switches \ {s} : forwardingTable'[r] = forwardingTable[r]
        /\ outFifo'[s] = outFifo[s] \/ outFifo'[s] = <<>>
        /\ \A r \in Switches \ {s} : outFifo'[r] = outFifo[r]
    BY <1>1 DEF Types, Kept
  <1>3. ForwardsKnown'
    BY <1>1, <1>2 DEF KnownInv, ForwardsKnown, Listed, OwnRule
  <1>4. AddsKnown'
    BY <1>1, <1>2 DEF KnownInv, AddsKnown, Listed
  <1> QED
    BY <1>3, <1>4 DEF KnownInv

\* A line of traffic changes no rule but its count.
LEMMA AdmitKnowsNothing ==
  ASSUME Types, KnownInv, NEW s \in Switches, NEW d \in Addresses, Admit(s, d)
  PROVE  KnownInv'
  <1>1. UNCHANGED <<outFifo, switches>> /\ forwardingTable \in [Switches -> Seq(Rules)]
    BY DEF Admit, Types
  <1>2. ForwardsKnown'
    <2>1. CASE AdmitUnknown(s, d)
      BY <1>1, <2>1 DEF AdmitUnknown, KnownInv, ForwardsKnown, Listed
    <2>2. ASSUME NEW k \in Match(s, d), AdmitKnown(s, k) PROVE ForwardsKnown'
      <3>1. /\ forwardingTable' = [forwardingTable EXCEPT ![s][k].pktCount = @ + 1]
            /\ k \in DOMAIN forwardingTable[s]
        BY <2>2 DEF AdmitKnown, Match
      <3>2. \A r \in Switches : \A j \in DOMAIN forwardingTable[r] : forwardingTable[r][j] \in Rules
        BY <1>1
      <3>3. \A r \in Switches : /\ DOMAIN forwardingTable'[r] = DOMAIN forwardingTable[r]
                                /\ \A j \in DOMAIN forwardingTable[r] :
                                     /\ forwardingTable'[r][j].action = forwardingTable[r][j].action
                                     /\ forwardingTable'[r][j].dest = forwardingTable[r][j].dest
        BY <1>1, <3>1, <3>2 DEF Rules
      <3>4. \A o : Listed(o)' <=> Listed(o)
        BY <1>1 DEF Listed
      <3>5. SUFFICES ASSUME NEW r \in Switches, NEW j \in DOMAIN forwardingTable[r],
                            forwardingTable[r][j].action = "FORWARD"
                     PROVE  forwardingTable[r][j].dest = r \/ Listed(forwardingTable[r][j].dest)
        BY <3>3, <3>4 DEF ForwardsKnown
      <3> QED
        BY <3>5 DEF KnownInv, ForwardsKnown
    <2> QED
      BY <2>1, <2>2 DEF Admit
  <1>3. AddsKnown'
    BY <1>1 DEF KnownInv, AddsKnown, Listed
  <1> QED
    BY <1>2, <1>3 DEF KnownInv

\* A rule has what its ADD says of the owner.
LEMMA ReceiveKnown ==
  ASSUME Types, KnownInv, NEW s \in Switches, SwitchReceive(s)
  PROVE  KnownInv'
  <1>1. /\ UNCHANGED <<inFifo, switches, sw>> /\ outFifo' = [outFifo EXCEPT ![s] = <<>>] /\ outFifo[s] # <<>>
        /\ outFifo \in [Switches -> Seq(OutMessages)] /\ outFifo[s] \in Seq(OutMessages)
        /\ forwardingTable \in [Switches -> Seq(Rules)]
    BY DEF SwitchReceive, Types
  <1>2. outFifo'[s] = <<>> /\ \A r \in Switches \ {s} : outFifo'[r] = outFifo[r]
    BY <1>1
  <1>3. AddsKnown'
    BY <1>1, <1>2 DEF KnownInv, AddsKnown, Listed
  <1>4. PICK m : m = Head(outFifo[s]) /\ (m.type = "ADD_FORWARD" => Listed(m.dest))
    <2>1. 1 \in DOMAIN outFifo[s] /\ Head(outFifo[s]) = outFifo[s][1]
      BY <1>1
    <2> QED
      BY <2>1 DEF KnownInv, AddsKnown
  <1>5. \/ forwardingTable' = forwardingTable
        \/ \E rule : /\ rule.action = "FORWARD" => Listed(rule.dest)
                     /\ forwardingTable' = [forwardingTable EXCEPT ![s] = Append(@, rule)]
    <2>1. CASE m.type = "ADD_FORWARD" /\ AddForwardRule(s, m)
      <3> DEFINE rule == [dest |-> m.dest, action |-> "FORWARD", port |-> ForwardingPort(s, m), pktCount |-> 1]
      <3>1. Listed(rule.dest) /\ forwardingTable' = [forwardingTable EXCEPT ![s] = Append(@, rule)]
        BY <1>4, <2>1 DEF AddForwardRule
      <3> QED
        BY <3>1
    <2>2. CASE AddDropRule(s, m.dest)
      <3> DEFINE rule == [dest |-> m.dest, action |-> "DROP", port |-> 0, pktCount |-> 1]
      <3>1. rule.action # "FORWARD" /\ forwardingTable' = [forwardingTable EXCEPT ![s] = Append(@, rule)]
        BY <2>2 DEF AddDropRule
      <3> QED
        BY <3>1
    <2> QED
      BY <1>4, <2>1, <2>2 DEF SwitchReceive, Taken
  <1>6. ForwardsKnown'
    <2>1. ASSUME NEW rule, rule.action = "FORWARD" => Listed(rule.dest),
                 forwardingTable' = [forwardingTable EXCEPT ![s] = Append(@, rule)]
          PROVE  ForwardsKnown'
      <3>1. /\ \A r \in Switches \ {s} : forwardingTable'[r] = forwardingTable[r]
            /\ forwardingTable'[s] = Append(forwardingTable[s], rule) /\ forwardingTable[s] \in Seq(Rules)
        BY <1>1, <2>1
      <3>2. \A k \in DOMAIN forwardingTable'[s] :
              \/ k \in DOMAIN forwardingTable[s] /\ forwardingTable'[s][k] = forwardingTable[s][k]
              \/ forwardingTable'[s][k] = rule
        BY <3>1
      <3> QED
        BY <1>1, <2>1, <3>1, <3>2 DEF KnownInv, ForwardsKnown, Listed
    <2> QED
      BY <1>1, <1>5, <2>1 DEF KnownInv, ForwardsKnown, Listed
  <1> QED
    BY <1>3, <1>6 DEF KnownInv

\* The controller lists the sender of a HELLO, once more if it is listed, and
\* answers an ASK for a switch it has.
LEMMA ControllerKnown ==
  ASSUME Types, KnownInv, NEW s \in Switches, ControllerReceive(s)
  PROVE  KnownInv'
  <1>1. /\ forwardingTable' = forwardingTable /\ inFifo[s] # <<>> /\ inFifo[s] \in Seq(InMessages)
        /\ outFifo \in [Switches -> Seq(OutMessages)] /\ switches \in Seq(Switches)
    BY DEF ControllerReceive, Types
  <1>2. PICK m \in InMessages : m = Head(inFifo[s])
    BY <1>1
  <1>3. switches' = Append(switches, s) \/ switches' = switches
    BY <1>2 DEF ControllerReceive, Taken
  <1>4. \A r : Listed(r) => Listed(r)'
    <2>1. ASSUME NEW r, NEW k \in DOMAIN switches, switches[k] = r PROVE Listed(r)'
      <3>1. k \in DOMAIN switches' /\ switches'[k] = r
        <4>1. CASE switches' = switches
          BY <2>1, <4>1
        <4>2. CASE switches' = Append(switches, s)
          BY <1>1, <2>1, <4>2, Appended
        <4> QED
          BY <1>3, <4>1, <4>2
      <3> QED
        BY <3>1 DEF Listed
    <2> QED
      BY <2>1 DEF Listed
  <1>5. ForwardsKnown'
    BY <1>1, <1>4 DEF KnownInv, ForwardsKnown
  <1>6. \/ outFifo' = outFifo
         \/ \E reply \in OutMessages : /\ reply.type = "ADD_FORWARD" => Listed(reply.dest)
                                       /\ outFifo' = [outFifo EXCEPT ![s] = Append(@, reply)]
    <2>1. CASE m.type = "HELLO"
      <3>1. outFifo' = [outFifo EXCEPT ![s] = Append(@, HelloAck)]
        BY <1>2, <2>1 DEF ControllerReceive, Taken
      <3>2. HelloAck \in OutMessages /\ HelloAck.type # "ADD_FORWARD"
        BY Messages DEF HelloAck
      <3> QED
        BY <3>1, <3>2
    <2>2. CASE m.type = "ASK"
      <3>1. Answer(s, m) /\ m.arg \in Addresses
        BY <1>2, <2>2 DEF ControllerReceive, Taken, InMessages
      <3>2. CASE Listed(m.arg)
        <4>1. AddForward(m.arg) \in OutMessages /\ AddForward(m.arg).dest = m.arg
          BY <1>1, <3>2, Messages DEF Listed, AddForward
        <4> QED
          BY <3>1, <3>2, <4>1 DEF Answer, Listed
      <3>3. CASE ~Listed(m.arg)
        <4>1. AddDrop(m.arg) \in OutMessages /\ AddDrop(m.arg).type # "ADD_FORWARD"
          BY <3>1, Messages DEF AddDrop
        <4> QED
          BY <3>1, <3>3, <4>1 DEF Answer, Listed
      <3> QED
        BY <3>2, <3>3
    <2>3. CASE m.type = "RELAY"
      BY <1>2, <2>3 DEF ControllerReceive, Taken
    <2> QED
      BY <1>2, <2>1, <2>2, <2>3 DEF InMessages
  <1>7. AddsKnown'
    <2>1. ASSUME NEW reply \in OutMessages, reply.type = "ADD_FORWARD" => Listed(reply.dest),
                 outFifo' = [outFifo EXCEPT ![s] = Append(@, reply)]
          PROVE  AddsKnown'
      <3>1. /\ \A r \in Switches \ {s} : outFifo'[r] = outFifo[r]
            /\ outFifo'[s] = Append(outFifo[s], reply) /\ outFifo[s] \in Seq(OutMessages)
        BY <1>1, <2>1
      <3>2. \A k \in DOMAIN outFifo'[s] :
              \/ k \in DOMAIN outFifo[s] /\ outFifo'[s][k] = outFifo[s][k]
              \/ outFifo'[s][k] = reply
        BY <3>1
      <3> QED
        BY <1>4, <2>1, <3>1, <3>2 DEF KnownInv, AddsKnown
    <2> QED
      BY <1>4, <1>6, <2>1 DEF KnownInv, AddsKnown
  <1> QED
    BY <1>5, <1>7 DEF KnownInv

\* Every step keeps what is known.
LEMMA KnownStep == Inv /\ KnownInv /\ [Next]_vars => KnownInv'
  <1> SUFFICES ASSUME Inv, KnownInv, [Next]_vars PROVE KnownInv'
    OBVIOUS
  <1>1. Types
    BY DEF Inv
  <1>2. ASSUME NEW s \in Switches, SwitchExit(s) PROVE KnownInv'
    BY <1>2 DEF SwitchExit, KnownInv, ForwardsKnown, AddsKnown, Listed
  <1>3. CASE ControllerExit \/ UNCHANGED vars
    BY <1>3 DEF ControllerExit, vars, KnownInv, ForwardsKnown, AddsKnown, Listed
  <1> QED
    BY <1>1, <1>2, <1>3, StartKnown, AdmitKnowsNothing, ReceiveKnown, ControllerKnown DEF Next

\* No switch forwards to one that has not registered, whatever the readers of the
\* FIFOs drop, and whichever program's ADD a switch that was started again reads
\* (w22/controller.cpp:167-193, w22/switch.cpp:143-156).
THEOREM Registration == Spec => []ForwardsKnown
  <1>1. Init => KnownInv
    BY DEF Init, KnownInv, ForwardsKnown, AddsKnown, Listed, OwnRule
  <1>2. KnownInv => ForwardsKnown
    BY DEF KnownInv
  <1> QED
    BY <1>1, <1>2, KnownStep, Invariance, PTL DEF Spec
=============================================================================
