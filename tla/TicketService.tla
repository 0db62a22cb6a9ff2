--------------------------- MODULE TicketService ----------------------------
(***************************************************************************)
(* What the transaction server promises its clients, without sockets,      *)
(* slots or buffers: a client that asks gets one ticket, whose number is   *)
(* greater than every number given before, and asks again only with the    *)
(* ticket in hand.  Numbers may be skipped.  A customer may leave at any   *)
(* moment, and nothing is issued once the service has closed.              *)
(***************************************************************************)
EXTENDS Naturals, Sequences

CONSTANTS Customers, NoTicket

VARIABLES
  state,     \* where each customer is
  counter,   \* the last number that was given or skipped
  ticket,    \* the number on its way to each customer, or NoTicket
  held,      \* the numbers each customer has got
  open

vars == <<state, counter, ticket, held, open>>

Init ==
  /\ state = [c \in Customers |-> "ready"]
  /\ counter = 0
  /\ ticket = [c \in Customers |-> NoTicket]
  /\ held = [c \in Customers |-> <<>>]
  /\ open = TRUE

Ask(c) ==
  /\ state[c] = "ready" /\ open
  /\ state' = [state EXCEPT ![c] = "asked"]
  /\ UNCHANGED <<counter, ticket, held, open>>

Issue(c) ==
  /\ state[c] = "asked" /\ ticket[c] = NoTicket /\ open
  /\ counter' = counter + 1
  /\ ticket' = [ticket EXCEPT ![c] = counter + 1]
  /\ UNCHANGED <<state, held, open>>

Receive(c) ==
  /\ state[c] = "asked" /\ ticket[c] # NoTicket
  /\ state' = [state EXCEPT ![c] = "ready"]
  /\ ticket' = [ticket EXCEPT ![c] = NoTicket]
  /\ held' = [held EXCEPT ![c] = Append(@, ticket[c])]
  /\ UNCHANGED <<counter, open>>

\* A ticket on its way is lost with its customer.
Leave(c) ==
  /\ state[c] # "gone"
  /\ state' = [state EXCEPT ![c] = "gone"]
  /\ ticket' = [ticket EXCEPT ![c] = NoTicket]
  /\ UNCHANGED <<counter, held, open>>

Skip ==
  /\ open
  /\ counter' = counter + 1
  /\ UNCHANGED <<state, ticket, held, open>>

Close ==
  /\ open
  /\ open' = FALSE
  /\ UNCHANGED <<state, counter, ticket, held>>

Next ==
  \/ \E c \in Customers : Ask(c) \/ Issue(c) \/ Receive(c) \/ Leave(c)
  \/ Skip \/ Close

Spec == Init /\ [][Next]_vars

\* Every number a customer has got, or is about to, was given to nobody else,
\* and is greater than those it got before.
Numbers(c) == {held[c][i] : i \in DOMAIN held[c]} \cup ({ticket[c]} \ {NoTicket})

Fresh ==
  /\ \A c \in Customers : \A i, j \in DOMAIN held[c] : i < j => held[c][i] < held[c][j]
  /\ \A c \in Customers : \A n \in Numbers(c) : n <= counter
  /\ \A c, d \in Customers : c # d => Numbers(c) \cap Numbers(d) = {}
=============================================================================
