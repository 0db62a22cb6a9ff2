-------------------------------- MODULE Sdn ---------------------------------
(***************************************************************************)
(* The controller of SdnController and the switches of SdnSwitch, run      *)
(* together: a software-defined network in a line (test2/, a3sdn), and the *)
(* abstract service of RuleService, which it implements.                   *)
(***************************************************************************)
EXTENDS SdnController, SdnSwitch, Tallies

CONSTANT Leaving    \* whether switches and controller may be made to exit
ASSUME LeavingAssumption == Leaving \in BOOLEAN

netVars == <<connq, up, down, upEnd, fifo, made, sw, cont>>
vars == <<netVars, contVars, switchVars>>

Init == NetInit /\ ContInit /\ SwitchInit

Next ==
  \/ ContStep /\ UNCHANGED <<sw, switchVars>>
  \/ Leaving /\ ContExit /\ UNCHANGED <<sw, switchVars>>
  \/ \E s \in Processes :
       /\ Connect(s) \/ SwitchStep(s) \/ (Leaving /\ Leave(s))
       /\ UNCHANGED <<cont, contVars>>

Spec == Init /\ [][Next]_vars

\* Both programs loop on poll without waiting.  Nobody has to start a switch
\* or to end a program.
FairSpec ==
  /\ Spec
  /\ WF_vars(ContStep /\ UNCHANGED <<sw, switchVars>>)
  /\ \A s \in Processes : WF_vars(SwitchStep(s) /\ UNCHANGED <<cont, contVars>>)

-----------------------------------------------------------------------------
(* Safety.                                                                  *)

Rules ==
  [dests : SUBSET Addresses, action : {"FORWARD", "DROP"}, port : 0 .. 3, pktCount : Nat]

\* The types of the variables; at most numSwitches indices are ever used.
TypeOK ==
  /\ \A i \in DOMAIN connq : connq[i] \in Processes
  /\ Len(pfds) <= NumSwitches /\ \A i \in DOMAIN pfds : pfds[i] \in FDs
  /\ conn \in [FDs -> Processes \cup {NoConn}]
  /\ mainSocket \in FDs \cup {NoFd}
  /\ sw \in [Processes -> {"off", "connected", "open", "exited", "failed"}]
  /\ made \in [Processes -> SUBSET Ports]
  /\ upEnd \in [Processes -> {"open", "fin", "rst"}]
  /\ cont \in {"poll", "read", "accept", "gone"}
  /\ ready \subseteq DOMAIN pfds /\ closed \subseteq DOMAIN pfds
  /\ ackReceived \in [Processes -> BOOLEAN] /\ addReceived \in [Processes -> BOOLEAN]
  /\ \A s \in Processes : \A k \in DOMAIN flowTable[s] : flowTable[s][k] \in Rules
  /\ portToFd \in [Processes -> [Ports -> {"none", "fifo", "stdin"}]]

\* A switch that waits for an answer has one request or answer under way, and
\* any other has none: no two packets ever meet in a connection, whose reader
\* handles the first of what it reads (controller.cpp:222, switch.cpp:457).
OneUnderWay ==
  \A s \in Processes : Alive(s) =>
    Len(up[s]) + Len(down[s]) <=
      IF sw[s] # "connected" /\ ~(ackReceived[s] /\ addReceived[s]) THEN 1 ELSE 0

\* The packets a switch admitted are those its rules count and the one that
\* waits for its rule (switch.cpp:336-394, 482-512).
PacketsAccounted ==
  \A s \in Processes : Alive(s) =>
    admit[s] = Total(PktCounts(flowTable[s])) + IF addReceived[s] THEN 0 ELSE 1

\* The addresses that the controller may take an address for; under ThreeDigits,
\* only that one.
Heard == [d \in Addresses |-> Readings(d) \cap Addresses]

\* A rule on its way to a switch covers the address it asked about, or one the
\* controller took it for, and comes while the switch waits: the descriptor that
\* was read is the one that is answered, even by a failed read that handles the
\* buffer of another index again (controller.cpp:222-296).
AnswerFits ==
  \A s \in Processes : \A k \in DOMAIN down[s] :
    Alive(s) /\ down[s][k].type = "ADD" =>
      ~addReceived[s] /\ Heard[asked[s]] \cap down[s][k].rule.dests # {}

\* What the switches and the controller do about rules is the abstract service:
\* a question is about an address no rule covers, and gets one rule at most,
\* whoever had the descriptor.  The rule covers the address or a continuation of
\* it, and the address itself if all have three digits (controller.cpp:222-296,
\* switch.cpp:358-394, 482-512).
NoQuestion == -1

\* What each switch has asked and not learned, the rules on their way to it, as
\* sets of addresses, and those it has.
Question == [s \in Processes |-> IF addReceived[s] THEN NoQuestion ELSE asked[s]]
Offers == [s \in Processes |->
  {down[s][k].rule.dests : k \in {j \in DOMAIN down[s] : down[s][j].type = "ADD"}}]
Known == [s \in Processes |-> [k \in DOMAIN flowTable[s] |-> flowTable[s][k].dests]]

Service == INSTANCE RuleService WITH
  Askers <- Processes, Subjects <- Addresses, Heard <- Heard, Nothing <- NoQuestion,
  Own <- [s \in Processes |-> IpRange(Id(s))],
  question <- Question, offers <- Offers, rules <- Known

ImplementsRules == Service!Spec

\* A rule that forwards sends a packet toward the switch that owns it
\* (controller.cpp:264-285, where the index stands for the switch).
ForwardTowards ==
  \A s \in Processes : \A k \in DOMAIN flowTable[s] :
    LET rule == flowTable[s][k] IN
    rule.action = "FORWARD" /\ rule.port # 3 =>
      \A o \in Switches : IpRange(o) \cap rule.dests # {} =>
        rule.port = IF o > Id(s) THEN 2 ELSE 1

\* The controller ends by itself only after a switch has ended: no packet of
\* running switches makes it read a connection twice, or one it has closed,
\* which would leave errno set for its next send (controller.cpp:63, 222).
ControllerOutlivesNone ==
  [][cont' = "gone" /\ cont \in {"read", "accept"} =>
       \E s \in Processes : Ended(s)]_vars

-----------------------------------------------------------------------------
(* Liveness.                                                                *)

SomeEnded == cont = "gone" \/ \E t \in Processes : Ended(t)

\* Every QUERY is answered, unless a program ends (switch.cpp:391, 482).
QueryAnswered == \A s \in Processes : ~addReceived[s] ~> addReceived[s] \/ SomeEnded
=============================================================================
