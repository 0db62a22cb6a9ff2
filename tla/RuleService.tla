---------------------------- MODULE RuleService -----------------------------
(***************************************************************************)
(* What the controller of a3sdn promises its switches, without             *)
(* connections, descriptors, buffers or errors: a switch asks about an     *)
(* address that none of its rules covers, one question at a time, and a    *)
(* question gets at most one rule, which covers the address that was heard.*)
(***************************************************************************)
EXTENDS Naturals, Sequences

CONSTANTS
  Askers,
  Subjects,     \* what may be asked about
  Heard,        \* of each subject, those that a question about it may be taken for
  Nothing,      \* no question
  Own           \* of each asker, the subjects of the rule it begins with

VARIABLES
  question,     \* of each asker, or Nothing
  offers,       \* the rules, as sets of subjects, on their way to each asker
  rules         \* the rules each asker has, in the order they came

vars == <<question, offers, rules>>

Init ==
  /\ question = [a \in Askers |-> Nothing]
  /\ offers = [a \in Askers |-> {}]
  /\ rules = [a \in Askers |-> <<Own[a]>>]

Covered(a, d) == \E k \in DOMAIN rules[a] : d \in rules[a][k]

Ask(a) ==
  /\ question[a] = Nothing
  /\ \E d \in Subjects :
       /\ ~Covered(a, d)
       /\ question' = [question EXCEPT ![a] = d]
  /\ UNCHANGED <<offers, rules>>

Offer(a) ==
  /\ question[a] # Nothing /\ offers[a] = {}
  /\ \E rule \in SUBSET Subjects :
       /\ Heard[question[a]] \cap rule # {}
       /\ offers' = [offers EXCEPT ![a] = {rule}]
  /\ UNCHANGED <<question, rules>>

Learn(a) ==
  /\ \E rule \in offers[a] : rules' = [rules EXCEPT ![a] = Append(@, rule)]
  /\ question' = [question EXCEPT ![a] = Nothing]
  /\ offers' = [offers EXCEPT ![a] = {}]

Next == \E a \in Askers : Ask(a) \/ Offer(a) \/ Learn(a)

Spec == Init /\ [][Next]_vars

\* Every rule an asker has covers something that none before it does, as long as
\* every question is heard right.
EachNew ==
  \A a \in Askers : \A k \in DOMAIN rules[a] :
    \E d \in rules[a][k] : \A j \in 1 .. k - 1 : d \notin rules[a][j]
=============================================================================
