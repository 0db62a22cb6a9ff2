------------------------------- MODULE MCSdn --------------------------------
(***************************************************************************)
(* Small networks of a3sdn for TLC: two switches, or three where a relayed *)
(* packet passes through one.                                              *)
(***************************************************************************)
EXTENDS Sdn

NotAgain == <<>>
FirstAgain == <<1>>       \* switch 1 is started twice

OneEach == <<1, 1>>
OneFirst == <<1, 1, 0>>   \* nothing for the second program of switch 1
Inner == <<0, 2, 1>>      \* most for the switch in the middle

\* Two digits or three: 11 may be read as 110, which is switch 2's, and switch 1's
\* ipHigh as more than any address.
TwoLengths == {11, 20, 110}
TwoLow == <<20, 110>>

\* Three digits; 140 is no switch's.
OneLength == {110, 111, 120, 130, 140}
OneLow == <<110, 120, 130>>
OneHigh == <<111, 120, 130>>
PairAddresses == {110, 120}
PairLow == <<110, 120>>
Source == {101}

Polled == {TRUE}          \* the socket's events hold POLLIN
=============================================================================
