SPECIFICATION Spec
CONSTANTS
  NumSwitches = 3
  MaxLines <- OnlyFirst
  MaxStarts <- OneAgain
CHECK_DEADLOCK FALSE
INVARIANTS TypeOK CountNeverOver AddForAsk HelloFirst
