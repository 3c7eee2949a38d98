SPECIFICATION FairSpec
CONSTANTS
  Messages <- MCMessages
  Garbage <- MCGarbage
  IntMax = 32767
  ArrivedSize = 1
  ControlSize = 2
  ResponseSize = 2
  Default = 15000
  MaxMessages = 2
  MaxResets = 1
INVARIANTS BlocksAccounted IntervalAsAnswered
PROPERTIES AnsweredInOrder WorkedOff
CHECK_DEADLOCK FALSE
