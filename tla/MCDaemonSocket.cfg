SPECIFICATION ClientSpec
CONSTANTS
  Daemons = {d1, d2}
  GroupWritable = TRUE
  Calls = {k}
  HeaderLen = 1
  BodyLen = 2
INVARIANTS
  FailsOnlyWithCause
  SomeoneServes
  AnswersAreWhole
  FailsForTheDaemon
PROPERTIES
  StartEnds
  CallsEnd
CHECK_DEADLOCK FALSE
