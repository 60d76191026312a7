CONSTANTS
  Bytes = {0, 3, 5, 128}
  MaxInput = 9
  MaxPackets = 3
SPECIFICATION ReadersSpec
INVARIANTS
  AnswerByPairs
  ValueByLength
  GroupsEnd
  InformationHidesEnd
CHECK_DEADLOCK FALSE
