SPECIFICATION Spec
CONSTANTS
  BYTE_SIZE = 1
  IPV6_ADDR_SIZE = 2
  NextHops = {0, 1}
  MaxIps = 4
INVARIANTS
  AnswersMatch
CHECK_DEADLOCK FALSE
