SPECIFICATION Spec
CONSTANTS
  BYTE_SIZE = 2
  IPV6_ADDR_SIZE = 4
  ADD_FIRST_BYTE = 2
  MAX_RULES = 3
  NUMBER_TBL8S = 2
  NEXT_HOP_BITS = 2
  REF_MOD = 64
  NextHops <- SomeHops
  Routes <- NestedRoutes
  Arrays <- SomeArrays
VIEW LiveState
INVARIANTS
  TypeOK
  AnswersHeld
  LookupIsLongestMatch
  GroupsCounted
