SPECIFICATION EitherSpec
CONSTANTS
  BYTE_SIZE = 2
  IPV6_ADDR_SIZE = 3
  ADD_FIRST_BYTE = 1
  MAX_RULES = 4
  NUMBER_TBL8S = 3
  NEXT_HOP_BITS = 2
  REF_MOD = 64
  NextHops = {0, 1}
  Routes <- NestedRoutes
  Probes = {0, 1, 21}
  MAX_BULK = 2
VIEW EitherState
INVARIANTS
  TypeOK
  RulesCounted
  LookupIsLongestMatch
  PoolIsWhatIsUnlinked
  RefCountsKept
  OwnersExact
  RuleTablesLinked
  UnlinkFindsLink
  AdmittedAddNeverRunsDry
  RebuildAlwaysFits
PROPERTIES
  ImplementsLpm
