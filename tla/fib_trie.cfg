SPECIFICATION FairSpec
CONSTANTS
  BYTE_SIZE = 2
  IPV6_ADDR_SIZE = 3
  MAX_ROUTES = 2
  DEF_NH = 0
  TBL24_BYTES = 1
  NH_BITS = 3
  number_tbl8s = 3
  RSVD_MOD = 256
  Types <- BothTypes
  Routes <- EdgeRoutes
  NextHops <- SomeHops
  Probes <- EdgeProbes
CONSTRAINT Explored
INVARIANTS
  TypeOK
  LookupAgrees
  LinkedGroupsTaken
  NoGroupLost
  GroupsNeeded
PROPERTIES
  NoStrayWrites
  RunsDryOnlyWhenFull
  ImplementsFib
  UpdatesReturn
