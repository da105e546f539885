SPECIFICATION Spec
CONSTANTS
  BYTE_SIZE = 5
  IPV6_ADDR_SIZE = 1
  MAX_ROUTES = 3
  DEF_NH = 0
  TOP_BITS = 3
  NH_BITS = 2
  NUM_TBL8 = 1
  BITMAP_SLAB_BIT_SIZE = 2
  RSVD_MOD = 256
  Types <- BothTypes
  Routes <- EdgeRoutes
  NextHops <- SomeHops
  Probes <- EdgeProbes
CONSTRAINT Explored
INVARIANTS
  TypeOK
  LookupAgrees
  LinkedGroupsTaken
  NoGroupLost
  GroupsNeeded
  RoutesUpToMaxFit
PROPERTIES
  NoStrayWrites
  RunsDryOnlyWhenFull
  ImplementsFib
