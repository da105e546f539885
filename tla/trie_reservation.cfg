SPECIFICATION Spec
CONSTANTS
  BYTE_SIZE = 2
  IPV6_ADDR_SIZE = 3
  MAX_ROUTES = 2
  DEF_NH = 0
  TBL24_BYTES = 1
  NH_BITS = 2
  number_tbl8s = 3
  RSVD_MOD = 256
  Types <- Tables
  Routes <- TwoRoutes
  NextHops <- TwoHops
  Probes <- EdgeProbes
INVARIANTS
  DeletionReleases
