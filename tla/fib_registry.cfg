SPECIFICATION FairSpec
CONSTANTS
  Threads = {t1, t2}
  Objects = {o1, o2, o3}
  fits = fits
  long = long
  Names = {fits, long}
  Stored <- Cut
  Types = {"DUMMY", "DIR24_8"}
  NULL = NULL
INVARIANTS
  NamesUnique
  MemoryAccounted
PROPERTIES
  CallsReturn
