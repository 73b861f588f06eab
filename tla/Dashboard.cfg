CONSTANTS
  Ttl = 2
  Refreshes = {r1, r2}
  Loads = {l1}
  MaxVersion = 1
  Faults = TRUE
  Off = Off
  Nothing = Nothing
SPECIFICATION FairSpec
INVARIANTS TypeOK OverlapNeedsASlowRefresh
PROPERTIES CacheGoesBackOnlyByOverlap CacheCatchesUp BootEnds SpinnerEnds ClosedProcessEnds
