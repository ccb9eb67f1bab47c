SPECIFICATION FairSpec
CONSTANTS
  SnMod = 14
  Window = 4
  PoolSize = 4
  Ahead = 3
  Behind = 1
  Start = 12
  MaxN = 15
  None = none
INVARIANTS ListSound PoolConserved GapIsTimed
PROPERTIES InOrder GapsEnd
