SPECIFICATION FairSpec
CONSTANTS
  s1 = s1
  None = None
  Symbols = {s1}
  Intervals <- OneInterval
  Dur <- const_Dur1
  MaxTime = 3
  MaxTicks = 2
  Budget <- OneStop
PROPERTIES
  EveryTickPublished
