SPECIFICATION Spec
CONSTANTS
  s1 = s1
  None = None
  Symbols = {s1}
  Intervals <- TwoIntervals
  Dur <- const_Dur2
  MaxTime = 3
  MaxTicks = 2
  Budget <- Disorder
INVARIANTS
  RedisMirrorsMemory
  NoTickLost
  NoTickTwice
  SinksAgree
