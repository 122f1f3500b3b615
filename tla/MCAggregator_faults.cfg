SPECIFICATION Spec
CONSTANTS
  s1 = s1
  None = None
  Symbols = {s1}
  Intervals <- OneInterval
  Dur <- const_Dur1
  MaxTime = 4
  MaxTicks = 2
  Budget <- Faults
INVARIANTS
  TypeOK
  CountsDeliveredTicks
  OneBarPerWindow
  TicksInWindow
PROPERTIES
  PublishedWhenOver
  PromiseKept
