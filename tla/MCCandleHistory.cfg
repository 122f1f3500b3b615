SPECIFICATION Spec
CONSTANTS
  Prices <- const_Prices
  Volumes <- const_Volumes
  Instants <- const_Instants
  Dur = 3
  MaxTicks = 3
INVARIANTS
  WindowOfFirstTick
  SummarisesPrices
  SumsVolumes
