SPECIFICATION Spec
CONSTANTS
  r1 = r1
  r2 = r2
  ann = ann
  bob = bob
  None = None
  Requests <- TwoRequests
  Names <- TwoNames
  Accounts <- OneAccount
  MaxIds = 3
  MaxTries = 2
  Budget <- NoFaults
\* Requests may stop coming, and the tokens of the instance run out.
CHECK_DEADLOCK FALSE
SYMMETRY RequestSymmetry
INVARIANTS
  UsedOnce
