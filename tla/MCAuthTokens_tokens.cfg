SPECIFICATION FairSpec
CONSTANTS
  r1 = r1
  r2 = r2
  ann = ann
  bob = bob
  None = None
  Requests <- TwoRequests
  Names <- TwoNames
  Accounts <- OneAccount
  MaxIds = 2
  MaxTries = 2
  Budget <- OneOfEach
\* Requests may stop coming, and the tokens of the instance run out.
CHECK_DEADLOCK FALSE
INVARIANTS
  TypeOK
  CopiesAgree
  RevokedIsRefused
  HeldIsStored
  UsedIsRevoked
  SessionKept
PROPERTIES
  RevokeSurvivesErrors
