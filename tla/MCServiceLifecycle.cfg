SPECIFICATION FairSpec
CONSTANTS
    MaxAttempts = 2
\* A process that has exited does nothing.
CHECK_DEADLOCK FALSE
INVARIANTS
    TypeOK
    DependentsClosedFirst
    RequestAnswered
    PausesWhenConfigured
PROPERTIES
    SignalEnds
