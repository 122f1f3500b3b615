SPECIFICATION Spec
CONSTANTS
    Feed <- MCFeed
    BufferSize = 1
    MaxFaults = 1
    Member = {m1, m2}
    MaxRebalances = 1
    MaxRefusals = 1
\* A process that has stopped does nothing.
CHECK_DEADLOCK FALSE
INVARIANTS
    TopicInOrder
    ClosedWhenIdle
    PingersBounded
    CommittedIsDelivered
PROPERTIES
    CollectorStops
    LogIsCommitted
