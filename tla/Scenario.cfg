SPECIFICATION FairSpec
CONSTANTS
    Names = {e1}
    NoName = NoName
    Bodies = {b1, b2}
    NoBody = NoBody
    Faults <- MCFaults
INVARIANTS
    LiveBodiesAreActive
    EndsAreVisible
PROPERTIES
    ImplementsEventBodies
    QuietEventsStop
    CallsReturn
    JobEnds
CHECK_DEADLOCK FALSE
