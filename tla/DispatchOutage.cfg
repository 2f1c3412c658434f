SPECIFICATION DispatchSpec
CONSTANTS
    env1 = env1
    s1 = s1
    s2 = s2
    Envelope <- OneEnvelope
    Slot <- TwoSlots
    Blocks = TRUE
    MaxFaults = 2
INVARIANTS
    OutageLosesNothing
\* A sender with its answer is satisfied, and the system may stop.
CHECK_DEADLOCK FALSE
