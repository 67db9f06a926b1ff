SPECIFICATION Spec
CONSTANTS
    MaxBlock = 3
    RingSize = 2
    FaultyBlocks = {}
    Faults = {}
    MaxFault = 0
    MaxCrash = 1
PROPERTY GenesisStoresBuiltins
\* The bounded chain ends, and a broken loop or a wedged handler stops the agent.
CHECK_DEADLOCK FALSE
