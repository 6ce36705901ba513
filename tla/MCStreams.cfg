SPECIFICATION Spec
CONSTANTS
    MaxValue = 6
    Trees <- MCTrees
    Requests = {1, 2, 6}
    MaxCalls = 2
INVARIANTS
    DemandIsRespected
    
    
    NoSourceIsLeftRunning
PROPERTY DemandIsMet
CHECK_DEADLOCK FALSE
