SPECIFICATION Spec
CONSTANTS
    MaxValue = 6
    Trees <- MergedFurther
    Requests = {1, 2, 6}
    MaxCalls = 2
INVARIANT DemandIsRespected
CHECK_DEADLOCK FALSE
