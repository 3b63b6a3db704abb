SPECIFICATION Spec
CONSTANTS
    JobsOf <- MCJobsOf
    Subframes = {0, 4, 9}
INVARIANTS
    MessageArrives
    
    DemodulatorsAgree
    SubframeIsFound
    PilotsReachEveryCarrier
    
    FramesAreWhole
CHECK_DEADLOCK FALSE
