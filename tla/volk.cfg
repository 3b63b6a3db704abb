CONSTANTS
    Size = 100
    Cpus <- MCCpus
    NoPref = "none"
    Preferences = {"none", "sse", "sse4_1"}
    Sizes = {0, 1, 3, 4, 8, 9, 16, 33}
    Seeds = {1}
SPECIFICATION Spec
INVARIANTS
    RoundTrip
    
    CallIsSafe
