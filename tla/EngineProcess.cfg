\* Two engines, one after the other, in any of the environments.
CONSTANTS
    Threads = 2
    MaxBlocks = 2
    AdaptiveWidth = 8
    AdaptiveMinTokens = 128
    ProcessDtype = "float32"
    MaxEngines = 2
    LowerCase <- MCLowerCase
    Environments <- MCEnvironments
    Options <- MCOptions
SPECIFICATION Spec
INVARIANTS
    ProcTypeOK
    ForwardIsReference
    DispatchKeepsRequests
    ActivationRuns
    DefaultsRestored
