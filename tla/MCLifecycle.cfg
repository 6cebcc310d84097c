CONSTANTS
    Requests <- MCRequests
    Classes <- MCClasses
    MaxCallbacks = 1
    MaxNetInts = 2
    MaxProtocols = 2
    None = None
SPECIFICATION Spec
INVARIANTS
    TypeOK
    
    PipelineInOrder
PROPERTIES
    NoCallbackAfterReturn
    AnalysisEnds
