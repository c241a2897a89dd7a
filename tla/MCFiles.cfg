SPECIFICATION FilesSpec
CONSTANTS
    Request <- MCRequest
    Original <- MCOriginal
    MaxRequests = 2
    NParallel = 2
    Faults = TRUE
INVARIANTS SourcesAreOwn ResponseIsOwn
CONSTRAINT FewScribbles
CHECK_DEADLOCK FALSE
