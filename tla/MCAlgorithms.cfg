SPECIFICATION Spec
CONSTANTS
    Line <- MCLine
    Prefix <- MCPrefix
    Path <- MCPath
    MaxLines = 3
    FileName <- MCFileName
    Content = {"one", "two"}
    MaxFiles = 2
    Package <- MCPackage
    Name <- MCName
    Version <- MCVersion
    LibName <- MCName
    Top <- MCTop
    Edge <- MCEdge
    Dep <- MCDep
    Metadata <- MCMetadata
    Exclusions <- MCExclusions
CHECK_DEADLOCK FALSE
INVARIANTS
    FilteredAsmClosed
    GistRoundTrip
    OfferedCratesClosed
