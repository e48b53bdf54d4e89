\* Two names over the paths and documents of test_message.py.
SPECIFICATION Spec
CONSTANTS
    Names <- MCNames
    IdxSegs <- MCIdxSegs
    Docs <- MCDocs
    Paths <- MCPaths
    Defaults <- MCDefaults
    NewValues <- MCNewValues
    Probes <- MCProbes
INVARIANT CopyWriteOnlyAtPath
