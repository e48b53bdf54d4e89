CONSTANTS
    Procs = {r1, r2}
    PwdOpts <- MCPwdOpts
    Words <- MCWords
    Classes <- MCCreateClasses
    Empty = ""
    MaxRuns <- MCMaxRuns
SPECIFICATION Spec
PROPERTY ExecuteInEmptyDir
\* Every invocation ends; the CLI then stops.
CHECK_DEADLOCK FALSE
