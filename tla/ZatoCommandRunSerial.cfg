CONSTANTS
    Procs = {r1}
    PwdOpts <- MCPwdOpts
    Words <- MCWords
    Classes <- MCClasses
    Empty = ""
    MaxRuns <- MCMaxRuns
SPECIFICATION Spec
INVARIANT TypeOK
INVARIANT ExecuteWithPasswords
\* Every invocation ends; the CLI then stops.
CHECK_DEADLOCK FALSE
