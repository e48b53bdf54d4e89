\* zdaemon prints at most what one pipe holds, and the component path has
\* no digit and no '.': every call returns, and every pid is keyed by port.
SPECIFICATION CmdSpec
CONSTANTS
    Ports <- MCPorts
    PortDigits <- MCPortDigits
    Cap = 2
    MaxOut = 2
    DirChars = {"/", "s"}
    DirLen = 3
INVARIANT ReportKeyedByPort
PROPERTY CommandReturns
\* The CLI stops once the loop has returned or raised.
CHECK_DEADLOCK FALSE
