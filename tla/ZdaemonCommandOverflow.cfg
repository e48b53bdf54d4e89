\* zdaemon prints one chunk more than a pipe holds.
SPECIFICATION CmdSpec
CONSTANTS
    Ports <- MCPorts
    PortDigits <- MCPortDigits
    Cap = 2
    MaxOut = 3
    DirChars = {"/", "s"}
    DirLen = 1
PROPERTY CommandReturns
\* The CLI stops once the loop has returned or raised.
CHECK_DEADLOCK FALSE
