\* One CLI invocation at a time against a component directory.
CONSTANTS
    Procs = {c1}
    Ports <- MCPorts
    CommandFiles <- MCCommandFiles
SPECIFICATION Spec
INVARIANT TypeOK NoOrphanDaemon StopLeavesNothing

