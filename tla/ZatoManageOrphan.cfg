\* Two CLI invocations at once: a stop racing a start of the same port.
CONSTANTS
    Procs = {c1, c2}
    Ports <- MCPortsSmall
    CommandFiles <- MCCommandFiles
SPECIFICATION Spec
INVARIANT NoOrphanDaemon
