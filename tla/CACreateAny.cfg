\* Two concurrent invocations on one CA directory, either may be killed.
CONSTANTS
    Procs = {c1, c2}
    MaxTime <- MCMaxTime
    MaxRuns <- MCMaxRuns
    MaxSerial <- MCMaxSerial
    Killable = TRUE
SPECIFICATION Spec

PROPERTY RemovedPemHasCopy
\* The CLI stops once MaxRuns invocations have finished.
CHECK_DEADLOCK FALSE
