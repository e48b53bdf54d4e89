\* Invocations one after another, none killed.
CONSTANTS
    Procs = {c1}
    MaxTime <- MCMaxTime
    MaxRuns <- MCMaxRuns
    MaxSerial <- MCMaxSerial
    Killable = FALSE
SPECIFICATION Spec
PROPERTY ReportedMaterialMatches
INVARIANT NoStrayPem
\* The CLI stops once MaxRuns invocations have finished.
CHECK_DEADLOCK FALSE
