\* Values without a newline, with spaces, '=' and '#' in them.
SPECIFICATION Spec
CONSTANTS
    OptNames <- MCOptNames
    Alphabet = {"a", " ", "=", "#"}
    MaxLen = 2
INVARIANT ReplayMatchesStored
\* The CLI stops after the replay.
CHECK_DEADLOCK FALSE
