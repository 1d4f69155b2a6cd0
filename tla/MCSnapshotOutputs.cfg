\* Three runs under one label, the last with nothing more to do: deadlock is
\* not checked.
SPECIFICATION Spec
CONSTANTS
    MaxOutputs = 3
    MaxRuns = 3
    MaxFaults = 2
    Polls = 3
    Torn = Torn
    None = None
INVARIANTS
    NoteTrue
    ImportedInTime
PROPERTIES
    Finishes
CHECK_DEADLOCK FALSE
