SPECIFICATION Spec
CONSTANTS
    LastTag = 1
    LastChunk = 1
    MaxVersion = 1
    MaxDays = 1
    MaxFaults = 1
INVARIANTS TypeOK ReleasedWhole StaleKeyGoes
PROPERTIES ReleaseMovesForward ImplementsLists
