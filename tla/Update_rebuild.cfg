SPECIFICATION Spec
CONSTANTS
    LastTag = 0
    LastChunk = 0
    MaxVersion = 0
    MaxDays = 1
    MaxFaults = 0
INVARIANT ProducerRebuilds
