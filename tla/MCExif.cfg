\* getExifData over combinations of metadata and settings, with one failing
\* malloc and a table smaller than the 23 calls of a full request.
CONSTANTS
    MaxEntries = 20
    ModelInfo = TRUE
    MallocFail = TRUE
    LongBits = 64
    None = None
    BAD_VALUE = BAD_VALUE
    Inputs <- PassInputs
SPECIFICATION Spec
\* The object is deleted at the end; nothing follows.
CHECK_DEADLOCK FALSE
INVARIANTS
    TypeOK
    GpsRoundTrip
    FreesExactlyHeap
