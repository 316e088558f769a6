\* Exposure times of 2^31 ns and more narrowed to int by getExifExpTimeInfo.
CONSTANTS
    MaxEntries = 20
    ModelInfo = FALSE
    MallocFail = FALSE
    LongBits = 64
    None = None
    BAD_VALUE = BAD_VALUE
    Inputs <- ExposureInputs
SPECIFICATION Spec
INVARIANT ExposureTimeSpec
CHECK_DEADLOCK FALSE
