\* DisplayHDMI::Init, Deinit and OnMinHdcpEncryptionLevelChange over every
\* edid_modes list and scan_info of the model driver, with the resolution
\* property unset or naming 1080p30 or a mode not listed, and every failure
\* the code handles.
CONSTANTS
    Timing <- MCTiming
    EdidLists <- MCEdidLists
    MaxCEAFormat <- MCMaxCEAFormat
    UserConfigs = {0, 34, 2}
    PageEntries = 2
    ScanRaw = {0, 1, 2, 3, 7}
    Faults = {"hwInitFail", "edidOpenFail", "edidEmpty", "noResFile", "ioctlFail", "baseInitFail", "scanInfoFail"}
SPECIFICATION Spec
\* the display's life ends with Deinit or a failed Init
CHECK_DEADLOCK FALSE
INVARIANTS
    BestConfigChosen
    ActiveModeProgrammed
PROPERTY
    CreateReturns
