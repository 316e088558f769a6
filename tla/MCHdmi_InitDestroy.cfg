\* DisplayHDMI::Init over the edid_modes lists of the model driver, no
\* resolution property, scan info present, with an empty edid_modes read:
\* ReadEDIDInfo returns before closing the node.  With Faults =
\* {"ioctlFail", "baseInitFail"} the same property fails on the error paths
\* of Init after SetDisplayAttributes or DisplayBase::Init fail, which
\* destroy the device and go on using it.
CONSTANTS
    Timing <- MCTiming
    EdidLists <- MCEdidLists
    MaxCEAFormat <- MCMaxCEAFormat
    UserConfigs = {0}
    PageEntries = 2
    ScanRaw = {2}
    Faults = {"edidEmpty", "ioctlFail", "baseInitFail"}
SPECIFICATION Spec
\* the display's life ends with Deinit or a failed Init
CHECK_DEADLOCK FALSE
INVARIANT
    ResourcesReleasedOnce
