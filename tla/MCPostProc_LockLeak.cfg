\* processData fails its malloc holding mReprocJobLock.
CONSTANTS
    N = 2
    ReprocConfigs = {FALSE}
    MaxStarts = 1
    MaxFlushes = 0
    Faults = {"dataMallocFail"}
    FwkChoices = {{}}
SPECIFICATION Spec
CHECK_DEADLOCK FALSE
PROPERTY StopReturns
