\* One start/stop round; start() is given either a config without
\* reprocessing (frames go straight from pairing to the JPEG stage) or one
\* with a reprocess channel (pairs go through the offline reprocess channel
\* and come back through processPPData).  Starting the channel, submitting
\* to it, encoding and aborting may fail.
CONSTANTS
    N = 3
    ReprocConfigs = {FALSE, TRUE}
    MaxStarts = 1
    MaxFlushes = 0
    Faults = {"startFail", "submitFail", "encodeFail", "abortRace"}
    FwkChoices = {{}, {1, 2, 3}}
SPECIFICATION Spec
\* the environment issues a bounded number of calls, after which the
\* data-process thread blocks on its semaphore
CHECK_DEADLOCK FALSE
INVARIANTS
    TypeOK
    NoDoubleReturn
    PairingConsistent
PROPERTIES
    StopReturns
    
