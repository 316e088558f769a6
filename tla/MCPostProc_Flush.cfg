\* No reprocess channel; the controller calls flush() once, concurrently
\* with the data-process thread, and every malloc of the pipeline may fail:
\* the input buffer in processData, the pp job in DO_NEXT_JOB and the JPEG
\* job in processPPData.  One start/stop round.
CONSTANTS
    N = 3
    ReprocConfigs = {FALSE}
    MaxStarts = 1
    MaxFlushes = 1
    Faults = {"mallocFail", "dataMallocFail"}
    FwkChoices = {{}}
SPECIFICATION Spec
\* the environment issues a bounded number of calls, after which the
\* data-process thread blocks on its semaphore
CHECK_DEADLOCK FALSE
INVARIANTS
    NoDoubleReturn
    NoLeak
    PairingConsistent
