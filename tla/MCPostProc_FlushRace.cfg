\* flush() or the encoder's completion frees the job the data-process
\* thread is encoding, before start_job or before the jobId is written.
CONSTANTS
    N = 2
    ReprocConfigs = {FALSE}
    MaxStarts = 1
    MaxFlushes = 1
    Faults = {}
    FwkChoices = {{}}
SPECIFICATION Spec
CHECK_DEADLOCK FALSE
INVARIANT JobsUsedOnlyLive
