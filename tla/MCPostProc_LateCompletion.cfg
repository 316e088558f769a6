\* Two start/stop rounds on the direct path, and abort_job may lose the race
\* with the completion of the job it aborts.  STOP aborts request 1's job
\* too late; after the restart its completion reaches findJpegJobByJobId,
\* which releases the head of m_ongoingJpegQ, request 2's job, while the
\* encoder is still reading frame 2.
CONSTANTS
    N = 2
    ReprocConfigs = {FALSE}
    MaxStarts = 2
    MaxFlushes = 0
    Faults = {"abortRace"}
    FwkChoices = {{}}
SPECIFICATION Spec
\* the environment issues a bounded number of calls, after which the
\* data-process thread blocks on its semaphore
CHECK_DEADLOCK FALSE
PROPERTY
    KeepsBufferPromise
