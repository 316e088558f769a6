\* Settings blocks matched to the wrong request or lost.  As given, a
\* framework input overtakes an earlier capture and takes its settings
\* from the head of m_jpegSettingsQ.  The other ways the property fails,
\* each with N = 2 and MaxFlushes = 0:
\*  - FwkChoices = {{}}: settings left queued by a stop are paired with the
\*    first frame after the restart (MaxStarts = 2);
\*  - FwkChoices = {{}}, MaxStarts = 1, ReprocConfigs = {TRUE}: STOP flushes
\*    m_ongoingPPQ with releaseOngoingPPData, which never frees the pp
\*    job's settings;
\*  - FwkChoices = {{}}, MaxStarts = 1, Faults = {"mallocFail"}: the error
\*    path of DO_NEXT_JOB frees frame and metadata but not the settings it
\*    dequeued;
\*  - FwkChoices = {{1}}, MaxStarts = 1, Faults = {"mallocFail"}:
\*    processData of a framework input returns NO_MEMORY after dequeuing
\*    the settings.
CONSTANTS
    N = 2
    ReprocConfigs = {FALSE}
    MaxStarts = 2
    MaxFlushes = 0
    Faults = {}
    FwkChoices = {{}, {2}}
SPECIFICATION Spec
CHECK_DEADLOCK FALSE
INVARIANT SettingsFollowRequest
