\* Frames and metadata through the reprocess channel, with overrideMetadata
\* failing: the freed pp job stays on m_ongoingPPQ and STOP returns its
\* buffers a second time.  With Faults = {} the same property fails the
\* other way: STOP runs while processPPData holds a dequeued job, and the
\* JPEG job it then builds is only free()d by the inactive DO_NEXT_JOB.
CONSTANTS
    N = 2
    ReprocConfigs = {TRUE}
    MaxStarts = 1
    MaxFlushes = 0
    Faults = {"overrideFail"}
    FwkChoices = {{}}
SPECIFICATION Spec
CHECK_DEADLOCK FALSE
INVARIANT ReleasedExactlyOnce
