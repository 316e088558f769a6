\* A framework input through encodeFWKData, with an encoder that rotates
\* itself and no thumbnail: start_job is given rotation 0 for a 90 degree
\* request.  With NeedRotation = {FALSE} and ThumbSizes <- MCThumbSizes the
\* same property fails on the software rotation: the thumbnail source and
\* the session's source dimensions and strides are not swapped.  With
\* Paths = {"data"} (encodeData) it holds for every combination.
\* With ConfigFails = {FALSE, TRUE}, MaxJobs = 2, Orientations = {0},
\* NeedRotation = {FALSE} and ThumbSizes <- MCThumbSizes it fails on either
\* path: a failed config is still given to create_session, and a failed
\* framework config leaves the previous request's thumbnail flag.
CONSTANTS
    Paths = {"fwk"}
    Orientations = {90}
    NeedRotation = {TRUE}
    ThumbSizes <- MCNoThumb
    SrcDim <- MCSrcDim
    DstDim <- MCDstDim
    Layout <- MCLayout
    ConfigFails = {FALSE}
    MaxJobs = 1
SPECIFICATION Spec
\* one encode; nothing follows start_job
CHECK_DEADLOCK FALSE
INVARIANT JobGeometrySpec
