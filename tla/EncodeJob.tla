------------------------------ MODULE EncodeJob ------------------------------
(***************************************************************************)
(* The geometry of one JPEG encode in QCamera3PostProcessor               *)
(* (QCamera3PostProc.cpp): the session encodeData or encodeFWKData creates *)
(* (needNewSess is TRUE on every DO_NEXT_JOB), with getJpegEncodeConfig or *)
(* getFWKJpegEncodeConfig, and the mm_jpeg_job_t it fills in and passes to *)
(* start_job.                                                              *)
(*                                                                         *)
(* Only what orientation handling touches is kept: source and destination  *)
(* dimensions, the plane layout (stride, scanline) of the source buffers,  *)
(* the thumbnail flag and dimensions, and the rotation handed to the       *)
(* encoder.  Buffer addresses, quality, colour format and the EXIF block   *)
(* (modelled in Exif) are left out.  A dimension or a layout is a record   *)
(* [w, h]; a memset field is NoDim.                                         *)
(***************************************************************************)
EXTENDS Naturals

CONSTANTS
    Paths,         \* "data": a captured frame (encodeData); "fwk": a framework
                   \* input (encodeFWKData)
    Orientations,  \* jpeg_settings->jpeg_orientation
    NeedRotation,  \* hal_obj->needJpegRotation(): the encoder rotates itself
    ThumbSizes,    \* jpeg_settings->thumbnail_size
    SrcDim,        \* the source frame's dimensions
    DstDim,        \* the JPEG stream's dimensions
    Layout,        \* [w |-> stride, h |-> scanline] of the source planes
    ConfigFails,   \* whether a buffer lookup of the config functions may fail
    MaxJobs        \* bound on the DO_NEXT_JOB encodes of a behaviour

Dim(w, h) == [w |-> w, h |-> h]
NoDim == Dim(0, 0)

ASSUME Paths \subseteq {"data", "fwk"} /\ Paths # {}
ASSUME Orientations \subseteq {0, 90, 180, 270} /\ Orientations # {}
ASSUME NeedRotation \subseteq BOOLEAN /\ NeedRotation # {}
ASSUME ThumbSizes \subseteq [w : Nat, h : Nat] /\ ThumbSizes # {}
ASSUME {SrcDim, DstDim, Layout} \subseteq [w : Nat, h : Nat]
ASSUME ConfigFails \subseteq BOOLEAN /\ ConfigFails # {}
ASSUME MaxJobs \in Nat \ {0}

Inputs == [path : Paths, orientation : Orientations, needRot : NeedRotation,
           thumb : ThumbSizes]

Swapped(d) == Dim(d.h, d.w)

\* !needJpegRotation && (jpeg_orientation == 90 || jpeg_orientation == 270):
\* the pipeline pre-rotates by swapping width and height
SwRotate(rq) == ~rq.needRot /\ rq.orientation \in {90, 270}

Oriented(rq, d) == IF SwRotate(rq) THEN Swapped(d) ELSE d

\* the orientation handed to the encoder when it rotates itself
HwRotation(rq) == IF rq.needRot THEN rq.orientation ELSE 0

\* thumbnail_size.width > 0 && thumbnail_size.height > 0
ThumbnailNeeded(ts) == ts.w > 0 /\ ts.h > 0

\* a zeroed mm_jpeg_encode_params_t
NoSession == [encodeThumb |-> FALSE, mainSrc |-> NoDim, thumbSrc |-> NoDim,
              mainDst |-> NoDim, thumbDst |-> NoDim, mainLayout |-> NoDim,
              thumbLayout |-> NoDim, rotation |-> 0]

\* getJpegEncodeConfig: the thumbnail flag (also stored in
\* m_bThumbnailNeeded) and the main stream's frame offset for the main and,
\* with a thumbnail, the thumbnail source buffers
getJpegEncodeConfig(rq) ==
    [NoSession EXCEPT !.encodeThumb = ThumbnailNeeded(rq.thumb),
                      !.mainLayout  = Layout,
                      !.thumbLayout = IF ThumbnailNeeded(rq.thumb) THEN Layout
                                      ELSE NoDim]

\* getFWKJpegEncodeConfig: the same fields, from the framework buffer's
\* reprocess config (its plane info is the layout); the thumbnail source
\* buffer is a copy of the main one
getFWKJpegEncodeConfig(rq) == getJpegEncodeConfig(rq)

\* getJpegEncodeConfig failing: without stream buffers (getStreamBufs NULL)
\* it returns after setting the thumbnail flag and before any source buffer,
\* so no plane layout reaches the parameters; a failed size lookup of the
\* output buffer comes after every source buffer is filled in
getJpegEncodeConfigFailed(rq) ==
    { [NoSession EXCEPT !.encodeThumb = ThumbnailNeeded(rq.thumb)],
      getJpegEncodeConfig(rq) }

\* getFWKJpegEncodeConfig failing on the output buffer's size returns
\* before it sets anything, m_bThumbnailNeeded included
getFWKJpegEncodeConfigFailed(rq) == NoSession

\* the parameters a config call leaves, failed or not
ConfigResults(rq, failed) ==
    CASE ~failed            -> {IF rq.path = "data" THEN getJpegEncodeConfig(rq)
                                ELSE getFWKJpegEncodeConfig(rq)}
      [] rq.path = "data"   -> getJpegEncodeConfigFailed(rq)
      [] OTHER              -> {getFWKJpegEncodeConfigFailed(rq)}

\* m_bThumbnailNeeded after the config call: only the failed framework
\* config leaves the previous request's value
ThumbFlagAfter(rq, failed, old) ==
    IF failed /\ rq.path = "fwk" THEN old ELSE ThumbnailNeeded(rq.thumb)

\* encodeData's new session: after getJpegEncodeConfig (p) the source
\* dimensions, strides and scanlines of main and thumbnail are swapped for a
\* software rotation; destinations are not; the rotation is set when the
\* encoder rotates
encodeDataSession(rq, p) ==
    [p EXCEPT !.mainSrc     = Oriented(rq, SrcDim),
              !.thumbSrc    = Oriented(rq, SrcDim),
              !.mainLayout  = Oriented(rq, p.mainLayout),
              !.thumbLayout = Oriented(rq, p.thumbLayout),
              !.mainDst     = DstDim,
              !.thumbDst    = rq.thumb,
              !.rotation    = HwRotation(rq)]

\* encodeFWKData's new session: the dimensions of the reprocess config as
\* they are, then getFWKJpegEncodeConfig (p); no rotation is set
encodeFWKDataSession(rq, p) ==
    [p EXCEPT !.mainSrc  = SrcDim,
                                       !.thumbSrc = SrcDim,
                                       !.mainDst  = DstDim,
                                       !.thumbDst = rq.thumb]

\* a zeroed mm_jpeg_job_t
NoJob == [rotation |-> 0, mainSrc |-> NoDim, mainDst |-> NoDim,
          hasThumb |-> FALSE, thumbSrc |-> NoDim, thumbDst |-> NoDim]

\* encodeData's job: rotation when the encoder rotates, main dimensions
\* swapped for a software rotation, and with m_bThumbnailNeeded the
\* thumbnail's source and destination swapped the same way
encodeDataJob(rq, thumbNeeded) ==
    [NoJob EXCEPT !.rotation = HwRotation(rq),
                  !.mainSrc  = Oriented(rq, SrcDim),
                  !.mainDst  = Oriented(rq, DstDim),
                  !.hasThumb = thumbNeeded,
                  !.thumbSrc = IF thumbNeeded THEN Oriented(rq, SrcDim) ELSE NoDim,
                  !.thumbDst = IF thumbNeeded THEN Oriented(rq, rq.thumb) ELSE NoDim]

\* encodeFWKData's job: main dimensions as in encodeData; the rotation and
\* the swap of the thumbnail destination are set inside the thumbnail
\* block, and the thumbnail source is the unswapped frame
encodeFWKDataJob(rq, thumbNeeded) ==
    [NoJob EXCEPT !.rotation = IF thumbNeeded THEN HwRotation(rq) ELSE 0,
                  !.mainSrc  = Oriented(rq, SrcDim),
                  !.mainDst  = Oriented(rq, DstDim),
                  !.hasThumb = thumbNeeded,
                  !.thumbSrc = IF thumbNeeded THEN SrcDim ELSE NoDim,
                  !.thumbDst = IF thumbNeeded THEN Oriented(rq, rq.thumb) ELSE NoDim]
-----------------------------------------------------------------------------
(* One encode, from the DO_NEXT_JOB that takes the job to start_job *)

VARIABLES
    in,                  \* the job's request: path, orientation, thumbnail
    pc,                  \* "Session", "Job" or "Started"
    m_bThumbnailNeeded,  \* the member the config functions set
    session,             \* the mm_jpeg_encode_params_t of the new session
    job,                 \* the mm_jpeg_job_t given to start_job
    jobs                 \* DO_NEXT_JOB encodes so far, up to MaxJobs

vars == <<in, pc, m_bThumbnailNeeded, session, job, jobs>>

\* the constructor sets m_bThumbnailNeeded to TRUE
Init ==
    /\ in \in Inputs
    /\ pc = "Session"
    /\ m_bThumbnailNeeded = TRUE
    /\ session = NoSession
    /\ job = NoJob
    /\ jobs = 1

\* DO_NEXT_JOB calls encodeFWKData for a job with fwk_frame, encodeData
\* otherwise, with needNewSess TRUE: the session is (re)created.  The
\* config call's status is ignored and create_session is given what it
\* left; whether mm-jpeg accepts a half-filled config is outside the
\* repository, so a failed config may or may not create the session.  When
\* it does not, encode returns the error and DO_NEXT_JOB releases the job.
CreateSession ==
    /\ pc = "Session"
    /\ \E failed \in ConfigFails :
       \E p \in ConfigResults(in, failed), created \in IF failed THEN BOOLEAN ELSE {TRUE} :
          /\ session' = IF in.path = "data" THEN encodeDataSession(in, p)
                                             ELSE encodeFWKDataSession(in, p)
          /\ m_bThumbnailNeeded' = ThumbFlagAfter(in, failed, m_bThumbnailNeeded)
          /\ pc' = IF created THEN "Job" ELSE "Failed"
    /\ UNCHANGED <<in, job, jobs>>

\* the job is filled in and passed to start_job
StartJob ==
    /\ pc = "Job"
    /\ job' = IF in.path = "data" THEN encodeDataJob(in, m_bThumbnailNeeded)
                                   ELSE encodeFWKDataJob(in, m_bThumbnailNeeded)
    /\ pc' = "Started"
    /\ UNCHANGED <<in, m_bThumbnailNeeded, session, jobs>>

\* the next DO_NEXT_JOB takes the next job of m_inputJpegQ: needNewSess is
\* set to TRUE again, m_bThumbnailNeeded is the member left by the last one
NextJob ==
    /\ pc \in {"Started", "Failed"}
    /\ jobs < MaxJobs
    /\ \E rq \in Inputs : in' = rq
    /\ pc' = "Session"
    /\ session' = NoSession
    /\ job' = NoJob
    /\ jobs' = jobs + 1
    /\ UNCHANGED m_bThumbnailNeeded

Next == CreateSession \/ StartJob \/ NextJob

Spec == Init /\ [][Next]_vars

-----------------------------------------------------------------------------
(* Properties *)

(* The job started for a request encodes it the way spec section 4.4     *)
(* says: the encoder is given the orientation when it rotates itself;    *)
(* otherwise 90 and 270 degree requests have width and height swapped,    *)
(* identically for main image and thumbnail, and the session's source     *)
(* dimensions and plane strides are swapped consistently with the job's;  *)
(* a thumbnail is encoded exactly when both of its dimensions are         *)
(* positive.  encodeData and encodeFWKData build session and job apart.  *)
JobGeometrySpec ==
    pc = "Started" =>
        /\ job.rotation = HwRotation(in)
        /\ job.mainSrc = Oriented(in, SrcDim)
        /\ job.mainDst = Oriented(in, DstDim)
        /\ job.hasThumb = ThumbnailNeeded(in.thumb)
        /\ job.hasThumb => /\ job.thumbSrc = job.mainSrc
                           /\ job.thumbDst = Oriented(in, in.thumb)
        /\ session.mainSrc = job.mainSrc
        /\ session.mainLayout = Oriented(in, Layout)
=============================================================================
