------------------------------ MODULE PostProc ------------------------------
(***************************************************************************)
(* QCamera3PostProcessor (HAL3/QCamera3PostProc.cpp): the data-process     *)
(* thread (dataProcessRoutine) and every thread that feeds it or is called *)
(* back into it.                                                           *)
(*                                                                         *)
(*  - the picture channel's producers: processJpegSettingData,             *)
(*    processData (captured frame or framework input) and                  *)
(*    processPPMetadata;                                                   *)
(*  - the controlling caller of start() and stop();                        *)
(*  - the dispatcher thread, one action per command it handles, with the   *)
(*    DO_NEXT_JOB handler split at the points where other threads may run; *)
(*  - the offline reprocess channel completing jobs (processPPData);       *)
(*  - the JPEG encoder completing jobs (the channel's JPEG callback, which *)
(*    calls findJpegJobByJobId and releaseJpegJobData).                    *)
(*                                                                         *)
(* Data is abstracted to request numbers: the captured frame, metadata     *)
(* buffer and JPEG settings of request r are all named r.  A job record    *)
(* names the request of each resource it holds, so a job built from the   *)
(* resources of two requests is visible.  "done" counts, per request and   *)
(* resource, how often the pipeline gave it up: bufDone / metadataBufDone  *)
(* / free(jpeg_settings), or the frame descriptor freed once the encode    *)
(* job holding it is released.                                             *)
(***************************************************************************)
EXTENDS Integers, Sequences, FiniteSets

CONSTANTS
    N,          \* number of capture requests
    ReprocConfigs, \* reprocess_type != NONE in the configs start() is given
    MaxStarts,  \* number of start() calls the controller makes
    MaxFlushes, \* number of flush() calls the controller makes
    Faults,     \* failure outcomes the environment may produce
    FwkChoices  \* the sets of requests whose input comes from the framework

FaultKinds == {"startFail",     \* addOfflineReprocChannel / channel start fails
               "overrideFail",  \* m_pReprocChannel->overrideMetadata fails
               "submitFail",    \* m_pReprocChannel->doReprocessOffline fails
               "encodeFail",    \* encodeData returns an error
               "mallocFail",    \* a malloc of DO_NEXT_JOB or processPPData returns NULL
               "dataMallocFail",\* processData's malloc of the input buffer returns NULL
               "abortRace"}     \* abort_job loses the race with completion

ASSUME N \in Nat \ {0} /\ ReprocConfigs \in SUBSET BOOLEAN \ {{}}
ASSUME MaxStarts \in Nat /\ MaxFlushes \in Nat
ASSUME Faults \subseteq FaultKinds
ASSUME FwkChoices \subseteq SUBSET (1..N) /\ FwkChoices # {}

Req    == 1..N
NoReq  == 0                      \* a NULL pointer in a job field
Fields == {"frame", "meta", "set"}

(* A postprocess job (qcamera_hal3_pp_data_t); freed marks an entry whose  *)
(* memory was freed while the queue still points at it.                    *)
(* A job of a framework request carries no src_metadata (meta = NoReq):   *)
(* its metadata is part of the qcamera_fwk_input_pp_data_t, its frame.     *)
PPJob == [frame : Req, meta : Req \cup {NoReq}, set : Req \cup {NoReq}, freed : BOOLEAN]
(* A JPEG job (qcamera_hal3_jpeg_data_t): img is the request whose pixels  *)
(* it encodes.  The encoder job id start_job returns for it is modelled as *)
(* its request number.                                                     *)
JpegJob == [frame : Req, img : Req, meta : Req \cup {NoReq}, set : Req \cup {NoReq},
            freed : BOOLEAN]
NoJob == [frame |-> NoReq]       \* a NULL job pointer

Cmds == {"START", "STOP", "NEXT", "EXIT"}

VARIABLES
    ctl,           \* pc of the thread calling start()/stop()/deinit()
    starts,        \* start() calls made
    flushes,       \* flush() calls made
    reproc,        \* m_pReprocChannel != NULL
    config,        \* the config of the last start(): reprocess_type != NONE
    cmdQ,          \* m_dataProcTh command queue
    dpc,           \* pc of the data-process thread
    is_active,     \* dataProcessRoutine's is_active
    lockLeaked,    \* mReprocJobLock left locked by a returned thread
    inputPPQ,      \* m_inputPPQ: captured frames
    inputMetaQ,    \* m_inputMetaQ: metadata buffers
    inputFWKPPQ,   \* m_inputFWKPPQ: framework input frames to reprocess
    fwkReqs,       \* the requests whose input comes from the framework
    jpegSettingsQ, \* m_jpegSettingsQ
    ongoingPPQ,    \* m_ongoingPPQ
    inputJpegQ,    \* m_inputJpegQ
    ongoingJpegQ,  \* m_ongoingJpegQ
    cur,           \* jpeg_job the data-process thread is passing to encodeData
    reprocHw,      \* frames inside the reprocess channel, in order
    rcb,           \* job held by processPPData between its two queue operations
    jpegRun,       \* encoder jobs running
    jpegLate,      \* aborted encoder jobs whose completion is still delivered
    session,       \* mJpegSessionId (the job id it was created for, or 0)
    nextS, nextF, nextM,  \* next request whose settings/frame/metadata arrives
    nextW,         \* next framework request whose input may arrive
    done           \* done[r][k]: times resource k of request r was given up

vars == <<ctl, starts, flushes, cur, reproc, cmdQ, dpc, is_active, lockLeaked, inputPPQ,
          inputMetaQ, jpegSettingsQ, ongoingPPQ, inputJpegQ, ongoingJpegQ,
          reprocHw, rcb, jpegRun, jpegLate, session, nextS, nextF, nextM, done,
          inputFWKPPQ, fwkReqs, nextW, config>>

-----------------------------------------------------------------------------
(* Helpers *)

\* sendCmd(CAMERA_CMD_TYPE_DO_NEXT_JOB) issued n times
PostNext(q, n) == q \o [i \in 1..n |-> "NEXT"]

\* d with resource k of every request listed in the sequence rs given up once
GiveUp(d, k, rs) ==
    [r \in Req |-> [d[r] EXCEPT ![k] = @ + Cardinality({i \in DOMAIN rs : rs[i] = r})]]

\* the sequence of field k of the jobs in js
Field(js, k) == [i \in DOMAIN js |-> js[i][k]]

\* releaseJpegJobData: frame descriptor, metadata and settings of each job
releaseJpegJobData(d, js) ==
    GiveUp(GiveUp(GiveUp(d, "frame", Field(js, "frame")),
                  "meta", Field(js, "meta")), "set", Field(js, "set"))

\* releaseOngoingPPData: releaseSuperBuf(src_frame), then releasePPJobData
\* returns src_metadata; the pp job's jpeg_settings is not freed
releaseOngoingPPData(d, js) ==
    GiveUp(GiveUp(d, "frame", Field(js, "frame")), "meta", Field(js, "meta"))

\* variant: the error path forgets metadataBufDone
DropPairKeepsMeta(d, f, m) == [d EXCEPT ![f].frame = @ + 1]

\* the pipeline's error path: releaseSuperBuf(frame) and metadataBufDone(meta)
DropPair(d, f, m) == [d EXCEPT ![f].frame = @ + 1, ![m].meta = @ + 1]

\* the first element of q as a sequence of length 0 or 1, and the rest
First(q) == IF q = <<>> THEN <<>> ELSE <<Head(q)>>
Rest(q)  == IF q = <<>> THEN <<>> ELSE Tail(q)

\* variant: processPPData forgets jpeg_job->src_metadata
ToJpegJobNoMeta(j, img) ==
    [frame |-> j.frame, img |-> img, set |-> j.set, freed |-> j.freed]

\* the JPEG job processPPData builds from pp job j and reprocessed image img
ToJpegJob(j, img) ==
    [frame |-> j.frame, img |-> img, meta |-> j.meta, set |-> j.set,
     freed |-> j.freed]

Fail(k) == k \in Faults

WakeIfPaired(q, other) == IF other # <<>> THEN PostNext(q, 1) ELSE q

\* variant: the settings are read without being dequeued
DequeueSettingsPeek(q) == q

\* m_jpegSettingsQ.dequeue()
DequeueSettings(q) == Rest(q)

\* variant: the failed job is not removed again
DequeueFailedKept(q) == q

\* dequeue(false): remove the entry enqueued last, after a failed submit
DequeueFailed(q) == SubSeq(q, 1, Len(q) - 1)

\* variant: the pp job is taken from the tail of m_ongoingPPQ
dequeuePPJobLast(q) == <<q[Len(q)], SubSeq(q, 1, Len(q) - 1)>>

\* m_ongoingPPQ.dequeue() in processPPData: the head and the rest
dequeuePPJob(q) == <<Head(q), Tail(q)>>

Producing == ctl \in {"Started", "Stopping", "StopReproc"}

\* the requests whose frame and metadata come from the picture channel
RegReqs == Req \ fwkReqs

\* the first request of S from i on (N + 1 when there is none): the
\* requests of one kind deliver their inputs in request order
NextIn(S, i) ==
    IF \A x \in S : x < i THEN N + 1
    ELSE CHOOSE x \in S : x >= i /\ \A y \in S : y >= i => x <= y

-----------------------------------------------------------------------------
(* Controller: start() and stop() *)

\* start(): with a reprocess config the old channel is deleted and a new one
\* added (and started); on failure start() returns before sending START.
start ==
    /\ ctl \in {"Init", "Stopped"}
    /\ starts < MaxStarts
    /\ starts' = starts + 1
    /\ \E reprocess \in ReprocConfigs :
          /\ config' = reprocess
          /\ \/ /\ ctl' = "Starting"
                /\ reproc' = reprocess   \* stop() left m_pReprocChannel NULL
                /\ cmdQ' = Append(cmdQ, "START")
             \/ /\ reprocess /\ Fail("startFail")
                /\ reproc' = FALSE
                /\ UNCHANGED <<ctl, cmdQ>>
    /\ UNCHANGED <<dpc, is_active, lockLeaked, inputPPQ, inputMetaQ,
                   jpegSettingsQ, ongoingPPQ, inputJpegQ, ongoingJpegQ,
                   reprocHw, rcb, jpegRun, jpegLate, session, nextS, nextF,
                   nextM, done, flushes, cur,
                   fwkReqs, inputFWKPPQ, nextW>>

\* variant: the STOP command is lost
stopNoSend ==
    /\ ctl \in {"Started", "Stopped"}
    /\ ctl' = "Stopping"
    /\ UNCHANGED <<starts, reproc, cmdQ, dpc, is_active, lockLeaked, inputPPQ,
                   inputMetaQ, jpegSettingsQ, ongoingPPQ, inputJpegQ,
                   ongoingJpegQ, reprocHw, rcb, jpegRun, jpegLate, session,
                   nextS, nextF, nextM, done, flushes, cur,
                   fwkReqs, inputFWKPPQ, nextW, config>>

\* stop(): STOP is sent synchronously with priority (head of the queue)
stop ==
    /\ ctl \in {"Started", "Stopped"}
    /\ ctl' = "Stopping"
    /\ cmdQ' = <<"STOP">> \o cmdQ
    /\ UNCHANGED <<starts, reproc, dpc, is_active, lockLeaked, inputPPQ,
                   inputMetaQ, jpegSettingsQ, ongoingPPQ, inputJpegQ,
                   ongoingJpegQ, reprocHw, rcb, jpegRun, jpegLate, session,
                   nextS, nextF, nextM, done, flushes, cur,
                   fwkReqs, inputFWKPPQ, nextW, config>>

\* stop() after the STOP handshake: stop and delete the reprocess channel,
\* which drops the frames it still holds
stopReprocChannel ==
    /\ ctl = "StopReproc"
    /\ ctl' = "Stopped"
    /\ reproc' = FALSE
    /\ reprocHw' = <<>>
    /\ UNCHANGED <<starts, cmdQ, dpc, is_active, lockLeaked, inputPPQ,
                   inputMetaQ, jpegSettingsQ, ongoingPPQ, inputJpegQ,
                   ongoingJpegQ, rcb, jpegRun, jpegLate, session, nextS,
                   nextF, nextM, done, flushes, cur,
                   fwkReqs, inputFWKPPQ, nextW, config>>

\* deinit(), after init() or stop(): m_dataProcTh.exit() queues EXIT behind
\* the pending commands and joins the data-process thread
deinit ==
    /\ ctl \in {"Init", "Stopped"}
    /\ ctl' = "Exiting"
    /\ cmdQ' = Append(cmdQ, "EXIT")
    /\ UNCHANGED <<starts, reproc, dpc, is_active, lockLeaked, inputPPQ,
                   inputMetaQ, jpegSettingsQ, ongoingPPQ, inputJpegQ,
                   ongoingJpegQ, reprocHw, rcb, jpegRun, jpegLate, session,
                   nextS, nextF, nextM, done, flushes, cur,
                   fwkReqs, inputFWKPPQ, nextW, config>>

\* deinit() once the join returns: stop and delete the reprocess channel if
\* there is one, and close the JPEG client
deinitRelease ==
    /\ ctl = "Exiting"
    /\ dpc = "Exited"
    /\ ctl' = "Deinit"
    /\ reproc' = FALSE
    /\ reprocHw' = <<>>
    /\ UNCHANGED <<starts, cmdQ, dpc, is_active, lockLeaked, inputPPQ,
                   inputMetaQ, jpegSettingsQ, ongoingPPQ, inputJpegQ,
                   ongoingJpegQ, rcb, jpegRun, jpegLate, session, nextS,
                   nextF, nextM, done, flushes, cur,
                   fwkReqs, inputFWKPPQ, nextW, config>>

-----------------------------------------------------------------------------
(* Producers (picture channel threads) *)

\* processJpegSettingData: request() queues the settings before the frame
\* and metadata of that request can arrive
processJpegSettingData ==
    /\ Producing
    /\ nextS <= N
    /\ jpegSettingsQ' = Append(jpegSettingsQ, nextS)
    /\ nextS' = nextS + 1
    /\ UNCHANGED <<ctl, starts, reproc, cmdQ, dpc, is_active, lockLeaked,
                   inputPPQ, inputMetaQ, ongoingPPQ, inputJpegQ, ongoingJpegQ,
                   reprocHw, rcb, jpegRun, jpegLate, session, nextF, nextM,
                   done, flushes, cur,
                   fwkReqs, inputFWKPPQ, nextW, config>>

\* processData(frame): under mReprocJobLock enqueue the frame and wake the
\* thread if metadata is waiting.  When malloc fails it returns NO_MEMORY
\* with the lock still held; the frame stays with the caller.
processData ==
    /\ Producing
    /\ ~lockLeaked
    /\ LET f == NextIn(RegReqs, nextF)
       IN /\ f <= N /\ f < nextS
          /\ nextF' = f + 1
          /\ \/ /\ inputPPQ' = Append(inputPPQ, f)
                /\ cmdQ' = WakeIfPaired(cmdQ, inputMetaQ)
                /\ UNCHANGED <<lockLeaked, done>>
             \/ /\ Fail("dataMallocFail")
                /\ lockLeaked' = TRUE
                /\ done' = [done EXCEPT ![f].frame = @ + 1]
                /\ UNCHANGED <<inputPPQ, cmdQ>>
    /\ UNCHANGED <<ctl, starts, reproc, dpc, is_active, inputMetaQ,
                   jpegSettingsQ, ongoingPPQ, inputJpegQ, ongoingJpegQ,
                   reprocHw, rcb, jpegRun, jpegLate, session, nextS, nextM, flushes, cur,
                   fwkReqs, inputFWKPPQ, nextW, config>>

\* processPPMetadata: under mReprocJobLock enqueue the metadata and wake
\* the thread if a frame is waiting
processPPMetadata ==
    /\ Producing
    /\ ~lockLeaked
    /\ LET m == NextIn(RegReqs, nextM)
       IN /\ m <= N /\ m < nextS
          /\ inputMetaQ' = Append(inputMetaQ, m)
          /\ nextM' = m + 1
    /\ cmdQ' = WakeIfPaired(cmdQ, inputPPQ)
    /\ UNCHANGED <<ctl, starts, reproc, dpc, is_active, lockLeaked, inputPPQ,
                   jpegSettingsQ, ongoingPPQ, inputJpegQ, ongoingJpegQ,
                   reprocHw, rcb, jpegRun, jpegLate, session, nextS, nextF,
                   done, flushes, cur,
                   fwkReqs, inputFWKPPQ, nextW, config>>

\* processData(fwk frame) of a framework reprocess request.  With a
\* reprocess type other than NONE the frame is queued on m_inputFWKPPQ under
\* mReprocJobLock.  Otherwise the caller's thread dequeues the next
\* settings and queues a JPEG job: BAD_VALUE when there are none, NO_MEMORY
\* (the settings lost) when its malloc fails; the frame then stays with
\* the caller.  The frame's reprocess type is that of the config start()
\* was given: the picture channel builds both from one reprocess config.
processDataFwk ==
    /\ Producing
    /\ LET w == NextIn(fwkReqs, nextW)
           s == IF jpegSettingsQ = <<>> THEN NoReq ELSE Head(jpegSettingsQ)
       IN /\ w <= N /\ w < nextS
          /\ nextW' = w + 1
          /\ LET reprocess == config IN
               \/ /\ reprocess /\ ~lockLeaked
                  /\ inputFWKPPQ' = Append(inputFWKPPQ, w)
                  /\ cmdQ' = PostNext(cmdQ, 1)
                  /\ UNCHANGED <<jpegSettingsQ, inputJpegQ, done>>
               \/ /\ ~reprocess /\ s # NoReq
                  /\ jpegSettingsQ' = Tail(jpegSettingsQ)
                  /\ inputJpegQ' = Append(inputJpegQ,
                        [frame |-> w, img |-> w, meta |-> NoReq, set |-> s,
                         freed |-> FALSE])
                  /\ cmdQ' = PostNext(cmdQ, 1)
                  /\ UNCHANGED <<inputFWKPPQ, done>>
               \/ /\ ~reprocess /\ (s = NoReq \/ Fail("mallocFail"))
                  /\ jpegSettingsQ' = Rest(jpegSettingsQ)
                  /\ done' = [done EXCEPT ![w].frame = @ + 1]
                  /\ UNCHANGED <<inputFWKPPQ, inputJpegQ, cmdQ>>
    /\ UNCHANGED <<ctl, starts, flushes, cur, reproc, dpc, is_active,
                   lockLeaked, inputPPQ, inputMetaQ, ongoingPPQ, ongoingJpegQ,
                   reprocHw, rcb, jpegRun, jpegLate, session, nextS, nextF,
                   nextM, fwkReqs, config>>

-----------------------------------------------------------------------------
(* Data-process thread (dataProcessRoutine) *)

\* the thread is blocked on cmd_sem and the next command is c
Cmd(c) == dpc = "Wait" /\ cmdQ # <<>> /\ Head(cmdQ) = c

\* the job encodeData has started but whose jobId it has not yet written:
\* abort_job is given jobId 0 for it and cancels nothing
Unrecorded == IF dpc = "JobId" THEN {cur.frame} ELSE {}

\* encoder jobs abort_job cancels: those of js that start_job accepted; on a
\* lost race some of them still deliver their completion
Abort(js) ==
    LET ids == ({js[i].frame : i \in DOMAIN js} \cap jpegRun) \ Unrecorded
    IN  /\ jpegRun' = jpegRun \ ids
        /\ \E late \in IF Fail("abortRace") THEN SUBSET ids ELSE {{}} :
              jpegLate' = jpegLate \cup late

\* what STOP gives up: the aborted ongoing JPEG jobs, then the flushes of
\* m_ongoingPPQ, m_inputJpegQ, m_inputPPQ, m_inputFWKPPQ (no release
\* function: the queue frees each frame) and m_inputMetaQ
StopRelease(d) ==
    GiveUp(GiveUp(releaseJpegJobData(releaseOngoingPPData(d, ongoingPPQ),
                  ongoingJpegQ \o inputJpegQ), "frame", inputPPQ \o inputFWKPPQ),
           "meta", inputMetaQ)

\* CAMERA_CMD_TYPE_START_DATA_PROC: is_active, queue init() (which only
\* re-enables the queues), then sync_sem releases start()
DoStart ==
    /\ Cmd("START")
    /\ cmdQ' = Tail(cmdQ)
    /\ is_active' = TRUE
    /\ ctl' = "Started"
    /\ UNCHANGED <<starts, flushes, cur, reproc, dpc, lockLeaked, inputPPQ,
                   inputMetaQ, jpegSettingsQ, ongoingPPQ, inputJpegQ,
                   ongoingJpegQ, reprocHw, rcb, jpegRun, jpegLate, session,
                   nextS, nextF, nextM, done,
                   fwkReqs, inputFWKPPQ, nextW, config>>

\* CAMERA_CMD_TYPE_STOP_DATA_PROC: abort and release the ongoing JPEG jobs,
\* destroy the session, flush m_ongoingPPQ, m_inputJpegQ, m_inputPPQ and
\* m_inputFWKPPQ and m_inputMetaQ through their release functions
\* (m_jpegSettingsQ is not
\* flushed), then sync_sem releases stop().  releaseJpegJobData and
\* releasePPJobData each post DO_NEXT_JOB.
DoStop ==
    /\ Cmd("STOP")
    /\ is_active' = FALSE
    /\ Abort(ongoingJpegQ)
    /\ session' = NoReq
    /\ done' = StopRelease(done)
    /\ cmdQ' = PostNext(Tail(cmdQ), Len(ongoingJpegQ) + Len(ongoingPPQ)
                                    + Len(inputJpegQ))
    /\ ongoingJpegQ' = <<>> /\ ongoingPPQ' = <<>> /\ inputJpegQ' = <<>>
    /\ inputPPQ' = <<>> /\ inputMetaQ' = <<>> /\ inputFWKPPQ' = <<>>
    /\ ctl' = "StopReproc"
    /\ UNCHANGED <<starts, flushes, cur, reproc, dpc, lockLeaked,
                   jpegSettingsQ, reprocHw, rcb, nextS, nextF, nextM,
                   fwkReqs, nextW, config>>

\* DO_NEXT_JOB while active: go on to the JPEG stage
DoNextJob ==
    /\ Cmd("NEXT")
    /\ is_active
    /\ cmdQ' = Tail(cmdQ)
    /\ dpc' = "Jpeg"
    /\ UNCHANGED <<ctl, starts, flushes, cur, reproc, is_active, lockLeaked,
                   inputPPQ, inputMetaQ, jpegSettingsQ, ongoingPPQ,
                   inputJpegQ, ongoingJpegQ, reprocHw, rcb, jpegRun,
                   jpegLate, session, nextS, nextF, nextM, done,
                   fwkReqs, inputFWKPPQ, nextW, config>>

\* DO_NEXT_JOB while inactive: drop the head of m_inputJpegQ (only free()d),
\* return the head frame of m_inputPPQ and the head of m_inputMetaQ, and
\* free the head of m_inputFWKPPQ
DoNextJobInactive ==
    /\ Cmd("NEXT")
    /\ ~is_active
    /\ cmdQ' = Tail(cmdQ)
    /\ inputJpegQ' = Rest(inputJpegQ)
    /\ inputPPQ' = Rest(inputPPQ)
    /\ inputMetaQ' = Rest(inputMetaQ)
    /\ inputFWKPPQ' = Rest(inputFWKPPQ)
    /\ done' = GiveUp(GiveUp(done, "frame", First(inputPPQ) \o First(inputFWKPPQ)),
                      "meta", First(inputMetaQ))
    /\ UNCHANGED <<ctl, starts, flushes, cur, reproc, dpc, is_active,
                   lockLeaked, jpegSettingsQ, ongoingPPQ, ongoingJpegQ,
                   reprocHw, rcb, jpegRun, jpegLate, session, nextS, nextF,
                   nextM, fwkReqs, nextW, config>>

\* CAMERA_CMD_TYPE_EXIT: running is cleared and the thread returns
DoExit ==
    /\ Cmd("EXIT")
    /\ cmdQ' = Tail(cmdQ)
    /\ dpc' = "Exited"
    /\ UNCHANGED <<ctl, starts, flushes, cur, reproc, is_active, lockLeaked,
                   inputPPQ, inputMetaQ, jpegSettingsQ, ongoingPPQ,
                   inputJpegQ, ongoingJpegQ, reprocHw, rcb, jpegRun,
                   jpegLate, session, nextS, nextF, nextM, done,
                   fwkReqs, inputFWKPPQ, nextW, config>>

\* variant: the JPEG stage does not wait for the ongoing job
EncoderIdleAlways == TRUE

\* no JPEG job is ongoing
EncoderIdle == ongoingJpegQ = <<>>

\* no ongoing JPEG job: move the head of m_inputJpegQ to m_ongoingJpegQ
JpegTake ==
    /\ dpc = "Jpeg"
    /\ EncoderIdle /\ inputJpegQ # <<>>
    /\ cur' = Head(inputJpegQ)
    /\ inputJpegQ' = Tail(inputJpegQ)
    /\ ongoingJpegQ' = Append(ongoingJpegQ, Head(inputJpegQ))
    /\ dpc' = "Encode"
    /\ UNCHANGED <<ctl, starts, flushes, reproc, cmdQ, is_active, lockLeaked,
                   inputPPQ, inputMetaQ, jpegSettingsQ, ongoingPPQ, reprocHw,
                   rcb, jpegRun, jpegLate, session, nextS, nextF, nextM, done,
                   fwkReqs, inputFWKPPQ, nextW, config>>

\* a JPEG job is ongoing or none is queued: skip the JPEG stage
JpegSkip ==
    /\ dpc = "Jpeg"
    /\ ~EncoderIdle \/ inputJpegQ = <<>>
    /\ dpc' = "Fwk"
    /\ UNCHANGED <<ctl, starts, flushes, cur, reproc, cmdQ, is_active,
                   lockLeaked, inputPPQ, inputMetaQ, jpegSettingsQ, ongoingPPQ,
                   inputJpegQ, ongoingJpegQ, reprocHw, rcb, jpegRun, jpegLate,
                   session, nextS, nextF, nextM, done,
                   fwkReqs, inputFWKPPQ, nextW, config>>

\* needNewSess: destroy the session and create one for job id
NewSession(id) == id

\* encodeData(jpeg_job, needNewSess = TRUE): destroy the old session, create
\* one, start_job.  On an error the last entry of m_ongoingJpegQ is removed
\* (dequeue(false)) and the job released.  The error may come before the
\* destroy, between destroy and create, or after create.  After a
\* successful start_job the thread still has to write the job id.
Encode ==
    /\ dpc = "Encode"
    /\ \/ /\ jpegRun' = jpegRun \cup {cur.frame}
          /\ session' = NewSession(cur.frame)
          /\ dpc' = "JobId"
          /\ UNCHANGED <<cur, ongoingJpegQ, cmdQ, done>>
       \/ /\ Fail("encodeFail")
          /\ dpc' = "Fwk"
          /\ cur' = NoJob
          /\ session' \in {session, NoReq, cur.frame}
          /\ ongoingJpegQ' = DequeueFailed(ongoingJpegQ)
          /\ done' = releaseJpegJobData(done, <<cur>>)
          /\ cmdQ' = PostNext(cmdQ, 1)
          /\ UNCHANGED jpegRun
    /\ UNCHANGED <<ctl, starts, flushes, reproc, is_active, lockLeaked,
                   inputPPQ, inputMetaQ, jpegSettingsQ, ongoingPPQ, inputJpegQ,
                   reprocHw, rcb, jpegLate, nextS, nextF, nextM,
                   fwkReqs, inputFWKPPQ, nextW, config>>

\* encodeData's jpeg_job_data->jobId = jobId, unlocked, after start_job
\* returned; the encoder may already have completed the job
recordJobId ==
    /\ dpc = "JobId"
    /\ dpc' = "Fwk"
    /\ cur' = NoJob
    /\ UNCHANGED <<ctl, starts, flushes, reproc, cmdQ, is_active, lockLeaked,
                   inputPPQ, inputMetaQ, jpegSettingsQ, ongoingPPQ, inputJpegQ,
                   ongoingJpegQ, reprocHw, rcb, jpegRun, jpegLate, session,
                   nextS, nextF, nextM, done,
                   fwkReqs, inputFWKPPQ, nextW, config>>

\* m_inputFWKPPQ is empty: go on to pairing
FwkSkip ==
    /\ dpc = "Fwk"
    /\ inputFWKPPQ = <<>>
    /\ dpc' = "Pair"
    /\ UNCHANGED <<ctl, starts, flushes, cur, reproc, cmdQ, is_active,
                   lockLeaked, inputPPQ, inputMetaQ, jpegSettingsQ, ongoingPPQ,
                   inputJpegQ, ongoingJpegQ, reprocHw, rcb, jpegRun, jpegLate,
                   session, nextS, nextF, nextM, done, fwkReqs, inputFWKPPQ,
                   nextW, config>>

\* the framework stage of DO_NEXT_JOB: dequeue a framework frame, malloc a
\* pp job and dequeue the next settings, unlocked and whatever the malloc
\* gave.  With a reprocess channel the job is put on m_ongoingPPQ and the
\* frame submitted (a failed overrideFwkMetadata is only logged); a failed
\* submit removes the job again (dequeue(false)).  On a failed malloc, a
\* failed submit or a NULL channel the frame is freed and the settings
\* are lost.
FwkJob ==
    /\ dpc = "Fwk"
    /\ inputFWKPPQ # <<>>
    /\ LET w   == Head(inputFWKPPQ)
           job == [frame |-> w, meta |-> NoReq, freed |-> FALSE,
                   set |-> IF jpegSettingsQ = <<>> THEN NoReq
                           ELSE Head(jpegSettingsQ)]
       IN \/ /\ reproc
             /\ ongoingPPQ' = Append(ongoingPPQ, job)
             /\ reprocHw' = Append(reprocHw, w)
             /\ UNCHANGED done
          \/ /\ Fail("mallocFail") \/ ~reproc \/ Fail("submitFail")
             /\ done' = [done EXCEPT ![w].frame = @ + 1]
             /\ UNCHANGED <<ongoingPPQ, reprocHw>>
    /\ inputFWKPPQ' = Tail(inputFWKPPQ)
    /\ jpegSettingsQ' = DequeueSettings(jpegSettingsQ)
    /\ dpc' = "Pair"
    /\ UNCHANGED <<ctl, starts, flushes, cur, reproc, cmdQ, is_active,
                   lockLeaked, inputPPQ, inputMetaQ, inputJpegQ, ongoingJpegQ,
                   rcb, jpegRun, jpegLate, session, nextS, nextF, nextM,
                   fwkReqs, nextW, config>>

\* m_inputPPQ and m_inputMetaQ both non-empty, checked under mReprocJobLock
Paired == inputPPQ # <<>> /\ inputMetaQ # <<>>

\* nothing to pair: unlock and wait for the next command
PairSkip ==
    /\ dpc = "Pair"
    /\ ~lockLeaked
    /\ ~Paired
    /\ dpc' = "Wait"
    /\ UNCHANGED <<ctl, starts, flushes, cur, reproc, cmdQ, is_active,
                   lockLeaked, inputPPQ, inputMetaQ, jpegSettingsQ, ongoingPPQ,
                   inputJpegQ, ongoingJpegQ, reprocHw, rcb, jpegRun, jpegLate,
                   session, nextS, nextF, nextM, done,
                   fwkReqs, inputFWKPPQ, nextW, config>>

\* dequeue a frame, a metadata buffer and the next settings (NULL when
\* m_jpegSettingsQ is empty), then build a pp job.  Every error path
\* releases the frame and the metadata but not the dequeued settings.
\*  - malloc of the pp job fails;
\*  - with a reprocess channel the job is put on m_ongoingPPQ, the
\*    metadata overridden and the frame submitted; a failed submit removes
\*    the job again (dequeue(false)), a failed override frees the job but
\*    leaves it on m_ongoingPPQ;
\*  - without one, processPPData is called directly: it takes the head of
\*    m_ongoingPPQ and turns it into a JPEG job, or fails on NULL settings
\*    or a failed malloc.
Pair ==
    /\ dpc = "Pair"
    /\ ~lockLeaked
    /\ Paired
    /\ LET f   == Head(inputPPQ)
           m   == Head(inputMetaQ)
           job == [frame |-> f, meta |-> m, freed |-> FALSE,
                   set |-> IF jpegSettingsQ = <<>> THEN NoReq
                           ELSE Head(jpegSettingsQ)]
           dropped == DropPair(done, f, m)
       IN \/ /\ Fail("mallocFail")
             /\ done' = dropped
             /\ UNCHANGED <<ongoingPPQ, reprocHw, inputJpegQ, cmdQ>>
          \/ /\ reproc
             /\ ongoingPPQ' = Append(ongoingPPQ, job)
             /\ reprocHw' = Append(reprocHw, f)
             /\ UNCHANGED <<done, inputJpegQ, cmdQ>>
          \/ /\ reproc /\ Fail("submitFail")
             /\ ongoingPPQ' = DequeueFailed(Append(ongoingPPQ, job))
             /\ done' = dropped
             /\ UNCHANGED <<reprocHw, inputJpegQ, cmdQ>>
          \/ /\ reproc /\ Fail("overrideFail")
             /\ ongoingPPQ' = Append(ongoingPPQ, [job EXCEPT !.freed = TRUE])
             /\ done' = dropped
             /\ UNCHANGED <<reprocHw, inputJpegQ, cmdQ>>
          \/ /\ ~reproc
             /\ LET h == dequeuePPJob(Append(ongoingPPQ, job))[1]
                IN /\ ongoingPPQ' = dequeuePPJob(Append(ongoingPPQ, job))[2]
                   /\ \/ /\ h.set # NoReq
                         /\ inputJpegQ' = Append(inputJpegQ, ToJpegJob(h, f))
                         /\ cmdQ' = PostNext(cmdQ, 1)
                         /\ UNCHANGED done
                      \/ /\ h.set = NoReq \/ Fail("mallocFail")
                         /\ done' = dropped
                         /\ UNCHANGED <<inputJpegQ, cmdQ>>
             /\ UNCHANGED reprocHw
    /\ inputPPQ' = Tail(inputPPQ)
    /\ inputMetaQ' = Tail(inputMetaQ)
    /\ jpegSettingsQ' = DequeueSettings(jpegSettingsQ)
    /\ dpc' = "Wait"
    /\ UNCHANGED <<ctl, starts, flushes, cur, reproc, is_active, lockLeaked,
                   ongoingJpegQ, rcb, jpegRun, jpegLate, session, nextS,
                   nextF, nextM,
                   fwkReqs, inputFWKPPQ, nextW, config>>

-----------------------------------------------------------------------------
(* Reprocess channel callback: processPPData(frame) *)

\* the channel returns the frame at the head of its pipeline; processPPData
\* dequeues the head of m_ongoingPPQ (BAD_VALUE when empty) and builds the
\* JPEG job; with NULL settings or a failed malloc it returns an error and
\* the dequeued pp job is lost
ReprocDone ==
    /\ reprocHw # <<>>
    /\ rcb = NoJob
    /\ reprocHw' = Tail(reprocHw)
    /\ \/ /\ ongoingPPQ = <<>>
          /\ UNCHANGED <<ongoingPPQ, rcb>>
       \/ /\ ongoingPPQ # <<>>
          /\ LET h == dequeuePPJob(ongoingPPQ)[1]
             IN /\ ongoingPPQ' = dequeuePPJob(ongoingPPQ)[2]
                /\ \/ /\ h.set # NoReq
                      /\ rcb' = ToJpegJob(h, Head(reprocHw))
                   \/ /\ h.set = NoReq \/ Fail("mallocFail")
                      /\ UNCHANGED rcb
    /\ UNCHANGED <<ctl, starts, flushes, cur, reproc, cmdQ, dpc, is_active,
                   lockLeaked, inputPPQ, inputMetaQ, jpegSettingsQ, inputJpegQ,
                   ongoingJpegQ, jpegRun, jpegLate, session, nextS, nextF,
                   nextM, done,
                   fwkReqs, inputFWKPPQ, nextW, config>>

\* the rest of processPPData: enqueue on m_inputJpegQ, post DO_NEXT_JOB
ReprocEnqueue ==
    /\ rcb # NoJob
    /\ inputJpegQ' = Append(inputJpegQ, rcb)
    /\ cmdQ' = PostNext(cmdQ, 1)
    /\ rcb' = NoJob
    /\ UNCHANGED <<ctl, starts, flushes, cur, reproc, dpc, is_active,
                   lockLeaked, inputPPQ, inputMetaQ, jpegSettingsQ, ongoingPPQ,
                   ongoingJpegQ, reprocHw, jpegRun, jpegLate, session, nextS,
                   nextF, nextM, done,
                   fwkReqs, inputFWKPPQ, nextW, config>>

-----------------------------------------------------------------------------
(* JPEG encoder completion and flush() *)

\* the encoder reports job id done; the channel's JPEG callback takes the
\* job from findJpegJobByJobId, which dequeues the head of m_ongoingJpegQ
\* whatever the id, and releases it with releaseJpegJobData
JpegEvt(id) ==
    /\ id \in jpegRun \cup jpegLate
    /\ jpegRun' = jpegRun \ {id}
    /\ jpegLate' = jpegLate \ {id}
    /\ ongoingJpegQ' = Rest(ongoingJpegQ)
    /\ done' = releaseJpegJobData(done, First(ongoingJpegQ))
    /\ cmdQ' = PostNext(cmdQ, Len(First(ongoingJpegQ)))
    /\ UNCHANGED <<ctl, starts, flushes, cur, reproc, dpc, is_active,
                   lockLeaked, inputPPQ, inputMetaQ, jpegSettingsQ, ongoingPPQ,
                   inputJpegQ, reprocHw, rcb, session, nextS, nextF, nextM,
                   fwkReqs, inputFWKPPQ, nextW, config>>

\* variant: flush() aborts and releases the jobs but leaves them queued
flushNoDequeue ==
    /\ ctl = "Started"
    /\ flushes < MaxFlushes
    /\ flushes' = flushes + 1
    /\ Abort(ongoingJpegQ)
    /\ done' = releaseJpegJobData(done, ongoingJpegQ)
    /\ cmdQ' = PostNext(cmdQ, Len(ongoingJpegQ))
    /\ UNCHANGED <<ctl, starts, cur, reproc, dpc, is_active, lockLeaked,
                   inputPPQ, inputMetaQ, jpegSettingsQ, ongoingPPQ, inputJpegQ,
                   ongoingJpegQ, reprocHw, rcb, session, nextS, nextF, nextM,
                   fwkReqs, inputFWKPPQ, nextW, config>>

\* flush(), on the caller's thread: abort and release every job on
\* m_ongoingJpegQ (releaseOfflineBuffers only unmaps buffers)
flush ==
    /\ ctl = "Started"
    /\ flushes < MaxFlushes
    /\ flushes' = flushes + 1
    /\ Abort(ongoingJpegQ)
    /\ done' = releaseJpegJobData(done, ongoingJpegQ)
    /\ cmdQ' = PostNext(cmdQ, Len(ongoingJpegQ))
    /\ ongoingJpegQ' = <<>>
    /\ UNCHANGED <<ctl, starts, cur, reproc, dpc, is_active, lockLeaked,
                   inputPPQ, inputMetaQ, jpegSettingsQ, ongoingPPQ, inputJpegQ,
                   reprocHw, rcb, session, nextS, nextF, nextM,
                   fwkReqs, inputFWKPPQ, nextW, config>>

-----------------------------------------------------------------------------
(* Specification *)

Init ==
    /\ ctl = "Init" /\ starts = 0 /\ flushes = 0 /\ reproc = FALSE
    /\ cmdQ = <<>> /\ dpc = "Wait" /\ is_active = FALSE /\ cur = NoJob
    /\ lockLeaked = FALSE
    /\ inputPPQ = <<>> /\ inputMetaQ = <<>> /\ jpegSettingsQ = <<>>
    /\ ongoingPPQ = <<>> /\ inputJpegQ = <<>> /\ ongoingJpegQ = <<>>
    /\ reprocHw = <<>> /\ rcb = NoJob
    /\ jpegRun = {} /\ jpegLate = {} /\ session = NoReq
    /\ nextS = 1 /\ nextF = 1 /\ nextM = 1 /\ nextW = 1 /\ config = FALSE
    /\ inputFWKPPQ = <<>> /\ fwkReqs \in FwkChoices
    /\ done = [r \in Req |-> [k \in Fields |-> 0]]

\* the data-process thread's steps
Dispatch == DoStart \/ DoStop \/ DoNextJob \/ DoNextJobInactive \/ JpegTake
            \/ JpegSkip \/ Encode \/ recordJobId \/ FwkSkip \/ FwkJob
            \/ PairSkip \/ Pair \/ DoExit

Next ==
    \/ start \/ stop \/ stopReprocChannel \/ flush \/ deinit \/ deinitRelease
    \/ processJpegSettingData \/ processData \/ processPPMetadata
    \/ processDataFwk
    \/ Dispatch
    \/ ReprocDone \/ ReprocEnqueue
    \/ \E id \in Req : JpegEvt(id)

(* The data-process thread runs whenever it has a command, the caller of  *)
(* stop() and deinit() resume once acknowledged or joined, and the        *)
(* reprocess channel and the encoder deliver every completion.  Producers *)
(* and the controller's                                                   *)
(* start/stop/flush/deinit calls are not required to happen.              *)
Fairness ==
    /\ WF_vars(Dispatch)
    /\ WF_vars(stopReprocChannel) /\ WF_vars(deinitRelease)
    /\ WF_vars(ReprocDone) /\ WF_vars(ReprocEnqueue)
    /\ \A id \in Req : WF_vars(JpegEvt(id))

Spec == Init /\ [][Next]_vars /\ Fairness

-----------------------------------------------------------------------------
(* Properties *)

Elems(q) == {q[i] : i \in DOMAIN q}

\* jobs whose memory is live, wherever they are referenced
LiveJobs == {j \in Elems(ongoingPPQ) \cup Elems(inputJpegQ)
                   \cup Elems(ongoingJpegQ) \cup ({rcb, cur} \ {NoJob}) :
                ~j.freed}

\* requests whose resource k has arrived, and those the pipeline still holds
\* (a framework request's frame is its qcamera_fwk_input_pp_data_t, which
\* also carries its metadata)
Arrived(k) == CASE k = "frame" -> {x \in RegReqs : x < nextF} \cup {x \in fwkReqs : x < nextW}
                [] k = "meta"  -> {x \in RegReqs : x < nextM}
                [] k = "set"   -> 1 .. nextS - 1
Held(k) == {j[k] : j \in LiveJobs}
           \cup Elems(CASE k = "frame" -> inputPPQ \o inputFWKPPQ
                        [] k = "meta"  -> inputMetaQ
                        [] k = "set"   -> jpegSettingsQ)

TypeOK ==
    /\ ctl \in {"Init", "Starting", "Started", "Stopping", "StopReproc",
                "Stopped", "Exiting", "Deinit"}
    /\ starts \in 0..MaxStarts /\ flushes \in 0..MaxFlushes
    /\ reproc \in BOOLEAN /\ config \in BOOLEAN /\ is_active \in BOOLEAN /\ lockLeaked \in BOOLEAN
    /\ cmdQ \in Seq(Cmds)
    /\ dpc \in {"Wait", "Jpeg", "Encode", "JobId", "Fwk", "Pair", "Exited"}
    /\ cur \in JpegJob \cup {NoJob} /\ rcb \in JpegJob \cup {NoJob}
    /\ inputPPQ \in Seq(Req) /\ inputMetaQ \in Seq(Req)
    /\ inputFWKPPQ \in Seq(Req) /\ fwkReqs \in FwkChoices /\ nextW \in 1..N+1
    /\ jpegSettingsQ \in Seq(Req) /\ reprocHw \in Seq(Req)
    /\ ongoingPPQ \in Seq(PPJob)
    /\ inputJpegQ \in Seq(JpegJob) /\ ongoingJpegQ \in Seq(JpegJob)
    /\ jpegRun \subseteq Req /\ jpegLate \subseteq Req
    /\ session \in Req \cup {NoReq}
    /\ nextS \in 1..N+1 /\ nextF \in 1..N+1 /\ nextM \in 1..N+1
    /\ done \in [Req -> [Fields -> Nat]]

(* Every frame, metadata buffer and settings block is given up at most    *)
(* once: bufDone / metadataBufDone / free across the STOP flushes, the    *)
(* error paths of DO_NEXT_JOB and the JPEG completion.                    *)
NoDoubleReturn == \A r \in Req, k \in Fields : done[r][k] <= 1

(* No buffer leak: every frame and metadata buffer that arrived is either *)
(* given back to its channel or still referenced by a queue or a live     *)
(* job, across stop, the error paths and the reprocess callback.          *)
NoLeak ==
    \A k \in {"frame", "meta"} :
        \A r \in Arrived(k) : done[r][k] > 0 \/ r \in Held(k)

(* Each borrowed frame and metadata buffer is released through exactly    *)
(* one path, as the spec's invariant says: once it has arrived it is given *)
(* back once, or is still referenced by a queue or a live job and not yet  *)
(* given back.  Both a second release (a freed job left queued) and no      *)
(* release at all (a job that reaches a stopped pipeline) break it.         *)
ReleasedExactlyOnce ==
    \A k \in {"frame", "meta"}, r \in Req :
        /\ done[r][k] <= 1
        /\ r \in Arrived(k) => done[r][k] = 1 \/ r \in Held(k)

(* Each settings block stays with its own request from the moment         *)
(* processJpegSettingData queues it on m_jpegSettingsQ: no live job       *)
(* carries the settings of another request, and the block is never lost;  *)
(* it is still queued, referenced by a live job, or freed by               *)
(* releaseJpegJobData.  m_jpegSettingsQ is matched to frames only by       *)
(* position, across stop/start, framework inputs and the error paths and   *)
(* flushes that drop a dequeued block.                                     *)
SettingsFollowRequest ==
    /\ \A j \in LiveJobs : j.set \in {j.frame, NoReq}
    /\ \A r \in Arrived("set") : done[r].set > 0 \/ r \in Held("set")

(* A job carries the frame, metadata and settings of one request: the     *)
(* FIFO pairing of m_inputPPQ, m_inputMetaQ and m_jpegSettingsQ and the   *)
(* positional matching of reprocess completions never mix requests.       *)
PairingConsistent ==
    \A j \in LiveJobs :
        /\ j.meta = IF j.frame \in fwkReqs THEN NoReq ELSE j.frame
        /\ j.set \in {j.frame, NoReq}
        /\ "img" \in DOMAIN j => j.img = j.frame

(* The data-process thread touches the JPEG job it took only while the    *)
(* job is still on m_ongoingJpegQ: encodeData reads it for start_job and  *)
(* writes its jobId after start_job returns, while flush() on the caller's *)
(* thread and the encoder's completion may each release and free it.      *)
JobsUsedOnlyLive ==
    dpc \in {"Encode", "JobId"} => cur \in Elems(ongoingJpegQ)

(* stop() returns: once STOP is sent, the thread acknowledges it and the  *)
(* reprocess channel is stopped.                                          *)
StopReturns == (ctl = "Stopping") ~> (ctl = "Stopped")

\* a request's inputs reached the pipeline, and the pipeline gave them up
Delivered(r) == IF r \in fwkReqs THEN r < nextW ELSE r < nextF /\ r < nextM
GivenBack(r) == done[r].frame > 0 /\ (r \in fwkReqs \/ done[r].meta > 0)

-----------------------------------------------------------------------------
(* Refinement: the queues, jobs and threads of this module implement the   *)
(* buffer promise of PostProcBuffers.  A resource is lent once its          *)
(* producer call ran, its return count is done, and the encoder reads the  *)
(* requests of the jobs start_job was given and that have not completed or *)
(* been aborted.                                                            *)
Buffers == INSTANCE PostProcBuffers
               WITH lent     <- {x \in Req \X Fields : x[1] \in Arrived(x[2])},
                    returned <- [x \in Req \X Fields |-> done[x[1]][x[2]]],
                    encoding <- jpegRun

(* The post-processor keeps the buffer promise: every frame, metadata      *)
(* buffer and settings block is handed back at most once and only after    *)
(* its producer call, the encoder runs one job at a time, and no path      *)
(* (STOP's flushes, flush(), the encode error path, a reprocess or JPEG    *)
(* completion, the late completion of a job abort_job did not cancel)     *)
(* gives back a frame the encoder is still reading.                        *)
KeepsBufferPromise == Buffers!Spec

=============================================================================
