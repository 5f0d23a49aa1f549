------------------------------ MODULE PostProc ------------------------------
(***************************************************************************)
(* The post processor of HAL1 (QCameraPostProcessor): frames of the        *)
(* picture channel are reprocessed by the daemon, in no, one or two        *)
(* passes, encoded by the JPEG interface and handed to the application by  *)
(* the notifier.                                                           *)
(*                                                                         *)
(* Five threads meet here: the callback threads of the source and of the   *)
(* reprocess channel, the data thread with its four queues, the state      *)
(* machine thread, which starts, stops and handles JPEG events, and the    *)
(* notifier.  A frame <<p, c>> is what pass c made of picture p, <<p, 0>>  *)
(* the frame of the source channel.                                        *)
(***************************************************************************)
EXTENDS CbNotifier, FiniteSets

CONSTANT Modes      \* ways to take pictures, see Mode

NoFrame == <<>>     \* no frame, a null pointer
NoJob == [orig |-> NoFrame, src |-> NoFrame, count |-> 0]

Frames == Pictures \X (0 .. 2)
\* qcamera_pp_data_t and qcamera_jpeg_data_t: src_reproc_frame, src_frame and
\* reprocCount; of a JPEG job, count is 1 when its jobId is known.
Job == [orig : Frames \cup {NoFrame}, src : Frames \cup {NoFrame}, count : 0 .. 2]

QNames == {"inputPP", "ongoingPP", "inputJpeg"}     \* ongoingJpeg is never inactive

VARIABLES
    mode,       \* passes, output buffers of the reprocess stream, pictures expected
    sm,         \* the state machine thread and what it knows
    evtQ,       \* its events
    th,         \* the data thread: its commands, what it does, the job in hand, and
                \* the pictures whose jobs may get the memory of one it freed
    q,          \* the queues of the post processor
    reproc,     \* what the daemon has to reprocess, with the pass
    cb,         \* the callback thread of the reprocess channel
    src,        \* the callback thread of the source channel: the picture in hand
    enc,        \* what the JPEG interface has to encode
    out,        \* the buffers that are with the HAL
    hist        \* history, see TypeOK

ppvars == <<mode, sm, evtQ, th, q, reproc, cb, src, enc, out, hist>>
vars == <<ppvars, cbn>>

Init ==
    /\ mode \in Modes
    /\ sm = [pc |-> "idle", evt |-> NoPic, taking |-> FALSE, done |-> FALSE, todo |-> <<>>, taken |-> 0]
    /\ evtQ = <<>>
    /\ th = [cmds |-> <<>>, pc |-> "wait", job |-> NoJob, active |-> FALSE, reuse |-> {}]
    /\ q = [n \in QNames \cup {"ongoingJpeg"} |-> [active |-> TRUE, items |-> <<>>]]
    /\ reproc = <<>> /\ enc = <<>>
    /\ cb = [pc |-> "idle", job |-> NoJob, frame |-> NoFrame]
    /\ src = [pc |-> "idle", pic |-> NoPic]
    /\ out = {}
    /\ hist = [twice |-> {}, missed |-> {}, stale |-> FALSE, freed |-> FALSE]
    /\ cbn = Quiescent

-----------------------------------------------------------------------------
(* The queues (QCameraQueue) and what a job holds                          *)

\* enqueue(), refused by an inactive queue.
Enqueued(n, job) == [q EXCEPT ![n].items = Append(@, job)]
Refused(n) == ~q[n].active
Waiting(n) == IF q[n].active THEN q[n].items ELSE <<>>      \* what dequeue() and peek() see

\* flush(): every job is released, and the queue takes no more.
Flushed(n) == [q EXCEPT ![n] = [active |-> FALSE, items |-> <<>>]]

\* The frames of a job, and those of a queue.  releaseOngoingPPData() and
\* releaseJpegJobData() give back just these.
FramesOf(job) == {job.orig, job.src} \ {NoFrame}
FramesIn(jobs) == UNION {FramesOf(jobs[i]) : i \in DOMAIN jobs}

\* releaseSuperBuf(): the buffers go back to the kernel.
Release(frames) ==
    /\ out' = out \ frames
    /\ hist' = [hist EXCEPT !.twice = @ \cup (frames \ out)]

Released(frames, h) == [h EXCEPT !.twice = @ \cup (frames \ out)]

\* A job that was freed while it was in a queue: its entry, NoJob, reads as it was
\* left, without frames, or as a job that was made later in the same memory, and what
\* is done to the one is done to the other.  (It may also read as anything else that
\* was allocated since, or free() may abort: that is not modelled.)
Jobs(n) == {q[n].items[i] : i \in DOMAIN q[n].items}
Read(job) ==
    {job} \cup {j \in Jobs("inputPP") \cup Jobs("ongoingPP") :
                 job = NoJob /\ j # NoJob /\ j.orig[1] \in th.reuse}
Gone(jobs, job) == [i \in DOMAIN jobs |-> IF jobs[i] = job THEN NoJob ELSE jobs[i]]

Post(cmd) == th' = [th EXCEPT !.cmds = sendCmd(@, cmd, FALSE)]

-----------------------------------------------------------------------------
(* The callback thread of the source channel: processData()                *)

\* The frame goes to the first queue of its way, or back if that is inactive.
SrcEnqueue ==
    /\ src.pc = "idle" /\ sm.todo # <<>>
    /\ LET p == Head(sm.todo)
           f == <<p, 0>>
           n == IF mode.passes > 0 THEN "inputPP" ELSE "inputJpeg"
           job == [orig |-> IF mode.passes > 0 THEN f ELSE NoFrame, src |-> f, count |-> 0] IN
       /\ sm' = [sm EXCEPT !.todo = Tail(@)]
       /\ \/ Refused(n) /\ UNCHANGED <<q, out, src>>
          \/ ~Refused(n) /\ q' = Enqueued(n, job) /\ out' = out \cup {f}
                /\ src' = [pc |-> "next", pic |-> p]
    /\ UNCHANGED <<mode, evtQ, th, reproc, cb, enc, hist, cbn>>

SrcNext ==
    /\ src.pc = "next"
    /\ src' = [pc |-> "idle", pic |-> NoPic]
    /\ Post("NEXT")
    /\ UNCHANGED <<mode, sm, evtQ, q, reproc, cb, enc, out, hist, cbn>>

-----------------------------------------------------------------------------
(* The callback thread of the reprocess channel: processPPData()           *)

\* The daemon hands out the result of its first request, in a buffer of the stream
\* of that pass (external).
InBuffers(c) == Cardinality({f \in out : f[2] = c})

ReprocResult ==
    /\ reproc # <<>> /\ cb.pc = "idle" /\ sm.pc # "delete"
    /\ LET r == Head(reproc)
           f == <<r.frame[1], r.pass>> IN
       /\ InBuffers(r.pass) < mode.bufs
       /\ cb' = [cb EXCEPT !.pc = "take", !.frame = f]
       /\ out' = out \cup {f}
    /\ reproc' = Tail(reproc)
    /\ UNCHANGED <<mode, sm, evtQ, th, q, src, enc, hist, cbn>>

\* Mutant: the input of a second pass is not given back.
PPTake_KeepsInput ==
    /\ cb.pc = "take" /\ Waiting("ongoingPP") # <<>>
    /\ LET job == Head(q["ongoingPP"].items) IN
       /\ q' = [q EXCEPT !["ongoingPP"].items = Tail(@)]
       /\ cb' = [cb EXCEPT !.pc = "put", !.job = job]
    /\ UNCHANGED <<mode, sm, evtQ, th, reproc, src, enc, out, hist, cbn>>

\* The job of the result is the head of the ongoing queue; after a second pass its
\* input is given back.  Without a job, or with an invalid one, the frame is left as
\* it is.
PPTake ==
    /\ cb.pc = "take"
    /\ \/ Waiting("ongoingPP") = <<>> /\ cb' = [cb EXCEPT !.pc = "idle", !.frame = NoFrame]
             /\ UNCHANGED <<q, out, hist>>
       \/ Waiting("ongoingPP") # <<>>
             /\ \E job \in Read(Head(q["ongoingPP"].items)) :
                /\ q' = [q EXCEPT !["ongoingPP"].items = Gone(Tail(@), job),
                                  !["inputPP"].items = Gone(@, job)]
                /\ IF job = NoJob
                   THEN cb' = [cb EXCEPT !.pc = "idle", !.frame = NoFrame] /\ UNCHANGED <<out, hist>>
                   ELSE IF job.count > 1
                   THEN /\ Release({job.src})
                        /\ cb' = [cb EXCEPT !.pc = "put", !.job = [job EXCEPT !.src = NoFrame]]
                   ELSE /\ cb' = [cb EXCEPT !.pc = "put", !.job = job]
                        /\ UNCHANGED <<out, hist>>
    /\ UNCHANGED <<mode, sm, evtQ, th, reproc, src, enc, cbn>>

\* Another pass, or the JPEG queue; a queue that refuses the job has it released.
PPPut ==
    /\ cb.pc = "put"
    /\ LET more == cb.job.count < mode.passes
           n == IF more THEN "inputPP" ELSE "inputJpeg"
           job == [cb.job EXCEPT !.src = cb.frame, !.count = IF more THEN @ ELSE 0] IN
       \/ Refused(n) /\ Release(FramesOf(job)) /\ UNCHANGED q
             /\ cb' = [pc |-> "idle", job |-> NoJob, frame |-> NoFrame]
       \/ ~Refused(n) /\ q' = Enqueued(n, job) /\ UNCHANGED <<out, hist>>
             /\ cb' = [pc |-> "next", job |-> NoJob, frame |-> NoFrame]
    /\ UNCHANGED <<mode, sm, evtQ, th, reproc, src, enc, cbn>>

PPNext ==
    /\ cb.pc = "next"
    /\ cb' = [cb EXCEPT !.pc = "idle"]
    /\ Post("NEXT")
    /\ UNCHANGED <<mode, sm, evtQ, q, reproc, src, enc, out, hist, cbn>>

-----------------------------------------------------------------------------
(* The data thread: dataProcessRoutine()                                   *)

DataTakes(cmd) == th.pc = "wait" /\ th.cmds # <<>> /\ Head(th.cmds) = cmd
Taken == [th EXCEPT !.cmds = Tail(@)]
DataGoto(pc) == th' = [th EXCEPT !.pc = pc]

\* The queues are opened, and start() goes on.
DataStart ==
    /\ DataTakes("START")
    /\ th' = [Taken EXCEPT !.active = TRUE]
    /\ q' = [n \in DOMAIN q |-> [q[n] EXCEPT !.active = TRUE]]
    /\ sm' = [sm EXCEPT !.pc = "started"]
    /\ UNCHANGED <<mode, evtQ, reproc, cb, src, enc, out, hist, cbn>>

DataStop ==
    /\ DataTakes("STOP")
    /\ th' = [Taken EXCEPT !.active = FALSE, !.pc = "abort"]
    /\ UNCHANGED <<mode, sm, evtQ, q, reproc, cb, src, enc, out, hist, cbn>>

\* Mutant: the jobs are released, and the session that is destroyed takes care of them.
StopAbort_NoAbort ==
    /\ th.pc = "abort"
    /\ LET jobs == q["ongoingJpeg"].items IN
       \/ /\ jobs # <<>>
          /\ th' = [th EXCEPT !.pc = "free", !.job = Head(jobs)]
          /\ q' = [q EXCEPT !["ongoingJpeg"].items = Tail(@)]
          /\ UNCHANGED enc
       \/ /\ jobs = <<>>
          /\ enc' = <<>>
          /\ DataGoto("ongoingPP")
          /\ UNCHANGED q
    /\ UNCHANGED <<mode, sm, evtQ, reproc, cb, src, out, hist, cbn>>

\* Every ongoing JPEG job is aborted, then released; then the session is destroyed,
\* and with it what it still had to encode.
StopAbort ==
    /\ th.pc = "abort"
    /\ LET jobs == q["ongoingJpeg"].items IN
       \/ /\ jobs # <<>>
          /\ th' = [th EXCEPT !.pc = "free", !.job = Head(jobs)]
          /\ q' = [q EXCEPT !["ongoingJpeg"].items = Tail(@)]
          /\ enc' = SelectSeq(enc, LAMBDA j : ~(Head(jobs).count = 1 /\ j.src = Head(jobs).src))
       \/ /\ jobs = <<>>
          /\ enc' = <<>>
          /\ DataGoto("ongoingPP")
          /\ UNCHANGED q
    /\ UNCHANGED <<mode, sm, evtQ, reproc, cb, src, out, hist, cbn>>

StopFree ==
    /\ th.pc = "free"
    /\ th' = [th EXCEPT !.pc = "abort", !.job = NoJob]
    /\ Release(FramesOf(th.job))
    /\ UNCHANGED <<mode, sm, evtQ, q, reproc, cb, src, enc, cbn>>

\* Mutant: the JPEG jobs that wait are not flushed.
AfterFlush_NoJpeg == [ongoingPP |-> "inputPP", inputJpeg |-> "stopped", inputPP |-> "stopped"]

AfterFlush == [ongoingPP |-> "inputJpeg", inputJpeg |-> "inputPP", inputPP |-> "stopped"]

\* The ongoing reprocess jobs, the JPEG jobs and the reprocess jobs that wait; with an
\* ongoing job that was freed before, the one that got its memory.
StopFlush ==
    /\ th.pc \in QNames
    /\ \E job \in IF NoJob \in Jobs(th.pc) THEN Read(NoJob) ELSE {NoJob} :
         /\ q' = [Flushed(th.pc) EXCEPT !["inputPP"].items = Gone(@, job)]
         /\ Release(FramesIn(q[th.pc].items) \cup FramesOf(job))
    /\ DataGoto(AfterFlush[th.pc])
    /\ UNCHANGED <<mode, sm, evtQ, reproc, cb, src, enc, cbn>>

StopDone ==
    /\ th.pc = "stopped"
    /\ DataGoto("wait")
    /\ sm' = [sm EXCEPT !.pc = "delete"]
    /\ UNCHANGED <<mode, evtQ, q, reproc, cb, src, enc, out, hist, cbn>>

\* Inactive, the queues were flushed and yield nothing.
NextInactive ==
    /\ DataTakes("NEXT") /\ ~th.active
    /\ th' = Taken
    /\ UNCHANGED <<mode, sm, evtQ, q, reproc, cb, src, enc, out, hist, cbn>>

NextJpeg ==
    /\ DataTakes("NEXT") /\ th.active
    /\ LET jobs == Waiting("inputJpeg") IN
       IF jobs = <<>>
       THEN th' = [Taken EXCEPT !.pc = "reproc"] /\ UNCHANGED q
       ELSE /\ th' = [Taken EXCEPT !.pc = "encode", !.job = Head(jobs)]
            /\ q' = [q EXCEPT !["inputJpeg"].items = Tail(@),
                              !["ongoingJpeg"].items = Append(@, Head(jobs))]
    /\ UNCHANGED <<mode, sm, evtQ, reproc, cb, src, enc, out, hist, cbn>>

\* encodeData() up to start_job().
EncodeStart ==
    /\ th.pc = "encode"
    /\ enc' = Append(enc, th.job)
    /\ DataGoto("remember")
    /\ UNCHANGED <<mode, sm, evtQ, q, reproc, cb, src, out, hist, cbn>>

\* Mutant: the first job of the queue is taken off.
EncodeFails_Head ==
    /\ th.pc = "encode"
    /\ q' = [q EXCEPT !["ongoingJpeg"].items = Tail(@)]
    /\ th' = [th EXCEPT !.pc = "reproc", !.job = NoJob]
    /\ Release(FramesOf(th.job))
    /\ cbn' = notifyCallback(cbn, NoPic)
    /\ UNCHANGED <<mode, sm, evtQ, reproc, cb, src, enc>>

\* encodeData() fails: the last job of the queue, this one, is taken off again and
\* released, and the application is told.
EncodeFails ==
    /\ th.pc = "encode"
    /\ q' = [q EXCEPT !["ongoingJpeg"].items = Front(@)]
    /\ th' = [th EXCEPT !.pc = "reproc", !.job = NoJob]
    /\ Release(FramesOf(th.job))
    /\ cbn' = notifyCallback(cbn, NoPic)
    /\ UNCHANGED <<mode, sm, evtQ, reproc, cb, src, enc>>

\* "remember job info": until now no event can be matched with the job.
EncodeRemember ==
    /\ th.pc = "remember"
    /\ q' = [q EXCEPT !["ongoingJpeg"].items =
                [i \in DOMAIN @ |-> IF @[i] = th.job THEN [@[i] EXCEPT !.count = 1] ELSE @[i]]]
    /\ th' = [th EXCEPT !.pc = "reproc", !.job = NoJob]
    /\ UNCHANGED <<mode, sm, evtQ, reproc, cb, src, enc, out, hist, cbn>>

\* validatePostProcess(): a frame of the source channel waits while the daemon may
\* be short of output buffers.
OutOfPPBuffers(job) ==
    job.src[2] = 0 /\ Len(q["ongoingPP"].items) >= mode.bufs - InBuffers(1)

\* doReprocess(): the job counts as ongoing before the daemon hears of it.
ReprocEnqueue ==
    /\ th.pc = "reproc"
    /\ LET jobs == Waiting("inputPP") IN
       IF jobs = <<>> \/ Head(jobs) = NoJob \/ OutOfPPBuffers(Head(jobs))
       THEN DataGoto("wait") /\ UNCHANGED q
       ELSE LET job == [Head(jobs) EXCEPT !.count = @ + 1] IN
            /\ th' = [th EXCEPT !.pc = "submit", !.job = job]
            /\ q' = [q EXCEPT !["inputPP"].items = Tail(@), !["ongoingPP"].items = Append(@, job)]
    /\ UNCHANGED <<mode, sm, evtQ, reproc, cb, src, enc, out, hist, cbn>>

ReprocSubmit ==
    /\ th.pc = "submit"
    /\ reproc' = Append(reproc, [frame |-> th.job.src, pass |-> th.job.count])
    /\ th' = [th EXCEPT !.pc = "wait", !.job = NoJob]
    /\ UNCHANGED <<mode, sm, evtQ, q, cb, src, enc, out, hist, cbn>>

\* The stream refuses: the job is released and freed, its entry stays in the ongoing
\* queue, and the application is told.
ReprocFails ==
    /\ th.pc = "submit"
    /\ q' = [q EXCEPT !["ongoingPP"].items = Gone(@, th.job)]
    /\ th' = [th EXCEPT !.pc = "wait", !.job = NoJob,
                        !.reuse = @ \cup {sm.todo[i] : i \in DOMAIN sm.todo}]
    /\ out' = out \ FramesOf(th.job)
    /\ hist' = [Released(FramesOf(th.job), hist) EXCEPT !.freed = TRUE]
    /\ cbn' = notifyCallback(cbn, NoPic)
    /\ UNCHANGED <<mode, sm, evtQ, reproc, cb, src, enc>>

-----------------------------------------------------------------------------
(* The JPEG interface (external): it encodes one job after the other, and  *)
(* its thread posts the outcome to the state machine                       *)

Encoded(status) ==
    /\ enc # <<>>
    /\ enc' = Tail(enc)
    /\ evtQ' = Append(evtQ, [evt |-> status, pic |-> Head(enc).src[1], since |-> sm.taken])
    /\ UNCHANGED <<mode, sm, th, q, reproc, cb, src, out, hist, cbn>>

-----------------------------------------------------------------------------
(* The state machine thread                                                *)

\* takePicture(): start() opens the post processor, waits for the data thread and
\* turns the snapshots on; then the channel delivers.
TakePicture ==
    /\ sm.pc = "idle" /\ ~sm.taking
    /\ sm.taken + mode.expected <= Cardinality(Pictures)
    /\ sm' = [sm EXCEPT !.pc = "start"]
    /\ Post("START")
    /\ UNCHANGED <<mode, evtQ, q, reproc, cb, src, enc, out, hist, cbn>>

Started ==
    /\ sm.pc = "started"
    /\ sm' = [sm EXCEPT !.pc = "idle", !.taking = TRUE, !.taken = @ + mode.expected,
                        !.todo = [i \in 1 .. mode.expected |-> sm.taken + i]]
    /\ cbn' = startSnapshots(cbn)
    /\ UNCHANGED <<mode, evtQ, th, q, reproc, cb, src, enc, out, hist>>

\* cancelPicture(), called by the application or for SNAPSHOT_DONE: the snapshots
\* are turned off, and the data thread stops ahead of everything it was told before.
Cancel(s) ==
    /\ sm' = [s EXCEPT !.pc = "stop"]
    /\ th' = [th EXCEPT !.cmds = sendCmd(@, "STOP", TRUE)]
    /\ cbn' = stopSnapshots(cbn)

CancelPicture ==
    /\ sm.pc = "idle" /\ sm.taking
    /\ Cancel(sm)
    /\ UNCHANGED <<mode, evtQ, q, reproc, cb, src, enc, out, hist>>

\* Mutant: an event that comes too late is not answered.
SnapshotDone_Silent ==
    /\ sm.pc = "idle" /\ evtQ # <<>> /\ Head(evtQ).evt = "SNAPSHOT_DONE"
    /\ evtQ' = Tail(evtQ)
    /\ \/ sm.taking /\ Cancel([sm EXCEPT !.done = TRUE])
       \/ ~sm.taking /\ UNCHANGED <<cbn, sm, th>>
    /\ UNCHANGED <<mode, q, reproc, cb, src, enc, out, hist>>

SnapshotDone ==
    /\ sm.pc = "idle" /\ evtQ # <<>> /\ Head(evtQ).evt = "SNAPSHOT_DONE"
    /\ evtQ' = Tail(evtQ)
    /\ \/ sm.taking /\ Cancel([sm EXCEPT !.done = TRUE])
       \/ ~sm.taking /\ cbn' = SnapshotDoneAnswered(cbn) /\ UNCHANGED <<sm, th>>
    /\ UNCHANGED <<mode, q, reproc, cb, src, enc, out, hist>>

\* The reprocess channels are stopped, which ends their callbacks, and deleted with
\* their buffers; the source channel delivers no more.
Stopped ==
    /\ sm.pc = "delete" /\ cb.pc = "idle"
    /\ reproc' = <<>>
    /\ out' = {f \in out : f[2] = 0}
    /\ sm' = [sm EXCEPT !.pc = "idle", !.taking = FALSE, !.done = FALSE, !.todo = <<>>]
    /\ cbn' = IF sm.done THEN SnapshotDoneAnswered(cbn) ELSE cbn
    /\ th' = [th EXCEPT !.reuse = {}]
    /\ hist' = [hist EXCEPT !.freed = FALSE]
    /\ UNCHANGED <<mode, evtQ, q, cb, src, enc>>

\* JPEG_EVT_NOTIFY, processJpegEvt(): the ongoing job of that id is released.  When
\* no picture is taken the event is dropped.
JpegEvtRelease ==
    /\ sm.pc = "idle" /\ evtQ # <<>> /\ Head(evtQ).evt \in {"OK", "ERROR"}
    /\ evtQ' = Tail(evtQ)
    /\ LET e == Head(evtQ)
           jobs == q["ongoingJpeg"].items
           mine == SelectSeq(jobs, LAMBDA j : j.count = 1 /\ j.src[1] = e.pic)
           h == [hist EXCEPT !.stale = @ \/ e.since # sm.taken,
                             !.missed = @ \cup {j.src[1] : j \in {jobs[i] : i \in DOMAIN jobs} \cap
                                                   {k \in Job : k.count = 0 /\ k.src # NoFrame /\ k.src[1] = e.pic}}] IN
       \/ ~sm.taking /\ UNCHANGED <<sm, q, out, hist>>
       \/ sm.taking
             /\ q' = [q EXCEPT !["ongoingJpeg"].items = SelectSeq(@, LAMBDA j : ~(j.count = 1 /\ j.src[1] = e.pic))]
             /\ out' = out \ FramesIn(mine) /\ hist' = Released(FramesIn(mine), h)
             /\ sm' = [sm EXCEPT !.pc = e.evt, !.evt = e.pic]
    /\ UNCHANGED <<mode, th, reproc, cb, src, enc, cbn>>

\* Mutant: the data thread is not woken.
JpegEvtNotify_NoNext ==
    /\ sm.pc \in {"OK", "ERROR"}
    /\ sm' = [sm EXCEPT !.pc = "idle", !.evt = NoPic]
    /\ cbn' = notifyCallback(cbn, IF sm.pc = "OK" THEN sm.evt ELSE NoPic)
    /\ UNCHANGED <<mode, evtQ, th, q, reproc, cb, src, enc, out, hist>>

\* The data thread is woken, twice if reprocess jobs wait; the picture, or the
\* news that it failed, goes to the notifier.
JpegEvtNotify ==
    /\ sm.pc \in {"OK", "ERROR"}
    /\ sm' = [sm EXCEPT !.pc = "idle", !.evt = NoPic]
    /\ th' = [th EXCEPT !.cmds = @ \o (IF q["inputPP"].items # <<>> THEN <<"NEXT">> ELSE <<>>)
                                    \o <<"NEXT">>]
    /\ cbn' = notifyCallback(cbn, IF sm.pc = "OK" THEN sm.evt ELSE NoPic)
    /\ UNCHANGED <<mode, evtQ, q, reproc, cb, src, enc, out, hist>>

-----------------------------------------------------------------------------
(* The notifier                                                            *)

NotifierStep ==
    \/ (NotifyStart \/ NotifyStop \/ NotifyNone \/ NotifyNext(mode.expected) \/ CallbackReturns)
          /\ UNCHANGED ppvars
    \/ LastSnapshot(mode.expected)
          /\ evtQ' = Append(evtQ, [evt |-> "SNAPSHOT_DONE", pic |-> NoPic, since |-> sm.taken])
          /\ UNCHANGED <<mode, sm, th, q, reproc, cb, src, enc, out, hist>>

SrcStep == SrcEnqueue \/ SrcNext
PPStep == PPTake \/ PPPut \/ PPNext
DataStep ==
    \/ DataStart \/ DataStop \/ StopAbort \/ StopFree \/ StopFlush \/ StopDone
    \/ NextInactive \/ NextJpeg \/ EncodeStart \/ EncodeFails \/ EncodeRemember
    \/ ReprocEnqueue \/ ReprocSubmit \/ ReprocFails
SmStep == Started \/ SnapshotDone \/ Stopped \/ JpegEvtRelease \/ JpegEvtNotify
EncoderStep == \E s \in {"OK", "ERROR"} : Encoded(s)

Next ==
    \/ SrcStep \/ PPStep \/ DataStep \/ SmStep \/ NotifierStep
    \/ ReprocResult \/ EncoderStep
    \/ TakePicture \/ CancelPicture

Spec == Init /\ [][Next]_vars

\* Every thread goes on, the daemon reprocesses, the JPEG interface encodes and the
\* application returns from its callbacks; nobody has to take or cancel pictures.
Fairness ==
    /\ WF_vars(SrcNext) /\ WF_vars(PPStep) /\ WF_vars(DataStep) /\ WF_vars(SmStep)
    /\ WF_vars(NotifierStep) /\ WF_vars(ReprocResult) /\ WF_vars(EncoderStep)

FairSpec == Spec /\ Fairness

-----------------------------------------------------------------------------
(* Properties                                                              *)

\* The types of the state.
TypeOK ==
    /\ mode \in Modes
    /\ sm.pc \in {"idle", "start", "started", "stop", "delete", "OK", "ERROR"}
    /\ sm.evt \in Pictures \cup {NoPic} /\ sm.taking \in BOOLEAN /\ sm.done \in BOOLEAN
    /\ \A i \in DOMAIN sm.todo : sm.todo[i] \in Pictures
    /\ \A i \in DOMAIN evtQ : evtQ[i].evt \in {"OK", "ERROR", "SNAPSHOT_DONE"}
    /\ \A i \in DOMAIN th.cmds : th.cmds[i] \in {"START", "STOP", "NEXT"}
    /\ th.pc \in {"wait", "abort", "free", "stopped", "encode", "remember", "reproc", "submit"} \cup QNames
    /\ th.job \in Job /\ th.reuse \subseteq Pictures
    /\ \A n \in QNames \cup {"ongoingJpeg"} : \A i \in DOMAIN q[n].items : q[n].items[i] \in Job
    /\ \A i \in DOMAIN reproc : reproc[i].frame \in Frames /\ reproc[i].pass \in 1 .. mode.passes
    /\ cb.pc \in {"idle", "take", "put", "next"} /\ cb.job \in Job /\ cb.frame \in Frames \cup {NoFrame}
    /\ src.pc \in {"idle", "next"} /\ src.pic \in Pictures \cup {NoPic}
    /\ \A i \in DOMAIN enc : enc[i] \in Job
    /\ out \subseteq Frames /\ hist.twice \subseteq Frames
    /\ hist.missed \subseteq Pictures /\ hist.stale \in BOOLEAN /\ hist.freed \in BOOLEAN
    /\ cbn.pc \in {"wait", "done", "app"} /\ cbn.rcvd <= Cardinality(Pictures)

\* Who has the frames: the queues, the data thread while it stops, the callback.
HeldBy ==
    UNION {{FramesOf(q[n].items[i]) : i \in DOMAIN q[n].items} : n \in DOMAIN q}
    \cup {IF th.pc = "free" THEN FramesOf(th.job) ELSE {},
          FramesOf(cb.job) \cup ({cb.frame} \ {NoFrame})}

NumHeld ==
    FoldSet(LAMBDA n, sum : sum + FoldSeq(LAMBDA j, k : k + Cardinality(FramesOf(j)), 0, q[n].items),
            (IF th.pc = "free" THEN Cardinality(FramesOf(th.job)) ELSE 0)
              + Cardinality(FramesOf(cb.job)) + (IF cb.frame = NoFrame THEN 0 ELSE 1),
            DOMAIN q)

Stopping == sm.pc \in {"stop", "delete"}

\* A frame with the HAL is held in one place, so that it goes back, and goes back
\* once.  A result that comes when the ongoing jobs were flushed is left to the
\* deletion of its channel.
FramesExact ==
    /\ hist.twice = {}
    /\ LET held == UNION HeldBy IN
       /\ Cardinality(held) = NumHeld
       /\ held \subseteq out
       /\ \A f \in out \ held : f[2] > 0 /\ Stopping

\* When no picture is taken, nothing is left: no job, no buffer, nothing to encode or
\* to reprocess (stop(): "Data process and notify thread will be stopped").
StoppedIsEmpty ==
    sm.pc = "idle" /\ ~sm.taking =>
        /\ \A n \in DOMAIN q : q[n].items = <<>>
        /\ out = {} /\ enc = <<>> /\ reproc = <<>> /\ cb.pc = "idle" /\ ~th.active

\* A picture goes to the application at most once.
DeliveredOnce ==
    /\ Cardinality({i \in DOMAIN cbn.data : cbn.data[i] # NoPic})
         = Cardinality({cbn.data[i] : i \in DOMAIN cbn.data} \ {NoPic})
    /\ \A i \in DOMAIN cbn.data : cbn.data[i] \notin cbn.delivered
    /\ cbn.at \notin cbn.delivered

\* What the encoder reads stays with the HAL until the encoder has answered or the
\* job was aborted; what the daemon reads, until it answered or the post processor
\* stops.  (A stop gives the frames back before it stops the reprocess channels.)
NothingReadAfterReturn ==
    /\ \A i \in DOMAIN enc : FramesOf(enc[i]) \subseteq out
    /\ \A i \in DOMAIN reproc : reproc[i].frame \in out \/ Stopping

\* The whole pipeline: frames in one place, none left behind by a stop, none read
\* after its return, none delivered twice.  Once a reprocess failed, whose job is freed
\* in its queue, only that the next stop leaves nothing behind.
PipelineExact ==
    /\ TypeOK /\ StoppedIsEmpty
    /\ hist.freed \/ (FramesExact /\ DeliveredOnce /\ NothingReadAfterReturn)

\* The last snapshot is reported when every picture of the round is with the
\* notifier, unless an event of an earlier round was counted, START went ahead of a
\* STOP or a reprocess failed.
LastMeansAll ==
    [][cbn.pc = "wait" /\ cbn'.pc = "done" /\ ~hist.stale /\ ~hist.freed /\ ~cbn.overtaken =>
         /\ sm.todo = <<>>
         /\ (sm.taken - mode.expected + 1) .. sm.taken \subseteq cbn'.delivered \cup {cbn'.at}]_vars

\* Taking and cancelling pictures and the handling of events end.
CallsReturn == sm.pc # "idle" ~> sm.pc = "idle"

\* The frames of a picture go back to the kernel though nobody stops: no job waits
\* for a command that never comes.  An event that comes before its job is remembered
\* takes no frame back, and its buffers are then missing; a reprocess that failed
\* leaves an entry that costs another job its result.
InUse(p) == \E c \in 0 .. 2 : <<p, c>> \in out
FramesComeBack == \A p \in Pictures : InUse(p) ~> ~InUse(p) \/ hist.missed # {} \/ hist.freed

\* The notifier comes to every callback, and gets its answer to SNAPSHOT_DONE.
NotifierGoesOn ==
    /\ \A p \in Pictures : Contains(cbn.data, p) ~> ~Contains(cbn.data, p)
    /\ cbn.pc = "done" ~> cbn.pc # "done"

\* Everybody gets on.
Progress == CallsReturn /\ FramesComeBack /\ NotifierGoesOn

\* startSnapshots(): "Enables snapshot mode".  Once the notifier has taken its
\* commands, the snapshots are on if that was asked last.
SnapshotsStayOn ==
    (\A c \in {"START", "STOP"} : ~Contains(cbn.cmds, c))
        => cbn.isSnapshotActive = (cbn.asked = "START")

=============================================================================
