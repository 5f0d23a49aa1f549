-------------------------- MODULE HalStateMachine --------------------------
(***************************************************************************)
(* QCameraStateMachine: the thread that serves, one at a time, the API     *)
(* calls of the camera service and the events of the back end, and the     *)
(* nine handlers, one per state, that decide what each of them does.       *)
(*                                                                         *)
(* A command is fetched in one step and handled in the next: the fetch     *)
(* takes an API call before any event, and a call that arrives while a     *)
(* command is being handled waits.  There is one action per group of       *)
(* commands of a handler, in the order of its switch.                      *)
(***************************************************************************)
EXTENDS HalDevice

VARIABLES
    mState,     \* m_state
    dev,        \* the services behind m_parent, see HalDevice
    cur,        \* the command being handled
    apiQ,       \* api_queue
    evtQ,       \* evt_queue
    results,    \* m_apiResultList
    app,        \* the framework's thread: the answer it waits for, whether m_cond was
                \* signalled, and how many pictures it asked for
    live,       \* mLiveSnapshotThread: not running, starting or stopping a live snapshot
    notifier,   \* the picture whose SNAPSHOT_DONE the notifier waits for, 0 for none
    prep,       \* the back end owes a "prepare snapshot done"
    mode        \* settings that do not change while the camera is open

vars == <<mState, dev, cur, apiQ, evtQ, results, app, live, notifier, prep, mode>>

States == {"PREVIEW_STOPPED", "PREVIEW_READY", "PREVIEWING", "PREPARE_SNAPSHOT", "PIC_TAKING",
           "RECORDING", "VIDEO_PIC_TAKING", "PREVIEW_PIC_TAKING"}

(***************************************************************************)
(* The commands.  SERVICE stands for the calls a handler answers at once   *)
(* and that touch none of this: callbacks, message types, get and put      *)
(* parameters, preview and recording enabled, metadata in buffers, dump,   *)
(* focus and face images.                                                  *)
(***************************************************************************)
APIs == {"SERVICE", "SET_PREVIEW_WINDOW", "SET_PARAMS", "SET_PARAMS_STOP", "SET_PARAMS_COMMIT",
         "SET_PARAMS_RESTART", "PREPARE_PREVIEW", "START_PREVIEW", "START_NODISPLAY_PREVIEW",
         "STOP_PREVIEW", "PRE_START_RECORDING", "START_RECORDING", "STOP_RECORDING",
         "RELEASE_RECORDING_FRAME", "PREPARE_SNAPSHOT", "PRE_TAKE_PICTURE", "TAKE_PICTURE",
         "CANCEL_PICTURE", "SEND_COMMAND", "RELEASE", "STOP_CAPTURE_CHANNEL"}

Events == {"SNAPSHOT_DONE", "JPEG_EVT_NOTIFY", "PREP_SNAPSHOT_DONE", "READY_FOR_SNAPSHOT",
           "DAEMON_DIED"}

Cmd(e, a) == [evt |-> e, arg |-> a]
Idle == Cmd("none", 0)

smEvtProcRoutine ==
    /\ cur = Idle
    /\ IF apiQ # <<>>
       THEN cur' = Head(apiQ) /\ apiQ' = Tail(apiQ) /\ UNCHANGED evtQ
       ELSE evtQ # <<>> /\ cur' = Head(evtQ) /\ evtQ' = Tail(evtQ) /\ UNCHANGED apiQ
    /\ UNCHANGED <<mState, dev, results, app, live, notifier, prep, mode>>

-----------------------------------------------------------------------------
(* How a handler ends.                                                     *)

signalAPIResult(answers) ==
    /\ results' = results \o answers
    /\ app' = IF answers = <<>> THEN app ELSE [app EXCEPT !.woken = TRUE]

\* Outcome o of a service, the new state, and the answers given.
Finish(o, state, answers) ==
    /\ dev' = o.dev
    /\ mState' = state
    /\ evtQ' = evtQ \o o.post
    /\ cur' = Idle
    /\ signalAPIResult(answers)

Reply(ok) == <<[evt |-> cur.evt, ok |-> ok]>>

Quiet == UNCHANGED <<apiQ, live, notifier, prep, mode>>

\* Answer with the outcome of the service and go where it leads.
Serve(outs, good, bad) ==
    /\ \E o \in outs : Finish(o, IF o.ok THEN good ELSE bad, Reply(o.ok))
    /\ Quiet

Done(d) == [ok |-> TRUE, dev |-> d, post |-> <<>>]

Nothing == Serve(Ok(dev), mState, mState)
INVALID_OPERATION == Serve(Error(dev), mState, mState)
\* Mutant: an event is answered like a call.
Unhandled_Answers == Finish(Done(dev), mState, Reply(FALSE)) /\ Quiet

Unhandled == Finish(Done(dev), mState, <<>>) /\ Quiet

In(state) == mState = state /\ cur # Idle
On(evts) == cur.evt \in evts

\* signalEvtResult(): whoever waits in processSyncEvt() for SNAPSHOT_DONE goes on.
SnapshotDone(outs, good, answers) ==
    /\ \E o \in outs : Finish(o, good, answers)
    /\ notifier' = 0
    /\ UNCHANGED <<apiQ, live, prep, mode>>

\* takeLiveSnapshot() and cancelLiveSnapshot() join the thread before and start it anew.
LiveThread(does) == live = "none" /\ live' = does

\* The same for a command that stops the live snapshot first.
ServeLive(outs, good, bad) ==
    /\ LiveThread("cancelling")
    /\ \E o \in outs : Finish(o, IF o.ok THEN good ELSE bad, Reply(o.ok))
    /\ UNCHANGED <<apiQ, notifier, prep, mode>>

ClearRestart(d) == [d EXCEPT !.needRestart = FALSE]

SetParams == Serve(Ok(updateParameters(dev, cur.arg.zsl, cur.arg.hint)), mState, mState)
CommitParams == Serve(commitParameterChanges(dev), mState, mState)
SendCommand == Serve(sendCommand(dev, cur.arg, FALSE), mState, mState)

-----------------------------------------------------------------------------
(* procEvtPreviewStoppedState                                              *)

StoppedParams ==
    /\ In("PREVIEW_STOPPED")
    /\ \/ On({"SERVICE", "SET_PARAMS_STOP"}) /\ Nothing
       \/ On({"SET_PREVIEW_WINDOW"}) /\ Serve(Ok([dev EXCEPT !.window = cur.arg]), mState, mState)
       \/ On({"SET_PARAMS"}) /\ SetParams
       \/ On({"SET_PARAMS_COMMIT"}) /\ CommitParams
       \/ On({"SET_PARAMS_RESTART"}) /\ Serve(Ok(ClearRestart(dev)), mState, mState)

StoppedPreview ==
    /\ In("PREVIEW_STOPPED")
    /\ \/ On({"PREPARE_PREVIEW"}) /\ Serve(preparePreview(dev), "PREVIEW_READY", mState)
       \/ On({"START_PREVIEW"}) /\ ~dev.window
             /\ Serve(preparePreview(dev), "PREVIEW_READY", mState)
       \/ ((On({"START_PREVIEW"}) /\ dev.window) \/ On({"START_NODISPLAY_PREVIEW"}))
             /\ Serve(RestartPreview(dev), "PREVIEWING", mState)
       \/ On({"STOP_PREVIEW"}) /\ Nothing

StoppedOther ==
    /\ In("PREVIEW_STOPPED")
    /\ \/ On({"RELEASE", "CANCEL_PICTURE"}) /\ Nothing
       \/ On({"SEND_COMMAND"}) /\ SendCommand
       \/ On({"RELEASE_RECORDING_FRAME", "PRE_START_RECORDING", "START_RECORDING", "STOP_RECORDING",
              "PREPARE_SNAPSHOT", "PRE_TAKE_PICTURE", "TAKE_PICTURE"}) /\ INVALID_OPERATION

StoppedEvents ==
    /\ In("PREVIEW_STOPPED")
    /\ \/ On({"SNAPSHOT_DONE"}) /\ SnapshotDone(Ok(dev), mState, <<>>)
       \/ On({"STOP_CAPTURE_CHANNEL", "JPEG_EVT_NOTIFY", "PREP_SNAPSHOT_DONE",
              "READY_FOR_SNAPSHOT", "DAEMON_DIED"}) /\ Unhandled

-----------------------------------------------------------------------------
(* procEvtPreviewReadyState                                                *)

ReadyWindow ==
    /\ In("PREVIEW_READY")
    /\ On({"SET_PREVIEW_WINDOW"})
    /\ LET d == [dev EXCEPT !.window = cur.arg]
       IN  IF d.window THEN Serve(OrElse(startPreview(d), unpreparePreview), "PREVIEWING", "PREVIEW_STOPPED")
                       ELSE Serve(Ok(d), mState, mState)

ReadyParams ==
    /\ In("PREVIEW_READY")
    /\ \/ On({"SERVICE"}) /\ Nothing
       \/ On({"SET_PARAMS"}) /\ SetParams
       \/ On({"SET_PARAMS_STOP"}) /\ Serve(Ok(unpreparePreview(dev)), mState, mState)
       \/ On({"SET_PARAMS_COMMIT"}) /\ CommitParams
       \/ On({"SET_PARAMS_RESTART"})
             /\ Serve(preparePreview(ClearRestart(dev)), mState, "PREVIEW_STOPPED")

\* The caller is told that the start succeeded even when it did not.
ReadyPreview ==
    /\ In("PREVIEW_READY")
    /\ \/ On({"PREPARE_PREVIEW"}) /\ Nothing
       \/ On({"START_PREVIEW"}) /\ ~dev.window /\ Nothing
       \/ /\ (On({"START_PREVIEW"}) /\ dev.window) \/ On({"START_NODISPLAY_PREVIEW"})
          /\ \E o \in OrElse(startPreview(dev), unpreparePreview) :
                 Finish(o, IF o.ok THEN "PREVIEWING" ELSE "PREVIEW_STOPPED", Reply(TRUE))
          /\ Quiet
       \/ On({"STOP_PREVIEW"}) /\ Serve(Ok(unpreparePreview(dev)), "PREVIEW_STOPPED", mState)

ReadyOther ==
    /\ In("PREVIEW_READY")
    /\ \/ On({"SEND_COMMAND"}) /\ SendCommand
       \/ On({"RELEASE_RECORDING_FRAME", "PRE_START_RECORDING", "START_RECORDING", "STOP_RECORDING",
              "PREPARE_SNAPSHOT", "PRE_TAKE_PICTURE", "TAKE_PICTURE", "CANCEL_PICTURE", "RELEASE"})
             /\ INVALID_OPERATION

ReadyEvents ==
    /\ In("PREVIEW_READY")
    /\ \/ On({"SNAPSHOT_DONE"}) /\ SnapshotDone(Ok(dev), mState, <<>>)
       \/ On({"STOP_CAPTURE_CHANNEL", "JPEG_EVT_NOTIFY", "PREP_SNAPSHOT_DONE",
              "READY_FOR_SNAPSHOT", "DAEMON_DIED"}) /\ Unhandled

-----------------------------------------------------------------------------
(* procEvtPreviewingState                                                  *)

\* Mutant: the preview is not taken down before the parameters change.
PreviewingParams_NoStop ==
    /\ In("PREVIEWING")
    /\ \/ On({"SET_PREVIEW_WINDOW"}) /\ INVALID_OPERATION
       \/ On({"SERVICE", "SET_PARAMS_STOP"}) /\ Nothing
       \/ On({"SET_PARAMS"}) /\ SetParams
       \/ On({"SET_PARAMS_COMMIT"}) /\ CommitParams

PreviewingParams ==
    /\ In("PREVIEWING")
    /\ \/ On({"SET_PREVIEW_WINDOW"}) /\ INVALID_OPERATION
       \/ On({"SERVICE"}) /\ Nothing
       \/ On({"SET_PARAMS"}) /\ SetParams
       \/ On({"SET_PARAMS_STOP"}) /\ Serve(Ok(stopPreview(dev)), mState, mState)
       \/ On({"SET_PARAMS_COMMIT"}) /\ CommitParams

\* Only a failed start stops the preview: after a failed prepare the state stays.
PreviewingParamsRestart ==
    /\ In("PREVIEWING")
    /\ On({"SET_PARAMS_RESTART"})
    /\ \E p \in preparePreview(ClearRestart(dev)) :
          IF p.ok THEN \E o \in OrElse(startPreview(p.dev), unpreparePreview) :
                           Finish(o, IF o.ok THEN mState ELSE "PREVIEW_STOPPED", Reply(o.ok))
                  ELSE Finish(p, mState, Reply(FALSE))
    /\ Quiet

PreviewingPreview ==
    /\ In("PREVIEWING")
    /\ \/ On({"PREPARE_PREVIEW", "START_PREVIEW", "START_NODISPLAY_PREVIEW"}) /\ Nothing
       \/ On({"STOP_PREVIEW"}) /\ Serve(Ok(stopPreview(dev)), "PREVIEW_STOPPED", mState)

\* Mutant: RECORDING whether the channel started or not.
PreviewingRecording_Always ==
    /\ In("PREVIEWING")
    /\ \/ On({"PRE_START_RECORDING"}) /\ Serve(preStartRecording(dev), mState, mState)
       \/ On({"START_RECORDING"}) /\ Serve(startRecording(dev), "RECORDING", "RECORDING")

PreviewingRecording ==
    /\ In("PREVIEWING")
    /\ \/ On({"PRE_START_RECORDING"}) /\ Serve(preStartRecording(dev), mState, mState)
       \/ On({"START_RECORDING"}) /\ Serve(startRecording(dev), "RECORDING", mState)

\* Mutant: the state is left for the event though none was asked for.
PreviewingPrepareSnapshot_Always ==
    /\ In("PREVIEWING")
    /\ On({"PREPARE_SNAPSHOT"})
    /\ \E o \in prepareHardwareForSnapshot(dev) :
          /\ Finish(o, "PREPARE_SNAPSHOT", IF o.ok THEN <<>> ELSE Reply(FALSE))
          /\ prep' = o.ok
    /\ UNCHANGED <<apiQ, live, notifier, mode>>

\* A call that succeeds is answered later, by the event from the back end.
PreviewingPrepareSnapshot ==
    /\ In("PREVIEWING")
    /\ On({"PREPARE_SNAPSHOT"})
    /\ \E o \in prepareHardwareForSnapshot(dev) :
          /\ Finish(o, IF o.ok THEN "PREPARE_SNAPSHOT" ELSE mState, IF o.ok THEN <<>> ELSE Reply(FALSE))
          /\ prep' = o.ok
    /\ UNCHANGED <<apiQ, live, notifier, mode>>

PreviewingPreTake ==
    /\ In("PREVIEWING") /\ On({"PRE_TAKE_PICTURE"})
    /\ Serve(preTakePicture(dev), mState, mState)

\* The preview of a camcorder first becomes one of a camera, whether that succeeds or not.
CameraPreview(d) ==
    IF d.hint THEN {o.dev : o \in RestartPreview(updateRecordingHintValue(stopPreview(d), FALSE))}
    ELSE {d}

PreviewingTakePicture ==
    /\ In("PREVIEWING")
    /\ On({"TAKE_PICTURE"})
    /\ \E d \in CameraPreview(dev) :
          IF d.zsl \/ d.longshot
          THEN LET noPreview == mode.restart /\ mode.manual
                   t == IF noPreview
                        THEN [updateZSLModeValue(stopPreview(d), FALSE) EXCEPT !.restoreZSL = TRUE]
                        ELSE d
               IN  \E o \in takePicture(t) :
                      Finish(o, CASE ~o.ok -> "PREVIEWING"
                                  [] o.ok /\ noPreview -> "PIC_TAKING"
                                  [] OTHER -> "PREVIEW_PIC_TAKING",
                             IF dev.retro /\ o.ok THEN <<>> ELSE Reply(o.ok))
          ELSE \E o \in takePicture(d) :
                  IF o.ok THEN Finish(o, "PIC_TAKING", Reply(TRUE))
                  ELSE \E r \in RestartPreview(stopPreview(o.dev)) :
                          Finish(r, IF r.ok THEN "PREVIEWING" ELSE "PREVIEW_STOPPED", Reply(FALSE))
    /\ Quiet

\* Long shot in ZSL mode may need more buffers, and the preview is started again.
PreviewingSendCommand ==
    /\ In("PREVIEWING")
    /\ On({"SEND_COMMAND"})
    /\ \/ SendCommand
       \/ /\ cur.arg = "LONGSHOT_ON" /\ dev.zsl /\ dev.ch["zsl"] # "none"
          /\ Serve(Then(sendCommand(dev, cur.arg, FALSE), LAMBDA d : RestartPreview(stopPreview(d))),
                   mState, mState)

\* Mutant: what is not allowed is dropped without an answer.
PreviewingOther_Silent ==
    /\ In("PREVIEWING")
    /\ On({"RELEASE_RECORDING_FRAME", "CANCEL_PICTURE", "STOP_RECORDING", "RELEASE"})
    /\ Unhandled

PreviewingOther ==
    /\ In("PREVIEWING")
    /\ On({"RELEASE_RECORDING_FRAME", "CANCEL_PICTURE", "STOP_RECORDING", "RELEASE"})
    /\ INVALID_OPERATION

PreviewingEvents ==
    /\ In("PREVIEWING")
    /\ \/ On({"SNAPSHOT_DONE"}) /\ SnapshotDone(Ok(dev), mState, <<>>)
       \/ On({"STOP_CAPTURE_CHANNEL", "JPEG_EVT_NOTIFY", "PREP_SNAPSHOT_DONE",
              "READY_FOR_SNAPSHOT", "DAEMON_DIED"}) /\ Unhandled

-----------------------------------------------------------------------------
(* procEvtPrepareSnapshotState                                             *)

PrepareSnapshotRefuses ==
    /\ In("PREPARE_SNAPSHOT")
    /\ On(APIs \ {"STOP_CAPTURE_CHANNEL"})
    /\ INVALID_OPERATION

PrepareSnapshotDone ==
    /\ In("PREPARE_SNAPSHOT")
    /\ On({"PREP_SNAPSHOT_DONE"})
    /\ Finish(Done(dev), "PREVIEWING", <<[evt |-> "PREPARE_SNAPSHOT", ok |-> TRUE]>>)
    /\ Quiet

BothAnswers == <<[evt |-> "PREPARE_SNAPSHOT", ok |-> TRUE], [evt |-> "TAKE_PICTURE", ok |-> TRUE]>>

\* Mutant: the daemon's death wakes nobody.
PrepareSnapshotEvents_Deaf ==
    /\ In("PREPARE_SNAPSHOT")
    /\ \/ On({"SNAPSHOT_DONE"}) /\ SnapshotDone(Ok(dev), mState, <<>>)
       \/ On({"STOP_CAPTURE_CHANNEL", "JPEG_EVT_NOTIFY", "READY_FOR_SNAPSHOT", "DAEMON_DIED"})
             /\ Unhandled

PrepareSnapshotEvents ==
    /\ In("PREPARE_SNAPSHOT")
    /\ \/ On({"DAEMON_DIED"}) /\ Finish(Done(dev), mState, BothAnswers) /\ Quiet
       \/ On({"SNAPSHOT_DONE"}) /\ SnapshotDone(Ok(dev), mState, <<>>)
       \/ On({"STOP_CAPTURE_CHANNEL", "JPEG_EVT_NOTIFY", "READY_FOR_SNAPSHOT"}) /\ Unhandled

-----------------------------------------------------------------------------
(* procEvtPicTakingState                                                   *)

PicTakingParams ==
    /\ In("PIC_TAKING")
    /\ \/ On({"SET_PREVIEW_WINDOW"}) /\ INVALID_OPERATION
       \/ On({"SERVICE", "SET_PARAMS_STOP"}) /\ Nothing
       \/ On({"SET_PARAMS"}) /\ SetParams
       \/ On({"SET_PARAMS_COMMIT"}) /\ CommitParams
       \/ On({"SET_PARAMS_RESTART"}) /\ Serve(Ok(ClearRestart(dev)), mState, mState)

PicTakingStopPreview ==
    /\ In("PIC_TAKING") /\ On({"STOP_PREVIEW"})
    /\ Serve(Ok(cancelPicture(dev)), "PREVIEW_STOPPED", mState)

PicTakingCommand ==
    /\ In("PIC_TAKING")
    /\ \/ On({"SEND_COMMAND"})
             /\ Serve(sendCommand(dev, cur.arg, TRUE),
                      IF cur.arg = "LONGSHOT_OFF" THEN "PREVIEWING" ELSE mState, mState)
       \/ On({"CANCEL_PICTURE"}) /\ Serve(Ok(cancelPicture(dev)), "PREVIEW_STOPPED", mState)

PicTakingPicture ==
    /\ In("PIC_TAKING")
    /\ \/ On({"PRE_TAKE_PICTURE"}) /\ Serve({[Done(dev) EXCEPT !.ok = dev.longshot]}, mState, mState)
       \/ On({"TAKE_PICTURE"})
             /\ Serve(IF dev.longshot THEN longShot(dev) ELSE Error(dev), mState, mState)
       \/ On({"PREPARE_SNAPSHOT", "PRE_START_RECORDING", "START_RECORDING", "STOP_RECORDING",
              "RELEASE_RECORDING_FRAME", "PREPARE_PREVIEW", "START_PREVIEW",
              "START_NODISPLAY_PREVIEW", "RELEASE"}) /\ INVALID_OPERATION

\* The JPEG goes to the notifier's queue.
processJpegNotify ==
    Finish(Done([dev EXCEPT !.jpegCb = cur.arg]), mState, <<>>) /\ Quiet

PicTakingEvents ==
    /\ In("PIC_TAKING")
    /\ \/ On({"DAEMON_DIED"}) /\ Finish(Done(dev), mState, BothAnswers) /\ Quiet
       \/ On({"JPEG_EVT_NOTIFY"}) /\ processJpegNotify
       \/ On({"PREP_SNAPSHOT_DONE", "READY_FOR_SNAPSHOT"}) /\ Unhandled

Preview(d) == Then(preparePreview(d), startPreview)

PicTakingStopCapture ==
    /\ In("PIC_TAKING") /\ On({"STOP_CAPTURE_CHANNEL"})
    /\ Serve(IF mode.restart THEN Then(stopCaptureChannel(dev), Preview) ELSE stopCaptureChannel(dev),
             mState, mState)

PicTakingSnapshotDone ==
    /\ In("PIC_TAKING") /\ On({"SNAPSHOT_DONE"})
    /\ LET c == cancelPicture(dev)
       IN  SnapshotDone(IF mode.restart /\ mode.manual
                        THEN Preview([updateZSLModeValue(c, c.restoreZSL) EXCEPT !.restoreZSL = FALSE])
                        ELSE Ok(c),
                        IF mode.restart THEN "PREVIEWING" ELSE "PREVIEW_STOPPED", <<>>)

-----------------------------------------------------------------------------
(* procEvtRecordingState                                                   *)

\* What cannot be changed while recording is refused after updateParameters() took it.
ParamsWhileRecording ==
    LET d == updateParameters(dev, cur.arg.zsl, cur.arg.hint)
    IN  Serve(IF d.needRestart THEN Error(ClearRestart(d)) ELSE Ok(d), mState, mState)

RecordingParams ==
    /\ In("RECORDING")
    /\ \/ On({"PREPARE_PREVIEW", "START_PREVIEW", "SET_PREVIEW_WINDOW", "SERVICE"}) /\ Nothing
       \/ On({"SET_PARAMS"}) /\ ParamsWhileRecording
       \/ On({"SET_PARAMS_COMMIT"}) /\ CommitParams
       \/ On({"SET_PARAMS_STOP", "SET_PARAMS_RESTART"}) /\ INVALID_OPERATION

\* The picture itself is taken by a thread of its own.
RecordingTakePicture ==
    /\ In("RECORDING") /\ On({"TAKE_PICTURE"})
    /\ \/ LiveThread("taking") /\ Finish(Done(dev), "VIDEO_PIC_TAKING", Reply(TRUE))
       \/ /\ live = "none" /\ UNCHANGED live
          /\ \E o \in Fail(dev) : Finish(o, "RECORDING", Reply(FALSE))
    /\ UNCHANGED <<apiQ, notifier, prep, mode>>

RecordingStop ==
    /\ In("RECORDING")
    /\ \/ On({"STOP_RECORDING"}) /\ Serve(stopRecording(dev), "PREVIEWING", "PREVIEWING")
       \/ On({"STOP_PREVIEW"})
             /\ Serve(Ok(stopPreview(stopChannel(dev, "video"))), "PREVIEW_STOPPED", mState)

RecordingOther ==
    /\ In("RECORDING")
    /\ \/ On({"SEND_COMMAND"}) /\ SendCommand
       \/ On({"PRE_TAKE_PICTURE", "PRE_START_RECORDING", "START_RECORDING",
              "RELEASE_RECORDING_FRAME", "PREPARE_SNAPSHOT"}) /\ Nothing
       \/ On({"CANCEL_PICTURE", "START_NODISPLAY_PREVIEW", "RELEASE"}) /\ INVALID_OPERATION

RecordingEvents ==
    /\ In("RECORDING")
    /\ \/ On({"SNAPSHOT_DONE"}) /\ SnapshotDone(Ok(dev), mState, <<>>)
       \/ On({"STOP_CAPTURE_CHANNEL", "JPEG_EVT_NOTIFY", "PREP_SNAPSHOT_DONE",
              "READY_FOR_SNAPSHOT", "DAEMON_DIED"}) /\ Unhandled

-----------------------------------------------------------------------------
(* procEvtVideoPicTakingState                                              *)

VideoPicParams ==
    /\ In("VIDEO_PIC_TAKING")
    /\ \/ On({"SET_PREVIEW_WINDOW", "SET_PARAMS_STOP", "SET_PARAMS_RESTART"}) /\ INVALID_OPERATION
       \/ On({"SERVICE"}) /\ Nothing
       \/ On({"SET_PARAMS"}) /\ ParamsWhileRecording
       \/ On({"SET_PARAMS_COMMIT"}) /\ CommitParams

\* Mutant: the cancelled live snapshot is not stopped.
VideoPicStop_NoThread ==
    /\ In("VIDEO_PIC_TAKING")
    /\ \/ On({"STOP_RECORDING"}) /\ ServeLive(stopRecording(dev), "PREVIEWING", "PREVIEWING")
       \/ On({"CANCEL_PICTURE"}) /\ Serve(Ok(dev), "RECORDING", mState)
       \/ On({"STOP_PREVIEW"})
             /\ ServeLive(Ok(stopPreview(stopChannel(dev, "video"))), "PREVIEW_STOPPED", mState)

VideoPicStop ==
    /\ In("VIDEO_PIC_TAKING")
    /\ \/ On({"STOP_RECORDING"}) /\ ServeLive(stopRecording(dev), "PREVIEWING", "PREVIEWING")
       \/ On({"CANCEL_PICTURE"}) /\ ServeLive(Ok(dev), "RECORDING", mState)
       \/ On({"STOP_PREVIEW"})
             /\ ServeLive(Ok(stopPreview(stopChannel(dev, "video"))), "PREVIEW_STOPPED", mState)

VideoPicOther ==
    /\ In("VIDEO_PIC_TAKING")
    /\ \/ On({"SEND_COMMAND"}) /\ Serve(sendCommand(dev, cur.arg, TRUE), mState, mState)
       \/ On({"RELEASE_RECORDING_FRAME"}) /\ Nothing
       \/ On({"PRE_START_RECORDING", "START_RECORDING", "PREPARE_PREVIEW", "START_PREVIEW",
              "START_NODISPLAY_PREVIEW", "PREPARE_SNAPSHOT", "PRE_TAKE_PICTURE", "TAKE_PICTURE",
              "RELEASE"}) /\ INVALID_OPERATION

VideoPicEvents ==
    /\ In("VIDEO_PIC_TAKING")
    /\ \/ On({"JPEG_EVT_NOTIFY"}) /\ processJpegNotify
       \/ On({"STOP_CAPTURE_CHANNEL", "PREP_SNAPSHOT_DONE", "READY_FOR_SNAPSHOT", "DAEMON_DIED"})
             /\ Unhandled

VideoPicSnapshotDone ==
    /\ In("VIDEO_PIC_TAKING") /\ On({"SNAPSHOT_DONE"})
    /\ LiveThread("cancelling")
    /\ Finish(Done(dev), "RECORDING", <<>>)
    /\ notifier' = 0
    /\ UNCHANGED <<apiQ, prep, mode>>

-----------------------------------------------------------------------------
(* procEvtPreviewPicTakingState                                            *)

PreviewPicParams ==
    /\ In("PREVIEW_PIC_TAKING")
    /\ \/ On({"SERVICE"}) /\ Nothing
       \/ On({"SET_PARAMS"}) /\ SetParams
       \/ On({"SET_PARAMS_STOP"}) /\ Serve(Ok(stopPreview(dev)), mState, mState)
       \/ On({"SET_PARAMS_COMMIT"}) /\ CommitParams
       \/ On({"SET_PARAMS_RESTART"}) /\ Serve(RestartPreview(ClearRestart(dev)), mState, "PIC_TAKING")

Picture(d) == d.zsl \/ d.longshot

PreviewPicCommand ==
    /\ In("PREVIEW_PIC_TAKING")
    /\ \/ On({"SEND_COMMAND"})
             /\ Serve(sendCommand(dev, cur.arg, TRUE),
                      IF cur.arg = "LONGSHOT_OFF" THEN "PREVIEWING" ELSE mState, mState)
       \/ On({"RELEASE_RECORDING_FRAME"}) /\ Nothing
       \/ On({"CANCEL_PICTURE"}) /\ Picture(dev)
             /\ Serve(Ok(cancelPicture(dev)), "PREVIEWING", mState)
       \/ On({"CANCEL_PICTURE"}) /\ ~Picture(dev) /\ ServeLive(Ok(dev), "PREVIEWING", mState)

PreviewPicStopPreview ==
    /\ In("PREVIEW_PIC_TAKING") /\ On({"STOP_PREVIEW"})
    /\ IF Picture(dev)
       THEN Serve(Ok(unpreparePreview(cancelPicture(dev))), "PREVIEW_STOPPED", mState)
       ELSE ServeLive(Ok(unpreparePreview(dev)), "PREVIEW_STOPPED", mState)

PreviewPicRecording ==
    /\ In("PREVIEW_PIC_TAKING")
    /\ \/ On({"PRE_START_RECORDING"})
             /\ Serve(IF Picture(dev) THEN Error(dev) ELSE preStartRecording(dev), mState, mState)
       \/ On({"START_RECORDING"})
             /\ Serve(IF Picture(dev) THEN Error(dev) ELSE startRecording(dev),
                      "VIDEO_PIC_TAKING", mState)

PreviewPicPicture ==
    /\ In("PREVIEW_PIC_TAKING")
    /\ \/ On({"PRE_TAKE_PICTURE"}) /\ Serve({[Done(dev) EXCEPT !.ok = dev.longshot]}, mState, mState)
       \/ On({"TAKE_PICTURE"})
             /\ Serve(IF dev.longshot THEN longShot(dev) ELSE Error(dev), mState, mState)

\* In retro mode the answer waits for the event.
PreviewPicPrepareSnapshot ==
    /\ In("PREVIEW_PIC_TAKING") /\ On({"PREPARE_SNAPSHOT"})
    /\ IF dev.retro
       THEN \E o \in prepareHardwareForSnapshot(dev) :
               Finish(o, mState, IF o.ok THEN <<>> ELSE Reply(FALSE)) /\ prep' = (prep \/ o.ok)
       ELSE Finish(Done(dev), mState, Reply(FALSE)) /\ UNCHANGED prep
    /\ UNCHANGED <<apiQ, live, notifier, mode>>

PreviewPicRefuses ==
    /\ In("PREVIEW_PIC_TAKING")
    /\ On({"STOP_RECORDING", "PREPARE_PREVIEW", "START_PREVIEW", "START_NODISPLAY_PREVIEW",
           "SET_PREVIEW_WINDOW", "RELEASE"})
    /\ INVALID_OPERATION

RetroAnswer(api) == IF dev.retro THEN <<[evt |-> api, ok |-> TRUE]>> ELSE <<>>

PreviewPicReady ==
    /\ In("PREVIEW_PIC_TAKING")
    /\ \/ On({"PREP_SNAPSHOT_DONE"})
             /\ Finish(Done(dev), mState, RetroAnswer("PREPARE_SNAPSHOT")) /\ Quiet
       \/ On({"READY_FOR_SNAPSHOT"})
             /\ Finish(Done(dev), mState, RetroAnswer("TAKE_PICTURE")) /\ Quiet

PreviewPicEvents ==
    /\ In("PREVIEW_PIC_TAKING")
    /\ \/ On({"DAEMON_DIED"}) /\ Finish(Done(dev), mState, BothAnswers) /\ Quiet
       \/ On({"JPEG_EVT_NOTIFY"}) /\ processJpegNotify
       \/ On({"STOP_CAPTURE_CHANNEL"}) /\ Unhandled

PreviewPicSnapshotDone ==
    /\ In("PREVIEW_PIC_TAKING") /\ On({"SNAPSHOT_DONE"})
    /\ Finish(Done(IF Picture(dev) THEN cancelPicture(dev) ELSE dev), "PREVIEWING",
              RetroAnswer("SNAPSHOT_DONE"))
    /\ IF Picture(dev) THEN UNCHANGED live ELSE LiveThread("cancelling")
    /\ notifier' = 0
    /\ UNCHANGED <<apiQ, prep, mode>>

-----------------------------------------------------------------------------
stateMachine ==
    \/ StoppedParams \/ StoppedPreview \/ StoppedOther \/ StoppedEvents
    \/ ReadyWindow \/ ReadyParams \/ ReadyPreview \/ ReadyOther \/ ReadyEvents
    \/ PreviewingParams \/ PreviewingParamsRestart \/ PreviewingPreview \/ PreviewingRecording
    \/ PreviewingPrepareSnapshot \/ PreviewingPreTake \/ PreviewingTakePicture
    \/ PreviewingSendCommand \/ PreviewingOther \/ PreviewingEvents
    \/ PrepareSnapshotRefuses \/ PrepareSnapshotDone \/ PrepareSnapshotEvents
    \/ PicTakingParams \/ PicTakingStopPreview \/ PicTakingCommand \/ PicTakingPicture
    \/ PicTakingEvents \/ PicTakingStopCapture \/ PicTakingSnapshotDone
    \/ RecordingParams \/ RecordingTakePicture \/ RecordingStop \/ RecordingOther
    \/ RecordingEvents
    \/ VideoPicParams \/ VideoPicStop \/ VideoPicOther \/ VideoPicEvents \/ VideoPicSnapshotDone
    \/ PreviewPicParams \/ PreviewPicCommand \/ PreviewPicStopPreview \/ PreviewPicRecording
    \/ PreviewPicPicture \/ PreviewPicPrepareSnapshot \/ PreviewPicRefuses \/ PreviewPicReady
    \/ PreviewPicEvents \/ PreviewPicSnapshotDone
=============================================================================
