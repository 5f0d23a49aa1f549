------------------------------- MODULE HalApi -------------------------------
(***************************************************************************)
(* The entry points of QCamera2HardwareInterface over the state machine:   *)
(* the camera service's thread, which posts an API call under m_lock and   *)
(* waits for its answer in m_apiResultList, the thread of a live snapshot, *)
(* the notifier, which reports that all JPEGs were delivered, and what the *)
(* post processor and the back end post of their own accord.               *)
(*                                                                         *)
(* The service makes one call at a time, in any order.  Three posters do   *)
(* not wait for their answers: the failed live snapshot, the post          *)
(* processor and the events.  SNAPSHOT_DONE and JPEG events carry, as a    *)
(* ghost, the picture they are about.                                      *)
(***************************************************************************)
EXTENDS HalStateMachine, SequencesExt

\* What SET_PARAMS asks for: the ZSL mode and the recording hint.
Params == [zsl : BOOLEAN, hint : BOOLEAN]

(***************************************************************************)
(* Modes: what differs from one use of the camera to another: whether the  *)
(* preview is restarted after a picture and manual capture is on, retro    *)
(* picture, preview without a display, whether the application uses long   *)
(* shot, the parameter settings it asks for, and how many faults and       *)
(* pictures there may be.                                                  *)
(***************************************************************************)
CONSTANT Modes

ASSUME HalApiAssumption ==
    Modes \subseteq [restart : BOOLEAN, manual : BOOLEAN, retro : BOOLEAN, nodisplay : BOOLEAN,
                     longshot : BOOLEAN, settings : SUBSET Params,
                     faults : 0 .. MaxFaults, pictures : 1 .. MaxCapture]

Opened(m) ==
    [ch |-> [c \in Channels |-> "none"],
     zsl |-> FALSE, zslNew |-> FALSE, zslKey |-> FALSE,
     hint |-> FALSE, hintNew |-> FALSE, hintKey |-> FALSE, tmpHint |-> {},
     needRestart |-> FALSE, window |-> FALSE, longshot |-> FALSE, retro |-> FALSE,
     restoreZSL |-> FALSE, capture |-> 0, jpegCb |-> 0, stage |-> "none", source |-> "capture",
     dead |-> FALSE, shots |-> 0, faults |-> m.faults]

Init ==
    /\ mState = "PREVIEW_STOPPED"
    /\ cur = Idle
    /\ apiQ = <<>> /\ evtQ = <<>> /\ results = <<>>
    /\ app = [wait |-> "none", woken |-> FALSE, pictures |-> 0]
    /\ live = "none"
    /\ notifier = 0
    /\ prep = FALSE
    /\ mode \in Modes
    /\ dev = Opened(mode)

-----------------------------------------------------------------------------
(* The camera service's thread.                                            *)

NoCall == app.wait = "none"

processAPI(e, a) ==
    /\ apiQ' = Append(apiQ, Cmd(e, a))
    /\ app' = [app EXCEPT !.wait = e, !.woken = FALSE]

Machine == <<mState, cur, evtQ, live, notifier, prep, mode>>

SimpleCalls ==
    {Cmd("SERVICE", 0), Cmd("PREPARE_PREVIEW", 0), Cmd("STOP_PREVIEW", 0), Cmd("STOP_RECORDING", 0),
     Cmd("PRE_START_RECORDING", 0), Cmd("RELEASE_RECORDING_FRAME", 0), Cmd("CANCEL_PICTURE", 0),
     Cmd("RELEASE", 0)}
    \cup {Cmd("SET_PREVIEW_WINDOW", w) : w \in BOOLEAN}
    \cup {Cmd("SET_PARAMS", p) : p \in mode.settings}
    \cup {Cmd("SEND_COMMAND", c) : c \in IF mode.longshot THEN {"LONGSHOT_ON", "LONGSHOT_OFF"} ELSE {}}

Call ==
    /\ NoCall
    /\ \E c \in SimpleCalls : processAPI(c.evt, c.arg)
    /\ UNCHANGED <<Machine, dev, results>>

start_preview ==
    /\ NoCall
    /\ processAPI(IF mode.nodisplay THEN "START_NODISPLAY_PREVIEW" ELSE "START_PREVIEW", 0)
    /\ UNCHANGED <<Machine, dev, results>>

isRecording == mState \in {"RECORDING", "VIDEO_PIC_TAKING"}

\* With a flash the hardware is prepared first; in retro mode the pictures are older.
take_picture ==
    /\ NoCall /\ app.pictures < mode.pictures                \* bound
    /\ LET retro == mode.retro /\ ~isRecording /\ dev.zsl /\ ~dev.longshot
       IN  /\ dev' = [dev EXCEPT !.retro = retro]
           /\ \E e \in {"PRE_TAKE_PICTURE"} \cup IF retro THEN {} ELSE {"PREPARE_SNAPSHOT"} :
                 /\ apiQ' = Append(apiQ, Cmd(e, 0))
                 /\ app' = [wait |-> e, woken |-> FALSE, pictures |-> app.pictures + 1]
    /\ UNCHANGED <<Machine, results>>

\* What a call posts next, after an answer; "none" when it returns.
After(e, ok) ==
    CASE e = "SET_PARAMS" /\ ok ->
            {IF dev.needRestart THEN "SET_PARAMS_STOP" ELSE "SET_PARAMS_COMMIT"}
      [] e = "SET_PARAMS_STOP" /\ ok -> {"SET_PARAMS_COMMIT"}
      [] e = "SET_PARAMS_COMMIT" /\ ok -> {IF dev.needRestart THEN "SET_PARAMS_RESTART" ELSE "none"}
      [] e = "PRE_START_RECORDING" /\ ok -> {"START_RECORDING"}
      [] e = "PREPARE_SNAPSHOT" -> {IF dev.retro THEN "none" ELSE "PRE_TAKE_PICTURE"}
      [] e = "PRE_TAKE_PICTURE" /\ ok -> {"TAKE_PICTURE"}
      [] e = "TAKE_PICTURE" /\ dev.retro -> {"PREPARE_SNAPSHOT", "none"}
      [] OTHER -> {"none"}

\* The first answer with the name of the call is taken, whoever it was meant for.
waitAPIResult ==
    /\ ~NoCall /\ app.woken
    /\ \E i \in DOMAIN results :
          /\ results[i].evt = app.wait
          /\ \A j \in 1 .. i - 1 : results[j].evt # app.wait
          /\ results' = RemoveAt(results, i)
          /\ \E e \in After(app.wait, results[i].ok) :
                IF e = "none" THEN app' = [app EXCEPT !.wait = "none", !.woken = FALSE] /\ UNCHANGED apiQ
                              ELSE processAPI(e, 0)
    /\ UNCHANGED <<Machine, dev>>

-----------------------------------------------------------------------------
(* The live snapshot's thread.                                             *)

takeLiveSnapshot_internal ==
    /\ live = "taking" /\ dev.ch["snapshot"] # "none" 
    /\ live' = "none"
    /\ dev' = NewCapture([dev EXCEPT !.ch["snapshot"] = "on"], "snapshot")
    /\ UNCHANGED <<mState, cur, apiQ, evtQ, results, app, notifier, prep, mode>>

\* Nobody waits for the answer.
takeLiveSnapshotFails ==
    /\ live = "taking"
    /\ live' = "none"
    /\ \E o \in IF dev.ch["snapshot"] = "none" THEN Error(dev) ELSE Fail(dev) : dev' = o.dev
    /\ apiQ' = Append(apiQ, Cmd("CANCEL_PICTURE", 0))
    /\ UNCHANGED <<mState, cur, evtQ, results, app, notifier, prep, mode>>

\* Without the rotation of a channel the thread ends and tells nobody.
takeLiveSnapshotGivesUp ==
    /\ live = "taking" /\ dev.ch["snapshot"] # "none"
    /\ live' = "none"
    /\ \E o \in Fail(dev) : dev' = stopPostProcessor(o.dev)
    /\ UNCHANGED <<mState, cur, apiQ, evtQ, results, app, notifier, prep, mode>>

cancelLiveSnapshot_internal ==
    /\ live = "cancelling"
    /\ live' = "none"
    /\ dev' = stopChannel(stopPostProcessor(dev), "snapshot")
    /\ UNCHANGED <<mState, cur, apiQ, evtQ, results, app, notifier, prep, mode>>

-----------------------------------------------------------------------------
(* The post processor, the notifier and the back end.                      *)

isRegularCapture == ~dev.longshot /\ ~dev.hint /\ ~dev.zsl

\* A frame comes and goes to the encoder; a regular capture needs no other.
processData ==
    /\ dev.stage = "exposing" /\ dev.ch[dev.source] = "on"
    /\ dev' = [dev EXCEPT !.stage = "encoding"]
    /\ evtQ' = IF dev.retro /\ dev.source = "zsl" THEN Append(evtQ, Cmd("READY_FOR_SNAPSHOT", 0)) ELSE evtQ
    /\ apiQ' = IF isRegularCapture THEN Append(apiQ, Cmd("STOP_CAPTURE_CHANNEL", 0)) ELSE apiQ
    /\ UNCHANGED <<mState, cur, results, app, live, notifier, prep, mode>>

Encoded ==
    /\ dev.stage = "encoding"
    /\ dev' = [dev EXCEPT !.stage = "encoded"]
    /\ evtQ' = Append(evtQ, Cmd("JPEG_EVT_NOTIFY", dev.capture))
    /\ UNCHANGED <<mState, cur, apiQ, results, app, live, notifier, prep, mode>>

\* The last JPEG is with the application: processSyncEvt(SNAPSHOT_DONE).
cbNotifyRoutine ==
    /\ notifier = 0 /\ dev.jpegCb # 0
    /\ dev' = [dev EXCEPT !.jpegCb = 0]
    /\ IF dev.longshot THEN UNCHANGED <<evtQ, notifier>>
       ELSE /\ evtQ' = Append(evtQ, Cmd("SNAPSHOT_DONE", dev.jpegCb))
            /\ notifier' = dev.jpegCb
    /\ UNCHANGED <<mState, cur, apiQ, results, app, live, prep, mode>>

PrepSnapshotDone ==
    /\ prep /\ ~dev.dead
    /\ prep' = FALSE
    /\ evtQ' = Append(evtQ, Cmd("PREP_SNAPSHOT_DONE", 0))
    /\ UNCHANGED <<mState, dev, cur, apiQ, results, app, live, notifier, mode>>

DaemonDies ==
    /\ ~dev.dead /\ dev.faults > 0
    /\ dev' = [dev EXCEPT !.dead = TRUE, !.faults = @ - 1]
    /\ evtQ' = Append(evtQ, Cmd("DAEMON_DIED", 0))
    /\ UNCHANGED <<mState, cur, apiQ, results, app, live, notifier, prep, mode>>

Service == Call \/ start_preview \/ take_picture

Response ==
    \/ waitAPIResult
    \/ takeLiveSnapshot_internal \/ takeLiveSnapshotFails \/ takeLiveSnapshotGivesUp
    \/ cancelLiveSnapshot_internal
    \/ processData \/ Encoded \/ cbNotifyRoutine \/ PrepSnapshotDone \/ DaemonDies

Next == smEvtProcRoutine \/ stateMachine \/ Service \/ Response

\* Every thread goes on; nobody has to call, and no frame has to come.
Fairness ==
    /\ WF_vars(smEvtProcRoutine) /\ WF_vars(stateMachine) /\ WF_vars(waitAPIResult)
    /\ WF_vars(takeLiveSnapshot_internal \/ takeLiveSnapshotFails) /\ WF_vars(cancelLiveSnapshot_internal)
    /\ WF_vars(Encoded) /\ WF_vars(cbNotifyRoutine) /\ WF_vars(PrepSnapshotDone)

Spec == Init /\ [][Next]_vars /\ Fairness

-----------------------------------------------------------------------------
(* Properties *)

\* Types; an answer is never given to an event.
TypeOK ==
    /\ mState \in States
    /\ dev \in Device
    /\ cur = Idle \/ cur.evt \in APIs \cup Events
    /\ \A i \in DOMAIN apiQ : apiQ[i].evt \in APIs
    /\ \A i \in DOMAIN evtQ : evtQ[i].evt \in Events
    /\ \A i \in DOMAIN results : results[i].evt \in APIs \cup {"SNAPSHOT_DONE"}
    /\ app.wait \in APIs \cup {"none"}
    /\ live \in {"none", "taking", "cancelling"}
    /\ notifier \in 0 .. MaxCapture

\* How often call e is on its way to the handlers or its answer on the way back.
UnderWay(e) ==
    Cardinality({i \in DOMAIN apiQ : apiQ[i].evt = e}) +
    Cardinality({i \in DOMAIN results : results[i].evt = e}) +
    (IF cur.evt = e THEN 1 ELSE 0)

\* CANCEL_PICTURE and STOP_CAPTURE_CHANNEL are also posted by threads that wait for no
\* answer, PREPARE_SNAPSHOT and TAKE_PICTURE may be answered by a later event.
Shared == {"CANCEL_PICTURE", "STOP_CAPTURE_CHANNEL"}
Deferred == {"PREPARE_SNAPSHOT", "TAKE_PICTURE"}

\* m_apiResultList is searched by the name of the call only, so an answer too many
\* would be taken for that of a later call and one too few blocks the service.  In
\* every state every call is answered once, and no answer outlives its caller; once
\* the daemon died, answers are given out that nobody may wait for.
OneAnswerPerCall ==
    \A e \in APIs \ Shared :
        /\ app.wait = e /\ e \notin Deferred => UnderWay(e) = 1
        /\ app.wait = e /\ ~dev.dead => UnderWay(e) <= 1
        /\ app.wait # e /\ ~dev.dead => UnderWay(e) = 0

\* A call that was put off is in nobody's queue: in PREPARE_SNAPSHOT the event that
\* answers it is still to come, or on its way, or the daemon died.
PutOffIsRemembered ==
    mState = "PREPARE_SNAPSHOT" =>
        \/ prep \/ dev.dead \/ cur.evt = "PREP_SNAPSHOT_DONE"
        \/ \E i \in DOMAIN evtQ : evtQ[i].evt = "PREP_SNAPSHOT_DONE"

\* The video channel runs in the two states that say so, and in no other, whichever
\* start or stop fails on the way.
VideoWhileRecording ==
    dev.ch["video"] = "on" <=> mState \in {"RECORDING", "VIDEO_PIC_TAKING"}

\* A live snapshot that was cancelled, done or overtaken by the end of the recording
\* leaves no running channel behind: a thread that will stop it is under way.
SnapshotChannelOwned ==
    dev.ch["snapshot"] = "on" => mState = "VIDEO_PIC_TAKING" \/ live # "none"

\* A capture channel does not outlive its picture, whichever path ends it.  Where ZSL is
\* switched during a picture, or long shot is turned off, it can.
CaptureOnlyInPicTaking ==
    (\A p \in mode.settings : ~p.zsl) /\ ~mode.longshot =>
        (dev.ch["capture"] = "on" => mState = "PIC_TAKING")

\* The two channels that show a preview exclude each other: whoever changes the mode
\* takes the old one away first.  (A manual capture restores ZSL after it.)
OnePreview == ~mode.manual => ~(dev.ch["zsl"] # "none" /\ dev.ch["preview"] # "none")

SettingParams ==
    app.wait \in {"SET_PARAMS", "SET_PARAMS_STOP", "SET_PARAMS_COMMIT", "SET_PARAMS_RESTART"}

\* Between two changes of the parameters the preview that runs is the one they ask for,
\* as long as nothing failed; a recording may put a change off, and picks it up
\* when the preview begins anew.
PreviewFitsParameters ==
    /\ mState = "PREVIEWING" /\ ~SettingParams
    /\ dev.faults = mode.faults /\ ~(mode.restart \/ mode.manual \/ mode.longshot)
    => dev.ch[PreviewChannel(dev)] = "on"

\* SNAPSHOT_DONE is the "internal evt that snapshot is done": it ends the picture it is
\* about, and not one that was begun while it, or the JPEG before it, was in the queue.
SnapshotDoneEndsItsPicture ==
    [][PicTakingSnapshotDone => cur.arg = dev.capture]_vars

\* Whoever calls the camera gets an answer, whatever fails and though the daemon dies;
\* not so with retro pictures, whose answers wait for events of one state.
EveryCallReturns == ~mode.retro => (app.wait # "none" ~> app.wait = "none")

\* A call is in exactly one place from the moment it is made until it is answered,
\* also one that was put off.
CallsAccounted == OneAnswerPerCall /\ PutOffIsRemembered

\* The channels that run are those the state calls for, whichever call, failure,
\* event or thread came before.
ChannelsFitState ==
    /\ TypeOK /\ VideoWhileRecording /\ SnapshotChannelOwned /\ CaptureOnlyInPicTaking
    /\ OnePreview /\ PreviewFitsParameters

=============================================================================
