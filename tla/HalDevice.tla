----------------------------- MODULE HalDevice -----------------------------
(***************************************************************************)
(* The services of QCamera2HardwareInterface the HAL1 state machine calls: *)
(* they create, start, stop and delete the channels of one camera and      *)
(* commit its parameters.  A service is an operator from the state of the  *)
(* device to the set of its outcomes.  An outcome says whether the service *)
(* succeeded (rc == NO_ERROR), the device it leaves behind, and the events *)
(* it queued to the state machine on the way.                              *)
(*                                                                         *)
(* Left out: the callback, raw, metadata and analysis channels, the post   *)
(* processor and JPEG jobs (only the capture they work on is kept), RAW    *)
(* pictures, TNR, low power mode and the second camera of a dual setup.    *)
(***************************************************************************)
EXTENDS Integers, FiniteSets, Sequences

CONSTANTS
    MaxFaults,    \* how many calls into the channels may fail
    MaxCapture    \* how many pictures are taken in one behaviour

ASSUME HalDeviceAssumption == MaxFaults \in Nat /\ MaxCapture \in Nat \ {0}

Channels == {"zsl", "preview", "video", "snapshot", "capture"}

(***************************************************************************)
(* ch: m_channels, absent, created or started.  zsl, hint: the committed   *)
(* m_bZslMode and m_bRecordingHint; zslNew, hintNew: the values the next   *)
(* commit makes current.  zslKey and hintKey: the strings of the parameter *)
(* map, tmpHint: the recording hint waiting in m_tempMap.  capture: the    *)
(* picture the post processor works on, 0 for none, and how far it is;     *)
(* shots: how many there were.  jpegCb: the picture whose JPEG callback *)
(* waits with the notifier, 0 for none; source: the channel it comes from. *)
(* dead: the camera daemon died.                                           *)
(***************************************************************************)
Device ==
    [ch : [Channels -> {"none", "idle", "on"}],
     zsl : BOOLEAN, zslNew : BOOLEAN, zslKey : BOOLEAN,
     hint : BOOLEAN, hintNew : BOOLEAN, hintKey : BOOLEAN, tmpHint : SUBSET BOOLEAN,
     needRestart : BOOLEAN, window : BOOLEAN, longshot : BOOLEAN, retro : BOOLEAN,
     restoreZSL : BOOLEAN, capture : 0 .. MaxCapture, jpegCb : 0 .. MaxCapture,
     stage : {"none", "exposing", "encoding", "encoded"}, source : Channels,
     dead : BOOLEAN,
     shots : 0 .. MaxCapture, faults : 0 .. MaxFaults]

Ok(d)   == {[ok |-> TRUE, dev |-> d, post |-> <<>>]}
Fail(d) == IF d.faults = 0 THEN {}
           ELSE {[ok |-> FALSE, dev |-> [d EXCEPT !.faults = @ - 1], post |-> <<>>]}
Error(d) == {[ok |-> FALSE, dev |-> d, post |-> <<>>]}

\* F after a success, with the events of both.
Then(outs, F(_)) ==
    {o \in outs : ~o.ok} \cup
    UNION {{[p EXCEPT !.post = o.post \o @] : p \in F(o.dev)} : o \in {q \in outs : q.ok}}

\* Undo after a failure.
OrElse(outs, Undo(_)) ==
    {IF o.ok THEN o ELSE [o EXCEPT !.dev = Undo(@)] : o \in outs}

-----------------------------------------------------------------------------
addChannel(d, c) ==
    LET gone == [d EXCEPT !.ch[c] = "none"]
    IN  Ok([d EXCEPT !.ch[c] = "idle"]) \cup Fail(gone)

delChannel(d, c) == [d EXCEPT !.ch[c] = "none"]

startChannel(d, c) ==
    CASE d.ch[c] = "none" -> Error(d)
      [] d.ch[c] = "on"   -> Ok(d)
      [] d.ch[c] = "idle" -> Ok([d EXCEPT !.ch[c] = "on"]) \cup Fail(d)

stopChannel(d, c) == [d EXCEPT !.ch[c] = IF @ = "none" THEN "none" ELSE "idle"]

PreviewChannel(d) == IF d.zsl /\ ~d.hint THEN "zsl" ELSE "preview"

\* The channels of a camcorder preview; the first failure takes back the others.
AddVideoChannels(d) ==
    Then(addChannel(d, "snapshot"), LAMBDA s :
         OrElse(addChannel(s, "video"), LAMBDA v : delChannel(v, "snapshot")))

preparePreview(d) ==
    Fail(d) \cup
    IF PreviewChannel(d) = "zsl" THEN addChannel(d, "zsl")
    ELSE IF ~d.hint THEN addChannel(d, "preview")
    ELSE Then(AddVideoChannels([d EXCEPT !.longshot = FALSE]), LAMBDA v :
              OrElse(addChannel(v, "preview"), LAMBDA p :
                     delChannel(delChannel(p, "snapshot"), "video")))

\* The post processor may not start after the channel did: the channel stays on.
startPreview(d) ==
    Then(startChannel(d, PreviewChannel(d)), LAMBDA s : Ok(s) \cup Fail(s))

unpreparePreview(d) ==
    [d EXCEPT !.ch = [c \in Channels |-> IF c = "capture" THEN @[c] ELSE "none"]]

stopPreview(d) == unpreparePreview(stopChannel(stopChannel(d, "zsl"), "preview"))

\* What most callers do: prepare, start, and take the channels back when the start failed.
RestartPreview(d) ==
    Then(preparePreview(d), LAMBDA p : OrElse(startPreview(p), unpreparePreview))

-----------------------------------------------------------------------------
(* Parameters.  Every batch sent to the server commits all that was set.   *)

commitSetBatch(d) ==
    [d EXCEPT !.zsl = d.zslNew, !.hint = d.hintNew, !.tmpHint = {},
              !.hintKey = IF d.tmpHint = {} THEN @ ELSE CHOOSE v \in d.tmpHint : TRUE]

updateRecordingHintValue(d, v) ==
    commitSetBatch([d EXCEPT !.tmpHint = {}, !.hintNew = v])

updateZSLModeValue(d, v) == commitSetBatch([d EXCEPT !.tmpHint = {}, !.zslNew = v])

\* The ZSL key is written at once, the hint's key with the commit; a key that does
\* not differ from the one stored changes nothing.
\* Mutant: a new recording hint does not ask for a restart.
updateParameters_NoRestart(d, zsl, hint) ==
    [d EXCEPT !.zslKey = zsl, !.zslNew = zsl, !.hintNew = hint, !.tmpHint = {hint},
              !.needRestart = zsl # d.zslKey]

updateParameters(d, zsl, hint) ==
    LET zslSet == zsl # d.zslKey
        hintSet == hint # d.hintKey
    IN  [d EXCEPT !.zslKey = zsl,
                  !.zslNew = IF zslSet THEN zsl ELSE @,
                  !.hintNew = IF hintSet THEN hint ELSE @,
                  !.tmpHint = IF hintSet THEN {hint} ELSE {},
                  !.needRestart = zslSet \/ (hintSet /\ hint # d.hint)]

commitParameterChanges(d) == Ok(commitSetBatch(d)) \cup Fail(d)

-----------------------------------------------------------------------------
preStartRecording(d) ==
    IF d.hint THEN Ok(d)
    ELSE Then(preparePreview(updateRecordingHintValue(stopPreview(d), TRUE)), startPreview)

startRecording(d) == startChannel(d, "video")

stopRecording(d) ==
    LET s == stopChannel(d, "video")
    IN  IF d.ch["video"] = "none" THEN Error(s) ELSE Ok(s)

prepareHardwareForSnapshot(d) == IF d.dead THEN Error(d) ELSE Ok(d) \cup Fail(d)

preTakePicture(d) ==
    IF ~d.hint THEN Ok(d)
    ELSE RestartPreview(updateRecordingHintValue(stopPreview(d), FALSE))

NewCapture(d, c) ==
    [d EXCEPT !.shots = @ + 1, !.capture = d.shots + 1, !.stage = "exposing", !.source = c]

\* QCameraPostProcessor::stop(): jobs are aborted, callbacks not yet delivered dropped.
stopPostProcessor(d) == [d EXCEPT !.capture = 0, !.stage = "none", !.jpegCb = 0]

longShot(d) ==
    LET c == IF d.zsl THEN "zsl" ELSE "capture"
    IN  IF d.ch[c] = "none" THEN Error(d) ELSE Ok(d) \cup Fail(d)

StartCapture(d) ==
    Then(addChannel(stopPreview(d), "capture"), LAMBDA a :
         OrElse(startChannel(a, "capture"), LAMBDA s : delChannel(s, "capture")))

takePicture(d) ==
    IF d.zsl
    THEN IF d.ch["zsl"] = "none" THEN Error(d) ELSE Ok(NewCapture(d, "zsl")) \cup Fail(d)
    ELSE Then(StartCapture(d), LAMBDA s :
              IF s.longshot
              THEN OrElse(Then(longShot(s), LAMBDA l : Ok(NewCapture(l, "capture"))),
                          LAMBDA l : delChannel(l, "capture"))
              ELSE Ok(NewCapture(s, "capture")))

\* Mutant: the capture channel is left to whoever comes next.
cancelPicture_NoChannel(d) == stopPostProcessor(d)

cancelPicture(d) ==
    LET c == stopPostProcessor(d)
    IN  IF d.zsl THEN c ELSE delChannel(stopChannel(c, "capture"), "capture")

\* With destroy the channel is given back to the camera and its context kept.
stopCaptureChannel(d) ==
    LET s == stopChannel(d, "capture")
    IN  IF d.ch["capture"] = "none" THEN Error(s) ELSE Ok(s)

\* capturing: isCaptureRunning() of the state machine, previewing: isPreviewRunning().
sendCommand(d, cmd, capturing) ==
    IF cmd = "LONGSHOT_ON"
    THEN IF capturing THEN Error(d) ELSE Ok([d EXCEPT !.longshot = TRUE])
    ELSE LET cancel == d.longshot /\ capturing
             c == IF cancel THEN cancelPicture(d) ELSE d
         IN  {[ok |-> TRUE, dev |-> [c EXCEPT !.longshot = FALSE],
               post |-> IF cancel THEN <<[evt |-> "SNAPSHOT_DONE", arg |-> d.capture]>> ELSE <<>>]}
=============================================================================
