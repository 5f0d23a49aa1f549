----------------------------- MODULE Parameters -----------------------------
(***************************************************************************)
(* The parameters of a HAL1 camera while an application sets them.         *)
(*                                                                         *)
(* set_parameters() is four requests to the state machine: SET_PARAMS      *)
(* takes the values apart into fields, m_tempMap and the batch for the     *)
(* daemon; if the values need other streams STOP stops the preview; COMMIT *)
(* sends the batch and makes the values readable; RESTART builds the       *)
(* preview anew.  The API lock keeps other calls of the application out    *)
(* from the first to the last, but not what the HAL does by itself: heat,  *)
(* exposure, LED and retro pictures change parameters too, with the same   *)
(* m_tempMap and the same batch, between any two of the four.              *)
(*                                                                         *)
(* An application reads all parameters, changes some and sends all back;   *)
(* it may have read them when the camera was opened.                       *)
(***************************************************************************)
EXTENDS ParamSetters

CONSTANTS
    Interests,          \* sets of keys: an application changes those of one of them
    MaxSends,           \* bound: calls of setParameters
    MaxEvents           \* bound: changes by the HAL itself, commands for faces, batches refused

ASSUME ParametersAssumption == MaxSends \in Nat /\ MaxEvents \in Nat

Empty == [k \in {} |-> NULL]

Keys ==
    OnOffKeys \cup EnableKeys \cup TrueFalseKeys \cup RangeKeys \cup AreaKeys \cup FlipKeys \cup
    {"preview-size", "video-size", "picture-size", "thumbnail-size", "preview-format",
     "picture-format", "jpeg-quality", "thumbnail-quality", "orientation", "rotation",
     "video-rotation", "no-display", "zsl-queue", "camera-mode", "frame-rate", "fps-range",
     "hfr", "hsr", "video-batch-size", "auto-exposure", "effect", "focus-mode",
     "focus-distances", "focus-pos-type", "iso", "flash-mode", "antibanding",
     "whitebalance", "wb-type", "wb-cct", "wb-gains", "hdr-mode", "scene-mode",
     "selectable-zone-af", "ae-bracket", "burst-exposure", "gps", "retro-burst",
     "snapshot-fd", "cds", "video-cds", "initial-exposure", "instant-capture",
     "instant-aec", "noise-reduction", "led-calibration"}

(* One setParameters: every setter in the order of the code *)

\* Mutant: what was written before is committed with what comes.
initBatchUpdate_KeepsMap(s) == [s EXCEPT !.batch = Empty]

initBatchUpdate(s) == [s EXCEPT !.tmp = Empty, !.batch = Empty]

\* Step(1), Step(2) up to Step(n), one after the other.  (The set of one result makes
\* TLC evaluate each step before the next.)
InOrder(n, s, Step(_, _)) ==
    LET after[i \in 0 .. n] ==
            IF i = 0 THEN s ELSE CHOOSE t \in {Step(i, o) : o \in {after[i - 1]}} : TRUE
    IN  after[n]

SizesAndFormats(a, i, s) ==
    CASE i = 1 -> setPreviewSizeP(s, a)            [] i = 2 -> setVideoSizeP(s, a)
      [] i = 3 -> setPictureSizeP(s, a)            [] i = 4 -> setPreviewFormatP(s, a)
      [] i = 5 -> setPictureFormatP(s, a)          [] i = 6 -> setJpegQualityP(s, a)
      [] i = 7 -> setOrientationP(s, a)            [] i = 8 -> setRotationP(s, a)
      [] i = 9 -> setVideoRotationP(s, a)

Modes(a, i, s) ==
    CASE i = 1 -> setNoDisplayModeP(s, a)          [] i = 2 -> setZslModeP(s, a)
      [] i = 3 -> setZslAttributesP(s, a)          [] i = 4 -> setCameraModeP(s, a)
      [] i = 5 -> setSceneSelectionModeP(s, a)     [] i = 6 -> setRecordingHintP(s, a)
      [] i = 7 -> setRdiModeP(s, a)                [] i = 8 -> setSecureModeP(s, a)

Image(a, i, s) ==
    CASE i = 1 -> setPreviewFrameRateP(s, a)       [] i = 2 -> setPreviewFpsRangeP(s, a)
      [] i = 3 -> setAutoExposureP(s, a)           [] i = 4 -> setEffectP(s, a)
      [] i = 5 -> setBrightnessP(s, a)             [] i = 6 -> setZoomP(s, a)
      [] i = 7 -> setSharpnessP(s, a)              [] i = 8 -> setSaturationP(s, a)
      [] i = 9 -> setContrastP(s, a)               [] i = 10 -> setFocusModeP(s, a)
      [] i = 11 -> setISOValueP(s, a)              [] i = 12 -> setContinuousISOP(s, a)
      [] i = 13 -> setExposureTimeP(s, a)          [] i = 14 -> setSkinToneEnhancementP(s, a)
      [] i = 15 -> setFlashP(s, a)                 [] i = 16 -> setAecLockP(s, a)
      [] i = 17 -> setAwbLockP(s, a)               [] i = 18 -> setLensShadeValueP(s, a)
      [] i = 19 -> setMCEValueP(s, a)              [] i = 20 -> setDISValueP(s, a)
      [] i = 21 -> setAntibandingP(s, a)           [] i = 22 -> setExposureCompensationP(s, a)
      [] i = 23 -> setWhiteBalanceP(s, a)

Scene(a, i, s) ==
    CASE i = 1 -> setHDRModeP(s, a)                [] i = 2 -> setHDRNeed1xP(s, a)
      [] i = 3 -> setManualWhiteBalanceP(s, a)     [] i = 4 -> setSceneModeP(s, a)
      [] i = 5 -> setFocusAreasP(s, a)             [] i = 6 -> setFocusPositionP(s, a)
      [] i = 7 -> setMeteringAreasP(s, a)          [] i = 8 -> setSelectableZoneAfP(s, a)
      [] i = 9 -> setRedeyeReductionP(s, a)        [] i = 10 -> setAEBracketP(s, a)
      [] i = 11 -> setAutoHDRP(s, a)               [] i = 12 -> setGpsLocationP(s, a)
      [] i = 13 -> setWaveletDenoiseP(s, a)        [] i = 14 -> setFaceRecognitionP(s, a)
      [] i = 15 -> setFlipP(s, a)                  [] i = 16 -> setVideoHDRP(s, a)
      [] i = 17 -> setVtEnableP(s, a)              [] i = 18 -> setAFBracketP(s, a)
      [] i = 19 -> setReFocusP(s, a)               [] i = 20 -> setChromaFlashP(s, a)
      [] i = 21 -> setTruePortraitP(s, a)          [] i = 22 -> setOptiZoomP(s, a)
      [] i = 23 -> setBurstLEDOnPeriodP(s, a)      [] i = 24 -> setRetroActiveBurstNumP(s, a)
      [] i = 25 -> setSnapshotFDReqP(s, a)

Rest(a, i, s) ==
    CASE i = 1 -> setTintlessValueP(s, a)          [] i = 2 -> setCDSModeP(s, a)
      [] i = 3 -> setTemporalDenoiseP(s, a)        [] i = 4 -> setCacheVideoBuffersP(s, a)
      [] i = 5 -> setInitialExposureIndexP(s, a)   [] i = 6 -> setInstantCaptureP(s, a)
      [] i = 7 -> setInstantAECP(s, a)             [] i = 8 -> setLiveSnapshotSizeP(s, a)
      [] i = 9 -> setJpegThumbnailSizeP(s, a)      [] i = 10 -> setStatsDebugMaskP(s)
      [] i = 11 -> setPAAFP(s)                     [] i = 12 -> setSeeMoreP(s, a)
      [] i = 13 -> setStillMoreP(s, a)             [] i = 14 -> setNoiseReductionModeP(s, a)
      [] i = 15 -> setLongshotParamP(s, a)         [] i = 16 -> setLedCalibrationP(s, a)
      [] i = 17 -> setDualCameraModeP(s, a)        [] i = 18 -> setQuadraCfaP(s, a)

\* What follows from the new values.
Ending(i, s) ==
    CASE i = 1 -> setVideoBatchSize(s)   [] i = 2 -> updateFlash(s)
      [] i = 3 -> setAdvancedCaptureMode(s)

\* One setter that fails makes the call fail; the others have run all the same.
updateParameters(s, a) ==
    LET begun == initBatchUpdate([s EXCEPT !.restart = FALSE, !.bad = FALSE])
        s1 == InOrder(9, begun, LAMBDA i, o : SizesAndFormats(a, i, o))
        s2 == InOrder(8, s1, LAMBDA i, o : Modes(a, i, o))
        s3 == InOrder(23, s2, LAMBDA i, o : Image(a, i, o))
        s4 == InOrder(25, s3, LAMBDA i, o : Scene(a, i, o))
        s5 == InOrder(18, s4, LAMBDA i, o : Rest(a, i, o))
    IN  InOrder(3, s5, Ending)

(* The object when the camera is opened *)

Blank ==
    [map |-> [k \in Keys |-> NULL], tmp |-> Empty, batch |-> Empty, bad |-> FALSE,
     restart |-> FALSE, zsl |-> FALSE, zslNew |-> FALSE, hint |-> FALSE, hintNew |-> FALSE,
     sceneSel |-> FALSE, scene |-> "auto", rdi |-> FALSE, secure |-> FALSE, hfr |-> "off",
     bufBatch |-> 0, effect |-> "first", zoom |-> "min", parmZoom |-> "min", focus |-> "auto",
     iso |-> "auto", expTime |-> "min", flash |-> "off", flashDaemon |-> "off", dis |-> FALSE,
     hdr |-> FALSE, localHdr |-> FALSE, sensorHdr |-> FALSE, hdrSensor |-> TRUE, hdr1x |-> FALSE,
     aeOn |-> FALSE, aeValues |-> NULL, af |-> FALSE, refocus |-> FALSE, chroma |-> FALSE,
     opti |-> FALSE, portrait |-> FALSE, seeMore |-> FALSE, stillMore |-> FALSE, hqnr |-> FALSE,
     wnr |-> FALSE, faces |-> {}, faceDetection |-> FALSE, avTimer |-> FALSE,
     instantAEC |-> FALSE, instCapture |-> FALSE, ledCal |-> "0", ledPeriod |-> "min",
     sharpness |-> "min", quadra |-> FALSE, offlineRaw |-> FALSE, passes |-> 1,
     thermal |-> "normal", transAuto |-> FALSE, updEffects |-> FALSE, fixedRate |-> FALSE,
     tnrV |-> FALSE, tnrP |-> FALSE, cds |-> "off", liveSnap |-> "s", previewFmt |-> "yuv420sp",
     pictureFmt |-> "jpeg", retro |-> "0", rotation |-> "0", noDisplay |-> FALSE, flips |-> {},
     dual |-> FALSE, mainCam |-> FALSE]

\* Keys written with set(), without their setter.
SetAtOpen ==
    [k \in Keys |->
        CASE k \in {"preview-size", "video-size"} -> "l"
          [] k \in {"picture-size", "thumbnail-size"} -> "s"
          [] k = "preview-format" -> "yuv420sp"
          [] k = "picture-format" -> "jpeg"
          [] k \in {"jpeg-quality", "thumbnail-quality"} -> "max"
          [] k = "frame-rate" -> "30"
          [] k \in {"hfr", "hsr", "zsl", "video-hdr", "sensor-hdr", "dual-camera", "longshot"}
                    \cup FlipKeys -> "off"
          [] k \in {"scene-selection", "vt", "cache-video"} -> "disable"
          [] k \in {"camera-mode", "retro-burst", "video-rotation", "video-batch-size"} -> "0"
          [] k = "main-camera" -> "false"
          [] k = "focus-distances" -> "infinity"
          [] OTHER -> NULL]

\* The sensor's HDR if it is the only one.
DefaultHDRMode(s) ==
    CASE HdrFeatures = {} -> s
      [] HdrFeatures = {"sensor"} -> setHDRMode(s, "hdr-mode-sensor")
      [] OTHER -> setHDRMode(s, "hdr-mode-multiframe")

AtOpen(i, s) ==
    CASE i = 1 -> setPreviewFps(s, "15-30", "15-30")   [] i = 2 -> setFocusMode(s, "auto")
      [] i = 3 -> setFocusAreas(s, "none")             [] i = 4 -> setMeteringAreas(s, "none")
      [] i = 5 -> setSaturation(s, "min")              [] i = 6 -> setSharpness(s, "min")
      [] i = 7 -> setContrast(s, "min")                [] i = 8 -> setSkinToneEnhancement(s, "min")
      [] i = 9 -> setBrightness(s, "min")              [] i = 10 -> setAutoExposure(s, "first")
      [] i = 11 -> setExposureCompensation(s, "min")   [] i = 12 -> setAntibanding(s, "off")
      [] i = 13 -> setEffect(s, "first")               [] i = 14 -> setWhiteBalance(s, "auto")
      [] i = 15 -> setFlash(s, "off")                  [] i = 16 -> setSceneMode(s, "auto")
      [] i = 17 -> setISOValue(s, "auto")              [] i = 18 -> setHighFrameRate(s, "off")
      [] i = 19 -> setSelectableZoneAf(s, "first")     [] i = 20 -> setZoom(s, "min")
      [] i = 21 -> setAEBracket(s, "Off")              [] i = 22 -> setAFBracket(s, "off")
      [] i = 23 -> setReFocus(s, "off")                [] i = 24 -> setChromaFlash(s, "off")
      [] i = 25 -> setOptiZoom(s, "off")               [] i = 26 -> DefaultHDRMode(s)
      [] i = 27 -> setHDRNeed1x(s, "false")            [] i = 28 -> setWaveletDenoise(s, "on")
      [] i = 29 -> setLensShadeValue(s, "enable")      [] i = 30 -> setMCEValue(s, "enable")
      [] i = 31 -> setDISValue(s, "disable")           [] i = 32 -> setRedeyeReduction(s, "disable")
      [] i = 33 -> setToneMapMode(s, TRUE)             [] i = 34 -> setSeeMore(s, "off")
      [] i = 35 -> setStillMore(s, "off")              [] i = 36 -> setNoiseReductionMode(s, "off")
      [] i = 37 -> setSceneDetect(s, "off")            [] i = 38 -> setRdiMode(s, "disable")
      [] i = 39 -> setSecureMode(s, "disable")         [] i = 40 -> setAecLock(s, "false")
      [] i = 41 -> setAwbLock(s, "false")
initDefaultParameters == InOrder(41, [Blank EXCEPT !.map = SetAtOpen], AtOpen)

(* Commit *)

\* Mutant: the ZSL mode stays as it is.
commitParamChanges_KeepsZsl(s) ==
    [s EXCEPT !.map = s.tmp @@ @, !.tmp = Empty, !.hint = s.hintNew,
              !.updEffects = @ \/ s.transAuto, !.transAuto = FALSE]

commitParamChanges(s) ==
    [s EXCEPT !.map = s.tmp @@ @, !.tmp = Empty, !.hint = s.hintNew, !.zsl = s.zslNew,
              !.updEffects = @ \/ s.transAuto, !.transAuto = FALSE]

\* p is the object with what the daemon was told: an action of the HAL takes one such
\* pair to the next.
commitSetBatch(p) ==
    [object |-> commitParamChanges(p.object), daemon |-> p.object.batch @@ p.daemon]

\* A change by the HAL itself: it takes the batch and the map for its own.
Own(p, Set(_)) == commitSetBatch([p EXCEPT !.object = Set(initBatchUpdate(@))])

\* Mutant: also while recording.
adjustPreviewFpsRange_AlwaysLowers(p, level) ==
    Own(p, LAMBDA o :
            addToBatch(o, "FPS_RANGE",
                       FpsRange(o.map["fps-range"], HfrOr(o, o.map["fps-range"]), level)))

\* The range there is, lowered for the heat outside recording.
adjustPreviewFpsRange(p, level) ==
    Own(p, LAMBDA o :
            addToBatch(o, "FPS_RANGE",
                       FpsRange(o.map["fps-range"], HfrOr(o, o.map["fps-range"]),
                                IF o.hint THEN "normal" ELSE level)))
updateThermalLevel(p, level) ==
    LET q == adjustPreviewFpsRange(p, level) IN [q EXCEPT !.object.thermal = level]

\* The key is written before the map is cleared, and lost.
updateOisValue(p) ==
    LET on == ~p.object.hint \/ is4k2kVideoResolution(p.object)
        keyed == updateParamEntry(p.object, "ois", IF on THEN "enable" ELSE "disable")
    IN  Own([p EXCEPT !.object = keyed], LAMBDA o : addToBatch(o, "OIS", on))

updateRecordingHintValue(p, on) ==
    Own(p, LAMBDA o : LET t == setRecordingHintValue(o, on)
                      IN  IF t.dis /\ on THEN setDISValue(t, "enable") ELSE t)

\* Nothing is sent when the mask stays.
FaceDetection(p, on) ==
    LET q == [p EXCEPT !.object.faceDetection = on]
        t == setFaceDetection(q.object, on)
    IN  IF t.faces = q.object.faces THEN q ELSE Own(q, LAMBDA o : setFaceDetection(o, on))

(* The streams of a preview *)

\* What the channels of a preview are made of: NULL where there is no such stream.
\* (videoHdr is not of a stream: the size of a live snapshot was chosen by it.)
Layout(s) ==
    LET zslPreview == s.zsl /\ ~s.hint
    IN  [preview |-> s.map["preview-size"],
         snapshot |-> CASE zslPreview -> s.map["picture-size"]
                        [] s.hint -> s.liveSnap
                        [] OTHER -> NULL,
         video |-> IF s.hint THEN s.map["video-size"] ELSE NULL,
         analysis |-> ~s.hint /\ ~s.secure,
         raw |-> s.rdi, shown |-> ~s.noDisplay,
         hfr |-> s.hfr, batch |-> s.bufBatch, videoHdr |-> s.map["video-hdr"]]
NoStreams == [preview |-> NULL]

\* The streams are announced with a batch of their own; a preview for recording ends
\* the detection of faces.
preparePreview(p) ==
    LET q == Own(p, LAMBDA o : o)
        video == q.object.hint /\ ~q.object.rdi
    IN  IF video /\ q.object.faceDetection THEN FaceDetection(q, FALSE) ELSE q
startPreview(p) == updateOisValue(updateThermalLevel(p, p.object.thermal))

-----------------------------------------------------------------------------
VARIABLES
    mParameters,        \* the object
    daemon,             \* what the daemon was last told, per entry
    state,              \* of the HAL: "stopped", "ready", "previewing" or "recording"
    built,              \* the Layout the channels were made for
    step,               \* what set_parameters asks for next, or "idle"
    mNeedRestart,       \* of the call under way
    ledAfAecLock,       \* m_bLedAfAecLock
    interest,           \* the keys this application changes
    sends, events,      \* bounded
    torn                \* history: a call failed, or lost its batch, with fields changed

camera == <<state, built>>
call == <<step, mNeedRestart>>
vars == <<mParameters, daemon, camera, call, ledAfAecLock, interest, sends, events, torn>>

Now == [object |-> mParameters, daemon |-> daemon]
Becomes(p) == mParameters' = p.object /\ daemon' = p.daemon

Opened == commitSetBatch([object |-> initDefaultParameters, daemon |-> Empty])

Init ==
    /\ \E opened \in {Opened} :
          /\ mParameters = [opened.object EXCEPT !.batch = Empty]
          /\ daemon = opened.daemon
    /\ state = "stopped" /\ built = NoStreams
    /\ step = "idle" /\ mNeedRestart = FALSE
    /\ ledAfAecLock = FALSE
    /\ interest \in Interests
    /\ sends = 0 /\ events = 0
    /\ torn = FALSE

(* The application *)

\* What may be sent for a key.
Sent(k) ==
    CASE k \in {"preview-size", "video-size"} -> {"s", "l"}
      [] k = "picture-size" -> {"s", "l", "xl"}
      [] k = "fps-range" -> FpsRanges
      [] k = "frame-rate" -> {"15", "30"}
      [] k = "burst-exposure" -> {NULL, "-6,0,6"}
      [] k = "focus-pos-type" -> {"index", "odd"}
      [] k = "wb-type" -> {"cct", "gain", "odd"}
      [] k = "no-display" -> {"0", "1"}
      [] k \in {"tnr", "video-tnr"} -> {NULL, "off", "on"}
      [] OTHER -> Known(k)

\* The parameters with up to two of the keys changed at first, later with one.
Edited(base, keys) ==
    {[k \in Keys |-> IF k = k1 THEN v1 ELSE IF k = k2 THEN v2 ELSE base[k]] :
        <<k1, v1, k2, v2>> \in
            UNION {{<<c1, w1, c2, w2>> : w1 \in Sent(c1), w2 \in Sent(c2)} :
                   <<c1, c2>> \in {c \in keys \X keys : c[1] # c[2] => sends = 0}}}

\* SET_PARAMS.  While recording a change that needs other streams is refused, after it
\* was taken apart.
SetParams ==
    /\ step = "idle" /\ sends < MaxSends
    /\ \E base \in {mParameters.map, Opened.object.map} : \E a \in Edited(base, interest) :
       \E taken \in {updateParameters(mParameters, a)} :
        LET refused == taken.bad \/ (state = "recording" /\ taken.restart)
        IN  /\ mParameters' = [taken EXCEPT !.bad = FALSE]
            /\ mNeedRestart' = (taken.restart /\ (state = "recording" => ~refused))
            /\ step' = CASE refused -> "idle"
                         [] ~refused /\ taken.restart -> "stop"
                         [] OTHER -> "commit"
            /\ torn' = (torn \/ refused)
    /\ sends' = sends + 1
    /\ UNCHANGED <<daemon, camera, ledAfAecLock, interest, events>>

SetParamsStop ==
    /\ step = "stop" /\ step' = "commit"
    /\ built' = NoStreams
    /\ UNCHANGED <<mParameters, daemon, state, mNeedRestart, ledAfAecLock, interest, sends,
                   events, torn>>

SetParamsCommit ==
    /\ step = "commit"
    /\ Becomes(commitSetBatch(Now))
    /\ step' = IF mNeedRestart THEN "restart" ELSE "idle"
    /\ UNCHANGED <<camera, mNeedRestart, ledAfAecLock, interest, sends, events, torn>>

\* The daemon refuses the batch: a preview that was stopped is not started again.
SetParamsCommitFail ==
    /\ step = "commit" /\ mParameters.batch # Empty
    /\ events < MaxEvents /\ events' = events + 1
    /\ step' = "idle" /\ torn' = TRUE
    /\ UNCHANGED <<mParameters, daemon, camera, mNeedRestart, ledAfAecLock, interest, sends>>

SetParamsRestart ==
    /\ step = "restart" /\ step' = "idle"
    /\ mNeedRestart' = FALSE
    /\ LET p == preparePreview(Now)
           q == IF state = "previewing" THEN startPreview(p) ELSE p
       IN  IF state = "stopped" THEN UNCHANGED <<mParameters, daemon, built>>
           ELSE Becomes(q) /\ built' = Layout(p.object)
    /\ UNCHANGED <<state, ledAfAecLock, interest, sends, events, torn>>

\* The rest of the API is for a HAL that has no setParameters under way.
Calls(from) ==
    /\ step = "idle" /\ state \in from
    /\ UNCHANGED <<call, ledAfAecLock, interest, sends, torn>>

PreparePreview ==
    /\ Calls({"stopped"})
    /\ state' = "ready"
    /\ Becomes(preparePreview(Now)) /\ built' = Layout(mParameters')
    /\ UNCHANGED events

\* From the stopped state the preview is prepared first.
StartPreview ==
    /\ Calls({"stopped", "ready"})
    /\ state' = "previewing"
    /\ LET p == IF state = "stopped" THEN preparePreview(Now) ELSE Now
       IN  /\ Becomes(startPreview(p))
           /\ built' = IF state = "stopped" THEN Layout(p.object) ELSE built
    /\ UNCHANGED events

StopPreview ==
    /\ Calls({"ready", "previewing"})
    /\ state' = "stopped" /\ built' = NoStreams
    /\ UNCHANGED <<mParameters, daemon, events>>

\* preStartRecording() and, before a picture, preTakePicture(): the preview is built
\* for the other mode, whatever the application asked for.  The key stays.
RestartedFor(recording) ==
    LET p == preparePreview(updateRecordingHintValue(Now, recording))
    IN  Becomes(startPreview(p)) /\ built' = Layout(p.object)
PreStartRecording ==
    /\ Calls({"previewing"}) /\ ~mParameters.hint
    /\ RestartedFor(TRUE) /\ UNCHANGED <<state, events>>
PreTakePicture ==
    /\ Calls({"previewing"}) /\ mParameters.hint
    /\ RestartedFor(FALSE) /\ UNCHANGED <<state, events>>

StartRecording ==
    /\ Calls({"previewing"}) /\ mParameters.hint
    /\ state' = "recording"
    /\ UNCHANGED <<mParameters, daemon, built, events>>
StopRecording ==
    /\ Calls({"recording"})
    /\ state' = "previewing"
    /\ UNCHANGED <<mParameters, daemon, built, events>>

\* CAMERA_CMD_START_FACE_DETECTION, CAMERA_CMD_STOP_FACE_DETECTION.
FaceDetectionCommand ==
    /\ Calls({"previewing"})
    /\ events < MaxEvents /\ events' = events + 1
    /\ Becomes(FaceDetection(Now, ~mParameters.faceDetection))
    /\ UNCHANGED camera

(* The HAL itself, at any time *)

\* A call that waits for its commit loses its batch to an event that takes its own.
Event(p) ==
    /\ events < MaxEvents /\ events' = events + 1
    /\ Becomes(p)
    /\ UNCHANGED <<camera, call, interest, sends>>
Overtakes == torn' = (torn \/ step \in {"stop", "commit"})

ThermalNotify ==
    /\ state # "ready"
    /\ \E level \in {"normal", "hot"} \ {mParameters.thermal} :
          Event(updateThermalLevel(Now, level))
    /\ Overtakes /\ UNCHANGED ledAfAecLock

\* The exposure has settled, or took too long: instant AEC is over.
InstantAecSettled ==
    /\ state # "stopped" /\ mParameters.instantAEC
    /\ Event(Own(Now, LAMBDA o : setInstantAECValue(o, "0")))
    /\ Overtakes /\ UNCHANGED ledAfAecLock

\* A retro picture with the LED locks the exposure and unlocks it.  These two commit
\* what there is, a call's batch with it.
RetroAecLock(on) ==
    /\ state = "previewing" /\ ledAfAecLock # on
    /\ on => built.preview # NULL /\ mParameters.zsl
    /\ Event(commitSetBatch([Now EXCEPT !.object = setAecLock(@, IF on THEN "true" ELSE "false")]))
    /\ ledAfAecLock' = on
    /\ Overtakes

Application ==
    \/ SetParams \/ SetParamsStop \/ SetParamsCommit \/ SetParamsCommitFail \/ SetParamsRestart
    \/ PreparePreview \/ StartPreview \/ StopPreview
    \/ PreStartRecording \/ PreTakePicture \/ StartRecording \/ StopRecording
    \/ FaceDetectionCommand
Hal == ThermalNotify \/ InstantAecSettled \/ \E on \in BOOLEAN : RetroAecLock(on)

Next == Application \/ Hal

Spec == Init /\ [][Next]_vars

-----------------------------------------------------------------------------
(* Properties *)

\* The keys whose value the daemon has as its entry.
Entries ==
    {<<"brightness", "BRIGHTNESS">>, <<"sharpness", "SHARPNESS">>, <<"sce", "SCE_FACTOR">>,
     <<"saturation", "SATURATION">>, <<"contrast", "CONTRAST">>, <<"zoom", "ZOOM">>,
     <<"effect", "EFFECT">>, <<"mce", "MCE">>, <<"dis", "DIS_ENABLE">>, <<"vt", "VT">>,
     <<"tintless", "TINTLESS">>, <<"redeye", "REDEYE_REDUCTION">>, <<"lensshade", "ROLLOFF">>,
     <<"whitebalance", "WHITE_BALANCE">>, <<"denoise", "WAVELET_DENOISE">>,
     <<"rdi", "RDI_MODE">>, <<"focus-mode", "FOCUS_MODE">>, <<"aec-lock", "AEC_LOCK">>,
     <<"awb-lock", "AWB_LOCK">>, <<"video-hdr", "VIDEO_HDR">>, <<"sensor-hdr", "SENSOR_HDR">>,
     <<"auto-exposure", "AEC_ALGO_TYPE">>, <<"exposure-time", "EXPOSURE_TIME">>,
     <<"hdr-need-1x", "HDR_NEED_1X">>}

\* What get() reads is what the daemon has, at every moment: through refused calls,
\* batches the daemon refuses and the HAL's own changes in the middle of a call.
DaemonAgrees ==
    \A <<k, e>> \in Entries : e \in DOMAIN daemon => daemon[e] = mParameters.map[k]

Settled == step = "idle" /\ state # "stopped" /\ ~torn

\* The snapshot stream of a preview for recording has the size chosen for live
\* snapshots (setLiveSnapshotSize).
LiveSnapshotFits == Settled => built.snapshot = Layout(mParameters).snapshot

\* A preview runs on the streams its parameters ask for; video HDR, which asks for no
\* restart, may have changed the size of live snapshots since it was built.
PreviewFits ==
    Settled =>
        LET asked == Layout(mParameters) IN
        /\ \A f \in DOMAIN asked \ {"snapshot", "videoHdr", "raw", "analysis", "shown"} :
              built[f] = asked[f]
        /\ LiveSnapshotFits \/ (mParameters.hint /\ built.videoHdr # asked.videoHdr)

\* What the daemon has of an entry, or what it starts with.
Told(e, otherwise) == IF e \in DOMAIN daemon THEN daemon[e] ELSE otherwise

\* The modes of the object are those of the daemon, and a preview has the frame rate
\* asked for, lowered for the heat unless it is for recording.
ModesAgree ==
    step = "idle" /\ ~torn =>
        /\ mParameters.zsl = Told("ZSL_MODE", FALSE)
        /\ mParameters.hint = Told("RECORDING_HINT", FALSE)
        /\ mParameters.hfr = Told("HFR", "off")
        /\ mParameters.faces = Told("FD", {})
        /\ state \in {"previewing", "recording"} =>
              daemon["FPS_RANGE"].preview =
                  <<mParameters.map["fps-range"],
                    IF mParameters.hint THEN "normal" ELSE mParameters.thermal>>

\* Whoever has a preview has the one the parameters ask for, after every call that was
\* not refused and every change by the HAL itself.
PreviewAsAsked == PreviewFits /\ ModesAgree

\* An application that sends back what it has read finds its parameters settled after
\* one call: the next one asks for no restart, is not refused and changes no value.
SentBack(s) == updateParameters(s, s.map)
Settles ==
    step = "idle" /\ ~torn =>
        \A sent \in {SentBack(mParameters)} : \A once \in {commitParamChanges(sent)} :
        \A twice \in {SentBack(once)} :
            ~twice.bad /\ ~twice.restart /\ twice.tmp @@ twice.map = once.map
=============================================================================
