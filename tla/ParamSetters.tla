---------------------------- MODULE ParamSetters ----------------------------
(***************************************************************************)
(* What QCameraParameters::updateParameters does with the parameters an    *)
(* application sends: one operator for every set...(const                  *)
(* QCameraParameters& params), here setXP(s, a) where a maps a key to the  *)
(* value in the flattened string (NULL: absent) and s is the object of     *)
(* ParamValues.  Nearly all of them act on a difference from s.map, what   *)
(* get() reads: a value written earlier in the same call is still in s.tmp *)
(* unless its setter used set().                                           *)
(***************************************************************************)
EXTENDS ParamValues, FiniteSets

CONSTANT HdrFeatures        \* of "sensor" and "multiframe", those the sensor supports
ASSUME HdrFeaturesAssumption == HdrFeatures \subseteq {"sensor", "multiframe"}

PreviewSizes == {"s", "m", "l"}
VideoSizes == {"s", "m", "l"}           \* "l" is 4k
PictureSizes == {"s", "m", "l", "xl"}
RawDim == "l"                           \* larger pictures need Quadra CFA
Rank(size) == CASE size = "s" -> 1 [] size = "m" -> 2 [] size = "l" -> 3 [] OTHER -> 4
Larger(x, y) == IF Rank(x) < Rank(y) THEN y ELSE x
Smaller(x, y) == IF Rank(x) < Rank(y) THEN x ELSE y

(* The shapes most setters have *)

Changed(s, a, k) == a[k] # NULL /\ a[k] # s.map[k]
OnChange(s, a, k, Set(_, _)) == IF Changed(s, a, k) THEN Set(s, a[k]) ELSE s
OnChangeRestarting(s, a, k, Set(_, _)) ==
    IF Changed(s, a, k) THEN Set(Restarted(s), a[k]) ELSE s
\* Of a range the setter looks at the bounds, what is not in Known is out of them.
OnChangeInRange(s, a, k, Set(_, _)) ==
    CASE ~Changed(s, a, k) -> s [] a[k] \in Known(k) -> Set(s, a[k]) [] OTHER -> Bad(s)
\* An absent value counts as the system property.
OrProperty(a, k, property) == IF a[k] = NULL THEN property ELSE a[k]

(* Sizes and formats *)

setPreviewSizeP(s, a) ==
    LET size == a["preview-size"]
        t == IF size # s.map["preview-size"] THEN Restarted(s) ELSE s
    IN  IF size \in PreviewSizes THEN set(t, "preview-size", size) ELSE Bad(s)

\* Without a video size, that of the preview.
setVideoSizeP(s, a) ==
    LET size == OrProperty(a, "video-size", a["preview-size"])
        t == IF s.hint /\ size # s.map["video-size"] THEN Restarted(s) ELSE s
    IN  IF size \in VideoSizes THEN set(t, "video-size", size) ELSE Bad(s)

\* Mutant: the preview goes on with the pictures it has.
setPictureSizeP_NoRestart(s, a) ==
    IF a["picture-size"] \in PictureSizes THEN set(s, "picture-size", a["picture-size"]) ELSE Bad(s)

setPictureSizeP(s, a) ==
    LET size == a["picture-size"]
        t == IF (s.zsl \/ s.hint) /\ size # s.map["picture-size"] THEN Restarted(s) ELSE s
    IN  IF size \in PictureSizes THEN set(t, "picture-size", size) ELSE Bad(s)

\* The tables of sizes for pictures while recording, the largest first.
LiveSizes(a, fast) ==
    CASE fast -> <<>> [] ~fast /\ a["video-hdr"] = "on" -> <<"s">> [] OTHER -> <<"l", "m", "s">>
setLiveSnapshotSizeP(s, a) ==
    LET size == IF is4k2kVideoResolution(s) THEN Smaller(a["picture-size"], s.map["video-size"])
                ELSE a["picture-size"]
        rate == IF a["hsr"] \notin {NULL, "off"} THEN a["hsr"] ELSE a["hfr"]
        fast == rate \in Known("hfr") \ {"off"}
        table == LiveSizes(a, fast)
        found == CASE \E i \in DOMAIN table : table[i] = size -> size
                   [] table # <<>> -> table[1]
                   [] OTHER -> Larger(a["video-size"], a["preview-size"])
    IN  [s EXCEPT !.liveSnap = found]

\* A change of format asks for no restart.
setPreviewFormatP(s, a) ==
    IF a["preview-format"] \in Known("preview-format")
    THEN set([s EXCEPT !.previewFmt = a["preview-format"]], "preview-format", a["preview-format"])
    ELSE Bad(s)
setPictureFormatP(s, a) ==
    IF a["picture-format"] \in Known("picture-format")
    THEN set([s EXCEPT !.pictureFmt = a["picture-format"]], "picture-format", a["picture-format"])
    ELSE Bad(s)

(* Keys that only the HAL reads *)

Copied(s, a, k, known) == IF a[k] \in known THEN set(s, k, a[k]) ELSE Bad(s)
setJpegThumbnailSizeP(s, a) == Copied(s, a, "thumbnail-size", {"s", "m"})
\* Each quality is taken or refused for itself.
setJpegQualityP(s, a) ==
    Copied(Copied(s, a, "jpeg-quality", {"min", "max"}), a, "thumbnail-quality", {"min", "max"})
setOrientationP(s, a) ==
    IF a["orientation"] = NULL THEN s ELSE Copied(s, a, "orientation", {"portrait", "landscape"})
setRotationP(s, a) ==
    CASE a["rotation"] = NULL -> s
      [] a["rotation"] \in {"0", "90"} ->
            addToBatch(set([s EXCEPT !.rotation = a["rotation"]], "rotation", a["rotation"]),
                       "JPEG_ORIENTATION", a["rotation"])
      [] OTHER -> Bad(s)
setVideoRotationP(s, a) ==
    CASE a["video-rotation"] = NULL -> s
      [] a["video-rotation"] \in Known("video-rotation") ->
            updateParamEntry(s, "video-rotation", a["video-rotation"])
      [] OTHER -> Bad(s)
setBurstLEDOnPeriodP(s, a) ==
    LET period == IF a["led-period"] \in Known("led-period") THEN a["led-period"] ELSE "min"
    IN  addToBatch(set([s EXCEPT !.ledPeriod = period], "led-period", period),
                   "BURST_LED_ON_PERIOD", period)
setRetroActiveBurstNumP(s, a) ==
    LET burst == IF a["retro-burst"] \in {NULL, "odd"} THEN "0" ELSE a["retro-burst"]
    IN  set([s EXCEPT !.retro = burst], "retro-burst", burst)
setSnapshotFDReqP(s, a) == set(s, "snapshot-fd", OrProperty(a, "snapshot-fd", "0"))
setCameraModeP(s, a) == set(s, "camera-mode", a["camera-mode"])
\* Nine keys, each copied or removed.
setGpsLocationP(s, a) == set(s, "gps", a["gps"])
\* Interval, look back and depth of the ZSL queue.
setZslAttributesP(s, a) == set(s, "zsl-queue", OrProperty(a, "zsl-queue", "2"))

\* The flips are told to the streams that exist after every setParameters.
FlipOf(s, a, k) ==
    IF Changed(s, a, k) /\ a[k] \in Known(k)
    THEN set([s EXCEPT !.flips = @ \cup {k}], k, a[k]) ELSE s
setFlipP(s, a) == FlipOf(FlipOf(FlipOf(s, a, "preview-flip"), a, "video-flip"), a, "snapshot-flip")

(* One value, one entry *)

setAutoExposureP(s, a) == OnChange(s, a, "auto-exposure", setAutoExposure)
setFocusModeP(s, a) == OnChange(s, a, "focus-mode", setFocusMode)
setBrightnessP(s, a) == OnChangeInRange(s, a, "brightness", setBrightness)
setSharpnessP(s, a) == OnChangeInRange(s, a, "sharpness", setSharpness)
setSkinToneEnhancementP(s, a) == OnChangeInRange(s, a, "sce", setSkinToneEnhancement)
setSaturationP(s, a) == OnChangeInRange(s, a, "saturation", setSaturation)
setContrastP(s, a) == OnChangeInRange(s, a, "contrast", setContrast)
setExposureCompensationP(s, a) ==
    OnChangeInRange(s, a, "exposure-compensation", setExposureCompensation)
setWhiteBalanceP(s, a) == OnChange(s, a, "whitebalance", setWhiteBalance)
setAntibandingP(s, a) == OnChange(s, a, "antibanding", setAntibanding)
setSceneDetectP(s, a) == OnChange(s, a, "scene-detect", setSceneDetect)
setVideoHDRP(s, a) == OnChange(s, a, "video-hdr", setVideoHDR)
setVtEnableP(s, a) == OnChange(s, a, "vt", setVtEnable)
setFaceRecognitionP(s, a) == OnChange(s, a, "face-recognition", setFaceRecognition)
setISOValueP(s, a) == OnChange(s, a, "iso", setISOValue)
setExposureTimeP(s, a) == OnChange(s, a, "exposure-time", setExposureTime)
setFlashP(s, a) == OnChange(s, a, "flash-mode", setFlash)
setAecLockP(s, a) == OnChange(s, a, "aec-lock", setAecLock)
setAwbLockP(s, a) == OnChange(s, a, "awb-lock", setAwbLock)
setMCEValueP(s, a) == OnChange(s, a, "mce", setMCEValue)
setDISValueP(s, a) == OnChange(s, a, "dis", setDISValue)
setLensShadeValueP(s, a) == OnChange(s, a, "lensshade", setLensShadeValue)
setFocusAreasP(s, a) == OnChange(s, a, "focus-areas", setFocusAreas)
setSelectableZoneAfP(s, a) == OnChange(s, a, "selectable-zone-af", setSelectableZoneAf)
setRedeyeReductionP(s, a) == OnChange(s, a, "redeye", setRedeyeReduction)
setWaveletDenoiseP(s, a) == OnChange(s, a, "denoise", setWaveletDenoise)
setCacheVideoBuffersP(s, a) == OnChange(s, a, "cache-video", setCacheVideoBuffers)
setTruePortraitP(s, a) == OnChange(s, a, "true-portrait", setTruePortrait)
setAFBracketP(s, a) == OnChangeRestarting(s, a, "af-bracket", setAFBracket)
setReFocusP(s, a) == OnChangeRestarting(s, a, "re-focus", setReFocus)
setChromaFlashP(s, a) == OnChangeRestarting(s, a, "chroma-flash", setChromaFlash)
setOptiZoomP(s, a) == OnChangeRestarting(s, a, "opti-zoom", setOptiZoom)
setSeeMoreP(s, a) == OnChangeRestarting(s, a, "see-more", setSeeMore)
setStillMoreP(s, a) == OnChangeRestarting(s, a, "still-more", setStillMore)
setNoiseReductionModeP(s, a) ==
    OnChangeRestarting(s, a, "noise-reduction", setNoiseReductionMode)

\* The level is remembered before it is checked.
setZoomP(s, a) == OnChangeInRange([s EXCEPT !.parmZoom = a["zoom"]], a, "zoom", setZoom)
\* After a change of the scene mode to auto, the effect is sent again.
setEffectP(s, a) ==
    IF a["effect"] # NULL /\ (a["effect"] # s.map["effect"] \/ s.updEffects)
    THEN setEffect([s EXCEPT !.updEffects = FALSE], a["effect"]) ELSE s
\* The regions follow the preview size when a restart is due already.
setMeteringAreasP(s, a) ==
    IF a["metering-areas"] # NULL /\ (a["metering-areas"] # s.map["metering-areas"] \/ s.restart)
    THEN setMeteringAreas(s, a["metering-areas"]) ELSE s
setTintlessValueP(s, a) ==
    LET v == OrProperty(a, "tintless", "enable")
    IN  IF v # s.map["tintless"] THEN setTintlessValue(s, v) ELSE s
setAutoHDRP(s, a) ==
    LET v == OrProperty(a, "auto-hdr", "disable")
    IN  IF v # s.map["auto-hdr"] THEN updateParamEntry(s, "auto-hdr", v) ELSE s
setLedCalibrationP(s, a) ==
    LET v == OrProperty(a, "led-calibration", "0")
    IN  IF v # s.map["led-calibration"] THEN setLedCalibration(s, v) ELSE s
\* No property: nothing to tell.
setInitialExposureIndexP(s, a) ==
    IF Changed(s, a, "initial-exposure") /\ a["initial-exposure"] # "odd"
    THEN Both(s, "initial-exposure", "INITIAL_EXPOSURE_INDEX", a["initial-exposure"]) ELSE s
setStatsDebugMaskP(s) == addToBatch(s, "STATS_DEBUG_MASK", "0")
setPAAFP(s) == addToBatch(s, "STATS_AF_PAAF", "1")

(* Values that belong together *)

setContinuousISOP(s, a) ==
    IF a["iso"] \in {NULL, "manual"} THEN OnChange(s, a, "continuous-iso", setContinuousISO) ELSE s

setFocusPositionP(s, a) ==
    LET keys == {"focus-position", "focus-pos-type", "focus-mode"}
    IN  IF /\ a["focus-mode"] = "manual"
           /\ \A k \in keys : a[k] # NULL
           /\ \E k \in keys : a[k] # s.map[k]
        THEN setFocusPosition(s, a["focus-pos-type"], a["focus-position"]) ELSE s

\* Type and value go to the map before they are looked at.
setManualWhiteBalanceP(s, a) ==
    LET keys == {"wb-value", "wb-type", "whitebalance"}
        t == updateParamEntry(updateParamEntry(s, "wb-type", a["wb-type"]),
                              "wb-value", a["wb-value"])
    IN  IF /\ a["whitebalance"] = "manual"
           /\ \A k \in keys : a[k] # NULL
           /\ \E k \in keys : a[k] # s.map[k]
        THEN CASE a["wb-type"] = "cct" -> setWBManualCCT(t, a["wb-value"])
               [] a["wb-type"] = "gain" -> setManualWBGains(t, a["wb-value"])
               [] OTHER -> Bad(t)
        ELSE s

\* The frame rates of the high modes: what is asked for, and the range of the video.
UpdateHFRFrameRate(s, a) ==
    LET differs(k) == s.map[k] # NULL /\ Changed(s, a, k)
        t1 == IF differs("hfr") THEN updateParamEntry(s, "hfr", a["hfr"]) ELSE s
        t2 == IF differs("hsr") THEN updateParamEntry(t1, "hsr", a["hsr"]) ELSE t1
        asked == IF a["hfr"] \notin {NULL, "off"} THEN a["hfr"]
                 ELSE IF a["hsr"] \notin {NULL, "off"} THEN a["hsr"] ELSE "off"
        mode == IF asked \in Known("hfr") THEN asked ELSE "off"
        t3 == [t2 EXCEPT !.hfr = mode]
    IN  setBufBatchCount(t3, IF mode = "240" THEN 240 \div MaxFps(a["fps-range"]) ELSE 0)

setPreviewFrameRateP(s, a) ==
    IF s.map["frame-rate"] # NULL /\ Changed(s, a, "frame-rate")
    THEN [updateParamEntry(s, "frame-rate", a["frame-rate"]) EXCEPT !.fixedRate = TRUE] ELSE s

\* A fixed rate is used when the range itself did not change.
setPreviewFpsRangeP(s, a) ==
    LET t == UpdateHFRFrameRate(s, a)
        update == t.hfr # s.hfr
        u == IF update THEN setHighFrameRate(Restarted(t), t.hfr) ELSE t
        same == a["fps-range"] = s.map["fps-range"]
        fixed == same /\ s.fixedRate
        range == IF fixed THEN FixedFps(a["frame-rate"]) ELSE a["fps-range"]
        w == IF fixed THEN [u EXCEPT !.fixedRate = FALSE] ELSE u
    IN  IF same /\ ~s.fixedRate /\ ~update THEN u
        ELSE IF range \in FpsRanges
        THEN setPreviewFps(w, range, HfrOr(w, range))
        ELSE Bad(w)

(* Modes *)

setNoDisplayModeP(s, a) ==
    IF a["no-display"] \notin {NULL, ""}
    THEN IF a["no-display"] = s.map["no-display"] THEN s
         ELSE Restarted(set([s EXCEPT !.noDisplay = a["no-display"] = "1"],
                            "no-display", a["no-display"]))
    ELSE [s EXCEPT !.noDisplay = FALSE]

\* The key is set at once, the mode when the parameters are committed.
setZslModeP(s, a) ==
    CASE ~Changed(s, a, "zsl") -> s
      [] a["zsl"] \in Known("zsl") ->
            Restarted(setZslValue(set(s, "zsl", a["zsl"]), a["zsl"] = "on"))
      [] OTHER -> Bad(s)

setSceneSelectionModeP(s, a) ==
    LET v == a["scene-selection"]
        chosen == Restarted(updateParamEntry([s EXCEPT !.sceneSel = v = "enable"],
                                             "scene-selection", v))
    IN  CASE ~Changed(s, a, "scene-selection") -> s
          [] v = "disable" -> chosen
          [] v = "enable" /\ s.zslNew -> chosen
          [] OTHER -> Bad(s)

setRecordingHintP(s, a) ==
    LET on == a["recording-hint"] = "true"
        t == setRecordingHintValue(updateParamEntry(s, "recording-hint", a["recording-hint"]), on)
        u == IF t.faceDetection THEN setFaceDetection(t, ~on) ELSE t
    IN  CASE ~Changed(s, a, "recording-hint") -> s
          [] a["recording-hint"] \notin Known("recording-hint") -> Bad(s)
          [] OTHER -> IF u.dis THEN setDISValue(u, "enable") ELSE u

\* With the value of the application unchanged, the mode is that of the property;
\* the result of the setter is not looked at.
FromAppOrProperty(s, a, k, Set(_, _)) ==
    LET v == IF Changed(s, a, k) THEN a[k] ELSE "disable"
    IN  IF v # s.map[k] THEN [Set(s, v) EXCEPT !.bad = s.bad] ELSE s
setRdiModeP(s, a) == FromAppOrProperty(s, a, "rdi", setRdiMode)
setSecureModeP(s, a) == FromAppOrProperty(s, a, "secure", setSecureMode)

\* With one of the two modes only, whichever it is, the name that is not ignored
\* is that of the sensor's.
setHDRModeP(s, a) ==
    IF \/ HdrFeatures = {}
       \/ Cardinality(HdrFeatures) = 1 /\ a["hdr-mode"] # "hdr-mode-sensor"
    THEN s ELSE OnChange(s, a, "hdr-mode", setHDRMode)
\* Mutant: also when the value is the one there is.
setHDRNeed1xP_Always(s, a) ==
    IF s.hdrSensor \/ a["hdr-need-1x"] = NULL THEN s ELSE setHDRNeed1x(s, a["hdr-need-1x"])

setHDRNeed1xP(s, a) ==
    IF s.hdrSensor THEN s ELSE OnChange(s, a, "hdr-need-1x", setHDRNeed1x)

\* While recording HDR is off and remembered; it comes back with the hint gone.
setSceneModeP(s, a) ==
    LET suspend == s.hintNew /\ s.hdr
        resume == ~s.hintNew /\ s.localHdr
        v == CASE suspend -> "auto" [] resume -> "hdr" [] OTHER -> a["scene-mode"]
        t == [s EXCEPT !.localHdr = (@ \/ suspend) /\ ~resume,
                       !.transAuto = @ \/ (v = "auto" /\ v # s.map["scene-mode"])]
        asHdr == IF t.hdrSensor THEN [t EXCEPT !.sensorHdr = TRUE, !.hdr = FALSE]
                 ELSE [t EXCEPT !.hdr = TRUE]
        noHdr == IF t.sensorHdr
                 THEN setSensorSnapshotHDR(Restarted([t EXCEPT !.hdr = FALSE, !.sensorHdr = FALSE]),
                                           "off")
                 ELSE [t EXCEPT !.hdr = FALSE]
        u == IF v = "hdr" THEN asHdr ELSE noHdr
        w == IF u.sensorHdr THEN Restarted(setSensorSnapshotHDR(u, "on"))
             ELSE IF u.hdr \/ s.map["scene-mode"] = "hdr" THEN Restarted(u) ELSE u
    IN  IF v = NULL \/ v = s.map["scene-mode"]
        THEN [s EXCEPT !.localHdr = t.localHdr] ELSE setSceneMode(w, v)

\* HDR turns bracketing off.  The exposures are copied at once, but they are read
\* when the bracketing changes.
setAEBracketP(s, a) ==
    IF isHDREnabled(s) THEN setAEBracket(s, "Off")
    ELSE OnChange(set(s, "burst-exposure", a["burst-exposure"]), a, "ae-bracket", setAEBracket)

setCDSModeP(s, a) ==
    LET k == IF s.hintNew THEN "video-cds" ELSE "cds"
        v == OrProperty(a, k, "on")
        t == [Both(s, k, "CDS_MODE", v) EXCEPT !.cds = v]
    IN  CASE a[k] = NULL -> t
          [] a[k] = s.map[k] -> s
          [] a[k] \in Known("cds") -> Restarted(t)
          [] OTHER -> Bad(s)

\* Temporal denoising, which turns CDS off.  The properties say off.
setTemporalDenoiseP(s, a) ==
    LET k == IF s.hintNew THEN "video-tnr" ELSE "tnr"
        on == a[k] = "on"
        t == CASE a[k] = NULL -> s
               [] s.hintNew -> updateParamEntry([s EXCEPT !.tnrV = on, !.tnrP = on], k, a[k])
               [] OTHER -> updateParamEntry([s EXCEPT !.tnrP = on], k, a[k])
        \* not on: the values of the properties replace those of the application
        u == CASE on -> t
               [] ~on /\ s.hintNew ->
                     updateParamEntry(updateParamEntry([t EXCEPT !.tnrV = FALSE, !.tnrP = FALSE],
                                                       "video-tnr", "off"), "tnr", "off")
               [] OTHER -> updateParamEntry([t EXCEPT !.tnrP = FALSE], "tnr", "off")
        x == IF u.tnrV \/ u.tnrP
             THEN [Both(IF u.tnrP THEN updateParamEntry(u, "cds", "off") ELSE u,
                        "video-cds", "CDS_MODE", "off") EXCEPT !.cds = "off"]
             ELSE u
    IN  IF a[k] # NULL /\ a[k] = s.map[k] THEN s
        ELSE IF <<x.tnrV, x.tnrP>> # <<s.tnrV, s.tnrP>>
        THEN addToBatch(x, "TEMPORAL_DENOISE", x.tnrV \/ x.tnrP) ELSE x

setInstantCaptureP(s, a) ==
    LET v == OrProperty(a, "instant-capture", "0")
        t == [setInstantAECValue(updateParamEntry(s, "instant-capture", v), v)
                  EXCEPT !.instCapture = v # "0"]
    IN  CASE v = s.map["instant-capture"] -> s
          [] v \in Known("instant-capture") -> t
          [] OTHER -> Bad(s)
\* Instant capture sets the instant AEC by itself.
setInstantAECP(s, a) ==
    LET v == OrProperty(a, "instant-aec", "0")
    IN  CASE s.instCapture \/ v = s.map["instant-aec"] -> s
          [] v \in Known("instant-aec") ->
                setInstantAECValue(updateParamEntry(s, "instant-aec", v), v)
          [] OTHER -> Bad(s)

\* The restart for turning it on is that of the command that takes the pictures.
setLongshotParamP(s, a) ==
    LET t == set(s, "longshot", a["longshot"])
    IN  IF ~Changed(s, a, "longshot") THEN s
        ELSE IF s.map["longshot"] = "on" /\ a["longshot"] = "off" THEN Restarted(t) ELSE t

\* The keys stay as they were; whatever is not off is on.
setDualCameraModeP(s, a) ==
    LET t == IF Changed(s, a, "dual-camera") THEN [s EXCEPT !.dual = a["dual-camera"] # "off"]
             ELSE s
    IN  IF t.dual /\ Changed(s, a, "main-camera")
        THEN [t EXCEPT !.mainCam = a["main-camera"] # "false"] ELSE t

\* A picture larger than the raw frame needs Quadra CFA, which excludes ZSL.
setQuadraCfaP(s, a) ==
    LET quadra == Rank(a["picture-size"]) > Rank(RawDim)
        t == [s EXCEPT !.quadra = quadra]
        u == CASE s.zsl /\ quadra -> setZslValue(Restarted(t), FALSE)
               [] ~(s.zsl /\ quadra) /\ a["zsl"] = "on" -> Restarted(setZslValue(t, TRUE))
               [] OTHER -> t
    IN  IF quadra = s.quadra THEN s ELSE setReprocCount(u)
=============================================================================
