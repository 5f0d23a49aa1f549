---------------------------- MODULE ParamValues ----------------------------
(***************************************************************************)
(* The values of the camera parameters of HAL1 (QCameraParameters) and     *)
(* what setting one value does: the key and its value go to m_tempMap, the *)
(* entry for the daemon to the batch, and fields of the object follow.     *)
(*                                                                         *)
(* The object is a record s: s.map is what get() reads, s.tmp what         *)
(* updateParamEntry wrote since initBatchUpdate, s.batch the entries for   *)
(* the daemon, s.bad that a setter failed, s.restart is m_bNeedRestart,    *)
(* and the other fields are the C++ fields named beside Fields.  Each      *)
(* setter is a function of s, so that a whole setParameters is their       *)
(* composition in the order of the code.                                   *)
(*                                                                         *)
(* Values are names; "odd" stands for a value no table knows, NULL for a   *)
(* key that is absent.  System properties have their default values, the   *)
(* sensor supports every feature, and ADD_SET_PARAM_ENTRY_TO_BATCH, which  *)
(* copies into a buffer with room for every entry, succeeds.               *)
(***************************************************************************)
EXTENDS Naturals, Sequences, TLC

NULL == "NULL"

OnOffKeys == {"zsl", "longshot", "video-hdr", "see-more", "tnr", "video-tnr", "flash-still",
              "scene-detect", "face-recognition", "sensor-hdr", "dual-camera",
              "af-bracket", "re-focus", "chroma-flash", "opti-zoom", "true-portrait",
              "still-more", "denoise"}
EnableKeys == {"rdi", "secure", "vt", "mce", "dis", "lensshade", "tintless", "redeye",
               "cache-video", "scene-selection", "auto-hdr", "ois"}
TrueFalseKeys == {"recording-hint", "aec-lock", "awb-lock", "hdr-need-1x", "main-camera"}
RangeKeys == {"brightness", "sharpness", "sce", "saturation", "contrast", "exposure-compensation",
              "exposure-time", "continuous-iso", "focus-position", "wb-value", "led-period", "zoom"}
AreaKeys == {"focus-areas", "metering-areas"}
FlipKeys == {"preview-flip", "video-flip", "snapshot-flip"}

\* The names the tables of the code know; of a range, two values within it.
Known(k) ==
    CASE k \in OnOffKeys -> {"off", "on"}
      [] k \in EnableKeys -> {"disable", "enable"}
      [] k \in TrueFalseKeys -> {"false", "true"}
      [] k \in RangeKeys -> {"min", "max"}
      [] k \in AreaKeys -> {"none", "centre"}
      [] k \in FlipKeys -> {"off", "flip-h"}
      [] k = "scene-mode" -> {"auto", "night", "hdr"}
      [] k = "hdr-mode" -> {"hdr-mode-sensor", "hdr-mode-multiframe"}
      [] k \in {"hfr", "hsr"} -> {"off", "60", "240"}
      [] k \in {"cds", "video-cds"} -> {"off", "on", "auto"}
      [] k = "flash-mode" -> {"off", "auto", "torch"}
      [] k = "focus-mode" -> {"auto", "infinity", "manual"}
      [] k = "whitebalance" -> {"auto", "cloudy", "manual"}
      [] k = "iso" -> {"auto", "ISO400"}
      [] k = "ae-bracket" -> {"Off", "AE-Bracket"}
      [] k = "antibanding" -> {"off", "auto"}
      [] k = "instant-aec" -> {"0", "1"}
      [] k = "instant-capture" -> {"0", "1"}
      [] k = "noise-reduction" -> {"off", "fast", "high-quality"}
      [] k \in {"effect", "auto-exposure", "selectable-zone-af"} -> {"first", "second"}
      [] k = "preview-format" -> {"yuv420sp", "yuv420p"}
      [] k = "picture-format" -> {"jpeg", "raw"}
      [] k = "video-rotation" -> {"0", "90"}
      [] k = "led-calibration" -> {"0", "1"}

(* Writing one entry *)

Bad(s) == [s EXCEPT !.bad = TRUE]
set(s, k, v) == [s EXCEPT !.map[k] = v]
updateParamEntry(s, k, v) == [s EXCEPT !.tmp = (k :> v) @@ @]
addToBatch(s, e, v) == [s EXCEPT !.batch = (e :> v) @@ @]
Restarted(s) == [s EXCEPT !.restart = TRUE]

\* Most setters: a value of the table goes to the map and to the daemon.
Both(s, k, e, v) == addToBatch(updateParamEntry(s, k, v), e, v)
Attr(s, k, e, v) == IF v \in Known(k) THEN Both(s, k, e, v) ELSE Bad(s)

(* What the object says of itself *)

isHDREnabled(s) == s.hdr
isAEBracketEnabled(s) == s.map["ae-bracket"] \notin {NULL, "Off"}
isUbiFocusEnabled(s) == s.af /\ ~s.refocus
isOptiZoomEnabled(s) == s.opti /\ s.parmZoom = "max"       \* at or over the threshold
isAdvCamFeaturesEnabled(s) ==
    isUbiFocusEnabled(s) \/ s.chroma \/ s.opti \/ isHDREnabled(s)
      \/ isAEBracketEnabled(s) \/ s.stillMore \/ s.refocus
is4k2kVideoResolution(s) == s.map["video-size"] = "l"
isHfrMode(s) == s.hfr # "off"

(* Setters that are one row of a table *)

setAutoExposure(s, v) == Attr(s, "auto-exposure", "AEC_ALGO_TYPE", v)
setSceneDetect(s, v) == Attr(s, "scene-detect", "ASD_ENABLE", v)
setAecLock(s, v) == Attr(s, "aec-lock", "AEC_LOCK", v)
setAwbLock(s, v) == Attr(s, "awb-lock", "AWB_LOCK", v)
setMCEValue(s, v) == Attr(s, "mce", "MCE", v)
setTintlessValue(s, v) == Attr(s, "tintless", "TINTLESS", v)
setLensShadeValue(s, v) == Attr(s, "lensshade", "ROLLOFF", v)
setWhiteBalance(s, v) == Attr(s, "whitebalance", "WHITE_BALANCE", v)
setSelectableZoneAf(s, v) == Attr(s, "selectable-zone-af", "FOCUS_ALGO_TYPE", v)
setRedeyeReduction(s, v) == Attr(s, "redeye", "REDEYE_REDUCTION", v)
setSensorSnapshotHDR(s, v) == Attr(s, "sensor-hdr", "SENSOR_HDR", v)
setVideoHDR(s, v) == Attr(s, "video-hdr", "VIDEO_HDR", v)

setBrightness(s, v) == Both(s, "brightness", "BRIGHTNESS", v)
setSharpness(s, v) == Both([s EXCEPT !.sharpness = v], "sharpness", "SHARPNESS", v)
setSkinToneEnhancement(s, v) == Both(s, "sce", "SCE_FACTOR", v)
setSaturation(s, v) == Both(s, "saturation", "SATURATION", v)
setContrast(s, v) == Both(s, "contrast", "CONTRAST", v)
setExposureCompensation(s, v) == Both(s, "exposure-compensation", "EXPOSURE_COMPENSATION", v)
setZoom(s, v) == Both([s EXCEPT !.zoom = v], "zoom", "ZOOM", v)
setHighFrameRate(s, v) == addToBatch(s, "HFR", v)

\* The automatic mode of the flicker detection is its own value for the daemon.
setAntibanding(s, v) ==
    IF v \in Known("antibanding")
    THEN addToBatch(updateParamEntry(s, "antibanding", v), "ANTIBANDING",
                    IF v = "auto" THEN "afd-3" ELSE v)
    ELSE Bad(s)

(* Setters that a field of the object follows *)

setEffect(s, v) ==
    LET t == Attr(s, "effect", "EFFECT", v)
    IN  IF v \in Known("effect") THEN [t EXCEPT !.effect = v] ELSE t

setFocusMode(s, v) ==
    IF v \in Known("focus-mode")
    THEN LET t == [Attr(s, "focus-mode", "FOCUS_MODE", v) EXCEPT !.focus = v]
         IN  IF v = "infinity" THEN set(t, "focus-distances", "infinity") ELSE t
    ELSE Bad(s)

\* The position is checked against the range of its type.
setFocusPosition(s, type, pos) ==
    IF type # "odd" /\ pos \in Known("focus-position")
    THEN addToBatch(updateParamEntry(updateParamEntry(s, "focus-pos-type", type),
                                     "focus-position", pos),
                    "MANUAL_FOCUS_POS", <<type, pos>>)
    ELSE Bad(s)

\* An unknown value turns the timer off, every known one turns it on.
setVtEnable(s, v) ==
    [Attr(s, "vt", "VT", v) EXCEPT !.avTimer = v \in Known("vt")]

\* The daemon hears of a change of the mask only.
setFaceRecognition(s, v) ==
    LET mask == IF v = "on" THEN s.faces \cup {"recognition"} ELSE s.faces \ {"recognition"}
        t == updateParamEntry(s, "face-recognition", v)
    IN  IF v \notin Known("face-recognition") THEN Bad(s)
        ELSE IF mask = s.faces THEN t
        ELSE addToBatch([t EXCEPT !.faces = mask], "FD", mask)

setISOValue(s, v) ==
    CASE v = "manual" -> updateParamEntry(s, "iso", v)
      [] v \in Known("iso") -> [Both(s, "iso", "ISO", v) EXCEPT !.iso = v]
      [] OTHER -> Bad(s)

setContinuousISO(s, v) ==
    IF v \in Known("continuous-iso") THEN Both(s, "continuous-iso", "ISO", v) ELSE Bad(s)

setExposureTime(s, v) ==
    IF v \in Known("exposure-time")
    THEN [Both(s, "exposure-time", "EXPOSURE_TIME", v) EXCEPT !.expTime = v]
    ELSE Bad(s)

\* The LED is told by updateFlash, at the end of a setParameters.
setFlash(s, v) ==
    IF v \in Known("flash-mode") THEN [updateParamEntry(s, "flash-mode", v) EXCEPT !.flash = v]
    ELSE Bad(s)

setDISValue(s, v) ==
    IF v \in Known("dis")
    THEN Restarted([Both(s, "dis", "DIS_ENABLE", v) EXCEPT !.dis = v = "enable"])
    ELSE Bad([s EXCEPT !.dis = FALSE])

setWBManualCCT(s, v) ==
    IF v \in Known("wb-value")
    THEN addToBatch(updateParamEntry(s, "wb-cct", v), "WB_MANUAL", <<"cct", v>>) ELSE Bad(s)
setManualWBGains(s, v) ==
    IF v \in Known("wb-value")
    THEN addToBatch(updateParamEntry(s, "wb-gains", v), "WB_MANUAL", <<"gain", v>>) ELSE Bad(s)

\* The region is scaled to the preview size there is while it is set.
Roi(s, v) == <<v, IF v = "none" THEN NULL ELSE s.map["preview-size"]>>
setFocusAreas(s, v) ==
    IF v \in Known("focus-areas")
    THEN addToBatch(updateParamEntry(s, "focus-areas", v), "AF_ROI", Roi(s, v)) ELSE Bad(s)
setMeteringAreas(s, v) ==
    IF v \in Known("metering-areas")
    THEN addToBatch(updateParamEntry(s, "metering-areas", v), "AEC_ROI", Roi(s, v)) ELSE Bad(s)

\* With the HDR of the sensor on, the daemon is not told the scene mode.
setSceneMode(s, v) ==
    LET t == updateParamEntry(s, "scene-mode", v)
    IN  IF v \notin Known("scene-mode") THEN Bad(s)
        ELSE IF s.sensorHdr THEN t
        ELSE addToBatch(IF s.sceneSel THEN [t EXCEPT !.scene = v] ELSE t, "BESTSHOT_MODE", v)

\* Bracketing is on when there are exposures to take; no value is refused.
setAEBracket(s, v) ==
    LET on == v = "AE-Bracket" /\ s.map["burst-exposure"] # NULL
    IN  updateParamEntry([s EXCEPT !.aeOn = on,
                                   !.aeValues = IF on THEN s.map["burst-exposure"] ELSE NULL],
                         "ae-bracket", v)

setNoiseReductionMode(s, v) ==
    IF v \in Known("noise-reduction")
    THEN updateParamEntry([s EXCEPT !.hqnr = v = "high-quality"], "noise-reduction", v)
    ELSE Bad(s)

Feature(s, k, v, t) == IF v \in Known(k) THEN updateParamEntry(t, k, v) ELSE Bad(s)
setAFBracket(s, v) == Feature(s, "af-bracket", v, [s EXCEPT !.af = v = "on"])
setChromaFlash(s, v) == Feature(s, "chroma-flash", v, [s EXCEPT !.chroma = v = "on"])
setOptiZoom(s, v) == Feature(s, "opti-zoom", v, [s EXCEPT !.opti = v = "on"])
setStillMore(s, v) == Feature(s, "still-more", v, [s EXCEPT !.stillMore = v = "on"])
\* See more sets the flag of still more; with LTM the tone map is left alone.
setSeeMore(s, v) ==
    Feature(s, "see-more", v, [s EXCEPT !.seeMore = v = "on", !.stillMore = v = "on"])
\* An unknown value is not refused.
setReFocus(s, v) ==
    IF v \in Known("re-focus")
    THEN updateParamEntry([s EXCEPT !.refocus = v = "on"], "re-focus", v) ELSE s
setHDRNeed1x(s, v) ==
    IF v \in Known("hdr-need-1x")
    THEN Restarted([Both(s, "hdr-need-1x", "HDR_NEED_1X", v) EXCEPT !.hdr1x = v = "true"])
    ELSE Bad(s)

\* A scene mode of HDR is taken back in the map; the flags of HDR stay.
setHDRMode(s, v) ==
    LET t == updateParamEntry([s EXCEPT !.hdrSensor = v = "hdr-mode-sensor"], "hdr-mode", v)
    IN  IF v \notin Known("hdr-mode") THEN Bad(s)
        ELSE IF s.map["scene-mode"] = "hdr"
        THEN Restarted(updateParamEntry(t, "scene-mode", "auto")) ELSE t

setCacheVideoBuffers(s, v) ==
    IF v \in Known("cache-video") THEN updateParamEntry(s, "cache-video", v) ELSE Bad(s)

setWaveletDenoise(s, v) ==
    IF v \in Known("denoise")
    THEN [Both(s, "denoise", "WAVELET_DENOISE", v) EXCEPT !.wnr = v = "on"] ELSE Bad(s)

setRdiMode(s, v) ==
    IF v \in Known("rdi") THEN [Both(s, "rdi", "RDI_MODE", v) EXCEPT !.rdi = v = "enable"]
    ELSE Bad(s)
setSecureMode(s, v) ==
    IF v \in Known("secure")
    THEN [updateParamEntry(s, "secure", v) EXCEPT !.secure = v = "enable"] ELSE Bad(s)

setLedCalibration(s, v) ==
    IF v \in Known("led-calibration")
    THEN [Both(s, "led-calibration", "LED_CALIBRATION", v) EXCEPT !.ledCal = v] ELSE Bad(s)

(* Entries for the daemon alone, each also set on its own by the HAL *)

setToneMapMode(s, on) == addToBatch(s, "TONE_MAP_MODE", on)
setCDSValue(s, v) == addToBatch(s, "CDS_MODE", v)
setInstantAECValue(s, v) == [addToBatch(s, "INSTANT_AEC", v) EXCEPT !.instantAEC = v # "0"]
setAdvancedCaptureMode(s) == addToBatch(s, "ADV_CAPTURE_MODE", isAdvCamFeaturesEnabled(s))

\* Faces: what is looked for depends on the recording hint that is committed.
setFaceDetection(s, on) ==
    LET found == IF s.hint THEN {"focus"} ELSE s.faces \cup {"focus", "detection"}
        mask == IF on THEN IF s.portrait THEN found \cup {"gaze"} ELSE found \ {"gaze"}
                ELSE s.faces \ {"detection", "focus", "gaze"}
    IN  IF mask = s.faces THEN s ELSE addToBatch([s EXCEPT !.faces = mask], "FD", mask)

setTruePortrait(s, v) ==
    IF v \in Known("true-portrait")
    THEN LET t == updateParamEntry([s EXCEPT !.portrait = v = "on"], "true-portrait", v)
         IN  setFaceDetection(t, t.faceDetection)
    ELSE Bad(s)

\* The LED as the modes that are on want it.
updateFlash(s) ==
    LET value == IF isHDREnabled(s) \/ s.aeOn \/ s.af \/ s.opti \/ s.refocus
                      \/ (s.stillMore /\ ~s.seeMore) THEN "off"
                 ELSE IF s.chroma THEN "on" ELSE s.flash
    IN  IF value = s.flashDaemon THEN s
        ELSE [addToBatch(s, "LED_MODE", value) EXCEPT !.flashDaemon = value]

(* Modes *)

setZslValue(s, on) == [addToBatch(s, "ZSL_MODE", on) EXCEPT !.zslNew = on]

setRecordingHintValue(s, on) ==
    LET t == [addToBatch(s, "RECORDING_HINT", on) EXCEPT !.hintNew = on]
    IN  IF s.hint # on THEN Restarted(t) ELSE t

setOfflineRAW(s, on) == [s EXCEPT !.offlineRaw = on]
\* One pass of reprocessing, one more for Quadra CFA.
setReprocCount(s) == [s EXCEPT !.passes = IF s.quadra THEN 2 ELSE 1]

MinBatch == 4           \* CAMERA_MIN_BATCH_COUNT
MaxBatch == 8           \* max_batch_bufs_supported
\* Halved until the daemon can take it; up to MinBatch there is no batch.
setBufBatchCount(s, n) ==
    LET half[i \in 0 .. n] == IF i > MaxBatch THEN half[i \div 2] ELSE i
        count == IF n > MinBatch /\ half[n] > MinBatch THEN half[n] ELSE 0
    IN  set([s EXCEPT !.bufBatch = count], "video-batch-size", ToString(count))

\* Batches for the consumer of the video: off, with the property at its default.
setVideoBatchSize(s) ==
    IF s.bufBatch # 0 \/ is4k2kVideoResolution(s) THEN s
    ELSE set(s, "video-batch-size", ToString(0))

(* Frame rates: a range is named by its ends in frames per second *)

FpsRanges == {"15-15", "15-30", "30-30"}
MaxFps(r) == IF r = "15-15" THEN 15 ELSE 30
FixedFps(rate) == CASE rate = "15" -> "15-15" [] rate = "30" -> "30-30" [] OTHER -> "odd"
\* What the daemon is told: the range of the preview and that of the video, each with
\* the level of heat it is lowered for.
FpsRange(preview, video, level) == [preview |-> <<preview, level>>, video |-> <<video, level>>]
HfrOr(s, r) == IF isHfrMode(s) THEN s.hfr ELSE r
\* Outside high frame rates the lower end is at most 15.  While recording the range is
\* that of the application; otherwise the HAL lowers it, the video's with it.
setPreviewFps(s, r, vid) ==
    LET lowered == IF ~isHfrMode(s) /\ r = "30-30" THEN "15-30" ELSE r
    IN  addToBatch(updateParamEntry(s, "fps-range", lowered), "FPS_RANGE",
                   IF s.hintNew THEN FpsRange(lowered, vid, "normal")
                   ELSE FpsRange(lowered, HfrOr(s, lowered), s.thermal))
=============================================================================
