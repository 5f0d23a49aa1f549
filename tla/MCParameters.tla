---------------------------- MODULE MCParameters ----------------------------
(***************************************************************************)
(* What the applications of the instances change: keys that setters, or    *)
(* the choice of streams, read together.                                   *)
(***************************************************************************)
EXTENDS Parameters

Both_HDR == {"sensor", "multiframe"}

Groups ==
    {{"zsl", "picture-size", "preview-size"},
     {"recording-hint", "video-size", "preview-size"},
     {"recording-hint", "picture-size", "video-hdr"},
     {"recording-hint", "picture-size", "video-size"},
     {"recording-hint", "picture-size", "hsr"},
     {"recording-hint", "scene-mode", "dis"},
     {"recording-hint", "tnr", "video-tnr"},
     {"recording-hint", "true-portrait", "face-recognition"},
     {"hfr", "fps-range", "frame-rate"},
     {"scene-mode", "hdr-mode", "hdr-need-1x"},
     {"scene-mode", "ae-bracket", "burst-exposure"},
     {"focus-mode", "focus-position", "focus-pos-type"},
     {"whitebalance", "wb-type", "wb-value"},
     {"instant-capture", "instant-aec"},
     {"rdi", "secure", "no-display"},
     {"zsl", "scene-selection", "aec-lock"}}
=============================================================================
