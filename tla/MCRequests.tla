----------------------------- MODULE MCRequests -----------------------------
(* RequestPipeline for TLC: a preview stream, and a second one that the     *)
(* live requests may use too and that reprocessed frames go to.             *)
EXTENDS RequestPipeline

CONSTANTS preview, picture

Shape(kind, streams) == [kind |-> kind, streams |-> streams]
Preview == Shape("live", {preview})
Capture == Shape("live", {preview, picture})

\* Reprocessing next to the preview, flushes and a daemon that may die.
Reprocessing ==
    [shapes |-> {Preview, Shape("yuv", {picture}), Shape("jpeg", {picture}),
                 Shape("direct", {picture})},
     faults |-> {"bundle", "daemon"}]

\* Captures with dropped buffers.
Capturing == [shapes |-> {Capture}, faults |-> {"drop"}]

\* Requests refused early or by a channel, and sensor restarts.
Restarting == [shapes |-> {Preview}, faults |-> {"start", "fence", "channel", "restart"}]

AllScenarios == {Reprocessing, Capturing, Restarting}
OnlyRestarting == {Restarting}
OnlyReprocessing == {Reprocessing}

=============================================================================
