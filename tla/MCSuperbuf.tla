----------------------------- MODULE MCSuperbuf -----------------------------
(***************************************************************************)
(* Instances of SuperbufQueue: the bundle of a ZSL channel, taken from in  *)
(* bursts, also with failing allocations, and that of a live snapshot,     *)
(* three streams in low priority.                                          *)
(***************************************************************************)
EXTENDS SuperbufQueue, TLC

CONSTANTS meta, preview, snapshot

ZSL(s) ==
    [streams |-> {meta, s}, priority |-> "normal", notify_mode |-> "burst",
     max_unmatched_frames |-> 1, water_mark |-> 2, look_back |-> 1, post_frame_skip |-> 0]

LiveSnapshot ==
    [streams |-> {meta, preview, snapshot}, priority |-> "low", notify_mode |-> "continuous",
     max_unmatched_frames |-> 1, water_mark |-> 1, look_back |-> 1, post_frame_skip |-> 0]

\* The two image streams behave alike: a symmetry of every bundle's behaviour.
Images == Permutations({preview, snapshot})

OutOfMemory == {ZSL(preview), ZSL(snapshot)}
Bundles == OutOfMemory \cup {LiveSnapshot}
=============================================================================
