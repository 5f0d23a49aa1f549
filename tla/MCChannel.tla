----------------------------- MODULE MCChannel -----------------------------
(* MmChannel for a snapshot channel with a linked preview stream. *)
EXTENDS MmChannel

CONSTANTS snapshot, preview, meta

SnapshotChannel == <<snapshot, preview, meta>>

\* Two buffers where frames go back to another channel.
Buffers == [s \in {snapshot, preview, meta} |-> IF s = preview THEN {1, 2} ELSE {1}]

=============================================================================
