------------------------------ MODULE MCStream ------------------------------
(***************************************************************************)
(* MmStream with the layouts of its buffers.  A layout is computed before  *)
(* the stream is started and left alone afterwards, so a behaviour either  *)
(* lays a stream out or lets frames flow: the two are not multiplied.      *)
(***************************************************************************)
EXTENDS MmStream, StreamLayout

MCInit == Init /\ LayoutInit

MCNext ==
    \/ info = NoStream /\ Next /\ UNCHANGED layoutVars
    \/ state = "CFG" /\ sessions = 0 /\ cpc = "idle" /\ LayoutNext /\ UNCHANGED vars

MCSpec == MCInit /\ [][MCNext]_<<vars, layoutVars>> /\ Fairness

FrameSizes ==
    {[width |-> w, height |-> h] : w \in {2, 26, 1440}, h \in {2, 18, 1080}}

\* Paddings: as a camera of this board has them, the least, and odd mixtures with a
\* margin or a least size.
Paddings ==
    {[width |-> 64, height |-> 64, plane |-> 64, min_stride |-> 0, min_scanline |-> 0,
      x |-> 0, y |-> 0],
     [width |-> 1, height |-> 1, plane |-> 1, min_stride |-> 0, min_scanline |-> 0,
      x |-> 0, y |-> 0],
     [width |-> 2, height |-> 32, plane |-> 2, min_stride |-> 50, min_scanline |-> 20,
      x |-> 3, y |-> 8],
     [width |-> 32, height |-> 2, plane |-> 8, min_stride |-> 1000, min_scanline |-> 2,
      x |-> 16, y |-> 1]}
=============================================================================
