----------------------------- MODULE MCPostProc -----------------------------
(* Two pictures, taken together or one after the other, without and with a *)
(* pass of reprocessing, with one and two output buffers; and the two      *)
(* passes, which are for single pictures.                                  *)
EXTENDS PostProc

TwoPictures == 1 .. 2

Way(passes, bufs, expected) == [passes |-> passes, bufs |-> bufs, expected |-> expected]

Ways == {Way(0, 1, 2), Way(1, 1, 1), Way(1, 1, 2), Way(1, 2, 2), Way(2, 1, 1)}

=============================================================================
