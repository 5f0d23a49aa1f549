------------------------------- MODULE MCHal -------------------------------
(***************************************************************************)
(* The uses of the camera that HalApi is checked for: pictures that start  *)
(* the preview again, with a second picture or with a fault; a camcorder   *)
(* whose recording hint changes; ZSL switched on and off; ZSL with manual  *)
(* capture, with retro or several pictures, with long shot and no display. *)
(***************************************************************************)
EXTENDS HalApi

Plain == [restart |-> FALSE, manual |-> FALSE, retro |-> FALSE, nodisplay |-> FALSE,
          longshot |-> FALSE, settings |-> {}, faults |-> 0, pictures |-> 1]

Set(zsl, hint) == [zsl |-> zsl, hint |-> hint]

Uses ==
    {[Plain EXCEPT !.restart = TRUE, !.pictures = 2],
     [Plain EXCEPT !.restart = TRUE, !.faults = 1],
     [Plain EXCEPT !.settings = {Set(FALSE, FALSE), Set(FALSE, TRUE)}, !.faults = 1],
     [Plain EXCEPT !.settings = {Set(FALSE, FALSE), Set(TRUE, FALSE)}],
     [Plain EXCEPT !.settings = {Set(TRUE, FALSE)}, !.pictures = 2],
     [Plain EXCEPT !.settings = {Set(TRUE, FALSE)}, !.restart = TRUE, !.manual = TRUE],
     [Plain EXCEPT !.settings = {Set(TRUE, FALSE)}, !.retro = TRUE],
     [Plain EXCEPT !.settings = {Set(TRUE, FALSE)}, !.longshot = TRUE, !.nodisplay = TRUE]}

Restarted == {[Plain EXCEPT !.restart = TRUE, !.pictures = 2]}
=============================================================================
