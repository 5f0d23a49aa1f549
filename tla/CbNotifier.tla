----------------------------- MODULE CbNotifier -----------------------------
(***************************************************************************)
(* The callback notifier of HAL1 (QCameraCbNotifier): a command thread     *)
(* with a queue of callbacks for the application.  The post processor      *)
(* turns the snapshot callbacks on and off with commands of priority; the  *)
(* state machine hears from the notifier that the last one came.           *)
(***************************************************************************)
EXTENDS Naturals, Sequences, SequencesExt

CONSTANT Pictures           \* the pictures there are callbacks for, numbers from 1

NoPic == 0                  \* a callback that is not of a picture, an error for example

VARIABLE cbn                \* the notifier, see Notifier

Notifier ==
    [cmds : Seq({"START", "STOP", "NEXT"}),     \* mProcTh.cmd_queue, with its semaphore
     data : Seq(Pictures \cup {NoPic}),         \* mDataQ
     pc : {"wait", "done", "app"},              \* waits, for SNAPSHOT_DONE, for the application
     at : Pictures \cup {NoPic},                \* the callback in hand
     isSnapshotActive : BOOLEAN,
     rcvd : Nat,                                \* numOfSnapshotRcvd
     asked : {"START", "STOP"},                 \* history: what was sent last
     overtaken : BOOLEAN,                       \* history: a START or STOP went before another
     delivered : SUBSET Pictures,               \* history: with the application
     leaked : SUBSET Pictures]                  \* history: neither delivered nor released

Quiescent ==
    [cmds |-> <<>>, data |-> <<>>, pc |-> "wait", at |-> NoPic, isSnapshotActive |-> FALSE,
     rcvd |-> 0, asked |-> "STOP", overtaken |-> FALSE, delivered |-> {}, leaked |-> {}]

\* QCameraCmdThread::sendCmd(): the command is queued, at the head if it has
\* priority, and posted.  (A thread that takes it before the post finds no command
\* afterwards, which does nothing.)
sendCmd(cmds, cmd, priority) == IF priority THEN <<cmd>> \o cmds ELSE Append(cmds, cmd)

SendSnapshotCmd(n, cmd) ==
    [n EXCEPT !.cmds = sendCmd(@, cmd, TRUE), !.asked = cmd,
              !.overtaken = @ \/ \E c \in {"START", "STOP"} : Contains(n.cmds, c)]

startSnapshots(n) == SendSnapshotCmd(n, "START")
stopSnapshots(n) == SendSnapshotCmd(n, "STOP")

notifyCallback(n, pic) ==
    [n EXCEPT !.data = Append(@, pic), !.cmds = sendCmd(@, "NEXT", FALSE)]

\* The answer to SNAPSHOT_DONE, by name: processSyncEvt() returns.
SnapshotDoneAnswered(n) == IF n.pc = "done" THEN [n EXCEPT !.pc = "app"] ELSE n

-----------------------------------------------------------------------------
(* cbNotifyRoutine                                                         *)

Takes(cmd) == cbn.pc = "wait" /\ cbn.cmds # <<>> /\ Head(cbn.cmds) = cmd

Rest == [cbn EXCEPT !.cmds = Tail(@)]

NotifyStart ==
    /\ Takes("START")
    /\ cbn' = [Rest EXCEPT !.isSnapshotActive = TRUE, !.rcvd = 0]

\* Mutant: the callbacks of pictures stay in the queue.
NotifyStop_KeepsQueue ==
    /\ Takes("STOP")
    /\ cbn' = [Rest EXCEPT !.isSnapshotActive = FALSE, !.rcvd = 0]

\* Callbacks of pictures that wait are released.
NotifyStop ==
    /\ Takes("STOP")
    /\ cbn' = [Rest EXCEPT !.isSnapshotActive = FALSE, !.rcvd = 0,
                           !.data = SelectSeq(@, LAMBDA p : p = NoPic)]

NotifyNone ==
    /\ Takes("NEXT") /\ cbn.data = <<>>
    /\ cbn' = Rest

\* The callback in hand, and what is left.
NextCallback == [Rest EXCEPT !.at = Head(cbn.data), !.data = Tail(@)]

\* A notification, or a picture that is not the last one expected, goes to the
\* application; a picture that comes when snapshots are off is dropped, and its
\* release function is not called.
NotifyNext(expected) ==
    /\ Takes("NEXT") /\ cbn.data # <<>>
    /\ LET n == NextCallback IN
       \/ n.at = NoPic /\ cbn' = [n EXCEPT !.pc = "app"]
       \/ n.at # NoPic /\ ~n.isSnapshotActive /\ cbn' = [n EXCEPT !.at = NoPic, !.leaked = @ \cup {n.at}]
       \/ n.at # NoPic /\ n.isSnapshotActive /\ n.rcvd + 1 # expected
             /\ cbn' = [n EXCEPT !.rcvd = @ + 1, !.pc = "app"]

\* "Received all snapshots": SNAPSHOT_DONE is posted to the state machine, and
\* the thread waits until it has been handled.
LastSnapshot(expected) ==
    /\ Takes("NEXT") /\ cbn.data # <<>>
    /\ LET n == NextCallback IN
       /\ n.at # NoPic /\ n.isSnapshotActive /\ n.rcvd + 1 = expected
       /\ cbn' = [n EXCEPT !.rcvd = @ + 1, !.pc = "done"]

\* The application returns from the callback.
CallbackReturns ==
    /\ cbn.pc = "app"
    /\ cbn' = [cbn EXCEPT !.pc = "wait", !.at = NoPic,
                          !.delivered = @ \cup ({cbn.at} \ {NoPic})]

=============================================================================
