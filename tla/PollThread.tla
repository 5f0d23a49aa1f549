----------------------------- MODULE PollThread -----------------------------
(***************************************************************************)
(* The poll thread of mm-camera-interface (mm_camera_thread.c): one thread *)
(* polls the read end of a pipe and the file descriptors registered in     *)
(* poll_entries, and calls a descriptor's callback when it has data.       *)
(*                                                                         *)
(*   the control  thread (the one that holds ch_lock) launches and         *)
(*                releases the thread, turns streams off and commits       *)
(*                updates: synchronous commands, sent through the pipe,    *)
(*                after which it waits on cond_v until the poll thread     *)
(*                signals;                                                 *)
(*   asynchronous callers add and delete descriptors while frames flow     *)
(*                (mm_stream_qbuf(), mm_stream_read_msm_frame()): they     *)
(*                write the entry and the pipe and do not wait.  One       *)
(*                stream's buf_lock serialises them per descriptor, but    *)
(*                not with the control thread;                             *)
(*   the poll     thread reads one command per iteration when the pipe has *)
(*                data, and otherwise scans the ready descriptors.         *)
(*                                                                         *)
(* poll_cb->mutex covers "reset status, write the pipe, start waiting" and *)
(* "set status, signal": each is one step.  poll_entries is written and    *)
(* read without a lock.                                                    *)
(***************************************************************************)
EXTENDS Naturals, Sequences, SequencesExt

CONSTANTS
    Fds,                \* descriptors of the channel's streams
    NoFd,               \* no callback is running
    SpuriousWakeUps,    \* pthread_cond_wait() may return without a signal
    MaxPipe,            \* bound: commands in the pipe, which never fills
    MaxLaunches         \* bound: launches of the thread

ASSUME PollThreadAssumption ==
    /\ NoFd \notin Fds
    /\ SpuriousWakeUps \in BOOLEAN
    /\ MaxPipe \in Nat \ {0}
    /\ MaxLaunches \in Nat

VARIABLES
    entry,              \* poll_entries: entry[f] iff fd, handler and notify_cb are set
    polled,             \* poll_fds: the descriptors given to poll()
    pipe,               \* commands in the pipe, oldest first
    status,             \* poll_cb->status
    signalled,          \* the waiter on cond_v has been signalled
    state,              \* poll_cb->state
    tpc,                \* where the poll thread is
    ready,              \* descriptors poll() returned, still to be scanned
    current,            \* the descriptor whose callback runs, or NoFd
    cpc,                \* where the control thread is
    target,             \* the descriptor the control thread is turning off
    apc,                \* per descriptor: the asynchronous caller in progress
    off,                \* how the last streamoff since the last add came back
    launches            \* launches so far

thread  == <<polled, state, tpc, ready, current>>
control == <<signalled, cpc, target, launches>>
vars == <<entry, polled, pipe, status, signalled, state, tpc, ready, current,
          cpc, target, apc, off, launches>>

Commands == {"UPDATED", "UPDATED_ASYNC", "COMMIT", "EXIT"}

Waiting == {"launch_wait", "update_wait", "commit_wait", "exit_wait"}

-----------------------------------------------------------------------------
(* Signalling *)

\* mm_camera_poll_sig(): status is reset, the command written and, still under
\* the mutex, the wait begins.
poll_sig(cmd) ==
    /\ Len(pipe) < MaxPipe                                  \* bound
    /\ pipe' = Append(pipe, cmd)
    /\ status' = FALSE

\* Mutant: the entry is written but the poll thread is not told.
poll_sig_async_Silent == UNCHANGED <<pipe, status>>

\* mm_camera_poll_sig_async(): the same without the wait.
poll_sig_async ==
    /\ Len(pipe) < MaxPipe                                  \* bound
    /\ pipe' = Append(pipe, "UPDATED_ASYNC")
    /\ status' = FALSE

\* mm_camera_poll_sig_done(): a signal without a waiter is lost.
poll_sig_done ==
    /\ status' = TRUE
    /\ signalled' = (signalled \/ cpc \in Waiting)

\* Mutant: "while (FALSE == status)" around the wait.
Woken_While(cmd) ==
    /\ cpc = cmd
    /\ signalled \/ SpuriousWakeUps
    /\ status /\ signalled' = FALSE

\* The end of the wait in mm_camera_poll_sig() and mm_camera_poll_thread_launch():
\* an "if", so the waiter goes on whatever woke it and whatever status has become.
Woken(cmd) ==
    /\ cpc = cmd
    /\ signalled \/ SpuriousWakeUps
    /\ signalled' = FALSE

-----------------------------------------------------------------------------
Init ==
    /\ entry = [f \in Fds |-> FALSE] /\ polled = {}
    /\ pipe = <<>> /\ status = FALSE /\ signalled = FALSE
    /\ state = "STOPPED" /\ tpc = "none" /\ ready = {} /\ current = NoFd
    /\ cpc = "down" /\ target = NoFd
    /\ apc = [f \in Fds |-> "idle"]
    /\ off = [f \in Fds |-> "no"]
    /\ launches = 0

(* The control thread *)

\* mm_camera_poll_thread_launch(), up to the wait.
Launch ==
    /\ cpc = "down" /\ tpc = "none"
    /\ launches < MaxLaunches                               \* bound
    /\ entry' = [f \in Fds |-> FALSE] /\ polled' = {}
    /\ pipe' = <<>> /\ status' = FALSE
    /\ tpc' = "start"
    /\ cpc' = "launch_wait"
    /\ launches' = launches + 1
    /\ UNCHANGED <<signalled, state, ready, current, target, apc, off>>

LaunchReturn ==
    /\ Woken("launch_wait")
    /\ cpc' = "up"
    /\ UNCHANGED <<entry, pipe, status, thread, target, apc, off, launches>>

\* mm_camera_poll_thread_del_poll_fd(), synchronous, from mm_stream_streamoff():
\* an entry that still holds this stream is reset and the poll thread told ...
StreamOff(f) ==
    /\ cpc = "up" /\ entry[f]
    /\ entry' = [entry EXCEPT ![f] = FALSE]
    /\ cpc' = "update_sig" /\ target' = f
    /\ off' = [off EXCEPT ![f] = "pending"]
    /\ UNCHANGED <<pipe, status, thread, signalled, apc, launches>>

\* ... and one that is empty already is not an error: rc is 0, nothing is sent
\* and mm_stream_streamoff() does not commit pending updates either.
StreamOffDeleted(f) ==
    /\ cpc = "up" /\ ~entry[f]
    /\ off' = [off EXCEPT ![f] = "skipped"]
    /\ UNCHANGED <<entry, pipe, status, thread, control, apc>>

\* mm_camera_poll_thread_add_poll_fd() with mm_camera_sync_call, as
\* mm_camera_evt_sub() calls it.
AddPollFdSync(f) ==
    /\ cpc = "up"
    /\ entry' = [entry EXCEPT ![f] = TRUE]
    /\ cpc' = "update_sig" /\ target' = f
    /\ off' = [off EXCEPT ![f] = "no"]
    /\ UNCHANGED <<pipe, status, thread, signalled, apc, launches>>

UpdateSig ==
    /\ cpc = "update_sig"
    /\ poll_sig("UPDATED")
    /\ cpc' = "update_wait"
    /\ UNCHANGED <<entry, thread, signalled, target, apc, off, launches>>

UpdateReturn ==
    /\ Woken("update_wait")
    /\ cpc' = "up" /\ target' = NoFd
    /\ off' = [off EXCEPT ![target] = IF @ = "pending" THEN "waited" ELSE "no"]
    /\ UNCHANGED <<entry, pipe, status, thread, apc, launches>>

\* mm_camera_poll_thread_commit_updates()
Commit ==
    /\ cpc = "up"
    /\ poll_sig("COMMIT")
    /\ cpc' = "commit_wait"
    /\ UNCHANGED <<entry, thread, signalled, target, apc, off, launches>>

CommitReturn ==
    /\ Woken("commit_wait")
    /\ cpc' = "up"
    /\ UNCHANGED <<entry, pipe, status, thread, target, apc, off, launches>>

\* mm_camera_poll_thread_release(): state is read without the mutex.  The
\* streams are gone by then (mm_channel_fsm_stopped(), DELETE), so no
\* asynchronous caller is active.
ReleaseNotRunning ==
    /\ cpc = "up" /\ \A f \in Fds : apc[f] = "idle"
    /\ state = "STOPPED"
    /\ cpc' = "down"
    /\ UNCHANGED <<entry, pipe, status, thread, signalled, target, apc, off, launches>>

ReleaseExit ==
    /\ cpc = "up" /\ \A f \in Fds : apc[f] = "idle"
    /\ state # "STOPPED"
    /\ poll_sig("EXIT")
    /\ cpc' = "exit_wait"
    /\ UNCHANGED <<entry, thread, signalled, target, apc, off, launches>>

ReleaseSignalled ==
    /\ Woken("exit_wait")
    /\ cpc' = "join"
    /\ UNCHANGED <<entry, pipe, status, thread, target, apc, off, launches>>

\* Join, close the pipe and zero the object.
ReleaseJoin ==
    /\ cpc = "join" /\ tpc = "exited"
    /\ entry' = [f \in Fds |-> FALSE] /\ polled' = {}
    /\ pipe' = <<>> /\ status' = FALSE /\ state' = "STOPPED"
    /\ tpc' = "none"
    /\ cpc' = "down"
    /\ off' = [f \in Fds |-> "no"]
    /\ UNCHANGED <<signalled, ready, current, target, apc, launches>>

-----------------------------------------------------------------------------
(* Asynchronous callers: add and delete with mm_camera_async_call *)

Running == cpc \notin {"down", "launch_wait", "exit_wait", "join"}

AddPollFd(f) ==
    /\ Running /\ apc[f] = "idle"
    /\ entry' = [entry EXCEPT ![f] = TRUE]
    /\ apc' = [apc EXCEPT ![f] = "sig"]
    /\ off' = [off EXCEPT ![f] = "no"]
    /\ UNCHANGED <<pipe, status, thread, control>>

\* Only an entry that still carries the stream's handle is reset.
DelPollFd(f) ==
    /\ Running /\ apc[f] = "idle" /\ entry[f]
    /\ entry' = [entry EXCEPT ![f] = FALSE]
    /\ apc' = [apc EXCEPT ![f] = "sig"]
    /\ UNCHANGED <<pipe, status, thread, control, off>>

AsyncSig(f) ==
    /\ apc[f] = "sig"
    /\ poll_sig_async
    /\ apc' = [apc EXCEPT ![f] = "idle"]
    /\ UNCHANGED <<entry, thread, control, off>>

-----------------------------------------------------------------------------
(* The poll thread *)

\* mm_camera_poll_thread(): the launcher is released first ...
ThreadStart ==
    /\ tpc = "start"
    /\ poll_sig_done
    /\ tpc' = "set_state"
    /\ UNCHANGED <<entry, polled, pipe, state, ready, current, cpc, target, apc, off, launches>>

\* ... and only then is the state set.
ThreadSetState ==
    /\ tpc = "set_state"
    /\ state' = "POLL"
    /\ tpc' = "poll"
    /\ UNCHANGED <<entry, polled, pipe, status, ready, current, control, apc, off>>

\* Mutant: the rebuild signals for every command, asynchronous ones included.
ProcUpdated_AlwaysDone ==
    /\ tpc = "poll" /\ pipe # <<>> /\ Head(pipe) \in {"UPDATED", "UPDATED_ASYNC"}
    /\ pipe' = Tail(pipe)
    /\ polled' = {f \in Fds : entry[f]}
    /\ poll_sig_done
    /\ UNCHANGED <<entry, state, tpc, ready, current, cpc, target, apc, off, launches>>

\* Mutant: descriptors are added to poll_fds, deleted ones stay.
ProcUpdated_AddOnly ==
    /\ tpc = "poll" /\ pipe # <<>> /\ Head(pipe) \in {"UPDATED", "UPDATED_ASYNC"}
    /\ pipe' = Tail(pipe)
    /\ polled' = polled \cup {f \in Fds : entry[f]}
    /\ IF Head(pipe) = "UPDATED" THEN poll_sig_done ELSE UNCHANGED <<status, signalled>>
    /\ UNCHANGED <<entry, state, tpc, ready, current, cpc, target, apc, off, launches>>

\* mm_camera_poll_proc_pipe(), commands UPDATED and UPDATED_ASYNC: poll_fds is
\* rebuilt from what poll_entries holds now.
ProcUpdated ==
    /\ tpc = "poll" /\ pipe # <<>> /\ Head(pipe) \in {"UPDATED", "UPDATED_ASYNC"}
    /\ pipe' = Tail(pipe)
    /\ polled' = {f \in Fds : entry[f]}
    /\ IF Head(pipe) = "UPDATED" THEN poll_sig_done ELSE UNCHANGED <<status, signalled>>
    /\ UNCHANGED <<entry, state, tpc, ready, current, cpc, target, apc, off, launches>>

ProcCommit ==
    /\ tpc = "poll" /\ pipe # <<>> /\ Head(pipe) = "COMMIT"
    /\ pipe' = Tail(pipe)
    /\ poll_sig_done
    /\ UNCHANGED <<entry, thread, cpc, target, apc, off, launches>>

\* EXIT ends the loop of mm_camera_poll_fn().
ProcExit ==
    /\ tpc = "poll" /\ pipe # <<>> /\ Head(pipe) = "EXIT"
    /\ pipe' = Tail(pipe)
    /\ state' = "STOPPED"
    /\ tpc' = "exited"
    /\ poll_sig_done
    /\ UNCHANGED <<entry, polled, ready, current, cpc, target, apc, off, launches>>

\* poll() returns with data on descriptors and none on the pipe.
PollReturns ==
    /\ tpc = "poll" /\ pipe = <<>>
    /\ \E fds \in (SUBSET polled) \ {{}} : ready' = fds
    /\ tpc' = "scan"
    /\ UNCHANGED <<entry, pipe, status, polled, state, current, control, apc, off>>

\* The scan calls the callback of a ready descriptor whose entry has one.
\* notify_cb is loaded once for the test and the call, so an entry reset after
\* the test does not stop the call.
ScanCallback ==
    /\ tpc = "scan" /\ current = NoFd
    /\ \E f \in ready :
        /\ ready' = ready \ {f}
        /\ current' = IF entry[f] THEN f ELSE NoFd
    /\ UNCHANGED <<entry, pipe, status, polled, state, tpc, control, apc, off>>

CallbackReturn ==
    /\ tpc = "scan" /\ current # NoFd
    /\ current' = NoFd
    /\ UNCHANGED <<entry, pipe, status, polled, state, tpc, ready, control, apc, off>>

\* Mutant: the scan stops after the first callback.
ScanEnd_First ==
    /\ tpc = "scan" /\ current = NoFd
    /\ tpc' = "poll"
    /\ UNCHANGED <<entry, pipe, status, polled, state, ready, current, control, apc, off>>

ScanEnd ==
    /\ tpc = "scan" /\ current = NoFd /\ ready = {}
    /\ tpc' = "poll"
    /\ UNCHANGED <<entry, pipe, status, polled, state, ready, current, control, apc, off>>

-----------------------------------------------------------------------------
PollLoop == ProcUpdated \/ ProcCommit \/ ProcExit \/ PollReturns
            \/ ScanCallback \/ CallbackReturn \/ ScanEnd

PollStep == ThreadStart \/ ThreadSetState \/ PollLoop

CtlReturn == LaunchReturn \/ UpdateSig \/ UpdateReturn \/ CommitReturn
             \/ ReleaseSignalled \/ ReleaseJoin

CtlCall == Launch \/ Commit \/ ReleaseNotRunning \/ ReleaseExit
           \/ \E f \in Fds : StreamOff(f) \/ StreamOffDeleted(f) \/ AddPollFdSync(f)

Next ==
    \/ CtlCall \/ CtlReturn
    \/ \E f \in Fds : AddPollFd(f) \/ DelPollFd(f) \/ AsyncSig(f)
    \/ PollStep

Spec == Init /\ [][Next]_vars

\* Every thread that can run does; a callback returns.  Frames (PollReturns) and
\* calls need not come, but poll() does return for data on the pipe.
Fairness ==
    /\ WF_vars(ThreadStart \/ ThreadSetState)
    /\ WF_vars(ProcUpdated \/ ProcCommit \/ ProcExit)
    /\ WF_vars(ScanCallback \/ CallbackReturn \/ ScanEnd)
    /\ WF_vars(CtlReturn)
    /\ \A f \in Fds : WF_vars(AsyncSig(f))

FairSpec == Spec /\ Fairness

-----------------------------------------------------------------------------
(* Properties *)

TypeOK ==
    /\ entry \in [Fds -> BOOLEAN]
    /\ polled \in SUBSET Fds
    /\ pipe \in Seq(Commands) /\ Len(pipe) <= MaxPipe
    /\ status \in BOOLEAN /\ signalled \in BOOLEAN
    /\ state \in {"STOPPED", "POLL"}
    /\ tpc \in {"none", "start", "set_state", "poll", "scan", "exited"}
    /\ ready \in SUBSET Fds /\ current \in Fds \cup {NoFd}
    /\ tpc # "scan" => ready = {} /\ current = NoFd
    /\ cpc \in Waiting \cup {"down", "up", "update_sig", "join"}
    /\ target \in Fds \cup {NoFd}
    /\ apc \in [Fds -> {"idle", "sig"}]
    /\ off \in [Fds -> {"no", "pending", "waited", "skipped"}]
    /\ launches \in 0..MaxLaunches

\* A synchronous delete that found the entry is a barrier: once it has returned,
\* and until the descriptor is added again, the poll thread neither polls it nor
\* runs or is about to run its callback.  mm_stream_fsm_active() releases the
\* stream's command thread on the strength of it.
SyncDelIsBarrier ==
    \A f \in Fds : off[f] = "waited" => f \notin polled \cup ready /\ current # f

\* mm_stream_streamoff() must be that barrier however the delete comes back:
\* "The error might be due to async update. In this case wait for all updates to
\* complete before proceeding."
StreamOffIsBarrier ==
    \A f \in Fds : off[f] \in {"waited", "skipped"} => current # f

\* "wait till worker task gives positive signal": whoever returns from a
\* synchronous command has had that command, and all before it, consumed.
SyncCommandConsumed ==
    [][\A cmd \in {"UPDATED", "COMMIT", "EXIT"} :
          cpc \in Waiting /\ cpc' \notin Waiting => ~Contains(pipe, cmd)]_vars

\* "wait until poll thread exits": when release is over there is no poll thread.
ReleaseJoins == cpc = "down" => tpc = "none"

\* A synchronous caller is not left waiting: no signal is lost and no reset of
\* status by an asynchronous caller puts the waiter back to sleep.
SyncCallReturns == cpc \in Waiting \cup {"join"} ~> cpc \in {"up", "down"}

\* A descriptor that stays registered is polled in the end.
AddedFdIsPolled ==
    \A f \in Fds :
        (entry[f] /\ apc[f] = "idle")
            ~> (f \in polled \/ ~entry[f] \/ cpc \in {"down", "exit_wait", "join"})

\* What has to happen in the end: synchronous callers return, and the descriptors
\* they added are polled.
Progress == SyncCallReturns /\ AddedFdIsPolled

=============================================================================
