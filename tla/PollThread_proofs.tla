-------------------------- MODULE PollThread_proofs --------------------------
(***************************************************************************)
(* What the poll thread guarantees, for every set of descriptors and every *)
(* bound: a synchronous delete that found its entry is a barrier, and      *)
(* whoever returns from a synchronous command has had it consumed.         *)
(*                                                                         *)
(* Both rest on one fact that is not in either statement: there is at most *)
(* one synchronous command under way.  While its sender waits unsignalled  *)
(* it may be in the pipe; once the sender is signalled it is not (PipeInv).*)
(* status plays no part, which is why an asynchronous caller may reset it. *)
(* The waits are not in a loop, so all of it holds only where              *)
(* pthread_cond_wait() does not return without a signal.                   *)
(***************************************************************************)
EXTENDS PollThread, TLAPS

Sync == {"UPDATED", "COMMIT", "EXIT"}

\* Where the sender of a synchronous command waits.
WaitFor(command) == CASE command = "UPDATED" -> "update_wait"
                      [] command = "COMMIT"  -> "commit_wait"
                      [] command = "EXIT"    -> "exit_wait"

\* A synchronous command in the pipe has an unsignalled sender, and is the only one.
PipeInv ==
    /\ \A i \in 1..Len(pipe) :
        pipe[i] \in Sync => cpc = WaitFor(pipe[i]) /\ ~signalled
    /\ \A i, j \in 1..Len(pipe) : pipe[i] \in Sync /\ pipe[j] \in Sync => i = j

\* Only a waiter is signalled; a thread that starts has a launcher that waits.
WaitInv ==
    /\ signalled => cpc \in Waiting
    /\ tpc = "start" => cpc = "launch_wait" /\ ~signalled

\* The poll thread is not concerned with the descriptor, now or later.
Gone(f) == f \notin polled /\ f \notin ready /\ current # f

\* How a descriptor becomes gone: while its delete is under way it is out of
\* poll_entries; by the time the caller is signalled the rebuild has dropped it.
BarrierInv ==
    \A f \in Fds :
        /\ off[f] \in {"pending", "waited"} => ~entry[f]
        /\ off[f] = "pending" => target = f /\ cpc \in {"update_sig", "update_wait"}
        /\ off[f] = "pending" /\ signalled => Gone(f)
        /\ off[f] = "waited" => Gone(f)

IInv == TypeOK /\ PipeInv /\ WaitInv /\ BarrierInv

-----------------------------------------------------------------------------
LEMMA EmptyPipe == <<>> \in Seq(Commands) /\ Len(<<>>) <= MaxPipe
  BY PollThreadAssumption

LEMMA InitInv == Init => IInv
<1> SUFFICES ASSUME Init PROVE IInv
  OBVIOUS
<1>1. TypeOK
  <2>1. pipe \in Seq(Commands) /\ Len(pipe) <= MaxPipe
    BY EmptyPipe DEF Init
  <2>2. launches \in 0..MaxLaunches
    BY PollThreadAssumption DEF Init
  <2> QED
    BY <2>1, <2>2 DEF Init, TypeOK
<1>2. PipeInv
  BY DEF Init, PipeInv
<1>3. WaitInv
  BY DEF Init, WaitInv
<1>4. BarrierInv
  BY DEF Init, BarrierInv
<1> QED
  BY <1>1, <1>2, <1>3, <1>4 DEF IInv

\* Sending appends one command to the pipe.
LEMMA Sent ==
  ASSUME pipe \in Seq(Commands), NEW command \in Commands,
         Len(pipe) < MaxPipe, pipe' = Append(pipe, command)
  PROVE  /\ pipe' \in Seq(Commands) /\ Len(pipe') <= MaxPipe
         /\ Len(pipe') = Len(pipe) + 1
         /\ pipe'[Len(pipe) + 1] = command
         /\ \A i \in 1..Len(pipe) : pipe'[i] = pipe[i]
  BY PollThreadAssumption

\* Reading takes the first command off it.
LEMMA Read ==
  ASSUME pipe \in Seq(Commands), Len(pipe) <= MaxPipe, pipe # <<>>,
         pipe' = Tail(pipe)
  PROVE  /\ pipe' \in Seq(Commands) /\ Len(pipe') <= MaxPipe
         /\ Head(pipe) = pipe[1] /\ Head(pipe) \in Commands
         /\ 1 \in 1..Len(pipe)
         /\ Len(pipe') = Len(pipe) - 1
         /\ \A i \in 1..Len(pipe') : pipe'[i] = pipe[i + 1] /\ i + 1 \in 1..Len(pipe)
  BY PollThreadAssumption

LEMMA StepInv ==
  ASSUME ~SpuriousWakeUps, IInv, [Next]_vars
  PROVE  IInv'
<1> USE DEF IInv
<1>1. CASE Launch
  <2>1. pipe' \in Seq(Commands) /\ Len(pipe') <= MaxPipe
    BY <1>1, EmptyPipe DEF Launch
  <2> launches' \in 0..MaxLaunches
    BY <1>1, PollThreadAssumption DEF TypeOK, Launch
  <2>2. TypeOK'
    BY <2>1, <1>1 DEF TypeOK, Waiting, Launch
  <2>3. PipeInv'
    BY <1>1 DEF PipeInv, Launch
  <2>4. WaitInv'
    BY <1>1 DEF WaitInv, Waiting, Launch
  <2>5. BarrierInv'
    BY <1>1 DEF BarrierInv, Gone, Launch
  <2> QED
    BY <2>2, <2>3, <2>4, <2>5
<1>2. CASE Commit
  <2>1. /\ pipe' \in Seq(Commands) /\ Len(pipe') <= MaxPipe
        /\ Len(pipe') = Len(pipe) + 1
        /\ pipe'[Len(pipe) + 1] = "COMMIT"
        /\ \A i \in 1..Len(pipe) : pipe'[i] = pipe[i]
    BY <1>2, Sent DEF TypeOK, Commands, Commit, poll_sig
  <2>2. TypeOK'
    BY <2>1, <1>2, PollThreadAssumption DEF TypeOK, Waiting, Commit,
       poll_sig, thread
  <2>3. PipeInv'
    BY <2>1, <1>2 DEF PipeInv, WaitInv, Sync, WaitFor, Waiting, Commit
  <2>4. WaitInv'
    BY <2>1, <1>2 DEF WaitInv, Waiting, Commit, thread
  <2>5. BarrierInv'
    BY <2>1, <1>2 DEF BarrierInv, Gone, Commit, thread
  <2> QED
    BY <2>2, <2>3, <2>4, <2>5
<1>3. CASE ReleaseNotRunning
  <2>2. TypeOK'
    BY <1>3, PollThreadAssumption DEF TypeOK, ReleaseNotRunning, thread
  <2>3. PipeInv'
    BY <1>3 DEF PipeInv, Sync, WaitFor, ReleaseNotRunning
  <2>4. WaitInv'
    BY <1>3 DEF WaitInv, Waiting, ReleaseNotRunning, thread
  <2>5. BarrierInv'
    BY <1>3 DEF BarrierInv, Gone, ReleaseNotRunning, thread
  <2> QED
    BY <2>2, <2>3, <2>4, <2>5
<1>4. CASE ReleaseExit
  <2>1. /\ pipe' \in Seq(Commands) /\ Len(pipe') <= MaxPipe
        /\ Len(pipe') = Len(pipe) + 1
        /\ pipe'[Len(pipe) + 1] = "EXIT"
        /\ \A i \in 1..Len(pipe) : pipe'[i] = pipe[i]
    BY <1>4, Sent DEF TypeOK, Commands, ReleaseExit, poll_sig
  <2>2. TypeOK'
    BY <2>1, <1>4, PollThreadAssumption DEF TypeOK, Waiting, ReleaseExit,
       poll_sig, thread
  <2>3. PipeInv'
    BY <2>1, <1>4 DEF PipeInv, WaitInv, Sync, WaitFor, Waiting, ReleaseExit
  <2>4. WaitInv'
    BY <2>1, <1>4 DEF WaitInv, Waiting, ReleaseExit, thread
  <2>5. BarrierInv'
    BY <2>1, <1>4 DEF BarrierInv, Gone, ReleaseExit, thread
  <2> QED
    BY <2>2, <2>3, <2>4, <2>5
<1>5. ASSUME NEW f \in Fds, StreamOff(f) PROVE IInv'
  <2>2. TypeOK'
    BY <1>5, PollThreadAssumption DEF TypeOK, StreamOff, thread
  <2>3. PipeInv'
    BY <1>5 DEF PipeInv, Sync, WaitFor, StreamOff
  <2>4. WaitInv'
    BY <1>5 DEF WaitInv, Waiting, StreamOff, thread
  <2>5. BarrierInv'
    BY <1>5 DEF TypeOK, WaitInv, BarrierInv, Gone, Waiting, StreamOff,
       thread
  <2> QED
    BY <2>2, <2>3, <2>4, <2>5
<1>5a. ASSUME NEW f \in Fds, AddPollFdSync(f) PROVE IInv'
  <2>2. TypeOK'
    BY <1>5a, PollThreadAssumption DEF TypeOK, AddPollFdSync, Waiting, thread
  <2>3. PipeInv'
    BY <1>5a DEF PipeInv, Sync, WaitFor, AddPollFdSync
  <2>4. WaitInv'
    BY <1>5a DEF WaitInv, Waiting, AddPollFdSync, thread
  <2>5. BarrierInv'
    BY <1>5a DEF TypeOK, WaitInv, BarrierInv, Gone, Waiting, AddPollFdSync, thread
  <2> QED
    BY <2>2, <2>3, <2>4, <2>5
<1>6. ASSUME NEW f \in Fds, StreamOffDeleted(f) PROVE IInv'
  <2>2. TypeOK'
    BY <1>6, PollThreadAssumption DEF TypeOK, StreamOffDeleted, thread,
       control
  <2>3. PipeInv'
    BY <1>6 DEF PipeInv, StreamOffDeleted, control
  <2>4. WaitInv'
    BY <1>6 DEF WaitInv, StreamOffDeleted, thread, control
  <2>5. BarrierInv'
    BY <1>6 DEF BarrierInv, Gone, StreamOffDeleted, thread, control
  <2> QED
    BY <2>2, <2>3, <2>4, <2>5
<1>7. CASE LaunchReturn
  <2>2. TypeOK'
    BY <1>7, PollThreadAssumption DEF TypeOK, LaunchReturn, Woken, thread
  <2>3. PipeInv'
    BY <1>7 DEF PipeInv, LaunchReturn, Woken
  <2>4. WaitInv'
    BY <1>7 DEF WaitInv, LaunchReturn, Woken, thread
  <2>5. BarrierInv'
    BY <1>7 DEF BarrierInv, Gone, LaunchReturn, Woken, thread
  <2> QED
    BY <2>2, <2>3, <2>4, <2>5
<1>8. CASE UpdateSig
  <2>1. /\ pipe' \in Seq(Commands) /\ Len(pipe') <= MaxPipe
        /\ Len(pipe') = Len(pipe) + 1
        /\ pipe'[Len(pipe) + 1] = "UPDATED"
        /\ \A i \in 1..Len(pipe) : pipe'[i] = pipe[i]
    BY <1>8, Sent DEF TypeOK, Commands, UpdateSig, poll_sig
  <2>2. TypeOK'
    BY <2>1, <1>8, PollThreadAssumption DEF TypeOK, Waiting, UpdateSig, poll_sig,
       thread
  <2>3. PipeInv'
    BY <2>1, <1>8 DEF PipeInv, WaitInv, Sync, WaitFor, Waiting, UpdateSig
  <2>4. WaitInv'
    BY <2>1, <1>8 DEF WaitInv, Waiting, UpdateSig, thread
  <2>5. BarrierInv'
    BY <2>1, <1>8 DEF BarrierInv, Gone, UpdateSig, poll_sig, thread
  <2> QED
    BY <2>2, <2>3, <2>4, <2>5
<1>9. CASE UpdateReturn
  <2>2. TypeOK'
    BY <1>9, PollThreadAssumption DEF TypeOK, UpdateReturn, Woken, thread
  <2>3. PipeInv'
    BY <1>9 DEF PipeInv, UpdateReturn, Woken, thread
  <2>4. WaitInv'
    BY <1>9 DEF WaitInv, UpdateReturn, Woken, thread
  <2>5. BarrierInv'
    BY <1>9 DEF TypeOK, BarrierInv, Gone, UpdateReturn, Woken, thread
  <2> QED
    BY <2>2, <2>3, <2>4, <2>5
<1>10. CASE CommitReturn
  <2>2. TypeOK'
    BY <1>10, PollThreadAssumption DEF TypeOK, CommitReturn, Woken, thread
  <2>3. PipeInv'
    BY <1>10 DEF PipeInv, CommitReturn, Woken, thread
  <2>4. WaitInv'
    BY <1>10 DEF WaitInv, CommitReturn, Woken, thread
  <2>5. BarrierInv'
    BY <1>10 DEF BarrierInv, Gone, CommitReturn, Woken, thread
  <2> QED
    BY <2>2, <2>3, <2>4, <2>5
<1>11. CASE ReleaseSignalled
  <2>2. TypeOK'
    BY <1>11, PollThreadAssumption DEF TypeOK, ReleaseSignalled, Woken, thread
  <2>3. PipeInv'
    BY <1>11 DEF PipeInv, ReleaseSignalled, Woken, thread
  <2>4. WaitInv'
    BY <1>11 DEF WaitInv, ReleaseSignalled, Woken, thread
  <2>5. BarrierInv'
    BY <1>11 DEF BarrierInv, Gone, ReleaseSignalled, Woken, thread
  <2> QED
    BY <2>2, <2>3, <2>4, <2>5
<1>12. CASE ReleaseJoin
  <2>1. pipe' \in Seq(Commands) /\ Len(pipe') <= MaxPipe
    BY <1>12, EmptyPipe DEF ReleaseJoin
  <2>2. TypeOK'
    BY <2>1, <1>12, PollThreadAssumption DEF TypeOK, ReleaseJoin
  <2>3. PipeInv'
    BY <1>12 DEF PipeInv, ReleaseJoin
  <2>4. WaitInv'
    BY <1>12 DEF WaitInv, Waiting, ReleaseJoin
  <2>5. BarrierInv'
    BY <1>12 DEF BarrierInv, Gone, ReleaseJoin
  <2> QED
    BY <2>2, <2>3, <2>4, <2>5
<1>13. ASSUME NEW f \in Fds, AddPollFd(f) PROVE IInv'
  <2>2. TypeOK'
    BY <1>13, PollThreadAssumption DEF TypeOK, Waiting, AddPollFd, thread, control
  <2>3. PipeInv'
    BY <1>13 DEF PipeInv, AddPollFd, Running, thread, control
  <2>4. WaitInv'
    BY <1>13 DEF WaitInv, AddPollFd, Running, thread, control
  <2>5. BarrierInv'
    BY <1>13 DEF TypeOK, BarrierInv, Gone, AddPollFd, Running, thread, control
  <2> QED
    BY <2>2, <2>3, <2>4, <2>5
<1>14. ASSUME NEW f \in Fds, DelPollFd(f) PROVE IInv'
  <2>2. TypeOK'
    BY <1>14, PollThreadAssumption DEF TypeOK, Waiting, DelPollFd, thread, control
  <2>3. PipeInv'
    BY <1>14 DEF PipeInv, DelPollFd, Running, thread, control
  <2>4. WaitInv'
    BY <1>14 DEF WaitInv, DelPollFd, Running, thread, control
  <2>5. BarrierInv'
    BY <1>14 DEF BarrierInv, Gone, DelPollFd, Running, thread, control
  <2> QED
    BY <2>2, <2>3, <2>4, <2>5
<1>15. ASSUME NEW f \in Fds, AsyncSig(f) PROVE IInv'
  <2>1. /\ pipe' \in Seq(Commands) /\ Len(pipe') <= MaxPipe
        /\ Len(pipe') = Len(pipe) + 1
        /\ pipe'[Len(pipe) + 1] = "UPDATED_ASYNC"
        /\ \A i \in 1..Len(pipe) : pipe'[i] = pipe[i]
    BY <1>15, Sent DEF TypeOK, Commands, AsyncSig, poll_sig_async
  <2>2. TypeOK'
    BY <2>1, <1>15, PollThreadAssumption DEF TypeOK, AsyncSig, poll_sig_async,
       thread, control
  <2>3. PipeInv'
    BY <2>1, <1>15 DEF PipeInv, Sync, WaitFor, AsyncSig, poll_sig_async, thread,
       control
  <2>4. WaitInv'
    BY <2>1, <1>15 DEF WaitInv, AsyncSig, poll_sig_async, thread, control
  <2>5. BarrierInv'
    BY <2>1, <1>15 DEF BarrierInv, Gone, AsyncSig, poll_sig_async, thread, control
  <2> QED
    BY <2>2, <2>3, <2>4, <2>5
<1>16. CASE ThreadStart
  <2>2. TypeOK'
    BY <1>16, PollThreadAssumption DEF TypeOK, ThreadStart, poll_sig_done
  <2>3. PipeInv'
    BY <1>16 DEF PipeInv, WaitInv, Sync, WaitFor, Waiting, ThreadStart,
       poll_sig_done
  <2>4. WaitInv'
    BY <1>16 DEF WaitInv, ThreadStart, poll_sig_done
  <2>5. BarrierInv'
    BY <1>16 DEF BarrierInv, Gone, WaitInv, Waiting, ThreadStart, poll_sig_done
  <2> QED
    BY <2>2, <2>3, <2>4, <2>5
<1>17. CASE ThreadSetState
  <2>2. TypeOK'
    BY <1>17, PollThreadAssumption DEF TypeOK, ThreadSetState, control
  <2>3. PipeInv'
    BY <1>17 DEF PipeInv, ThreadSetState, control
  <2>4. WaitInv'
    BY <1>17 DEF WaitInv, ThreadSetState, control
  <2>5. BarrierInv'
    BY <1>17 DEF BarrierInv, Gone, ThreadSetState, control
  <2> QED
    BY <2>2, <2>3, <2>4, <2>5
<1>18. CASE ProcUpdated
  <2>1. /\ pipe' \in Seq(Commands) /\ Len(pipe') <= MaxPipe
        /\ Head(pipe) = pipe[1] /\ Head(pipe) \in Commands
        /\ 1 \in 1..Len(pipe)
        /\ Len(pipe') = Len(pipe) - 1
        /\ \A i \in 1..Len(pipe') : pipe'[i] = pipe[i + 1] /\ i + 1 \in 1..Len(pipe)
    BY <1>18, Read DEF TypeOK, ProcUpdated
  <2>2. TypeOK'
    BY <2>1, <1>18, PollThreadAssumption DEF TypeOK, ProcUpdated, poll_sig_done
  <2>3. PipeInv'
    BY <2>1, <1>18 DEF PipeInv, Sync, WaitFor, ProcUpdated, poll_sig_done
  <2>4. WaitInv'
    BY <2>1, <1>18 DEF WaitInv, ProcUpdated, poll_sig_done
  <2>5. BarrierInv'
    BY <2>1, <1>18, PollThreadAssumption DEF TypeOK, BarrierInv, Gone, ProcUpdated,
       poll_sig_done
  <2> QED
    BY <2>2, <2>3, <2>4, <2>5
<1>19. CASE ProcCommit
  <2>1. /\ pipe' \in Seq(Commands) /\ Len(pipe') <= MaxPipe
        /\ Head(pipe) = pipe[1] /\ Head(pipe) \in Commands
        /\ 1 \in 1..Len(pipe)
        /\ Len(pipe') = Len(pipe) - 1
        /\ \A i \in 1..Len(pipe') : pipe'[i] = pipe[i + 1] /\ i + 1 \in 1..Len(pipe)
    BY <1>19, Read DEF TypeOK, ProcCommit
  <2>2. TypeOK'
    BY <2>1, <1>19, PollThreadAssumption DEF TypeOK, ProcCommit, poll_sig_done,
       thread
  <2>3. PipeInv'
    BY <2>1, <1>19 DEF PipeInv, Sync, WaitFor, ProcCommit, poll_sig_done, thread
  <2>4. WaitInv'
    BY <2>1, <1>19 DEF WaitInv, ProcCommit, poll_sig_done, thread
  <2>5. BarrierInv'
    BY <2>1, <1>19 DEF PipeInv, BarrierInv, Gone, Sync, WaitFor, ProcCommit,
       poll_sig_done, thread
  <2> QED
    BY <2>2, <2>3, <2>4, <2>5
<1>20. CASE ProcExit
  <2>1. /\ pipe' \in Seq(Commands) /\ Len(pipe') <= MaxPipe
        /\ Head(pipe) = pipe[1] /\ Head(pipe) \in Commands
        /\ 1 \in 1..Len(pipe)
        /\ Len(pipe') = Len(pipe) - 1
        /\ \A i \in 1..Len(pipe') : pipe'[i] = pipe[i + 1] /\ i + 1 \in 1..Len(pipe)
    BY <1>20, Read DEF TypeOK, ProcExit
  <2>2. TypeOK'
    BY <2>1, <1>20, PollThreadAssumption DEF TypeOK, ProcExit, poll_sig_done
  <2>3. PipeInv'
    BY <2>1, <1>20 DEF PipeInv, Sync, WaitFor, ProcExit, poll_sig_done
  <2>4. WaitInv'
    BY <2>1, <1>20 DEF WaitInv, ProcExit, poll_sig_done
  <2>5. BarrierInv'
    BY <2>1, <1>20 DEF PipeInv, BarrierInv, Gone, Sync, WaitFor, ProcExit,
       poll_sig_done
  <2> QED
    BY <2>2, <2>3, <2>4, <2>5
<1>21. CASE PollReturns
  <2>2. TypeOK'
    BY <1>21, PollThreadAssumption DEF TypeOK, PollReturns, control
  <2>3. PipeInv'
    BY <1>21 DEF PipeInv, PollReturns, control
  <2>4. WaitInv'
    BY <1>21 DEF WaitInv, PollReturns, control
  <2>5. BarrierInv'
    BY <1>21 DEF BarrierInv, Gone, PollReturns, control
  <2> QED
    BY <2>2, <2>3, <2>4, <2>5
<1>22. CASE ScanCallback
  <2>2. TypeOK'
    BY <1>22, PollThreadAssumption DEF TypeOK, ScanCallback, control
  <2>3. PipeInv'
    BY <1>22 DEF PipeInv, ScanCallback, control
  <2>4. WaitInv'
    BY <1>22 DEF WaitInv, ScanCallback, control
  <2>5. BarrierInv'
    BY <1>22 DEF BarrierInv, Gone, ScanCallback, control
  <2> QED
    BY <2>2, <2>3, <2>4, <2>5
<1>23. CASE CallbackReturn
  <2>2. TypeOK'
    BY <1>23, PollThreadAssumption DEF TypeOK, CallbackReturn, control
  <2>3. PipeInv'
    BY <1>23 DEF PipeInv, CallbackReturn, control
  <2>4. WaitInv'
    BY <1>23 DEF WaitInv, CallbackReturn, control
  <2>5. BarrierInv'
    BY <1>23, PollThreadAssumption DEF BarrierInv, Gone, CallbackReturn, control
  <2> QED
    BY <2>2, <2>3, <2>4, <2>5
<1>24. CASE ScanEnd
  <2>2. TypeOK'
    BY <1>24, PollThreadAssumption DEF TypeOK, ScanEnd, control
  <2>3. PipeInv'
    BY <1>24 DEF PipeInv, ScanEnd, control
  <2>4. WaitInv'
    BY <1>24 DEF WaitInv, ScanEnd, control
  <2>5. BarrierInv'
    BY <1>24 DEF BarrierInv, Gone, ScanEnd, control
  <2> QED
    BY <2>2, <2>3, <2>4, <2>5
<1>25. CASE UNCHANGED vars
  BY <1>25 DEF TypeOK, PipeInv, WaitInv, BarrierInv, Gone, vars
<1> QED
  BY <1>1, <1>2, <1>3, <1>4, <1>5, <1>5a, <1>6, <1>7, <1>8, <1>9, <1>10, <1>11, <1>12,
     <1>13, <1>14, <1>15, <1>16, <1>17, <1>18, <1>19, <1>20, <1>21, <1>22, <1>23,
     <1>24, <1>25
     DEF Next, CtlCall, CtlReturn, PollStep, PollLoop

THEOREM Invariance ==
  ASSUME ~SpuriousWakeUps
  PROVE  Spec => []IInv
<1>1. Init => IInv
  BY InitInv
<1>2. IInv /\ [Next]_vars => IInv'
  BY StepInv
<1> QED
  BY <1>1, <1>2, PTL DEF Spec

-----------------------------------------------------------------------------
\* The variables of the poll thread keep their types, and between two scans no
\* callback is left over (mm_camera_poll_fn() finishes what poll() returned).
THEOREM TypeCorrect ==
  ASSUME ~SpuriousWakeUps
  PROVE  Spec => []TypeOK
<1>1. IInv => TypeOK
  BY DEF IInv
<1>2. Spec => []IInv
  BY Invariance
<1> QED
  BY <1>1, <1>2, PTL

\* mm_camera_poll_thread_del_poll_fd(), called synchronously for a registered
\* descriptor, returns only when its callback neither runs nor will run.
THEOREM SyncDelete ==
  ASSUME ~SpuriousWakeUps
  PROVE  Spec => []SyncDelIsBarrier
<1>1. IInv => SyncDelIsBarrier
  BY DEF IInv, BarrierInv, Gone, SyncDelIsBarrier
<1>2. Spec => []IInv
  BY Invariance
<1> QED
  BY <1>1, <1>2, PTL

\* mm_camera_poll_sig() does not return before its own command has been read,
\* whatever asynchronous callers do to status in the meantime.
THEOREM SyncCommand ==
  ASSUME ~SpuriousWakeUps
  PROVE  Spec => SyncCommandConsumed
<1> DEFINE Consumed == \A cmd \in {"UPDATED", "COMMIT", "EXIT"} :
              cpc \in Waiting /\ cpc' \notin Waiting => ~Contains(pipe, cmd)
<1>1. IInv /\ [Next]_vars => [Consumed]_vars
  <2> SUFFICES ASSUME IInv, Next, cpc \in Waiting, cpc' \notin Waiting,
                      NEW cmd \in {"UPDATED", "COMMIT", "EXIT"}
               PROVE  ~Contains(pipe, cmd)
    OBVIOUS
  <2>1. signalled
    BY DEF Next, CtlCall, CtlReturn, PollStep, PollLoop, Launch, Commit, ReleaseNotRunning,
       ReleaseExit, StreamOff, StreamOffDeleted, AddPollFdSync, LaunchReturn, UpdateSig, UpdateReturn,
       CommitReturn, ReleaseSignalled, ReleaseJoin, AddPollFd, DelPollFd, AsyncSig, ThreadStart,
       ThreadSetState, ProcUpdated, ProcCommit, ProcExit, PollReturns, ScanCallback,
       CallbackReturn, ScanEnd, Woken, Waiting, control, thread
  <2> QED
    BY <2>1 DEF IInv, PipeInv, Sync, Contains
<1>2. Spec => []IInv
  BY Invariance
<1> QED
  BY <1>1, <1>2, PTL DEF Spec, SyncCommandConsumed

=============================================================================
