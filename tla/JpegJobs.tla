------------------------------ MODULE JpegJobs ------------------------------
(***************************************************************************)
(* The job manager of the JPEG encoder (mm_jpeg.c, with one job encoded at *)
(* a time as this board is built): the job queue, the job manager thread,  *)
(* sessions with their OMX component, and the calls of the HAL that        *)
(* create a session, start and abort jobs and destroy it.                  *)
(*                                                                         *)
(* The OMX component is external. It is modelled by what mm_jpeg.c asks of *)
(* it: it makes the state changes it is told, one after the other, and     *)
(* calls back from a thread of its own. It says of each job it takes, once,*)
(* that it is done or failed, unless it is told to leave Executing first,  *)
(* and does not call back any more once OMX_FreeHandle returned. That      *)
(* OMX_SendCommand fails outright in an abort is left out (it returns with *)
(* the job encoded on, and the next event is taken for the abort's own).   *)
(*                                                                         *)
(* Each session belongs to one HAL thread (the data process thread of a    *)
(* camera's post processor), which stops as QCameraPostProcessor does: it  *)
(* aborts the jobs it has no answer for, then destroys the session.        *)
(***************************************************************************)
EXTENDS Integers, Sequences, SequencesExt, FiniteSets

CONSTANTS
    Sessions,           \* one per camera that takes pictures
    mgr,                \* the job manager thread
    MaxJobs,            \* bound: jobs started
    MaxLives,           \* bound: times a session is created
    Fallible,           \* bound: sessions whose component may fail
    MaxFaults,          \* bound: failures of components
    NULL

ASSUME JpegConstants ==
    /\ IsFiniteSet(Sessions) /\ mgr \notin Sessions /\ NULL \notin Sessions \cup {mgr}
    /\ MaxJobs \in Nat /\ MaxLives \in Nat /\ MaxFaults \in Nat /\ Fallible \subseteq Sessions

Limit == 1              \* MM_JPEG_CONCURRENT_SESSIONS_COUNT

VARIABLES
    jobs,               \* every job started so far
    todo,               \* job_mgr.job_queue
    ongoing,            \* ongoing_job_q
    sem,                \* job_sem
    intf,               \* holder of g_intf_lock
    jobLock,            \* holder of job_lock
    ses,                \* the sessions
    inprogress,         \* p_session_inprogress
    omx,                \* the OMX component of each session
    move,               \* the state change that the holder of job_lock waits for
    manager,            \* the job manager thread
    hal,                \* the HAL thread of each session
    faults

queues == <<jobs, todo, ongoing, sem>>
locks == <<intf, jobLock>>
vars == <<queues, locks, ses, inprogress, omx, move, manager, hal, faults>>

Session ==
    [active |-> FALSE, abort |-> "none", encoding |-> FALSE, config |-> FALSE,
     pending |-> FALSE,  \* state_change_pending
     err |-> FALSE,      \* error_flag
     lock |-> FALSE,     \* held across steps by a callback
     avail |-> 0,        \* times the session is in session_handle_q
     job |-> 0]          \* jobId
Component ==
    [state |-> "Loaded", bufs |-> FALSE, busy |-> FALSE,
     cmds |-> <<>>,      \* state changes it was told to make
     at |-> "idle",      \* what its thread is about to do
     failed |-> FALSE]   \* this component failed at something
NoMove == [s |-> NULL, to |-> "Loaded", exec |-> "none", at |-> "off"]

Init ==
    /\ jobs = <<>> /\ todo = <<>> /\ ongoing = {} /\ sem = 0
    /\ intf = NULL /\ jobLock = NULL /\ inprogress = NULL
    /\ ses = [s \in Sessions |-> Session] /\ omx = [s \in Sessions |-> Component]
    /\ move = NoMove /\ manager = [pc |-> "wait", job |-> 0]
    /\ hal = [s \in Sessions |-> [pc |-> "closed", job |-> 0, left |-> {}, lives |-> 0]]
    /\ faults = 0

JobIds == 1..Len(jobs)
JobsOf(s) == {j \in JobIds : jobs[j].s = s}

MayFail(s) == s \in Fallible /\ faults < MaxFaults /\ faults' = faults + 1
Fault(s) == MayFail(s) /\ omx' = [omx EXCEPT ![s].failed = TRUE]

(***************************************************************************)
(* mm_jpeg_session_change_state, by the holder of job_lock: send, look at  *)
(* error_flag, pass or take back the buffers, wait once.                   *)
(***************************************************************************)
Move(s, to, exec) == [s |-> s, to |-> to, exec |-> exec, at |-> "send"]
Moving(s, to, exec) == move' = Move(s, to, exec)
Moved == move.at \in {"ok", "failed"}
Answer(a) == move' = [move EXCEPT !.at = a]

MoveSend ==
    /\ move.at = "send" /\ ~ses[move.s].lock
    /\ IF omx[move.s].state = move.to
       THEN Answer("ok") /\ UNCHANGED <<ses, omx, faults>>
       ELSE /\ ses' = [ses EXCEPT ![move.s].pending = TRUE]
            /\ \/ /\ omx' = [omx EXCEPT ![move.s].cmds = Append(@, move.to)]
                  /\ Answer("check") /\ UNCHANGED faults
               \/ Fault(move.s) /\ Answer("failed")
    /\ UNCHANGED <<queues, locks, inprogress, manager, hal>>

MoveCheck ==
    /\ move.at = "check" /\ ~ses[move.s].lock
    /\ IF ses[move.s].err
       THEN Answer("failed") /\ UNCHANGED omx
       ELSE /\ omx' = [omx EXCEPT ![move.s].bufs =
                         IF move.exec = "none" THEN @ ELSE move.exec = "send"]
            /\ Answer(IF ses[move.s].pending THEN "wait" ELSE "ok")
    /\ UNCHANGED <<queues, locks, ses, inprogress, manager, hal, faults>>

\* pthread_cond_wait has the session's lock again
MoveWake ==
    /\ move.at = "woken" /\ ~ses[move.s].lock
    /\ Answer("ok")
    /\ UNCHANGED <<queues, locks, ses, inprogress, omx, manager, hal, faults>>

(***************************************************************************)
(* The component and its callbacks.                                        *)
(***************************************************************************)
\* One state change is made, or refused; one to the state it is in may be either.
Change(s) ==
    /\ omx[s].at = "idle" /\ omx[s].cmds # <<>>
    /\ LET to == Head(omx[s].cmds)
           next == [omx[s] EXCEPT !.cmds = Tail(@)]
       IN  \/ /\ to = "Idle" => omx[s].state # "Loaded" \/ omx[s].bufs
              /\ to = "Loaded" => omx[s].state # "Executing" /\ ~omx[s].bufs
              /\ to = "Executing" => omx[s].state # "Loaded"
              /\ omx' = [omx EXCEPT ![s] = [next EXCEPT
                           !.state = to, !.busy = @ /\ to = "Executing", !.at = "complete"]]
              /\ UNCHANGED faults
           \/ /\ omx[s].state = to
              /\ omx' = [omx EXCEPT ![s] = [next EXCEPT !.at = "error"]] /\ UNCHANGED faults
           \/ /\ MayFail(s)
              /\ omx' = [omx EXCEPT ![s] = [next EXCEPT !.at = "error", !.failed = TRUE]]
    /\ UNCHANGED <<queues, locks, ses, inprogress, move, manager, hal>>

Encoded(s) ==
    /\ omx[s].at = "idle" /\ omx[s].busy
    /\ \/ omx' = [omx EXCEPT ![s].busy = FALSE, ![s].at = "filled"] /\ UNCHANGED faults
       \/ /\ MayFail(s)
          /\ omx' = [omx EXCEPT ![s].busy = FALSE, ![s].at = "error", ![s].failed = TRUE]
    /\ UNCHANGED <<queues, locks, ses, inprogress, move, manager, hal>>

\* pthread_cond_signal: whoever waits on the session's condition goes on.
Signal(s) ==
    /\ move' = IF move.s = s /\ move.at = "wait" THEN [move EXCEPT !.at = "woken"] ELSE move
    /\ hal' = IF hal[s].pc = "aborting" THEN [hal EXCEPT ![s].pc = "aborted"] ELSE hal

\* jpeg_cb; the answer is an error or not, and the fault its own or not.
CallBack(j, status) == jobs' = [jobs EXCEPT ![j].cbs = @ + 1, ![j].status = status]

\* MUTANT: abort_state is looked at after the callback.
fbd_CallsFirst(s) ==
    /\ omx[s].at = "filled" /\ ~ses[s].lock
    /\ CallBack(ses[s].job, "done")
    /\ ses' = [ses EXCEPT ![s].lock = ses[s].abort = "none"]
    /\ omx' = [omx EXCEPT ![s].at = IF ses[s].abort = "none" THEN "remove" ELSE "idle"]
    /\ UNCHANGED <<todo, ongoing, sem, locks, inprogress, move, manager, hal, faults>>

fbd(s) ==
    /\ omx[s].at = "filled" /\ ~ses[s].lock
    /\ IF ses[s].abort # "none"
       THEN omx' = [omx EXCEPT ![s].at = "idle"] /\ UNCHANGED <<jobs, ses>>
       ELSE /\ CallBack(ses[s].job, "done")
            /\ ses' = [ses EXCEPT ![s].lock = TRUE]
            /\ omx' = [omx EXCEPT ![s].at = "remove"]
    /\ UNCHANGED <<todo, ongoing, sem, locks, inprogress, move, manager, hal, faults>>

AbortedBy(s) ==
    /\ ses' = [ses EXCEPT ![s].abort = "done"]
    /\ Signal(s) /\ omx' = [omx EXCEPT ![s].at = "idle"]
    /\ UNCHANGED jobs

\* MUTANT: an error is one of the encoding, whatever the session does.
EventError_Any(s) ==
    /\ omx[s].at = "error" /\ ~ses[s].lock
    /\ \/ ses[s].abort = "init" /\ AbortedBy(s)
       \/ /\ ses[s].abort # "init" /\ ses[s].job # 0
          /\ CallBack(ses[s].job, "error")
          /\ ses' = [ses EXCEPT ![s].err = TRUE, ![s].lock = TRUE]
          /\ omx' = [omx EXCEPT ![s].at = "remove"]
          /\ UNCHANGED <<move, hal>>
       \/ /\ ses[s].abort # "init" /\ ses[s].job = 0
          /\ ses' = [ses EXCEPT ![s].err = TRUE]
          /\ Signal(s) /\ omx' = [omx EXCEPT ![s].at = "idle"]
          /\ UNCHANGED jobs
    /\ UNCHANGED <<todo, ongoing, sem, locks, inprogress, manager, faults>>

EventError(s) ==
    /\ omx[s].at = "error" /\ ~ses[s].lock
    /\ \/ ses[s].abort = "init" /\ AbortedBy(s)
       \/ /\ ses[s].abort # "init" /\ ses[s].encoding
          /\ CallBack(ses[s].job, "error")
          /\ ses' = [ses EXCEPT ![s].err = TRUE, ![s].lock = TRUE]
          /\ omx' = [omx EXCEPT ![s].at = "remove"]
          /\ UNCHANGED <<move, hal>>
       \/ /\ ses[s].abort # "init" /\ ~ses[s].encoding
          /\ ses' = [ses EXCEPT ![s].err = TRUE]
          /\ Signal(s) /\ omx' = [omx EXCEPT ![s].at = "idle"]
          /\ UNCHANGED jobs
    /\ UNCHANGED <<todo, ongoing, sem, locks, inprogress, manager, faults>>

EventComplete(s) ==
    /\ omx[s].at = "complete" /\ ~ses[s].lock
    /\ \/ ses[s].abort = "init" /\ AbortedBy(s)
       \/ /\ ses[s].abort # "init"
          /\ ses' = [ses EXCEPT ![s].pending = FALSE]
          /\ IF ses[s].pending THEN Signal(s) ELSE UNCHANGED <<move, hal>>
          /\ omx' = [omx EXCEPT ![s].at = "idle"] /\ UNCHANGED jobs
    /\ UNCHANGED <<todo, ongoing, sem, locks, inprogress, manager, faults>>

\* mm_jpegenc_job_done: the job leaves ongoing_job_q, ...
JobRemove(s) ==
    /\ omx[s].at = "remove"
    /\ ongoing' = ongoing \ {ses[s].job}
    /\ omx' = [omx EXCEPT ![s].at = "giveback"]
    /\ UNCHANGED <<jobs, todo, sem, locks, ses, inprogress, move, manager, hal, faults>>
\* MUTANT: the end of a job does not wake the manager.
JobGiveBack_NoPost(s) ==
    /\ omx[s].at = "giveback"
    /\ ses' = [ses EXCEPT ![s].encoding = FALSE, ![s].avail = @ + 1, ![s].lock = FALSE]
    /\ Signal(s) /\ omx' = [omx EXCEPT ![s].at = "idle"]
    /\ UNCHANGED <<jobs, todo, ongoing, sem, locks, inprogress, manager, faults>>

\* ... the session is available again, and the manager is woken.
JobGiveBack(s) ==
    /\ omx[s].at = "giveback"
    /\ ses' = [ses EXCEPT ![s].encoding = FALSE, ![s].avail = @ + 1, ![s].lock = FALSE]
    /\ sem' = sem + 1
    /\ Signal(s) /\ omx' = [omx EXCEPT ![s].at = "idle"]
    /\ UNCHANGED <<jobs, todo, ongoing, locks, inprogress, manager, faults>>

(***************************************************************************)
(* The job manager thread, mm_jpeg_jobmgr_thread.                          *)
(***************************************************************************)
Job == manager.job
Serving == jobs[Job].s
Go(pc) == manager' = [manager EXCEPT !.pc = pc]
Waits == manager' = [pc |-> "wait", job |-> 0]

\* MUTANT: a wait that failed is taken for a token.
MgrWait_NoWait ==
    /\ manager.pc = "wait"
    /\ sem' = sem - 1 /\ Go("check")
    /\ UNCHANGED <<jobs, todo, ongoing, locks, ses, inprogress, omx, move, hal, faults>>

MgrWait ==
    /\ manager.pc = "wait" /\ sem > 0
    /\ sem' = sem - 1 /\ Go("check")
    /\ UNCHANGED <<jobs, todo, ongoing, locks, ses, inprogress, omx, move, hal, faults>>
\* At the limit the token is spent: the end of a job posts another.
MgrCheck ==
    /\ manager.pc = "check"
    /\ Go(IF Cardinality(ongoing) >= Limit THEN "wait" ELSE "lock")
    /\ UNCHANGED <<queues, locks, ses, inprogress, omx, move, hal, faults>>

Available == todo # <<>> /\ ses[jobs[Head(todo)].s].avail > 0
\* MUTANT: a job without an available session is not put back.
MgrTake_Drops ==
    /\ manager.pc = "lock" /\ jobLock = NULL
    /\ \/ /\ ~Available
          /\ Waits /\ todo' = SubSeq(todo, 2, Len(todo)) /\ UNCHANGED <<ongoing, jobLock, ses>>
       \/ /\ Available
          /\ todo' = Tail(todo) /\ ongoing' = ongoing \cup {Head(todo)}
          /\ jobLock' = mgr
          /\ ses' = [ses EXCEPT ![jobs[Head(todo)].s].avail = @ - 1,
                                ![jobs[Head(todo)].s].job = Head(todo)]
          /\ manager' = [pc |-> "encode", job |-> Head(todo)]
    /\ UNCHANGED <<jobs, sem, intf, inprogress, omx, move, hal, faults>>
\* MUTANT: the session is looked at and not taken off the queue.
MgrTake_Peeks ==
    /\ manager.pc = "lock" /\ jobLock = NULL
    /\ \/ /\ ~Available
          /\ Waits /\ UNCHANGED <<todo, ongoing, jobLock, ses>>
       \/ /\ Available
          /\ todo' = Tail(todo) /\ ongoing' = ongoing \cup {Head(todo)}
          /\ jobLock' = mgr
          /\ ses' = [ses EXCEPT ![jobs[Head(todo)].s].job = Head(todo)]
          /\ manager' = [pc |-> "encode", job |-> Head(todo)]
    /\ UNCHANGED <<jobs, sem, intf, inprogress, omx, move, hal, faults>>

\* mm_jpeg_process_encoding_job. Without an available session the job is put
\* back at the head.
MgrTake ==
    /\ manager.pc = "lock" /\ jobLock = NULL
    /\ \/ /\ ~Available
          /\ Waits /\ UNCHANGED <<todo, ongoing, jobLock, ses>>
       \/ /\ Available
          /\ todo' = Tail(todo) /\ ongoing' = ongoing \cup {Head(todo)}
          /\ jobLock' = mgr
          /\ ses' = [ses EXCEPT ![jobs[Head(todo)].s].avail = @ - 1,
                                ![jobs[Head(todo)].s].job = Head(todo)]
          /\ manager' = [pc |-> "encode", job |-> Head(todo)]
    /\ UNCHANGED <<jobs, sem, intf, inprogress, omx, move, hal, faults>>

\* mm_jpeg_session_encode: a session that is not configured takes the place of
\* the one in progress, which leaves Executing, then Idle.
Encode ==
    /\ manager.pc = "encode" /\ ~ses[Serving].lock
    /\ ses' = [ses EXCEPT ![Serving].abort = "none", ![Serving].encoding = FALSE]
    /\ Go(IF ses[Serving].config THEN "params"
          ELSE IF inprogress # NULL THEN "unload" ELSE "configure")
    /\ move' = IF ses[Serving].config \/ inprogress = NULL THEN NoMove
               ELSE IF omx[inprogress].state = "Executing" THEN Move(inprogress, "Idle", "none")
               ELSE [NoMove EXCEPT !.at = "ok"]
    /\ UNCHANGED <<queues, locks, inprogress, omx, hal, faults>>
Unload ==
    /\ manager.pc = "unload" /\ Moved
    /\ IF move.at = "failed" THEN Go("error") /\ move' = NoMove
       ELSE /\ Go("unloaded")
            /\ IF omx[inprogress].state = "Idle"
               THEN Moving(inprogress, "Loaded", "free") ELSE UNCHANGED move
    /\ UNCHANGED <<queues, locks, ses, inprogress, omx, hal, faults>>
\* MUTANT: the session that lost its place stays configured.
Unloaded_Keeps ==
    /\ manager.pc = "unloaded" /\ Moved
    /\ move' = NoMove
    /\ IF move.at = "failed" THEN Go("error") /\ UNCHANGED inprogress
       ELSE inprogress' = NULL /\ Go("configure")
    /\ UNCHANGED <<queues, locks, ses, omx, hal, faults>>

Unloaded ==
    /\ manager.pc = "unloaded" /\ Moved
    /\ move' = NoMove
    /\ IF move.at = "failed" THEN Go("error") /\ UNCHANGED <<ses, inprogress>>
       ELSE /\ ses' = [ses EXCEPT ![inprogress].config = FALSE]
            /\ inprogress' = NULL /\ Go("configure")
    /\ UNCHANGED <<queues, locks, omx, hal, faults>>
\* mm_jpeg_session_configure. config_main may fail.
Configure ==
    /\ manager.pc = "configure"
    /\ \/ Moving(Serving, "Idle", "send") /\ Go("execute") /\ UNCHANGED <<omx, faults>>
       \/ Fault(Serving) /\ Go("error") /\ UNCHANGED move
    /\ UNCHANGED <<queues, locks, ses, inprogress, hal>>
Execute ==
    /\ manager.pc = "execute" /\ Moved
    /\ IF move.at = "ok" THEN Moving(Serving, "Executing", "none") /\ Go("configured")
                         ELSE move' = NoMove /\ Go("error")
    /\ UNCHANGED <<queues, locks, ses, inprogress, omx, hal, faults>>
Configured ==
    /\ manager.pc = "configured" /\ Moved
    /\ move' = NoMove
    /\ IF move.at = "failed" THEN Go("error") /\ UNCHANGED <<ses, inprogress>>
       ELSE /\ ses' = [ses EXCEPT ![Serving].config = TRUE]
            /\ inprogress' = Serving /\ Go("params")
    /\ UNCHANGED <<queues, locks, omx, hal, faults>>
\* mm_jpeg_configure_job_params, then the session encodes.
JobParams ==
    /\ manager.pc = "params" /\ ~ses[Serving].lock
    /\ \/ /\ ses' = [ses EXCEPT ![Serving].encoding = TRUE] /\ Go("feed")
          /\ UNCHANGED <<omx, faults>>
       \/ Fault(Serving) /\ Go("error") /\ UNCHANGED ses
    /\ UNCHANGED <<queues, locks, inprogress, move, hal>>
\* OMX_EmptyThisBuffer and OMX_FillThisBuffer: the component takes the job.
Feed ==
    /\ manager.pc = "feed"
    /\ \/ /\ omx[Serving].state = "Executing"
          /\ omx' = [omx EXCEPT ![Serving].busy = TRUE]
          /\ Waits /\ jobLock' = NULL /\ UNCHANGED faults
       \/ /\ omx[Serving].state # "Executing"
          /\ Go("error") /\ UNCHANGED <<omx, jobLock, faults>>
       \/ Fault(Serving) /\ Go("error") /\ UNCHANGED jobLock
    /\ UNCHANGED <<queues, intf, ses, inprogress, move, hal>>

JobError ==
    /\ manager.pc = "error"
    /\ CallBack(Job, "error") /\ Go("done")
    /\ UNCHANGED <<todo, ongoing, sem, locks, ses, inprogress, omx, move, hal, faults>>
JobErrorDone ==
    /\ manager.pc = "done"
    /\ ongoing' = ongoing \ {Job}
    /\ ses' = [ses EXCEPT ![Serving].encoding = FALSE, ![Serving].avail = @ + 1]
    /\ sem' = sem + 1 /\ Waits /\ jobLock' = NULL
    /\ UNCHANGED <<jobs, todo, intf, inprogress, omx, move, hal, faults>>

Manager ==
    \/ MgrWait \/ MgrCheck \/ MgrTake \/ Encode \/ Unload \/ Unloaded
    \/ Configure \/ Execute \/ Configured \/ JobParams \/ Feed \/ JobError \/ JobErrorDone

(***************************************************************************)
(* The HAL thread of session s.                                            *)
(***************************************************************************)
At(s, pc) == hal[s].pc = pc
Goto(s, pc) == hal' = [hal EXCEPT ![s].pc = pc]
NewLife(s, pc) == hal' = [hal EXCEPT ![s].pc = pc, ![s].lives = @ + 1]

\* mm_jpeg_create_session. It configures the session if none is in progress;
\* config_main may fail.
Create(s) ==
    /\ At(s, "closed") /\ hal[s].lives < MaxLives /\ intf = NULL /\ jobLock = NULL
    /\ ses' = [ses EXCEPT ![s] = [Session EXCEPT !.active = TRUE, !.avail = 1]]
    /\ \/ /\ inprogress # NULL /\ NewLife(s, "open")
          /\ UNCHANGED <<locks, omx, move, faults>>
       \/ /\ inprogress = NULL /\ Moving(s, "Idle", "send")
          /\ intf' = s /\ jobLock' = s
          /\ NewLife(s, "create execute") /\ UNCHANGED <<omx, faults>>
       \/ /\ inprogress = NULL /\ Fault(s)
          /\ NewLife(s, "unusable") /\ UNCHANGED <<locks, move>>
    /\ UNCHANGED <<queues, inprogress, manager>>
CreateExecute(s) ==
    /\ At(s, "create execute") /\ Moved
    /\ IF move.at = "ok"
       THEN /\ Moving(s, "Executing", "none") /\ Goto(s, "created")
            /\ UNCHANGED <<intf, jobLock>>
       ELSE /\ move' = NoMove /\ Goto(s, "unusable")
            /\ intf' = NULL /\ jobLock' = NULL
    /\ UNCHANGED <<queues, ses, inprogress, omx, manager, faults>>
Created(s) ==
    /\ At(s, "created") /\ Moved
    /\ move' = NoMove /\ intf' = NULL /\ jobLock' = NULL
    /\ IF move.at = "ok"
       THEN /\ ses' = [ses EXCEPT ![s].config = TRUE] /\ inprogress' = s
            /\ Goto(s, "open")
       ELSE Goto(s, "unusable") /\ UNCHANGED <<ses, inprogress>>
    /\ UNCHANGED <<queues, omx, manager, faults>>

\* mm_jpeg_start_job.
StartJob(s) ==
    /\ At(s, "open") /\ intf = NULL /\ Len(jobs) < MaxJobs
    /\ ses[s].active
    /\ jobs' = Append(jobs, [s |-> s, cbs |-> 0, status |-> "none", over |-> FALSE])
    /\ todo' = Append(todo, Len(jobs) + 1) /\ sem' = sem + 1
    /\ UNCHANGED <<ongoing, locks, ses, inprogress, omx, move, manager, hal, faults>>

\* The post processor stops: abort what is in its queue of ongoing jobs. An
\* answered job may still be there.
Stop(s) ==
    /\ At(s, "open") \/ At(s, "unusable")
    /\ \E answered \in SUBSET {j \in JobsOf(s) : ~jobs[j].over /\ jobs[j].cbs > 0} :
         hal' = [hal EXCEPT ![s].pc = "stop", ![s].left =
                    answered \cup {j \in JobsOf(s) : ~jobs[j].over /\ jobs[j].cbs = 0}]
    /\ UNCHANGED <<queues, locks, ses, inprogress, omx, move, manager, faults>>
NextAbort(s) ==
    /\ At(s, "stop") /\ hal[s].left # {} /\ intf = NULL
    /\ intf' = s
    /\ \E j \in hal[s].left :
         /\ \A k \in hal[s].left : j <= k
         /\ hal' = [hal EXCEPT ![s].pc = "abort job", ![s].job = j, ![s].left = @ \ {j}]
    /\ UNCHANGED <<queues, jobLock, ses, inprogress, omx, move, manager, faults>>

\* The call has returned: nothing more is to be heard of the jobs.
Over(js) == jobs' = [j \in JobIds |-> IF j \in js THEN [jobs[j] EXCEPT !.over = TRUE] ELSE jobs[j]]

\* What is left of a queue without the jobs js, in its order.
Without(queue, js) ==
    LET kept == {p \in 1..Len(queue) : queue[p] \notin js}
        at == CHOOSE f \in [1..Cardinality(kept) -> kept] :
                \A i, k \in 1..Cardinality(kept) : i < k => f[i] < f[k]
    IN  [i \in 1..Cardinality(kept) |-> queue[at[i]]]

\* mm_jpeg_abort_job.
AbortJob(s) ==
    /\ At(s, "abort job") /\ jobLock = NULL
    /\ LET j == hal[s].job
       IN  \/ /\ j \notin ongoing
              /\ todo' = Without(todo, {j})
              /\ Over({j}) /\ Goto(s, "stop") /\ intf' = NULL /\ UNCHANGED <<ongoing, jobLock>>
           \/ /\ j \in ongoing
              /\ ongoing' = ongoing \ {j} /\ jobLock' = s
              /\ Goto(s, "abort") /\ UNCHANGED <<jobs, todo, intf>>
    /\ UNCHANGED <<sem, ses, inprogress, omx, move, manager, faults>>
AbortJobEnd(s) ==
    /\ At(s, "abort end") /\ hal[s].job # 0
    /\ Over({hal[s].job}) /\ hal' = [hal EXCEPT ![s].pc = "stop", ![s].job = 0]
    /\ intf' = NULL /\ jobLock' = NULL
    /\ UNCHANGED <<todo, ongoing, sem, ses, inprogress, omx, move, manager, faults>>

\* mm_jpeg_session_abort.
Abort(s) ==
    /\ At(s, "abort") /\ ~ses[s].lock
    /\ IF ses[s].abort # "none" THEN Goto(s, "abort end") /\ UNCHANGED ses
       ELSE IF ses[s].encoding
            THEN /\ ses' = [ses EXCEPT ![s].abort = "init", ![s].pending = TRUE]
                 /\ Goto(s, "abort send")
            ELSE ses' = [ses EXCEPT ![s].abort = "done"] /\ Goto(s, "abort end")
    /\ UNCHANGED <<queues, locks, inprogress, omx, move, manager, faults>>
\* MUTANT: abort does not wait for the component.
AbortSend_NoWait(s) ==
    /\ At(s, "abort send")
    /\ omx' = [omx EXCEPT ![s].cmds = Append(@, "Idle")]
    /\ Goto(s, "abort end")
    /\ UNCHANGED <<queues, locks, ses, inprogress, move, manager, faults>>

AbortSend(s) ==
    /\ At(s, "abort send")
    /\ omx' = [omx EXCEPT ![s].cmds = Append(@, "Idle")]
    /\ Goto(s, "abort wait")
    /\ UNCHANGED <<queues, locks, ses, inprogress, move, manager, faults>>
\* MUTANT: abort waits for a signal that may have been given.
AbortWait_Always(s) ==
    /\ At(s, "abort wait") /\ ~ses[s].lock
    /\ Goto(s, "aborting")
    /\ UNCHANGED <<queues, locks, ses, inprogress, omx, move, manager, faults>>

AbortWait(s) ==
    /\ At(s, "abort wait") /\ ~ses[s].lock
    /\ IF ses[s].abort = "init" THEN Goto(s, "aborting") /\ UNCHANGED ses
       ELSE ses' = [ses EXCEPT ![s].abort = "done"] /\ Goto(s, "abort end")
    /\ UNCHANGED <<queues, locks, inprogress, omx, move, manager, faults>>
Aborted(s) ==
    /\ At(s, "aborted") /\ ~ses[s].lock
    /\ ses' = [ses EXCEPT ![s].abort = "done"] /\ Goto(s, "abort end")
    /\ UNCHANGED <<queues, locks, inprogress, omx, move, manager, faults>>

\* mm_jpeg_destroy_session.
Destroy(s) ==
    /\ At(s, "stop") /\ hal[s].left = {} /\ intf = NULL
    /\ intf' = s /\ hal' = [hal EXCEPT ![s].pc = "destroy", ![s].job = 0]
    /\ UNCHANGED <<queues, jobLock, ses, inprogress, omx, move, manager, faults>>
DestroyJobs(s) ==
    /\ At(s, "destroy") /\ jobLock = NULL
    /\ jobLock' = s
    /\ todo' = Without(todo, JobsOf(s)) /\ ongoing' = ongoing \ JobsOf(s)
    /\ Goto(s, "abort")
    /\ UNCHANGED <<jobs, sem, intf, ses, inprogress, omx, move, manager, faults>>
\* mm_jpeg_session_destroy: what comes of the state changes is only logged.
DestroyIdle(s) ==
    /\ At(s, "abort end") /\ hal[s].job = 0
    /\ IF omx[s].state = "Executing"
       THEN Moving(s, "Idle", "none") ELSE move' = [NoMove EXCEPT !.at = "ok"]
    /\ Goto(s, "destroy unload")
    /\ UNCHANGED <<queues, locks, ses, inprogress, omx, manager, faults>>
DestroyUnload(s) ==
    /\ At(s, "destroy unload") /\ Moved
    /\ IF omx[s].state = "Idle"
       THEN Moving(s, "Loaded", "free") ELSE UNCHANGED move
    /\ Goto(s, "destroy free")
    /\ UNCHANGED <<queues, locks, ses, inprogress, omx, manager, faults>>
\* OMX_FreeHandle waits for the callback under way.
DestroyFree(s) ==
    /\ At(s, "destroy free") /\ Moved /\ omx[s].at = "idle"
    /\ omx' = [omx EXCEPT ![s] = Component]
    /\ move' = NoMove /\ jobLock' = NULL
    /\ inprogress' = IF inprogress = s THEN NULL ELSE inprogress
    /\ ses' = [ses EXCEPT ![s].config = FALSE, ![s].active = FALSE]
    /\ Goto(s, "destroy end")
    /\ UNCHANGED <<queues, intf, manager, faults>>
\* The queue of the session is emptied and freed, and the manager is woken.
DestroyEnd(s) ==
    /\ At(s, "destroy end")
    /\ ses' = [ses EXCEPT ![s].avail = 0]
    /\ sem' = sem + 1 /\ intf' = NULL /\ Over(JobsOf(s)) /\ Goto(s, "closed")
    /\ UNCHANGED <<todo, ongoing, jobLock, inprogress, omx, move, manager, faults>>

HalReturns(s) ==
    \/ CreateExecute(s) \/ Created(s) \/ NextAbort(s) \/ AbortJob(s)
    \/ AbortJobEnd(s) \/ Abort(s) \/ AbortSend(s) \/ AbortWait(s) \/ Aborted(s)
    \/ Destroy(s) \/ DestroyJobs(s) \/ DestroyIdle(s) \/ DestroyUnload(s) \/ DestroyFree(s)
    \/ DestroyEnd(s)
OmxReports(s) ==
    \/ Change(s) \/ Encoded(s) \/ fbd(s) \/ EventError(s) \/ EventComplete(s)
    \/ JobRemove(s) \/ JobGiveBack(s)

Next ==
    \/ Manager \/ MoveSend \/ MoveCheck \/ MoveWake
    \/ \E s \in Sessions : OmxReports(s) \/ HalReturns(s) \/ Create(s) \/ StartJob(s) \/ Stop(s)

Spec == Init /\ [][Next]_vars

\* The threads run, and a component that can make a state change or end a job
\* does. Nobody has to create a session, start a job or stop.
Fairness ==
    /\ WF_vars(Manager) /\ WF_vars(MoveSend \/ MoveCheck \/ MoveWake)
    /\ \A s \in Sessions : WF_vars(OmxReports(s)) /\ WF_vars(HalReturns(s))
FairSpec == Spec /\ Fairness

-----------------------------------------------------------------------------
Threads == Sessions \cup {mgr, NULL}
States == {"Loaded", "Idle", "Executing"}
TypeOK ==
    /\ todo \in Seq(JobIds) /\ ongoing \subseteq JobIds /\ sem \in Nat
    /\ \A j \in JobIds : jobs[j].s \in Sessions /\ jobs[j].cbs \in Nat /\ jobs[j].over \in BOOLEAN
    /\ intf \in Threads /\ jobLock \in Threads /\ inprogress \in Sessions \cup {NULL}
    /\ manager.job \in 0..MaxJobs
    /\ \A s \in Sessions :
         /\ ses[s].abort \in {"none", "init", "done"} /\ ses[s].avail \in Nat
         /\ ses[s].job \in 0..Len(jobs)
         /\ omx[s].state \in States /\ omx[s].cmds \in Seq(States)
         /\ hal[s].left \subseteq JobIds
    /\ faults \in 0..MaxFaults

\* The session is in use, and its component has not failed at anything.
Healthy(s) == ses[s].active /\ ~omx[s].failed

\* A job is answered at most once while the HAL waits for it (fbd, event_handler
\* and the error path of mm_jpeg_process_encoding_job all call jpeg_cb). A component
\* that failed may be told several times to leave Executing, and refuse when a
\* later job is encoded: that job is answered with the refusal, and again in the end.
AnsweredOnce ==
    \A j \in JobIds : Healthy(jobs[j].s) /\ ~jobs[j].over => jobs[j].cbs <= 1

\* Once mm_jpeg_abort_job or mm_jpeg_destroy_session returned, and from the
\* moment the abort began to wait, the HAL hears nothing more of the job: it
\* frees the job and its buffers. (Abort leaves encoding TRUE, so that a failure
\* of the component in a state change of mm_jpeg_session_destroy is taken for one
\* of the job.)
SilentOnceOver == [][\A j \in JobIds :
    jobs'[j].cbs # jobs[j].cbs
      => \/ omx[jobs[j].s].failed
         \/ ~jobs[j].over /\ ses[jobs[j].s].abort = "none"]_vars

\* The component encodes only for a job that the HAL waits for: source and
\* output buffer are in use until then. (mm_jpeg_session_abort takes any event,
\* that of a failure too, for the end of the encoding.)
NoStrayEncode ==
    \A s \in Sessions : omx[s].busy /\ ~omx[s].failed => \E j \in JobsOf(s) : jobs[j].cbs = 0 /\ ~jobs[j].over

\* A session is available at most once, and not while a job of it is encoded.
HandleInOnePlace ==
    \A s \in Sessions : Healthy(s) =>
      /\ ses[s].avail <= 1
      /\ ses[s].avail = 1 => ongoing \cap JobsOf(s) = {} /\ ~omx[s].busy

\* The configuration belongs to the session in progress: another one gets it
\* only after it was taken away.
OneConfigured ==
    \A s \in Sessions : ses[s].config <=> inprogress = s

\* The manager does not sleep over a job it could take, unless somebody is about
\* to wake it: a callback that gives a session back, or a session that is destroyed.
Stopping(s) == hal[s].pc \notin {"closed", "create execute", "created", "open", "unusable"}
NoLostWakeup ==
    (manager.pc = "wait" /\ sem = 0 /\ todo # <<>> /\ ongoing = {})
      => \E s \in Sessions : omx[s].at \in {"remove", "giveback"} \/ Stopping(s)

\* A session that failed once keeps error_flag: the manager cannot take the
\* component from it any more, but tells it to leave Executing when it tries.
Estranged(s) == ses[s].err /\ ses[s].config /\ omx[s].state # "Executing"

\* A job that was started is answered or called off; unless some session is
\* estranged from its component, when a job may be fed to it and never end.
EveryJobEnds == \A j \in 1..MaxJobs :
    (j \in JobIds) ~> \/ j \in JobIds /\ (jobs[j].cbs > 0 \/ jobs[j].over)
                      \/ \E s \in Sessions : Estranged(s)

\* A call of the HAL returns: the waits of abort and of the state changes end.
CallsReturn == \A s \in Sessions :
    (intf = s) ~> (intf # s)

\* A job fails only if its own component failed at something.
FailsOnItsOwn == \A j \in JobIds :
    jobs[j].status = "error" /\ ~jobs[j].over => omx[jobs[j].s].failed

\* The component, the handle of the session and the configuration are with those
\* who work with them, the manager sleeps only when there is nothing to take, and a
\* job is answered once.
EncoderExact ==
    TypeOK /\ AnsweredOnce /\ NoStrayEncode /\ HandleInOnePlace /\ OneConfigured /\ NoLostWakeup

\* What has to happen in the end: jobs are answered or called off, calls return.
Progress == EveryJobEnds /\ CallsReturn

=============================================================================
