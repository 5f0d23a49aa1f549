------------------------------ MODULE CmdThread ------------------------------
(***************************************************************************)
(* The command thread of mm-camera-interface (mm_camera_thread.c) with the *)
(* counting semaphore (cam_semaphore.h) and the queue (cam_queue.h) it is  *)
(* built from, in its most demanding use: the thread a stream launches to  *)
(* deliver frames to the application (mm_camera_stream.c).                 *)
(*                                                                         *)
(*   posters      call mm_stream_handle_rcvd_buf(): take cmd_lock, check   *)
(*                is_active, enqueue a node, post cmd_sem;                 *)
(*   the worker   waits on cmd_sem, then dequeues and calls the callback   *)
(*                until the queue is empty; an EXIT command only clears    *)
(*                "running", so what is queued behind it is still served;  *)
(*   the control  thread starts and stops the stream: it launches the      *)
(*                worker, and releases it (enqueue EXIT, post, join, then  *)
(*                destroy the queue and the semaphore) under cmd_lock.     *)
(*                                                                         *)
(* The queue's mutex and the semaphore's mutex protect one short critical  *)
(* section each, so enqueue, dequeue, post and wait are single steps; the  *)
(* steps of different threads interleave freely in between.  A command is  *)
(* its number in the session; the callback is one step of the worker.      *)
(***************************************************************************)
EXTENDS Naturals, Sequences

CONSTANTS
    Posters,            \* threads that deliver frames to the stream
    Ctl,                \* the thread that starts and stops the stream
    NoThread,           \* nobody holds cmd_lock
    MaxCmds,            \* bound: commands posted in one session
    MaxLaunches         \* bound: sessions (START/STOP cycles)

ASSUME CmdThreadAssumption ==
    /\ MaxCmds \in Nat
    /\ MaxLaunches \in Nat
    /\ Ctl \notin Posters
    /\ NoThread \notin Posters \cup {Ctl}

VARIABLES
    cmd_queue,          \* cmd_queue: commands waiting, oldest first
    cmd_sem,            \* cmd_sem.val
    is_active,          \* is_active: launched and not yet destroyed
    running,            \* the worker's local flag
    node,               \* the worker's local node; NoCmd if none
    cmd_lock,           \* the holder of the stream's cmd_lock
    wpc,                \* where the worker is
    ppc,                \* where each poster is
    cpc,                \* where the control thread is
    sent,               \* commands enqueued in this session
    done,               \* commands whose callback was called in this session
    launches            \* sessions so far

thread == <<cmd_queue, cmd_sem, is_active>>
counts == <<sent, done, launches>>
vars == <<cmd_queue, cmd_sem, is_active, running, node, cmd_lock,
          wpc, ppc, cpc, sent, done, launches>>

Exit  == 0              \* MM_CAMERA_CMD_TYPE_EXIT
NoCmd == MaxCmds + 1    \* the NULL that cam_queue_deq() returns
Data  == 1..MaxCmds     \* MM_CAMERA_CMD_TYPE_DATA_CB number i of the session

Threads == Posters \cup {Ctl}

-----------------------------------------------------------------------------
(* cam_queue.h and cam_semaphore.h *)

\* Mutant: nodes are linked in front of the list's head.
cam_queue_enq_AtHead(data) == cmd_queue' = <<data>> \o cmd_queue

cam_queue_enq(data) == cmd_queue' = Append(cmd_queue, data)

\* The oldest command, or NoCmd when the queue is empty.
cam_queue_deq ==
    IF cmd_queue = <<>>
    THEN node' = NoCmd /\ UNCHANGED cmd_queue
    ELSE node' = Head(cmd_queue) /\ cmd_queue' = Tail(cmd_queue)

\* Mutant: the condition is signalled but val is not incremented.
cam_sem_post_NoCount == UNCHANGED cmd_sem

cam_sem_post == cmd_sem' = cmd_sem + 1

\* Mutant: "if" in place of the while loop, and a spurious wake-up.
cam_sem_wait_IfNotWhile == cmd_sem' = cmd_sem - 1

\* The while loop around pthread_cond_wait() makes spurious wake-ups harmless:
\* the wait ends in a step in which the value is positive.
cam_sem_wait == cmd_sem > 0 /\ cmd_sem' = cmd_sem - 1

-----------------------------------------------------------------------------
Init ==
    /\ cmd_queue = <<>> /\ cmd_sem = 0 /\ is_active = FALSE
    /\ running = FALSE /\ node = NoCmd
    /\ cmd_lock = NoThread
    /\ wpc = "none"
    /\ ppc = [p \in Posters |-> "idle"]
    /\ cpc = "down"
    /\ sent = 0 /\ done = 0 /\ launches = 0

(* The control thread *)

Lock(t) == cmd_lock = NoThread /\ cmd_lock' = t

\* mm_stream_fsm_reg(), START: the launch happens under cmd_lock and ends with
\* pthread_create(), so no other thread sees it half done.
Launch ==
    /\ cpc = "down" /\ launches < MaxLaunches
    /\ cmd_lock = NoThread
    /\ cmd_sem' = 0 /\ cmd_queue' = <<>> /\ is_active' = TRUE
    /\ wpc' = "sem_wait" /\ running' = TRUE /\ node' = NoCmd
    /\ cpc' = "up"
    /\ sent' = 0 /\ done' = 0 /\ launches' = launches + 1
    /\ UNCHANGED <<cmd_lock, ppc>>

\* mm_stream_fsm_active(), STOP: lock, then mm_camera_cmd_thread_release().
StopLock ==
    /\ cpc = "up" /\ Lock(Ctl)
    /\ cpc' = "enq_exit"
    /\ UNCHANGED <<thread, running, node, wpc, ppc, counts>>

\* mm_camera_cmd_thread_stop(): enqueue EXIT, post, join.
StopEnqExit ==
    /\ cpc = "enq_exit"
    /\ cam_queue_enq(Exit)
    /\ cpc' = "post_exit"
    /\ UNCHANGED <<cmd_sem, is_active, running, node, cmd_lock, wpc, ppc, counts>>

StopPostExit ==
    /\ cpc = "post_exit"
    /\ cam_sem_post
    /\ cpc' = "join"
    /\ UNCHANGED <<cmd_queue, is_active, running, node, cmd_lock, wpc, ppc, counts>>

\* Mutant: the thread is not joined.
StopJoin_NoWait ==
    /\ cpc = "join"
    /\ wpc' = "none"
    /\ cpc' = "destroy"
    /\ UNCHANGED <<thread, running, node, cmd_lock, ppc, counts>>

StopJoin ==
    /\ cpc = "join" /\ wpc = "exited"
    /\ wpc' = "none"
    /\ cpc' = "destroy"
    /\ UNCHANGED <<thread, running, node, cmd_lock, ppc, counts>>

\* Mutant: the object is not zeroed.
Destroy_NoReset ==
    /\ cpc = "destroy"
    /\ cmd_queue' = <<>> /\ cmd_sem' = 0
    /\ cpc' = "unlock"
    /\ UNCHANGED <<is_active, running, node, cmd_lock, wpc, ppc, counts>>

\* mm_camera_cmd_thread_destroy(): what is left in the queue is freed, the
\* semaphores are destroyed and the whole object is zeroed.
Destroy ==
    /\ cpc = "destroy"
    /\ cmd_queue' = <<>> /\ cmd_sem' = 0 /\ is_active' = FALSE
    /\ cpc' = "unlock"
    /\ UNCHANGED <<running, node, cmd_lock, wpc, ppc, counts>>

StopUnlock ==
    /\ cpc = "unlock"
    /\ cmd_lock' = NoThread
    /\ cpc' = "down"
    /\ UNCHANGED <<thread, running, node, wpc, ppc, counts>>

-----------------------------------------------------------------------------
(* A poster: mm_stream_handle_rcvd_buf() with has_cb set *)

\* Mutant: is_active is not checked.
RcvdBufLock_Unchecked(p) ==
    /\ ppc[p] = "idle" /\ Lock(p)
    /\ sent < MaxCmds
    /\ ppc' = [ppc EXCEPT ![p] = "enq"]
    /\ UNCHANGED <<thread, running, node, wpc, cpc, counts>>

\* cmd_lock is taken first and is_active read under it.
RcvdBufLock(p) ==
    /\ ppc[p] = "idle" /\ Lock(p)
    /\ is_active => sent < MaxCmds               \* bound
    /\ ppc' = [ppc EXCEPT ![p] = IF is_active THEN "enq" ELSE "unlock"]
    /\ UNCHANGED <<thread, running, node, wpc, cpc, counts>>

RcvdBufEnq(p) ==
    /\ ppc[p] = "enq"
    /\ cam_queue_enq(sent + 1)
    /\ sent' = sent + 1
    /\ ppc' = [ppc EXCEPT ![p] = "post"]
    /\ UNCHANGED <<cmd_sem, is_active, running, node, cmd_lock, wpc, cpc, done, launches>>

\* malloc() of the node failed: the frame is not delivered.
RcvdBufNoMem(p) ==
    /\ ppc[p] = "enq"
    /\ ppc' = [ppc EXCEPT ![p] = "unlock"]
    /\ UNCHANGED <<thread, running, node, cmd_lock, wpc, cpc, counts>>

RcvdBufPost(p) ==
    /\ ppc[p] = "post"
    /\ cam_sem_post
    /\ ppc' = [ppc EXCEPT ![p] = "unlock"]
    /\ UNCHANGED <<cmd_queue, is_active, running, node, cmd_lock, wpc, cpc, counts>>

RcvdBufUnlock(p) ==
    /\ ppc[p] = "unlock"
    /\ cmd_lock' = NoThread
    /\ ppc' = [ppc EXCEPT ![p] = "idle"]
    /\ UNCHANGED <<thread, running, node, wpc, cpc, counts>>

-----------------------------------------------------------------------------
(* The worker: mm_camera_cmd_thread() *)

WorkerWait ==
    /\ wpc = "sem_wait"
    /\ cam_sem_wait
    /\ wpc' = "deq"
    /\ UNCHANGED <<cmd_queue, is_active, running, node, cmd_lock, ppc, cpc, counts>>

\* One call of cam_queue_deq(): with a command the inner loop goes on, with
\* none it ends, and the outer loop ends too once running is clear.
WorkerDeq ==
    /\ wpc = "deq"
    /\ cam_queue_deq
    /\ wpc' = CASE cmd_queue # <<>> -> "cmd"
                [] cmd_queue = <<>> /\ running -> "sem_wait"
                [] cmd_queue = <<>> /\ ~running -> "exited"
    /\ UNCHANGED <<cmd_sem, is_active, running, cmd_lock, ppc, cpc, counts>>

\* Mutant: EXIT falls through to the callback's break.
WorkerCmd_NoExit ==
    /\ wpc = "cmd"
    /\ \/ node = Exit /\ UNCHANGED done
       \/ node # Exit /\ done' = node
    /\ node' = NoCmd
    /\ wpc' = "deq"
    /\ UNCHANGED <<thread, running, cmd_lock, ppc, cpc, sent, launches>>

\* The switch on cmd_type: EXIT clears running, anything else is the callback.
WorkerCmd ==
    /\ wpc = "cmd"
    /\ \/ node = Exit /\ running' = FALSE /\ UNCHANGED done
       \/ node # Exit /\ done' = node /\ UNCHANGED running
    /\ node' = NoCmd
    /\ wpc' = "deq"
    /\ UNCHANGED <<thread, cmd_lock, ppc, cpc, sent, launches>>

-----------------------------------------------------------------------------
PosterStep(p) == RcvdBufEnq(p) \/ RcvdBufNoMem(p) \/ RcvdBufPost(p) \/ RcvdBufUnlock(p)
Worker == WorkerWait \/ WorkerDeq \/ WorkerCmd
Stopping == StopEnqExit \/ StopPostExit \/ StopJoin \/ Destroy \/ StopUnlock

Next ==
    \/ Launch \/ StopLock \/ Stopping
    \/ \E p \in Posters : RcvdBufLock(p) \/ PosterStep(p)
    \/ Worker

\* The scheduler runs every thread that can run.  Nothing makes the application
\* start or stop the stream, or the kernel deliver a frame, and no property
\* needs a thread that competes for cmd_lock to be granted it.
Fairness ==
    /\ WF_vars(Worker)
    /\ WF_vars(Stopping)
    /\ \A p \in Posters : WF_vars(PosterStep(p))

Spec == Init /\ [][Next]_vars

FairSpec == Spec /\ Fairness

-----------------------------------------------------------------------------
(* Properties *)

TypeOK ==
    /\ cmd_queue \in Seq(Data \cup {Exit})
    /\ cmd_sem \in Nat
    /\ is_active \in BOOLEAN
    /\ running \in BOOLEAN
    /\ node \in Data \cup {Exit, NoCmd}
    /\ cmd_lock \in Threads \cup {NoThread}
    /\ wpc \in {"none", "sem_wait", "deq", "cmd", "exited"}
    /\ ppc \in [Posters -> {"idle", "enq", "post", "unlock"}]
    /\ cpc \in {"down", "up", "enq_exit", "post_exit", "join", "destroy", "unlock"}
    /\ sent \in 0..MaxCmds
    /\ done \in 0..MaxCmds
    /\ launches \in 0..MaxLaunches

\* No command is stranded: when the worker sleeps on the semaphore with commands
\* in the queue, the semaphore is positive or the post that makes it so is still
\* to come.  This is what the order "enqueue, then post" and the worker's drain
\* of the whole queue per wake-up are for.
NoLostCommand ==
    wpc = "sem_wait" /\ cmd_queue # <<>> =>
        \/ cmd_sem > 0
        \/ \E p \in Posters : ppc[p] = "post"
        \/ cpc = "post_exit"

\* When mm_camera_cmd_thread_stop() returns from pthread_join() every command
\* accepted in the session has been dispatched: destroy() frees no frame.
ReleaseDrains == cpc = "destroy" => cmd_queue = <<>> /\ done = sent

\* No thread works on the queue or the semaphore outside the life of the
\* object: between destroy and the next launch they are zeroed memory.
NoUseAfterDestroy ==
    (wpc \notin {"none", "exited"} \/ \E p \in Posters : ppc[p] \in {"enq", "post"})
        => is_active

\* Callbacks come in the order of acceptance, each command once.
InOrder == [][done' = done \/ done' = done + 1 \/ (done' = 0 /\ cpc = "down")]_vars

\* The control thread holds cmd_lock while it joins a worker that never takes
\* it, so STOP always returns.
StopReturns == cpc = "join" ~> cpc = "down"

\* Every accepted command is dispatched.
EveryCommandDispatched ==
    \A i \in Data : (cpc = "up" /\ sent >= i) ~> (done >= i)

\* The thread implements the abstract dispatcher: closed is "not active".
Abstract == INSTANCE AsyncDispatch WITH
    MaxCmds <- MaxCmds,
    open <- is_active, accepted <- sent, dispatched <- done

ImplementsAsyncDispatch == Abstract!Spec

\* What has to happen in the end: mm_camera_cmd_thread_release() returns, and the
\* frames a poster was promised are dispatched.
Progress == StopReturns /\ EveryCommandDispatched

=============================================================================
