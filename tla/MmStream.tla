------------------------------ MODULE MmStream ------------------------------
(***************************************************************************)
(* The buffers of one stream (mm_camera_stream.c), from the kernel to the  *)
(* users and back, over its whole state machine CFG - BUFFED - REG -       *)
(* ACTIVE.                                                                 *)
(*                                                                         *)
(*   the reader   (poll thread) dequeues a filled buffer, counts the       *)
(*                references it is about to hand out and hands them to the *)
(*                bundle's channel, the linked channel and the command     *)
(*                thread;                                                  *)
(*   the worker   (command thread) lends the buffer to the application's   *)
(*                callback and gives its own reference back;               *)
(*   users        (the channels' threads, the application) give references *)
(*                back without ch_lock; the last one queues the buffer;    *)
(*   the control  thread starts and stops the stream under ch_lock.        *)
(*                                                                         *)
(* One step is one critical section of buf_lock or cmd_lock, one ioctl, or *)
(* one access outside them.  The command thread is taken with the promises *)
(* CmdThread establishes (a release returns when the queue is drained),    *)
(* the poll thread with those of PollThread (a synchronous delete that     *)
(* finds the entry is a barrier, one that does not is none).  Buffer       *)
(* mapping is taken as done, streaming_mode as not BATCH, callbacks as     *)
(* ASYNC and registered for good (cb_count < 0).                           *)
(***************************************************************************)
EXTENDS Integers, Sequences, FiniteSets

CONSTANTS
    Bufs,               \* buffers of the stream
    NoBuf,              \* no buffer at hand
    Users,              \* threads that call mm_stream_fsm_fn(QBUF)
    Worker,             \* the command thread
    IsBundled,          \* is_bundled
    LinkedAtStart,      \* is_linked when the stream starts
    HasCb,              \* an ASYNC callback is registered
    Failures,           \* ioctl, cache and malloc failures happen
    MaxSessions         \* bound: start/stop cycles

ASSUME MmStreamAssumption ==
    /\ IsFiniteSet(Bufs) /\ NoBuf \notin Bufs
    /\ Worker \notin Users
    /\ {IsBundled, LinkedAtStart, HasCb, Failures} \subseteq BOOLEAN
    /\ MaxSessions \in Nat

VARIABLES
    state,              \* my_obj->state
    cpc,                \* where the control thread is in START or STOP
    is_linked,          \* my_obj->is_linked
    cmd_active,         \* cmd_thread.is_active
    cmd_queue,          \* frames queued to the command thread
    entry,              \* the stream's entry in poll_entries is set
    requested,          \* the kernel has buffers requested (VIDIOC_REQBUFS)
    streaming,          \* the kernel streams
    kernel,             \* buffers queued in the kernel
    queued_buffer_count,
    buf_refcnt,         \* buf_status[b].buf_refcnt
    in_kernel,          \* buf_status[b].in_kernel
    held,               \* references out with users: <<buffer, what for>>
    leaked,             \* per buffer: references nobody will give back
    rpc, rbuf,          \* where the reader is, and its buf_info
    pc, at,             \* per caller of mm_stream_buf_done(): where, with which buffer
    sessions            \* sessions so far

Callers == Users \cup {Worker}

reader  == <<rpc, rbuf>>
callers == <<pc, at>>
counts  == <<queued_buffer_count, buf_refcnt, in_kernel>>
driver  == <<requested, streaming, kernel>>
cmd     == <<cmd_active, cmd_queue>>
control == <<state, cpc, sessions>>
vars == <<control, is_linked, cmd, entry, driver, counts, held, leaked, reader, callers>>

One(condition) == IF condition THEN 1 ELSE 0

\* Mutant: the counter does not wrap.
AddRef_Wide(b, n) == buf_refcnt' = [buf_refcnt EXCEPT ![b] = @ + n]

\* Counter arithmetic of the uint8_t buf_refcnt.
AddRef(b, n) == buf_refcnt' = [buf_refcnt EXCEPT ![b] = (@ + n) % 256]

-----------------------------------------------------------------------------
Init ==
    /\ state = "CFG" /\ cpc = "idle" /\ sessions = 0
    /\ is_linked = LinkedAtStart
    /\ cmd_active = FALSE /\ cmd_queue = <<>>
    /\ entry = FALSE
    /\ requested = FALSE /\ streaming = FALSE /\ kernel = {}
    /\ queued_buffer_count = 0
    /\ buf_refcnt = [b \in Bufs |-> 0]
    /\ in_kernel = [b \in Bufs |-> FALSE]
    /\ held = {} /\ leaked = [b \in Bufs |-> 0]
    /\ rpc = "poll" /\ rbuf = NoBuf
    /\ pc = [t \in Callers |-> "idle"]
    /\ at = [t \in Callers |-> NoBuf]

-----------------------------------------------------------------------------
(* The control thread: mm_channel_start(), mm_channel_stop() *)

\* No reader of the last session is or was at work after the buffers were put
\* back.  StreamOffIsBarrier of PollThread shows that one can be.
Undisturbed == rpc = "poll" /\ held = {} /\ \A b \in Bufs : leaked[b] = 0

\* mm_stream_fsm_cfg(), GET_BUF.
GetBuf ==
    /\ state = "CFG" /\ cpc = "idle"
    /\ sessions < MaxSessions                               \* bound
    /\ Undisturbed                                          \* bound
    /\ state' = "BUFFED" /\ cpc' = "reg" /\ sessions' = sessions + 1
    /\ is_linked' = LinkedAtStart
    /\ UNCHANGED <<cmd, entry, driver, counts, held, leaked, reader, callers>>

\* mm_stream_reg_buf(): the buffers with initial_reg_flag go to the kernel, the
\* others start with a reference of the upper layer.
RegBuf ==
    /\ state = "BUFFED" /\ cpc = "reg"
    /\ \E initial \in SUBSET Bufs :
        /\ kernel' = initial
        /\ queued_buffer_count' = Cardinality(initial)
        /\ entry' = (entry \/ initial # {})
        /\ buf_refcnt' = [b \in Bufs |-> One(b \notin initial)]
        /\ in_kernel' = [b \in Bufs |-> b \in initial]
        /\ held' = (Bufs \ initial) \X {"app"}
    /\ requested' = TRUE
    /\ state' = "REG" /\ cpc' = "idle"
    /\ UNCHANGED <<sessions, is_linked, cmd, streaming, leaked, reader, callers>>

\* The QBUF of some buffer failed, before or after its count: what is queued before
\* it stays queued, and the state stays BUFFED, in which UNREG_BUF is an invalid
\* event.
RegBufFail ==
    /\ state = "BUFFED" /\ cpc = "reg" /\ Failures
    /\ \E before \in (SUBSET Bufs) \ {Bufs} : \E initial \in SUBSET before :
        /\ kernel' = initial
        /\ queued_buffer_count' = Cardinality(initial)
        /\ entry' \in {initial # {}, entry \/ initial # {}}
        /\ buf_refcnt' = [b \in Bufs |-> IF b \in before THEN One(b \notin initial)
                                                      ELSE buf_refcnt[b]]
        /\ in_kernel' = [b \in Bufs |-> IF b \in before THEN b \in initial
                                                     ELSE in_kernel[b]]
    /\ requested' = TRUE
    /\ cpc' = "idle"
    /\ UNCHANGED <<state, sessions, is_linked, cmd, streaming, held, leaked, reader, callers>>

\* mm_stream_fsm_reg(), START: the command thread, the state, then STREAMON.
Start ==
    /\ state = "REG" /\ cpc = "idle"
    /\ cmd_active' = HasCb
    /\ state' = "ACTIVE" /\ cpc' = "streamon"
    /\ UNCHANGED <<sessions, is_linked, cmd_queue, entry, driver, counts, held, leaked,
                   reader, callers>>

StreamOn ==
    /\ cpc = "streamon"
    /\ streaming' = TRUE
    /\ cpc' = "idle"
    /\ UNCHANGED <<state, sessions, is_linked, cmd, entry, requested, kernel, counts,
                   held, leaked, reader, callers>>

\* Failed: delete the entry, then release the command thread.
StreamOnFail ==
    /\ cpc = "streamon" /\ Failures
    /\ cpc' = "del"
    /\ UNCHANGED <<state, sessions, is_linked, cmd, entry, driver, counts, held, leaked,
                   reader, callers>>

\* mm_stream_fsm_active(), STOP.
Stop ==
    /\ state = "ACTIVE" /\ cpc = "idle"
    /\ cpc' = "del"
    /\ UNCHANGED <<state, sessions, is_linked, cmd, entry, driver, counts, held, leaked,
                   reader, callers>>

\* mm_camera_poll_thread_del_poll_fd(), synchronous.
DelPollFd ==
    /\ cpc = "del"
    /\ entry' = FALSE
    /\ cpc' = IF entry THEN "barrier" ELSE "off"
    /\ UNCHANGED <<state, sessions, is_linked, cmd, driver, counts, held, leaked,
                   reader, callers>>

\* The poll thread answers between two callbacks.
DelPollFdReturn ==
    /\ cpc = "barrier" /\ rpc = "poll"
    /\ cpc' = "off"
    /\ UNCHANGED <<state, sessions, is_linked, cmd, entry, driver, counts, held, leaked,
                   reader, callers>>

\* VIDIOC_STREAMOFF takes the buffers away from the kernel.  After a failed
\* STREAMON there is nothing to turn off.
StreamOff ==
    /\ cpc = "off"
    /\ streaming' = FALSE
    /\ kernel' = IF streaming THEN {} ELSE kernel
    /\ cpc' = "lock"
    /\ UNCHANGED <<state, sessions, is_linked, cmd, entry, requested, counts, held, leaked,
                   reader, callers>>

\* cmd_lock is taken ...
CmdLock ==
    /\ cpc = "lock"
    /\ cpc' = "release"
    /\ UNCHANGED <<state, sessions, is_linked, cmd, entry, driver, counts, held, leaked,
                   reader, callers>>

\* ... and held until the command thread has served its queue and is gone.
CmdRelease ==
    /\ cpc = "release"
    /\ cmd_queue = <<>> /\ pc[Worker] = "idle"
    /\ cmd_active' = FALSE
    /\ state' = "REG" /\ cpc' = "unreg"
    /\ UNCHANGED <<sessions, is_linked, cmd_queue, entry, driver, counts, held, leaked,
                   reader, callers>>

\* mm_stream_unreg_buf()
UnregBuf ==
    /\ state = "REG" /\ cpc = "unreg"
    /\ requested' = FALSE /\ kernel' = {}
    /\ buf_refcnt' = [b \in Bufs |-> 0]
    /\ in_kernel' = [b \in Bufs |-> FALSE]
    /\ state' = "BUFFED" /\ cpc' = "idle"
    /\ UNCHANGED <<sessions, is_linked, cmd, entry, streaming, queued_buffer_count, held,
                   leaked, reader, callers>>

\* The channel's threads are joined and its queue is flushed; a stream linked
\* elsewhere has been unlinked.  "qbuf will be done before channel/stream is
\* fully stopped" is the assumption on the application's threads.  Then
\* mm_stream_deinit_bufs().
PutBuf ==
    /\ state = "BUFFED" /\ cpc = "idle"
    /\ \A t \in Callers : pc[t] = "idle"
    /\ held' = {} /\ leaked' = [b \in Bufs |-> 0]
    /\ state' = "CFG"
    /\ UNCHANGED <<cpc, sessions, is_linked, cmd, entry, driver, counts, reader, callers>>

\* mm_channel_stop() of the channel this stream is linked to, under buf_lock.
Unlink ==
    /\ is_linked
    /\ is_linked' = FALSE
    /\ UNCHANGED <<control, cmd, entry, driver, counts, held, leaked, reader, callers>>

-----------------------------------------------------------------------------
(* The reader: mm_stream_data_notify() on the poll thread *)

\* In any state but ACTIVE the notification is ignored.
DataNotify ==
    /\ rpc = "poll" /\ entry /\ state = "ACTIVE"
    /\ rpc' = "dqbuf"
    /\ UNCHANGED <<rbuf, control, is_linked, cmd, entry, driver, counts, held, leaked, callers>>

\* mm_stream_read_msm_frame(): the descriptor does not block.
Dqbuf(b) ==
    /\ rpc = "dqbuf" /\ streaming /\ b \in kernel
    /\ kernel' = kernel \ {b}
    /\ rpc' = "count" /\ rbuf' = b
    /\ UNCHANGED <<control, is_linked, cmd, entry, requested, streaming, counts, held,
                   leaked, callers>>

DqbufFail ==
    /\ rpc = "dqbuf" /\ (~streaming \/ kernel = {} \/ Failures)
    /\ rpc' = "poll"
    /\ UNCHANGED <<rbuf, control, is_linked, cmd, entry, driver, counts, held, leaked, callers>>

\* The last buffer out stops the polling.  When the cache operation fails the
\* frame is dropped without having been accounted for.
ReadCount ==
    /\ rpc = "count"
    /\ queued_buffer_count' = queued_buffer_count - 1
    /\ entry' = (entry /\ queued_buffer_count' # 0)
    /\ \/ rpc' = "account" /\ rbuf' = rbuf
       \/ Failures /\ rpc' = "poll" /\ rbuf' = NoBuf
    /\ UNCHANGED <<control, is_linked, cmd, driver, buf_refcnt, in_kernel, held, leaked,
                   callers>>

\* All references but the link's are counted before any is handed out.
Account ==
    /\ rpc = "account"
    /\ in_kernel' = [in_kernel EXCEPT ![rbuf] = FALSE]
    /\ AddRef(rbuf, One(IsBundled) + One(HasCb))
    /\ rpc' = "chan"
    /\ UNCHANGED <<rbuf, control, is_linked, cmd, entry, driver, queued_buffer_count, held,
                   leaked, callers>>

\* A reference goes to a user, or is lost because there is no memory for the node.
HandOut(kind) ==
    \/ held' = held \cup {<<rbuf, kind>>} /\ UNCHANGED leaked
    \/ Failures /\ leaked' = [leaked EXCEPT ![rbuf] = @ + 1] /\ UNCHANGED held

\* mm_stream_handle_rcvd_buf(): to the bundle's channel ...
NotifyChannel ==
    /\ rpc = "chan"
    /\ IF IsBundled THEN HandOut("bundle") ELSE UNCHANGED <<held, leaked>>
    /\ rpc' = "link"
    /\ UNCHANGED <<rbuf, control, is_linked, cmd, entry, driver, counts, callers>>

\* Mutant: the link takes no reference of its own.
NotifyLinked_NoRef ==
    /\ rpc = "link"
    /\ IF is_linked THEN HandOut("link") ELSE UNCHANGED <<held, leaked>>
    /\ rpc' = "post"
    /\ UNCHANGED <<rbuf, control, is_linked, cmd, entry, driver, counts, callers>>

\* ... to the linked channel, under buf_lock with the count ...
NotifyLinked ==
    /\ rpc = "link"
    /\ \/ is_linked /\ AddRef(rbuf, 1) /\ HandOut("link")
       \/ ~is_linked /\ UNCHANGED <<buf_refcnt, held, leaked>>
    /\ rpc' = "post"
    /\ UNCHANGED <<rbuf, control, is_linked, cmd, entry, driver, queued_buffer_count,
                   in_kernel, callers>>

\* Mutant: the post does not wait for cmd_lock.
PostFrame_NoLock ==
    /\ rpc = "post"
    /\ cmd_queue' = Append(cmd_queue, rbuf)
    /\ rpc' = "poll" /\ rbuf' = NoBuf
    /\ UNCHANGED <<control, is_linked, cmd_active, entry, driver, counts, held, leaked, callers>>

\* ... and to the command thread, under cmd_lock, if it is there.
PostFrame ==
    /\ rpc = "post" /\ cpc # "release"
    /\ \/ HasCb /\ cmd_active
          /\ cmd_queue' = Append(cmd_queue, rbuf) /\ UNCHANGED leaked
       \/ HasCb /\ (~cmd_active \/ Failures)
          /\ leaked' = [leaked EXCEPT ![rbuf] = @ + 1] /\ UNCHANGED cmd_queue
       \/ ~HasCb /\ UNCHANGED <<cmd_queue, leaked>>
    /\ rpc' = "poll" /\ rbuf' = NoBuf
    /\ UNCHANGED <<control, is_linked, cmd_active, entry, driver, counts, held, callers>>

-----------------------------------------------------------------------------
(* Giving a reference back *)

Goto(t, l) == pc' = [pc EXCEPT ![t] = l]

Return(t) == Goto(t, "idle") /\ at' = [at EXCEPT ![t] = NoBuf]

\* Mutant: the command thread takes cmd_lock.
DispatchAppData_TakesCmdLock ==
    /\ pc[Worker] = "idle" /\ cmd_queue # <<>> /\ cpc # "release"
    /\ cmd_queue' = Tail(cmd_queue)
    /\ AddRef(Head(cmd_queue), 1)
    /\ held' = held \cup {<<Head(cmd_queue), "app">>}
    /\ Goto(Worker, "check") /\ at' = [at EXCEPT ![Worker] = Head(cmd_queue)]
    /\ UNCHANGED <<control, is_linked, cmd_active, entry, driver, queued_buffer_count,
                   in_kernel, leaked, reader>>

\* Mutant: the reference the frame was queued with is not given back.
DispatchAppData_NoDone ==
    /\ pc[Worker] = "idle" /\ cmd_queue # <<>>
    /\ cmd_queue' = Tail(cmd_queue)
    /\ AddRef(Head(cmd_queue), 1)
    /\ held' = held \cup {<<Head(cmd_queue), "app">>}
    /\ UNCHANGED <<control, is_linked, cmd_active, entry, driver, queued_buffer_count,
                   in_kernel, leaked, reader, callers>>

\* mm_stream_dispatch_app_data(): one more reference for the callback, then
\* mm_stream_buf_done() for the one the frame was queued with.
DispatchAppData ==
    /\ pc[Worker] = "idle" /\ cmd_queue # <<>>
    /\ cmd_queue' = Tail(cmd_queue)
    /\ AddRef(Head(cmd_queue), 1)
    /\ held' = held \cup {<<Head(cmd_queue), "app">>}
    /\ Goto(Worker, "check") /\ at' = [at EXCEPT ![Worker] = Head(cmd_queue)]
    /\ UNCHANGED <<control, is_linked, cmd_active, entry, driver, queued_buffer_count,
                   in_kernel, leaked, reader>>

\* mm_channel_qbuf() to mm_stream_fsm_fn(), QBUF: only ACTIVE takes it.
Qbuf(u, b, kind) ==
    /\ pc[u] = "idle" /\ <<b, kind>> \in held
    /\ held' = held \ {<<b, kind>>}
    /\ \/ state = "ACTIVE"
          /\ Goto(u, "check") /\ at' = [at EXCEPT ![u] = b]
          /\ UNCHANGED leaked
       \/ state # "ACTIVE"
          /\ leaked' = [leaked EXCEPT ![b] = @ + 1]
          /\ UNCHANGED callers
    /\ UNCHANGED <<control, is_linked, cmd, entry, driver, counts, reader>>

\* mm_stream_buf_done(): nothing to give back?
CheckRef(t) ==
    /\ pc[t] = "check"
    /\ IF buf_refcnt[at[t]] = 0 THEN Return(t) ELSE Goto(t, "dec") /\ UNCHANGED at
    /\ UNCHANGED <<control, is_linked, cmd, entry, driver, counts, held, leaked, reader>>

\* Mutant: the buffer goes back to the kernel with the first reference returned.
DecRef_Any(t) ==
    /\ pc[t] = "dec"
    /\ AddRef(at[t], -1)
    /\ Goto(t, "qcount") /\ UNCHANGED at
    /\ UNCHANGED <<control, is_linked, cmd, entry, driver, queued_buffer_count, in_kernel,
                   held, leaked, reader>>

\* buf_lock has been dropped since: count again, and queue at the last reference.
DecRef(t) ==
    /\ pc[t] = "dec"
    /\ AddRef(at[t], -1)
    /\ IF buf_refcnt'[at[t]] = 0 THEN Goto(t, "qcount") /\ UNCHANGED at ELSE Return(t)
    /\ UNCHANGED <<control, is_linked, cmd, entry, driver, queued_buffer_count, in_kernel,
                   held, leaked, reader>>

\* Mutant: polling is not started again.
QbufCount_NoAdd(t) ==
    /\ pc[t] = "qcount"
    /\ queued_buffer_count' = queued_buffer_count + 1
    /\ Goto(t, "ioctl") /\ UNCHANGED at
    /\ UNCHANGED <<control, is_linked, cmd, entry, driver, buf_refcnt, in_kernel, held,
                   leaked, reader>>

\* mm_stream_qbuf(): the count, and with the first buffer the polling, come
\* before the ioctl.
QbufCount(t) ==
    /\ pc[t] = "qcount"
    /\ queued_buffer_count' = queued_buffer_count + 1
    /\ entry' = (entry \/ queued_buffer_count' = 1)
    /\ Goto(t, "ioctl") /\ UNCHANGED at
    /\ UNCHANGED <<control, is_linked, cmd, driver, buf_refcnt, in_kernel, held, leaked,
                   reader>>

\* The cache operation failed: nothing is queued or counted.
QbufCacheFail(t) ==
    /\ pc[t] = "qcount" /\ Failures
    /\ Return(t)
    /\ UNCHANGED <<control, is_linked, cmd, entry, driver, counts, held, leaked, reader>>

QbufIoctl(t) ==
    /\ pc[t] = "ioctl" /\ requested
    /\ kernel' = kernel \cup {at[t]}
    /\ Goto(t, "mark") /\ UNCHANGED at
    /\ UNCHANGED <<control, is_linked, cmd, entry, requested, streaming, counts, held,
                   leaked, reader>>

QbufIoctlFail(t) ==
    /\ pc[t] = "ioctl" /\ (~requested \/ Failures)
    /\ Goto(t, "fail") /\ UNCHANGED at
    /\ UNCHANGED <<control, is_linked, cmd, entry, driver, counts, held, leaked, reader>>

\* Mutant: the count is not taken back.
QbufUndo_NoUndo(t) ==
    /\ pc[t] = "fail"
    /\ Return(t)
    /\ UNCHANGED <<control, is_linked, cmd, entry, driver, counts, held, leaked, reader>>

QbufUndo(t) ==
    /\ pc[t] = "fail"
    /\ queued_buffer_count' = queued_buffer_count - 1
    /\ entry' = (entry /\ queued_buffer_count' # 0)
    /\ Return(t)
    /\ UNCHANGED <<control, is_linked, cmd, driver, buf_refcnt, in_kernel, held, leaked,
                   reader>>

\* in_kernel is set after buf_lock has been released.
MarkInKernel(t) ==
    /\ pc[t] = "mark"
    /\ in_kernel' = [in_kernel EXCEPT ![at[t]] = TRUE]
    /\ Return(t)
    /\ UNCHANGED <<control, is_linked, cmd, entry, driver, queued_buffer_count, buf_refcnt,
                   held, leaked, reader>>

-----------------------------------------------------------------------------
Stopping == DelPollFd \/ DelPollFdReturn \/ StreamOff \/ CmdLock \/ CmdRelease

Reader == (\E b \in Bufs : Dqbuf(b)) \/ DqbufFail \/ ReadCount \/ Account
          \/ NotifyChannel \/ NotifyLinked \/ PostFrame

BufDone(t) == CheckRef(t) \/ DecRef(t) \/ QbufCount(t) \/ QbufCacheFail(t)
              \/ QbufIoctl(t) \/ QbufIoctlFail(t) \/ QbufUndo(t) \/ MarkInKernel(t)

GiveBack(b, kind) == \E u \in Users : Qbuf(u, b, kind)

Kinds == {"bundle", "link", "app"}

Next ==
    \/ GetBuf \/ RegBuf \/ RegBufFail \/ Start \/ StreamOn \/ StreamOnFail
    \/ Stop \/ Stopping \/ UnregBuf \/ PutBuf \/ Unlink
    \/ DataNotify \/ Reader
    \/ DispatchAppData
    \/ \E b \in Bufs, kind \in Kinds : GiveBack(b, kind)
    \/ \E t \in Callers : BufDone(t)

Spec == Init /\ [][Next]_vars

\* Threads that can run do, and whoever was handed a buffer returns it in the
\* end.  The poll thread reads its pipe before it scans descriptors, so a command
\* that waits gets its turn however many frames come.  Sessions need not start or
\* stop, nor frames come.
Fairness ==
    /\ WF_vars(Stopping) /\ SF_vars(DelPollFdReturn)
    /\ WF_vars(Reader)
    /\ WF_vars(DispatchAppData)
    /\ \A t \in Callers : WF_vars(BufDone(t))
    /\ \A b \in Bufs, kind \in Kinds : SF_vars(GiveBack(b, kind))

FairSpec == Spec /\ Fairness

-----------------------------------------------------------------------------
(* Properties *)

TypeOK ==
    /\ state \in {"CFG", "BUFFED", "REG", "ACTIVE"}
    /\ cpc \in {"idle", "reg", "streamon", "del", "barrier", "off", "lock", "release", "unreg"}
    /\ {is_linked, cmd_active, entry, requested, streaming} \subseteq BOOLEAN
    /\ cmd_queue \in Seq(Bufs)
    /\ kernel \in SUBSET Bufs
    /\ queued_buffer_count \in Int
    /\ buf_refcnt \in [Bufs -> 0..255]
    /\ in_kernel \in [Bufs -> BOOLEAN]
    /\ held \in SUBSET (Bufs \X Kinds)
    /\ leaked \in [Bufs -> Nat]
    /\ rpc \in {"poll", "dqbuf", "count", "account", "chan", "link", "post"}
    /\ rbuf \in Bufs \cup {NoBuf}
    /\ pc \in [Callers -> {"idle", "check", "dec", "qcount", "ioctl", "fail", "mark"}]
    /\ at \in [Callers -> Bufs \cup {NoBuf}]
    /\ sessions \in 0..MaxSessions

\* References the reader has counted and not yet handed out.
ToHandOut(b) ==
    IF rbuf # b THEN 0
    ELSE CASE rpc = "chan" -> One(IsBundled) + One(HasCb)
           [] rpc \in {"link", "post"} -> One(HasCb)
           [] OTHER -> 0

\* References somebody is about to give back.
BeingReturned(b) == Cardinality({t \in Callers : pc[t] \in {"check", "dec"} /\ at[t] = b})

\* buf_refcnt is exactly the number of references that are out: none is given
\* back twice, none counted after it was handed out, whoever is first.
RefcntExact ==
    state \in {"REG", "ACTIVE"} =>
        \A b \in Bufs :
            buf_refcnt[b] = Cardinality({h \in held : h[1] = b}) + leaked[b]
                            + Cardinality({i \in DOMAIN cmd_queue : cmd_queue[i] = b})
                            + ToHandOut(b) + BeingReturned(b)

\* A buffer in the kernel is nobody else's: not the reader's, not queued to the
\* command thread, not held by a user, not on its way to the kernel again.
KernelOwnsAlone ==
    \A b \in kernel :
        /\ buf_refcnt[b] = 0 \/ state \notin {"REG", "ACTIVE"}
        /\ rbuf # b /\ \A kind \in Kinds : <<b, kind>> \notin held
        /\ \A i \in DOMAIN cmd_queue : cmd_queue[i] # b
        /\ \A t \in Callers : at[t] = b => pc[t] = "mark"

\* queued_buffer_count, which the upper layer reads to see a stream starve, is
\* off by at most the calls in progress.
QueuedCountExact ==
    streaming =>
        queued_buffer_count = Cardinality(kernel) + One(rpc = "count")
                              + Cardinality({t \in Callers : pc[t] \in {"ioctl", "fail"}})

\* While the kernel has a buffer to fill, the descriptor is polled.
PolledWhileQueued ==
    streaming /\ state = "ACTIVE" /\ cpc = "idle" /\ kernel # {} => entry

\* When STOP has released the command thread, no reference of its own is left
\* behind in its queue: a restart does not find frames of the last session.
NothingLeftToDispatch ==
    ~cmd_active => cmd_queue = <<>> /\ pc[Worker] = "idle"

\* "indicate if buf is in kernel(1) or client(0)": when nobody works on a buffer
\* of a running stream, the flag tells where it is.
InKernelFlagTrue ==
    \A b \in Bufs :
        streaming /\ rbuf # b /\ (\A t \in Callers : at[t] # b)
            => in_kernel[b] = (b \in kernel)

\* "step1: remove fd from data poll thread": a stream whose buffers are put back
\* is not polled any more.
StoppedNotPolled == state = "CFG" => ~entry

\* "unreg buf", then "put buf back": the kernel has no buffer that is freed.
FreedNotInKernel == state = "CFG" => kernel = {}

\* A frame's buffer comes back to the kernel, unless the stream is turned off
\* first: the references handed out and those given back balance in the end.
BufferComesBack ==
    \A b \in Bufs : (rpc = "account" /\ rbuf = b) ~> (b \in kernel \/ ~streaming)

\* STOP returns: it waits for the poll thread and, holding cmd_lock, for the
\* command thread, and neither waits for it in turn.
StopReturns == cpc = "del" ~> cpc = "unreg"

\* The parts of the stream's bookkeeping fit together: the count of queued buffers,
\* the entry in the poll thread that depends on it, and the command thread's queue.
BookkeepingFits == TypeOK /\ QueuedCountExact /\ PolledWhileQueued /\ NothingLeftToDispatch

\* What has to happen in the end: buffers come back, and STOP returns.
Progress == BufferComesBack /\ StopReturns

=============================================================================
