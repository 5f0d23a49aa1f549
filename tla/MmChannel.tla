----------------------------- MODULE MmChannel -----------------------------
(***************************************************************************)
(* Start, stop and delete of a channel (mm_camera_channel.c), composed of  *)
(* what the other modules describe one by one: the channel's own streams   *)
(* (MmStream), streams linked from a channel that runs all the while, the  *)
(* command thread with the super buffer queue (SuperbufQueue on CmdThread) *)
(* and the thread that hands super buffers to the HAL.                     *)
(*                                                                         *)
(* The caller of an operation holds ch_lock until it returns, so there is  *)
(* one caller at a time, with a program counter. Readers, the two threads  *)
(* and the HAL, which gives buffers back without the lock, go on.          *)
(*                                                                         *)
(* What the queue does with a frame is left open here as SuperbufQueue     *)
(* leaves it: a frame stays, goes back, or goes up in a super buffer with  *)
(* one frame of every bundled stream. Of a stream's states only what the   *)
(* channel tells apart is kept. The HAL gives back every super buffer it   *)
(* has before it stops the channel and at once while the channel stops:    *)
(* mm_camera.c:552 "we always assume qbuf will be done before              *)
(* channel/stream is fully stopped".                                       *)
(***************************************************************************)
EXTENDS Integers, Sequences, SequencesExt, FiniteSets

CONSTANTS
    Slots,              \* the streams, in the order of streams[]
    Meta,               \* the metadata stream, one of the channel's own
    Linked,             \* those linked from another channel
    Bufs,               \* bound: the buffers of each stream
    MaxSessions,        \* bound: calls of START
    MaxRequests         \* bound: super buffer requests waiting at a time

Streams == Range(Slots)
Own == Streams \ Linked

ASSUME ChannelConstants ==
    /\ Slots \in Seq(Streams) /\ IsInjective(Slots) /\ Linked \subseteq Streams /\ Meta \in Own
    /\ DOMAIN Bufs = Streams /\ \A s \in Streams : IsFiniteSet(Bufs[s])
    /\ MaxSessions \in Nat /\ MaxRequests \in Nat

VARIABLES
    state,              \* of the channel
    pc,                 \* of the caller
    at,                 \* its place in a loop over the streams
    failed,             \* where START failed
    order,              \* s_objs: the streams as START or STOP takes them
    slots,              \* streams that are in streams[]
    stream,             \* state of the own streams
    isLinked,           \* linked streams that hand frames to this channel
    cmdThread,          \* the command thread runs
    cbThread,           \* the callback thread runs
    cmdQueue,           \* of the command thread: sequence of commands
    syncSem,
    superq,             \* frames in the super buffer queue
    cbQueue,            \* of the callback thread: sequence of super buffers
    app,                \* super buffers of the HAL
    pending,            \* pending_cnt
    continuous,         \* notify_mode
    kernel,             \* frames the streams have to fill
    lost,               \* frames of linked streams that nobody gives back
    sessions            \* calls of START so far

caller == <<state, pc, at, failed, order, slots, sessions>>
queues == <<cmdQueue, superq, cbQueue, app>>
threads == <<cmdThread, cbThread, syncSem, pending, continuous>>
vars == <<caller, stream, isLinked, queues, threads, kernel, lost>>

FramesOf(s) == {s} \X Bufs[s]
Frames == UNION {FramesOf(s) : s \in Streams}

Init ==
    /\ state = "STOPPED" /\ pc = "idle" /\ at = 1 /\ failed = 0 /\ order = <<>>
    /\ slots = Own /\ isLinked = {}
    /\ stream = [s \in Own |-> "CFG"]
    /\ cmdThread = FALSE /\ cbThread = FALSE
    /\ cmdQueue = <<>> /\ syncSem = 0 /\ superq = {} /\ cbQueue = <<>> /\ app = {}
    /\ pending = 0 /\ continuous \in BOOLEAN
    /\ kernel = UNION {FramesOf(s) : s \in Linked} /\ lost = {} /\ sessions = 0

Flush(type) == [type |-> "FLUSH", of |-> type]
DEFAULT == "DEFAULT"

Calls(here) == state = here /\ pc = "idle"
Send(cmd) == cmdQueue' = Append(cmdQueue, cmd)

-----------------------------------------------------------------------------
(* mm_channel_qbuf: a frame goes back to its stream, or nowhere when the    *)
(* stream is not in streams[] any more.                                     *)

Running(s) == s \in Linked \/ stream[s] = "ACTIVE"

Qbuf(frames) ==
    /\ kernel' = kernel \cup {f \in frames : f[1] \in slots /\ Running(f[1])}
    /\ lost' = lost \cup {f \in frames : f[1] \in Linked \ slots}

-----------------------------------------------------------------------------
(* Frames come in. *)

\* The reader of an own stream: the callback of the channel's poll thread.
NotifyChannel ==
    /\ \E f \in kernel :
         /\ f[1] \in Own /\ stream[f[1]] = "ACTIVE"
         /\ kernel' = kernel \ {f}
         /\ Send([type |-> "DATA", frame |-> f])
    /\ UNCHANGED <<caller, stream, isLinked, superq, cbQueue, app, threads, lost>>

\* The reader of a linked stream, under that stream's buf_lock.
NotifyLinked ==
    /\ \E f \in kernel :
         /\ f[1] \in isLinked
         /\ kernel' = kernel \ {f}
         /\ Send([type |-> "DATA", frame |-> f])
    /\ UNCHANGED <<caller, stream, isLinked, superq, cbQueue, app, threads, lost>>

-----------------------------------------------------------------------------
(* mm_channel_process_stream_buf: the command thread takes one command.     *)

Bundles(frames) ==
    {b \in SUBSET frames : \A s \in slots : Cardinality({f \in b : f[1] = s}) = 1}

\* Mutant: what goes up stays in the queue as well.
Settle_Copies(frames, n, mode) ==
    \E back \in {{}} \cup {{f} : f \in frames} :
      /\ Qbuf(back)
      /\ superq' = frames \ back
      /\ \/ pending' = n /\ UNCHANGED cbQueue
         \/ /\ mode \/ n > 0
            /\ \E b \in Bundles(frames \ back) : cbQueue' = Append(cbQueue, b)
            /\ pending' = IF mode THEN n ELSE n - 1

\* With these frames in the queue and n requests: what does not fit or
\* overflows goes back, and what is complete and asked for goes up.
Settle(frames, n, mode) ==
    \E back \in {{}} \cup {{f} : f \in frames} :
      /\ Qbuf(back)
      /\ \/ superq' = frames \ back /\ pending' = n /\ UNCHANGED cbQueue
         \/ /\ mode \/ n > 0
            /\ \E b \in Bundles(frames \ back) :
                 superq' = (frames \ back) \ b /\ cbQueue' = Append(cbQueue, b)
            /\ pending' = IF mode THEN n ELSE n - 1

CmdIs(type) == cmdThread /\ cmdQueue # <<>> /\ Head(cmdQueue).type = type

ProcData ==
    /\ CmdIs("DATA") /\ cmdQueue' = Tail(cmdQueue)
    /\ Settle(superq \cup {Head(cmdQueue).frame}, pending, continuous)
    /\ UNCHANGED <<caller, stream, isLinked, app, cmdThread, cbThread, syncSem, continuous>>

ProcRequest ==
    /\ CmdIs("REQUEST") /\ cmdQueue' = Tail(cmdQueue)
    /\ Settle(superq, Head(cmdQueue).count, continuous)
    /\ UNCHANGED <<caller, stream, isLinked, app, cmdThread, cbThread, syncSem, continuous>>

ProcConfig ==
    /\ CmdIs("CONFIG") /\ cmdQueue' = Tail(cmdQueue)
    /\ continuous' = Head(cmdQueue).mode
    /\ Settle(superq, pending, continuous')
    /\ UNCHANGED <<caller, stream, isLinked, app, cmdThread, cbThread, syncSem>>

\* Mutant: the acknowledgement is forgotten.
ProcFlush_NoAck ==
    /\ CmdIs("FLUSH") /\ cmdQueue' = Tail(cmdQueue)
    /\ Qbuf(superq) /\ superq' = {}
    /\ UNCHANGED <<caller, stream, isLinked, cbQueue, app, threads>>

\* Mutant: it is acknowledged twice.
ProcFlush_Twice ==
    /\ CmdIs("FLUSH") /\ cmdQueue' = Tail(cmdQueue)
    /\ Qbuf(superq) /\ superq' = {}
    /\ syncSem' = syncSem + 2
    /\ UNCHANGED <<caller, stream, isLinked, cbQueue, app, cmdThread, cbThread, pending, continuous>>

\* The queue is emptied; frames of other types than the one asked for go
\* nowhere. Then the caller is told.
ProcFlush ==
    /\ CmdIs("FLUSH") /\ cmdQueue' = Tail(cmdQueue)
    /\ LET of == Head(cmdQueue).of
           back == {f \in superq : of \in {DEFAULT, f[1]}}
           gone == {f \in superq \ back : f[1] \in Linked}
       IN  /\ kernel' = kernel \cup {f \in back : f[1] \in slots /\ Running(f[1])}
           /\ lost' = lost \cup gone \cup {f \in back : f[1] \in Linked \ slots}
    /\ superq' = {}
    /\ syncSem' = syncSem + 1
    /\ UNCHANGED <<caller, stream, isLinked, cbQueue, app, cmdThread, cbThread, pending, continuous>>

ProcExit ==
    /\ CmdIs("EXIT") /\ cmdQueue' = Tail(cmdQueue)
    /\ cmdThread' = FALSE
    /\ UNCHANGED <<caller, stream, isLinked, superq, cbQueue, app, cbThread, syncSem, pending,
                   continuous, kernel, lost>>

CmdThread == ProcData \/ ProcRequest \/ ProcConfig \/ ProcFlush \/ ProcExit

-----------------------------------------------------------------------------
(* The callback thread and the HAL. *)

StopPlaces == {"stop", "unlink", "flushed", "exit", "joinCmd", "exitCb", "joinCb", "put"}

\* mm_channel_dispatch_super_buf: the HAL keeps the super buffer, or gives it
\* back at once.
DispatchSuperBuf ==
    /\ cbThread /\ cbQueue # <<>> /\ Head(cbQueue) # {}
    /\ cbQueue' = Tail(cbQueue)
    /\ \/ Qbuf(Head(cbQueue)) /\ UNCHANGED app
       \/ /\ pc \notin StopPlaces
          /\ app' = app \cup {Head(cbQueue)}
          /\ UNCHANGED <<kernel, lost>>
    /\ UNCHANGED <<caller, stream, isLinked, cmdQueue, superq, threads>>

\* EXIT is the empty super buffer of this queue.
CbExit ==
    /\ cbThread /\ cbQueue # <<>> /\ Head(cbQueue) = {}
    /\ cbQueue' = Tail(cbQueue) /\ cbThread' = FALSE
    /\ UNCHANGED <<caller, stream, isLinked, cmdQueue, superq, app, cmdThread, syncSem, pending,
                   continuous, kernel, lost>>

CbThread == DispatchSuperBuf \/ CbExit

\* The HAL gives back a super buffer (mm_camera_qbuf takes no ch_lock).
GiveBack ==
    /\ \E b \in app : Qbuf(b) /\ app' = app \ {b}
    /\ UNCHANGED <<caller, stream, isLinked, cmdQueue, superq, cbQueue, threads>>

-----------------------------------------------------------------------------
(* mm_channel_fsm_fn_stopped: LINK_STREAM, DEL_STREAM, START. *)

LinkStream ==
    /\ Calls("STOPPED") /\ sessions < MaxSessions
    /\ \E s \in Linked \ slots : slots' = slots \cup {s}
    /\ UNCHANGED <<state, pc, at, failed, order, sessions, stream, isLinked, queues, threads, kernel, lost>>

DelStream ==
    /\ Calls("STOPPED")
    /\ \E s \in slots \cap Linked : slots' = slots \ {s} /\ isLinked' = isLinked \ {s}
    /\ UNCHANGED <<state, pc, at, failed, order, sessions, stream, queues, threads, kernel, lost>>

Swap(seq, i, j) == [seq EXCEPT ![i] = seq[j], ![j] = seq[i]]

\* s_objs: the streams that are in streams[], in its order.
InSlots ==
    LET taken == {p \in 1..Len(Slots) : Slots[p] \in slots}
        place == CHOOSE f \in [1..Cardinality(taken) -> taken] :
                   \A i, k \in 1..Cardinality(taken) : i < k => f[i] < f[k]
    IN  [i \in 1..Cardinality(taken) |-> Slots[place[i]]]

PlaceOfMeta == CHOOSE i \in DOMAIN InSlots : InSlots[i] = Meta

\* Mutant: the streams are started in the order of streams[].
StartOrder_Slots == InSlots

\* Metadata is started first and stopped last.
StartOrder == Swap(InSlots, 1, PlaceOfMeta)

StopOrder == Swap(InSlots, PlaceOfMeta, Len(InSlots))

\* mm_channel_start: the queue is set up and the threads are launched.
Start ==
    /\ Calls("STOPPED") /\ sessions < MaxSessions /\ app = {}
    /\ sessions' = sessions + 1
    /\ cmdThread' = TRUE /\ cbThread' = TRUE
    /\ cmdQueue' = <<>> /\ cbQueue' = <<>> /\ syncSem' = 0 /\ superq' = {}
    /\ pc' = "link" /\ at' = 1 /\ order' = StartOrder
    /\ UNCHANGED <<state, failed, slots, stream, isLinked, app, pending, continuous, kernel, lost>>

\* One linked stream after another, under its buf_lock.
StartLink ==
    /\ pc = "link"
    /\ \E s \in slots \cap Linked :
         s \notin isLinked /\ isLinked' = isLinked \cup {s}
    /\ UNCHANGED <<caller, stream, queues, threads, kernel, lost>>

StartLinked ==
    /\ pc = "link" /\ slots \cap Linked \subseteq isLinked
    /\ pc' = "start"
    /\ UNCHANGED <<state, at, failed, order, slots, sessions, stream, isLinked, queues, threads, kernel, lost>>

Here(last) == at <= last /\ order[at] \in Own

\* GET_BUF, REG_BUF and START of the next stream of one's own.
StartStream ==
    /\ pc = "start" /\ Here(Len(order))
    /\ LET s == order[at]
       IN  stream' = [stream EXCEPT ![s] = "ACTIVE"] /\ kernel' = kernel \cup FramesOf(s)
    /\ at' = at + 1
    /\ UNCHANGED <<state, pc, failed, order, slots, sessions, isLinked, queues, threads, lost>>

\* Linked streams are passed over, by START, its error path and STOP.
PassOver ==
    /\ \/ pc \in {"start", "stop"} /\ at <= Len(order)
       \/ pc = "undo" /\ at <= failed
    /\ order[at] \in Linked
    /\ at' = at + 1
    /\ UNCHANGED <<state, pc, failed, order, slots, sessions, stream, isLinked, queues, threads, kernel, lost>>

Started ==
    /\ pc = "start" /\ at > Len(order)
    /\ pc' = "idle" /\ state' = "ACTIVE"
    /\ UNCHANGED <<at, failed, order, slots, sessions, stream, isLinked, queues, threads, kernel, lost>>

\* No memory, no registration or no start.
StartFails ==
    /\ pc = "start" /\ Here(Len(order))
    /\ \E got \in {"CFG", "BUFFED", "REG"} :
         stream' = [stream EXCEPT ![order[at]] = got]
    /\ failed' = at /\ pc' = "undo link"
    /\ UNCHANGED <<state, at, order, slots, sessions, isLinked, queues, threads, kernel, lost>>

-----------------------------------------------------------------------------
(* The error path of mm_channel_start. *)

\* A linked stream is unlinked, the queue is flushed by the type of the stream
\* that failed, and the slot is cleared.
UndoLink ==
    /\ pc = "undo link"
    /\ \E s \in slots \cap Linked : isLinked' = isLinked \ {s}
    /\ Send(Flush(order[failed]))
    /\ pc' = "undo flushed"
    /\ UNCHANGED <<state, at, failed, order, slots, sessions, stream, superq, cbQueue, app, threads, kernel, lost>>

UndoLinkFlushed ==
    /\ pc = "undo flushed" /\ syncSem > 0
    /\ syncSem' = syncSem - 1
    /\ \E s \in (slots \cap Linked) \ isLinked : slots' = slots \ {s}
    /\ pc' = "undo link"
    /\ UNCHANGED <<state, at, failed, order, sessions, stream, isLinked, queues, cmdThread, cbThread, pending, continuous,
                   kernel, lost>>

UndoLinked ==
    /\ pc = "undo link" /\ slots \cap Linked = {}
    /\ pc' = "undo" /\ at' = 1
    /\ UNCHANGED <<state, failed, order, slots, sessions, stream, isLinked, queues, threads, kernel, lost>>

\* Mutant: the stream that failed is not taken back.
UndoStream_Before ==
    /\ pc = "undo" /\ Here(failed)
    /\ stream' = IF at = failed THEN stream ELSE [stream EXCEPT ![order[at]] = "CFG"]
    /\ kernel' = kernel \ FramesOf(order[at])
    /\ at' = at + 1
    /\ UNCHANGED <<state, pc, failed, order, slots, sessions, isLinked, queues, threads, lost>>

\* STOP, UNREG_BUF and PUT_BUF of each stream up to the one that failed.
UndoStream ==
    /\ pc = "undo" /\ Here(failed)
    /\ stream' = [stream EXCEPT ![order[at]] = "CFG"]
    /\ kernel' = kernel \ FramesOf(order[at])
    /\ at' = at + 1
    /\ UNCHANGED <<state, pc, failed, order, slots, sessions, isLinked, queues, threads, lost>>

-----------------------------------------------------------------------------
(* mm_channel_stop. *)

Stop ==
    /\ Calls("ACTIVE") /\ app = {}
    /\ pc' = "stop" /\ at' = 1 /\ order' = StopOrder
    /\ UNCHANGED <<state, failed, slots, sessions, stream, isLinked, queues, threads, kernel, lost>>

\* STOP and UNREG_BUF of one stream.
StopStream ==
    /\ pc = "stop" /\ Here(Len(order))
    /\ stream' = [stream EXCEPT ![order[at]] = "BUFFED"]
    /\ kernel' = kernel \ FramesOf(order[at])
    /\ at' = at + 1
    /\ UNCHANGED <<state, pc, failed, order, slots, sessions, isLinked, queues, threads, lost>>

StopStreams ==
    /\ pc = "stop" /\ at > Len(order)
    /\ pc' = "unlink"
    /\ UNCHANGED <<state, at, failed, order, slots, sessions, stream, isLinked, queues, threads, kernel, lost>>

StopUnlink ==
    /\ pc = "unlink"
    /\ \E s \in isLinked : isLinked' = isLinked \ {s}
    /\ UNCHANGED <<caller, stream, queues, threads, kernel, lost>>

\* Mutant: no flush before the command thread is stopped.
StopFlush_Not ==
    /\ pc = "unlink" /\ isLinked = {}
    /\ pc' = "exit"
    /\ UNCHANGED <<state, at, failed, order, slots, sessions, stream, isLinked, queues, threads, kernel, lost>>

\* Mutant: the streams are still linked.
StopFlush_Linked ==
    /\ pc = "unlink"
    /\ Send(Flush(DEFAULT))
    /\ pc' = "flushed"
    /\ UNCHANGED <<state, at, failed, order, slots, sessions, stream, isLinked, superq, cbQueue, app,
                   threads, kernel, lost>>

StopFlush ==
    /\ pc = "unlink" /\ isLinked = {}
    /\ Send(Flush(DEFAULT))
    /\ pc' = "flushed"
    /\ UNCHANGED <<state, at, failed, order, slots, sessions, stream, isLinked, superq, cbQueue, app, threads, kernel,
                   lost>>

StopFlushed ==
    /\ pc = "flushed" /\ syncSem > 0
    /\ syncSem' = syncSem - 1 /\ pc' = "exit"
    /\ UNCHANGED <<state, at, failed, order, slots, sessions, stream, isLinked, queues, cmdThread, cbThread, pending,
                   continuous, kernel, lost>>

-----------------------------------------------------------------------------
(* The end of both: the two threads are released, the queue is given up.    *)

Exit ==
    /\ \/ pc = "exit" /\ pc' = "joinCmd"
       \/ pc = "undo" /\ at > failed /\ pc' = "undo joinCmd"
    /\ Send([type |-> "EXIT"])
    /\ UNCHANGED <<state, at, failed, order, slots, sessions, stream, isLinked, superq, cbQueue, app, threads, kernel,
                   lost>>

JoinCmd ==
    /\ ~cmdThread
    /\ \/ pc = "joinCmd" /\ pc' = "joinCb"
       \/ pc = "undo joinCmd" /\ pc' = "undo joinCb"
    /\ cbQueue' = Append(cbQueue, {})
    /\ UNCHANGED <<state, at, failed, order, slots, sessions, stream, isLinked, cmdQueue, superq, app, threads,
                   kernel, lost>>

\* Mutant: the thread is cancelled, not asked to exit.
JoinCb_Cancelled ==
    /\ pc = "joinCb" /\ pc' = "put"
    /\ cbThread' = FALSE /\ cbQueue' = SelectSeq(cbQueue, LAMBDA b : b # {})
    /\ superq' = {}
    /\ lost' = lost \cup {f \in superq : f[1] \in Linked}
    /\ UNCHANGED <<state, at, failed, order, slots, sessions, stream, isLinked, cmdQueue, app,
                   cmdThread, syncSem, pending, continuous, kernel>>

\* mm_channel_superbuf_queue_deinit frees what is in the queue.
JoinCb ==
    /\ ~cbThread
    /\ pc = "joinCb" /\ pc' = "put"
    /\ superq' = {}
    /\ lost' = lost \cup {f \in superq : f[1] \in Linked}
    /\ UNCHANGED <<state, at, failed, order, slots, sessions, stream, isLinked, cmdQueue, cbQueue, app,
                   threads, kernel>>

\* The error path clears the queue with its attributes: notify_mode is BURST.
UndoJoinCb ==
    /\ ~cbThread
    /\ pc = "undo joinCb" /\ pc' = "idle"
    /\ superq' = {}
    /\ lost' = lost \cup {f \in superq : f[1] \in Linked}
    /\ continuous' = FALSE
    /\ UNCHANGED <<state, at, failed, order, slots, sessions, stream, isLinked, cmdQueue, cbQueue, app,
                   cmdThread, cbThread, syncSem, pending, kernel>>

\* PUT_BUF of the own streams, and the slots of the linked ones are cleared.
StopPut ==
    /\ pc = "put"
    /\ stream' = [s \in Own |-> "CFG"]
    /\ slots' = slots \ Linked
    /\ pc' = "idle" /\ state' = "STOPPED"
    /\ UNCHANGED <<at, failed, order, sessions, isLinked, queues, threads, kernel, lost>>

-----------------------------------------------------------------------------
(* mm_channel_fsm_fn_active: commands for the command thread. *)

Waiting == Len(SelectSeq(cmdQueue, LAMBDA c : c.type \in {"REQUEST", "CONFIG"})) < MaxRequests

\* A request for super buffers; cancelling is one for none.
RequestSuperBuf ==
    /\ Calls("ACTIVE") /\ Waiting
    /\ \E n \in 0..1 : Send([type |-> "REQUEST", count |-> n])
    /\ UNCHANGED <<caller, stream, isLinked, superq, cbQueue, app, threads, kernel, lost>>

ConfigNotifyMode ==
    /\ Calls("ACTIVE") /\ Waiting
    /\ Send([type |-> "CONFIG", mode |-> ~continuous])
    /\ UNCHANGED <<caller, stream, isLinked, superq, cbQueue, app, threads, kernel, lost>>

FlushSuperBufQueue ==
    /\ Calls("ACTIVE")
    /\ Send(Flush(DEFAULT))
    /\ pc' = "flush"
    /\ UNCHANGED <<state, at, failed, order, slots, sessions, stream, isLinked, superq, cbQueue, app, threads, kernel,
                   lost>>

FlushAcked ==
    /\ pc = "flush" /\ syncSem > 0
    /\ syncSem' = syncSem - 1 /\ pc' = "idle"
    /\ UNCHANGED <<state, at, failed, order, slots, sessions, stream, isLinked, queues, cmdThread, cbThread, pending,
                   continuous, kernel, lost>>

-----------------------------------------------------------------------------
CallStep ==
    \/ StartLink \/ StartLinked \/ StartStream \/ PassOver \/ Started \/ StartFails
    \/ UndoLink \/ UndoLinkFlushed \/ UndoLinked \/ UndoStream
    \/ StopStream \/ StopStreams \/ StopUnlink \/ StopFlush \/ StopFlushed
    \/ Exit \/ JoinCmd \/ JoinCb \/ UndoJoinCb \/ StopPut
    \/ FlushAcked

Next ==
    \/ LinkStream \/ DelStream \/ Start \/ Stop
    \/ RequestSuperBuf \/ ConfigNotifyMode \/ FlushSuperBufQueue
    \/ CallStep
    \/ NotifyChannel \/ NotifyLinked
    \/ CmdThread \/ CbThread \/ GiveBack

Spec == Init /\ [][Next]_vars

\* Threads go on; the HAL gives back what it has before it stops the channel.
Fairness == WF_vars(CallStep) /\ WF_vars(CmdThread) /\ WF_vars(CbThread) /\ WF_vars(GiveBack)

FairSpec == Spec /\ Fairness

-----------------------------------------------------------------------------
(* Properties. *)

Undoing == pc \in {"undo link", "undo flushed", "undo", "undo joinCmd", "undo joinCb"}

InCmdQueue == {cmdQueue[i].frame : i \in {j \in DOMAIN cmdQueue : cmdQueue[j].type = "DATA"}}
InCbQueue == UNION Range(cbQueue)

\* Frames in the hands of the channel's threads.
Handled == InCmdQueue \cup superq \cup InCbQueue

\* The ranges of the variables.
TypeOK ==
    /\ state \in {"STOPPED", "ACTIVE"}
    /\ at \in 1..(Len(Slots) + 1) /\ failed \in 0..Len(Slots) /\ Range(order) \subseteq Streams
    /\ Own \subseteq slots /\ slots \subseteq Streams /\ isLinked \subseteq slots \cap Linked
    /\ stream \in [Own -> {"CFG", "BUFFED", "REG", "ACTIVE"}]
    /\ syncSem \in 0..1 /\ pending \in Nat /\ sessions \in 0..MaxSessions
    /\ Handled \cup kernel \cup lost \cup UNION app \subseteq Frames

\* A frame is with its stream, with one thread of the channel or with the HAL,
\* never with two of them, whatever is started and stopped in between.
FrameInOnePlace ==
    /\ kernel \cap (Handled \cup UNION app) = {}
    /\ InCmdQueue \cap (superq \cup InCbQueue \cup UNION app) = {}
    /\ superq \cap (InCbQueue \cup UNION app) = {}
    /\ InCbQueue \cap UNION app = {}

\* Metadata is streamed whenever another stream of the channel is ("always start
\* meta data stream first", "always stop meta data stream last"), the error path
\* of START aside, which takes the streams in the order they were started.
MetaWheneverStreaming ==
    (\E s \in Own : stream[s] = "ACTIVE") => stream[Meta] = "ACTIVE" \/ Undoing

\* After a stop or a start that failed nothing of the channel runs, nothing is
\* queued and no other channel's stream sends it frames.
StoppedIsQuiet ==
    Calls("STOPPED") =>
        /\ \A s \in Own : stream[s] = "CFG"
        /\ ~cmdThread /\ ~cbThread /\ isLinked = {}
        /\ Handled = {} /\ cmdQueue = <<>> /\ cbQueue = <<>>

\* No frame or command is queued for the command thread once it is gone: its
\* queue has been freed.
NothingForDeadThread == ~cmdThread => cmdQueue = <<>>

\* The buffers of a stream are freed only when none of its frames is in a queue
\* of the channel or with the HAL ("since all streams are stopped, we are safe to
\* release all buffers"), unless START failed.
FreedAtRest == pc = "put" => Handled \cup UNION app = {}

\* STOP gives every frame of a linked stream back to its own channel.
StopLosesNothing == [][state = "ACTIVE" => lost' = lost]_vars

\* START, STOP and FLUSH return.
CallsReturn == pc # "idle" ~> pc = "idle"

\* A flush by type leaves the frames of other streams alone ("flush only
\* particular type"), so the error path of START loses none either.
FailedStartLosesNothing == lost = {}

\* START and STOP leave the channel as they claim: metadata runs while others do,
\* and a stopped channel is quiet, with dead threads given nothing and buffers
\* freed when nobody had them; and no frame is in two places on the way.
StartStopClean ==
    /\ TypeOK /\ FrameInOnePlace
    /\ MetaWheneverStreaming /\ StoppedIsQuiet
    /\ NothingForDeadThread /\ FreedAtRest

=============================================================================
