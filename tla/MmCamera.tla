------------------------------ MODULE MmCamera ------------------------------
(***************************************************************************)
(* The camera object and the interface in front of it (mm_camera.c,        *)
(* mm_camera_interface.c): open and close with a reference count, the hand *)
(* over of locks that every call makes (g_intf_lock, then cam_lock, then   *)
(* ch_lock), the round trip of a map message to the daemon, and the two    *)
(* threads that bring its events to the HAL.                               *)
(*                                                                         *)
(* There is one camera index and one channel of it, with the thread that   *)
(* hands its frames to the HAL and on which the HAL gives them back. What  *)
(* a channel does inside START and STOP is MmChannel's; here STOP waits    *)
(* for that thread, as the join in mm_camera_cmd_thread_release does.      *)
(*                                                                         *)
(* The callers keep the contract the HAL keeps: every one closes what it   *)
(* opened, and deletes its channel first, once that is stopped.            *)
(***************************************************************************)
EXTENDS Integers, Sequences, SequencesExt, FiniteSets

CONSTANTS
    Callers,            \* threads of the HAL that call the interface
    MaxObjs,            \* bound: camera objects at a time
    MaxMsgs,            \* bound: map messages that a caller or the daemon knows of
    MaxEvents,          \* bound: other events of the daemon waiting at a time
    OpensOverlap,       \* two callers may open the closed camera at a time
    ChannelCallsOverlap,\* two callers may be in calls on the channel at a time
    NULL

Objs == 1..MaxObjs
Msgs == 1..MaxMsgs

CameraCalls == {"register", "map", "add_channel"}
ChannelCalls == {"start", "stop", "map_stream", "del_channel"}

ASSUME CameraConstants ==
    /\ IsFiniteSet(Callers) /\ NULL \notin Callers \cup Objs /\ Callers \cap Objs = {}
    /\ NULL \notin 0..MaxMsgs /\ NULL \notin CameraCalls \cup ChannelCalls \cup {"close"}
    /\ MaxObjs \in Nat /\ MaxMsgs \in Nat /\ MaxEvents \in Nat
    /\ OpensOverlap \in BOOLEAN /\ ChannelCallsOverlap \in BOOLEAN

VARIABLES
    intf,               \* holder of g_intf_lock; thread o is the data thread of object o
    published,          \* g_cam_ctrl.cam_obj[idx]
    obj,                \* the camera objects
    call,               \* the callers
    data                \* the data thread of the channel of each object

vars == <<intf, published, obj, call, data>>

Event == 0              \* of the daemon, that answers no message; others are answers

Unallocated ==
    [life |-> "free",   \* or live
     ref |-> 0, cam |-> NULL, ch |-> NULL, msg |-> NULL,
     chan |-> "NOTUSED", owner |-> NULL,
     poll |-> FALSE,    \* the event poll thread has the control fd
     evt |-> FALSE,     \* the event thread runs
     exit |-> FALSE,    \* and has been told to stop
     kernel |-> <<>>,   \* events of the control fd not dequeued yet
     wire |-> {},       \* map messages the daemon has not answered
     rcvd |-> NULL,     \* evt_rcvd
     queue |-> 0,       \* events in the event thread's queue
     cb |-> FALSE,      \* cb_lock: the event thread is in the callbacks
      late |-> FALSE]    \* some wait for an answer ended without it

Idle == [pc |-> "idle", op |-> NULL, hdl |-> NULL, o |-> NULL, msg |-> NULL, ans |-> NULL]

Init ==
    /\ intf = NULL /\ published = NULL
    /\ obj = [o \in Objs |-> Unallocated]
    /\ call = [t \in Callers |-> Idle]
    /\ data = [o \in Objs |-> "off"]

At(t, pc) == call[t].pc = pc
Goto(t, pc) == call' = [call EXCEPT ![t].pc = pc]
Return(t) == call' = [call EXCEPT ![t] = [Idle EXCEPT !.hdl = call[t].hdl]]
NoHandle(t) == call' = [call EXCEPT ![t] = Idle]

-----------------------------------------------------------------------------
(* camera_open *)

\* The memory of an object is used again, its handle is not.
Unknown(o) == obj[o] = Unallocated /\ \A t \in Callers : o \notin {call[t].o, call[t].hdl}

Opening == {t \in Callers : call[t].pc \in {"open", "publish", "unpublish"}}

\* Up to the first unlock of g_intf_lock: a reference to the object there is,
\* or a new object, whose cam_lock is taken before any one can know it.
OpenBegin(t) ==
    /\ At(t, "idle") /\ call[t].hdl = NULL /\ intf = NULL
    /\ \/ /\ published # NULL
          /\ obj' = [obj EXCEPT ![published].ref = @ + 1]
          /\ Goto(t, "reopen")
       \/ \E o \in Objs :
            /\ published = NULL /\ Unknown(o)
            /\ OpensOverlap \/ Opening = {}
            /\ obj' = [obj EXCEPT ![o] = [@ EXCEPT !.life = "live", !.ref = 1, !.cam = t]]
            /\ call' = [call EXCEPT ![t].pc = "open", ![t].o = o]
    /\ UNCHANGED <<intf, published, data>>

\* "opened already": the handle is read again after the lock is released.
Reopened(t) ==
    /\ At(t, "reopen")
    /\ call' = [call EXCEPT ![t] = [Idle EXCEPT !.hdl = published]]
    /\ UNCHANGED <<intf, published, obj, data>>

\* mm_camera_open: the device does not open, or both threads start; whether the
\* subscription to events is refused nobody asks.
Open(t) ==
    LET o == call[t].o IN
    /\ At(t, "open")
    /\ \/ /\ obj' = [obj EXCEPT ![o].cam = NULL]
          /\ Goto(t, "unpublish")
       \/ \E subscribed \in BOOLEAN :
            /\ obj' = [obj EXCEPT ![o].cam = NULL, ![o].evt = TRUE, ![o].poll = subscribed]
            /\ Goto(t, "publish")
    /\ UNCHANGED <<intf, published, data>>

OpenEnd(t) ==
    LET o == call[t].o IN
    /\ intf = NULL
    /\ \/ /\ At(t, "publish")
          /\ published' = o
          /\ call' = [call EXCEPT ![t] = [Idle EXCEPT !.hdl = o]]
          /\ UNCHANGED obj
       \/ /\ At(t, "unpublish")
          /\ published' = NULL
          /\ obj' = [obj EXCEPT ![o] = Unallocated]
          /\ NoHandle(t)
    /\ UNCHANGED <<intf, data>>

-----------------------------------------------------------------------------
(* Calls. *)

InChannelCall == {t \in Callers : call[t].op \in ChannelCalls}

\* What the HAL asks for, at a moment it may ask for it.
MayCall(t, op) ==
    LET o == call[t].hdl IN
    CASE op = "close"       -> obj[o].owner # t
      [] op = "add_channel" -> obj[o].owner = NULL /\ \A u \in Callers : call[u].op # op
      [] op = "register"    -> TRUE
      [] op = "map"         -> TRUE
      [] op \in ChannelCalls ->
            /\ obj[o].chan # "NOTUSED"
            /\ ChannelCallsOverlap \/ InChannelCall = {}
            /\ op = "del_channel" => /\ obj[o].owner = t /\ obj[o].chan = "STOPPED"
                                     /\ InChannelCall = {}

Call(t, op) ==
    /\ At(t, "idle") /\ call[t].hdl # NULL /\ MayCall(t, op)
    /\ call' = [call EXCEPT ![t].pc = "intf", ![t].op = op]
    /\ UNCHANGED <<intf, published, obj, data>>

Refused(t) == IF call[t].op = "close" THEN NoHandle(t) ELSE Return(t)

\* Every mm_camera_intf_ function: look the handle up under g_intf_lock, and go
\* on to wait for the object's cam_lock with it.
Lookup(t) ==
    LET o == call[t].hdl IN
    /\ At(t, "intf") /\ intf = NULL /\ call[t].op # "close"
    /\ IF published = o
       THEN intf' = t /\ call' = [call EXCEPT ![t].pc = "cam", ![t].o = o]
       ELSE UNCHANGED intf /\ Refused(t)
    /\ UNCHANGED <<published, obj, data>>

\* MUTANT: the camera is closed while one other reference is left.
CloseLookup_Early(t) ==
    LET o == call[t].hdl IN
    /\ At(t, "intf") /\ intf = NULL /\ call[t].op = "close"
    /\ IF published = o
       THEN /\ obj' = [obj EXCEPT ![o].ref = @ - 1]
            /\ IF obj[o].ref > 2
               THEN NoHandle(t) /\ UNCHANGED <<intf, published>>
               ELSE /\ published' = NULL /\ intf' = t
                    /\ call' = [call EXCEPT ![t].pc = "cam", ![t].o = o]
       ELSE Refused(t) /\ UNCHANGED <<intf, published, obj>>
    /\ UNCHANGED data

\* mm_camera_intf_close: only the last reference goes on to close.
CloseLookup(t) ==
    LET o == call[t].hdl IN
    /\ At(t, "intf") /\ intf = NULL /\ call[t].op = "close"
    /\ IF published = o
       THEN /\ obj' = [obj EXCEPT ![o].ref = @ - 1]
            /\ IF obj[o].ref > 1
               THEN NoHandle(t) /\ UNCHANGED <<intf, published>>
               ELSE /\ published' = NULL /\ intf' = t
                    /\ call' = [call EXCEPT ![t].pc = "cam", ![t].o = o]
       ELSE Refused(t) /\ UNCHANGED <<intf, published, obj>>
    /\ UNCHANGED <<data>>

EnterCamera(t) ==
    LET o == call[t].o IN
    /\ At(t, "cam") /\ obj[o].cam = NULL
    /\ intf' = NULL /\ obj' = [obj EXCEPT ![o].cam = t]
    /\ Goto(t, IF call[t].op \in ChannelCalls THEN "ch" ELSE call[t].op)
    /\ UNCHANGED <<published, data>>

\* MUTANT: cam_lock is kept until the call on the channel comes back.
EnterChannel_KeepsCam(t) ==
    LET o == call[t].o IN
    /\ At(t, "ch") /\ obj[o].chan # "NOTUSED" /\ obj[o].ch = NULL
    /\ obj' = [obj EXCEPT ![o].ch = t]
    /\ Goto(t, call[t].op)
    /\ UNCHANGED <<intf, published, data>>

\* The calls on a channel: cam_lock is kept until ch_lock is there.
EnterChannel(t) ==
    LET o == call[t].o IN
    /\ At(t, "ch")
    /\ IF obj[o].chan = "NOTUSED"
       THEN obj' = [obj EXCEPT ![o].cam = NULL] /\ Return(t)
       ELSE /\ obj[o].ch = NULL
            /\ obj' = [obj EXCEPT ![o].cam = NULL, ![o].ch = t]
            /\ Goto(t, call[t].op)
    /\ UNCHANGED <<intf, published, data>>

AddChannel(t) ==
    LET o == call[t].o IN
    /\ At(t, "add_channel")
    /\ obj' = [obj EXCEPT ![o] = [@ EXCEPT !.chan = "STOPPED", !.owner = t, !.cam = NULL]]
    /\ Return(t)
    /\ UNCHANGED <<intf, published, data>>

\* mm_camera_register_event_notify: waits for the callbacks under way.
RegisterEventNotify(t) ==
    LET o == call[t].o IN
    /\ At(t, "register") /\ ~obj[o].cb
    /\ obj' = [obj EXCEPT ![o].cam = NULL]
    /\ Return(t)
    /\ UNCHANGED <<intf, published, data>>

StartChannel(t) ==
    LET o == call[t].o IN
    /\ At(t, "start")
    /\ obj' = [obj EXCEPT ![o].chan = "ACTIVE", ![o].ch = NULL]
    /\ data' = [data EXCEPT ![o] = IF @ = "off" THEN "ready" ELSE @]
    /\ Return(t)
    /\ UNCHANGED <<intf, published>>

StopChannel(t) ==
    LET o == call[t].o IN
    /\ At(t, "stop")
    /\ IF obj[o].chan = "ACTIVE"
       THEN Goto(t, "join") /\ obj' = [obj EXCEPT ![o].chan = "STOPPED"]
       ELSE Return(t) /\ obj' = [obj EXCEPT ![o].ch = NULL]
    /\ UNCHANGED <<intf, published, data>>

\* MUTANT: the join does not wait for a callback that waits for g_intf_lock.
JoinData_Early(t) ==
    LET o == call[t].o IN
    /\ At(t, "join") /\ data[o] # "cam"
    /\ data' = [data EXCEPT ![o] = IF @ = "ready" THEN "off" ELSE @]
    /\ obj' = [obj EXCEPT ![o].ch = NULL]
    /\ Return(t)
    /\ UNCHANGED <<intf, published>>

JoinData(t) ==
    LET o == call[t].o IN
    /\ At(t, "join") /\ data[o] = "ready"
    /\ data' = [data EXCEPT ![o] = "off"]
    /\ obj' = [obj EXCEPT ![o].ch = NULL]
    /\ Return(t)
    /\ UNCHANGED <<intf, published>>

DelChannel(t) ==
    LET o == call[t].o IN
    /\ At(t, "del_channel")
    /\ obj' = [obj EXCEPT ![o] = [@ EXCEPT !.chan = "NOTUSED", !.owner = NULL, !.ch = NULL]]
    /\ Return(t)
    /\ UNCHANGED <<intf, published, data>>

-----------------------------------------------------------------------------
(* The data thread of a channel: the callback gives the frame back, by the  *)
(* handle, through g_intf_lock and cam_lock but not ch_lock.                *)

FrameUp(o) ==
    /\ data[o] = "ready" /\ obj[o].chan = "ACTIVE"
    /\ data' = [data EXCEPT ![o] = "intf"]
    /\ UNCHANGED <<intf, published, obj, call>>

QbufLookup(o) ==
    /\ data[o] = "intf" /\ intf = NULL
    /\ IF published = o
       THEN intf' = o /\ data' = [data EXCEPT ![o] = "cam"]
       ELSE UNCHANGED intf /\ data' = [data EXCEPT ![o] = "ready"]
    /\ UNCHANGED <<published, obj, call>>

\* mm_camera_qbuf unlocks cam_lock before it gives the buffer to the stream.
Qbuf(o) ==
    /\ data[o] = "cam" /\ obj[o].cam = NULL
    /\ intf' = NULL
    /\ data' = [data EXCEPT ![o] = "ready"]
    /\ UNCHANGED <<published, obj, call>>

-----------------------------------------------------------------------------
(* mm_camera_util_sendmsg: a message to the daemon and its answer, under    *)
(* msg_lock. The answer is whatever evt_rcvd holds.                         *)

\* A message somebody may still send, answer or take for an answer.
InPlay(m) ==
    \/ \E t \in Callers : call[t].msg = m
    \/ \E o \in Objs :
         \/ m \in obj[o].wire
         \/ m \in Range(obj[o].kernel) \cup {obj[o].rcvd}

Mapping == {"map", "map_stream"}

\* The lock the caller of a map call holds meanwhile is given back at the end.
LeaveMap(t, o, changed) ==
    /\ obj' = [obj EXCEPT ![o] =
                 IF call[t].op = "map" THEN [changed EXCEPT !.cam = NULL]
                                       ELSE [changed EXCEPT !.ch = NULL]]
    /\ Return(t)

SendMsg(t) ==
    LET o == call[t].o IN
    /\ call[t].pc \in Mapping /\ obj[o].msg = NULL
    /\ \/ \E m \in Msgs :
            /\ ~InPlay(m)
            /\ obj' = [obj EXCEPT ![o].msg = t, ![o].wire = @ \cup {m}]
            /\ call' = [call EXCEPT ![t].pc = "wait", ![t].msg = m]
       \/ LeaveMap(t, o, obj[o])
    /\ UNCHANGED <<intf, published, data>>

\* MUTANT: evt_rcvd is not cleared for the next message.
WaitEvent_Kept(t) ==
    LET o == call[t].o IN
    /\ At(t, "wait") /\ obj[o].rcvd # NULL
    /\ call' = [call EXCEPT ![t].pc = "mapped", ![t].ans = obj[o].rcvd]
    /\ UNCHANGED <<intf, published, obj, data>>

\* The wait ends with what was received.
WaitEvent(t) ==
    LET o == call[t].o IN
    /\ At(t, "wait") /\ obj[o].rcvd # NULL
    /\ call' = [call EXCEPT ![t].pc = "mapped", ![t].ans = obj[o].rcvd]
    /\ obj' = [obj EXCEPT ![o].rcvd = NULL]
    /\ UNCHANGED <<intf, published, data>>

\* MUTANT: the wait has no time limit.
WaitTimeout_Never(t) == FALSE /\ Goto(t, "mapped") /\ UNCHANGED <<intf, published, obj, data>>

\* pthread_cond_timedwait timed out: the call fails, answered or not.
WaitTimeout(t) ==
    LET o == call[t].o IN
    /\ At(t, "wait")
    /\ Goto(t, "mapped")
    /\ obj' = [obj EXCEPT ![o].rcvd = NULL, ![o].late = TRUE]
    /\ UNCHANGED <<intf, published, data>>

EndMsg(t) ==
    LET o == call[t].o IN
    /\ At(t, "mapped")
    /\ LeaveMap(t, o, [obj[o] EXCEPT !.msg = NULL])
    /\ UNCHANGED <<intf, published, data>>

-----------------------------------------------------------------------------
(* mm_camera_close, under cam_lock. *)

\* MUTANT: the event thread is stopped first, the thread that feeds it after.
Unsubscribe_EvtFirst(t) ==
    /\ At(t, "close")
    /\ Goto(t, "release_evt")
    /\ UNCHANGED <<intf, published, obj, data>>

\* The subscription ends, and takes the events with it, and the fd is removed
\* from the poll thread; or the ioctl fails and neither happens.
Unsubscribe(t) ==
    LET o == call[t].o IN
    /\ At(t, "close")
    /\ Goto(t, "release_poll")
    /\ \/ obj' = [obj EXCEPT ![o].poll = FALSE, ![o].kernel = <<>>]
       \/ UNCHANGED obj
    /\ UNCHANGED <<intf, published, data>>

ReleasePoll(t) ==
    LET o == call[t].o IN
    /\ At(t, "release_poll")
    /\ obj' = [obj EXCEPT ![o].poll = FALSE]
    /\ Goto(t, "release_evt")
    /\ UNCHANGED <<intf, published, data>>

ReleaseEvt(t) ==
    LET o == call[t].o IN
    /\ At(t, "release_evt")
    /\ obj' = [obj EXCEPT ![o].exit = TRUE]
    /\ Goto(t, "join_evt")
    /\ UNCHANGED <<intf, published, data>>

\* The control fd is closed and the object freed.
CloseEnd(t) ==
    LET o == call[t].o IN
    /\ At(t, "join_evt") /\ ~obj[o].evt
    /\ obj' = [obj EXCEPT ![o] = Unallocated]
    /\ NoHandle(t)
    /\ UNCHANGED <<intf, published, data>>

-----------------------------------------------------------------------------
(* The daemon and the two threads of the object. *)

Waiting(o) == Len(SelectSeq(obj[o].kernel, LAMBDA e : e = Event)) + obj[o].queue

Daemon(o) ==
    /\ obj[o].evt /\ obj[o].poll
    /\ \/ \E m \in obj[o].wire :
            obj' = [obj EXCEPT ![o].wire = @ \ {m}, ![o].kernel = Append(@, m)]
       \/ /\ Waiting(o) < MaxEvents
          /\ obj' = [obj EXCEPT ![o].kernel = Append(@, Event)]
    /\ UNCHANGED <<intf, published, call, data>>

\* mm_camera_event_notify, on the event poll thread.
EventNotify(o) ==
    /\ obj[o].poll /\ obj[o].kernel # <<>>
    /\ LET e == Head(obj[o].kernel) IN
       obj' = [obj EXCEPT ![o].kernel = Tail(@),
                          ![o].rcvd = IF e = Event THEN @ ELSE e,
                          ![o].queue = IF e = Event THEN @ + 1 ELSE @]
    /\ UNCHANGED <<intf, published, call, data>>

\* MUTANT: a wake-up with an empty queue dispatches.
DispatchBegin_Empty(o) ==
    /\ obj[o].evt /\ ~obj[o].cb
    /\ obj' = [obj EXCEPT ![o].queue = @ - 1, ![o].cb = TRUE]
    /\ UNCHANGED <<intf, published, call, data>>

\* mm_camera_dispatch_app_event: the callbacks run under cb_lock.
DispatchBegin(o) ==
    /\ obj[o].evt /\ ~obj[o].cb /\ obj[o].queue > 0
    /\ obj' = [obj EXCEPT ![o].queue = @ - 1, ![o].cb = TRUE]
    /\ UNCHANGED <<intf, published, call, data>>

DispatchEnd(o) ==
    /\ obj[o].cb
    /\ obj' = [obj EXCEPT ![o].cb = FALSE]
    /\ UNCHANGED <<intf, published, call, data>>

\* EXIT is behind every event in the queue.
EvtThreadEnds(o) ==
    /\ obj[o].evt /\ obj[o].exit /\ ~obj[o].cb /\ obj[o].queue = 0
    /\ obj' = [obj EXCEPT ![o].evt = FALSE]
    /\ UNCHANGED <<intf, published, call, data>>

-----------------------------------------------------------------------------
CallStep(t) ==
    \/ Reopened(t) \/ Open(t) \/ OpenEnd(t)
    \/ Lookup(t) \/ CloseLookup(t) \/ EnterCamera(t) \/ EnterChannel(t)
    \/ AddChannel(t) \/ RegisterEventNotify(t)
    \/ StartChannel(t) \/ StopChannel(t) \/ JoinData(t) \/ DelChannel(t)
    \/ SendMsg(t) \/ WaitEvent(t) \/ WaitTimeout(t) \/ EndMsg(t)
    \/ Unsubscribe(t) \/ ReleasePoll(t) \/ ReleaseEvt(t) \/ CloseEnd(t)

QbufStep(o) == QbufLookup(o) \/ Qbuf(o)
EvtThread(o) == DispatchBegin(o) \/ DispatchEnd(o) \/ EvtThreadEnds(o)

Next ==
    \/ \E t \in Callers :
         \/ CallStep(t) \/ OpenBegin(t)
         \/ \E op \in CameraCalls \cup ChannelCalls \cup {"close"} : Call(t, op)
    \/ \E o \in Objs : FrameUp(o) \/ QbufStep(o) \/ Daemon(o) \/ EventNotify(o) \/ EvtThread(o)

Spec == Init /\ [][Next]_vars

\* A mutex is not kept from a thread for ever: strong fairness, since the others
\* take it again and again. Callbacks return. The daemon need not answer.
Fairness ==
    /\ \A t \in Callers : SF_vars(CallStep(t))
    /\ \A o \in Objs : SF_vars(QbufStep(o)) /\ WF_vars(EvtThread(o))

FairSpec == Spec /\ Fairness

-----------------------------------------------------------------------------
TypeOK ==
    /\ intf \in Callers \cup Objs \cup {NULL} /\ published \in Objs \cup {NULL}
    /\ data \in [Objs -> {"off", "ready", "intf", "cam"}]
    /\ \A o \in Objs :
         /\ DOMAIN obj[o] = DOMAIN Unallocated
         /\ obj[o].life \in {"free", "live"} /\ obj[o].ref \in Nat
         /\ {obj[o].cam, obj[o].ch, obj[o].msg, obj[o].owner} \subseteq Callers \cup {NULL}
         /\ obj[o].chan \in {"NOTUSED", "STOPPED", "ACTIVE"}
         /\ {obj[o].poll, obj[o].evt, obj[o].exit, obj[o].cb, obj[o].late} \subseteq BOOLEAN
         /\ obj[o].kernel \in Seq(Msgs \cup {Event}) /\ obj[o].wire \subseteq Msgs
         /\ obj[o].rcvd \in Msgs \cup {NULL}
         /\ obj[o].queue \in Nat
    /\ \A t \in Callers :
         /\ DOMAIN call[t] = DOMAIN Idle
         /\ {call[t].hdl, call[t].o} \subseteq Objs \cup {NULL}
         /\ call[t].op \in CameraCalls \cup ChannelCalls \cup {"close", NULL}
         /\ call[t].msg \in Msgs \cup {NULL} /\ call[t].ans \in Msgs \cup {NULL}

\* No thread is inside a camera object that has been freed: not a caller, which
\* may hold only ch_lock or wait for an answer by then, and not a frame callback
\* (mm_camera_intf_close frees without asking who is still there).
NoUseAfterFree ==
    /\ \A t \in Callers : call[t].o # NULL => obj[call[t].o].life = "live"
    /\ \A o \in Objs : data[o] \in {"ready", "cam"} => obj[o].life = "live"

\* The handle of a caller finds its object, whoever else opens and closes the
\* same camera meanwhile, and the reference count is the number of handles
\* (camera_open adds a reference without cam_lock, and re-reads the pointer).
Holds(t, o) == call[t].hdl = o \/ (At(t, "reopen") /\ published = o)

HandlesResolve ==
    /\ \A t \in Callers : call[t].hdl \in {NULL, published} \/ At(t, "cam") \/ call[t].o # NULL
    /\ published # NULL => obj[published].ref = Cardinality({t \in Callers : Holds(t, published)})

\* The event thread is given nothing once it has ended, and ends with nothing
\* left to dispatch: mm_camera_close stops the thread that feeds it first.
NothingForDeadThread ==
    \A o \in Objs : ~obj[o].evt => ~obj[o].poll /\ obj[o].queue = 0 /\ ~obj[o].cb

\* A map call reports what the daemon said of its own message, as long as no
\* earlier wait on the object ended in a timeout (msg_lock, evt_rcvd cleared).
Own(t) == call[t].ans # NULL => call[t].ans = call[t].msg
StatusIsOurs == \A t \in Callers : At(t, "mapped") => Own(t) \/ obj[call[t].o].late

\* mm_camera.c:1820 "sendmsg until response back is deemed as one operation":
\* a message and its response belong together, after a timeout as well.
OneOperation == \A t \in Callers : At(t, "mapped") => Own(t)

\* No circle of threads each waiting for a lock or an end of the next. A join
\* waits for the data thread, which waits for g_intf_lock or cam_lock.
Blocker(x) ==
    IF x \in Callers
    THEN LET o == call[x].o IN
         CASE call[x].pc \in {"intf", "publish", "unpublish"} -> intf
           [] At(x, "cam") -> obj[o].cam
           [] At(x, "ch") -> obj[o].ch
           [] call[x].pc \in Mapping -> obj[o].msg
           [] At(x, "join") /\ data[o] # "ready" -> o
           [] OTHER -> NULL
    ELSE CASE data[x] = "intf" -> intf
           [] data[x] = "cam" -> obj[x].cam
           [] OTHER -> NULL

NoDeadlock ==
    \A circle \in SUBSET (Callers \cup Objs) \ {{}} :
        \E x \in circle : Blocker(x) \notin circle

\* Every call of the interface comes back.
CallsReturn == \A t \in Callers : ~At(t, "idle") ~> At(t, "idle")

\* Whoever works on a camera object has one that lives and is the one it asked for.
ObjectsLive == TypeOK /\ NoUseAfterFree /\ HandlesResolve /\ NothingForDeadThread

=============================================================================
