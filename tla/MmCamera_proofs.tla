-------------------------- MODULE MmCamera_proofs --------------------------
(***************************************************************************)
(* The camera object, for every set of callers and any number of objects,  *)
(* messages and events: nobody works on an object that has been freed,     *)
(* and an answer is taken by the caller it is for.                         *)
(*                                                                         *)
(* mm_camera_intf_close frees the object without asking who is still       *)
(* inside.  That is safe because the reference count is the number of      *)
(* handles (RefInv): the last one to close has the only handle, so no      *)
(* other caller is in the object (HandleInv), and every channel has been   *)
(* deleted by its owner, who had a handle (OwnerInv), and with it the data *)
(* thread, which runs while the channel is ACTIVE or its join is awaited.  *)
(* The event thread is stopped after the poll thread that feeds it         *)
(* (EventInv).                                                             *)
(*                                                                         *)
(* Answers name no message.  A message is on the wire, in the kernel or in *)
(* evt_rcvd, and only in one of them (OnePlaceInv); as long as no wait was *)
(* given up, it is the message of the caller that has msg_lock (WaitInv).  *)
(*                                                                         *)
(* The theorems assume that two callers neither open the closed camera     *)
(* (~OpensOverlap) nor are in calls on the channel (~ChannelCallsOverlap)  *)
(* at a time, the contract the HAL keeps.                                  *)
(***************************************************************************)
EXTENDS MmCamera, FiniteSetTheorems, TLAPS

Obj == [life : {"free", "live"}, ref : Nat,
        cam : Callers \cup {NULL}, ch : Callers \cup {NULL}, msg : Callers \cup {NULL},
        chan : {"NOTUSED", "STOPPED", "ACTIVE"}, owner : Callers \cup {NULL},
        poll : BOOLEAN, evt : BOOLEAN, exit : BOOLEAN,
        kernel : Seq(Msgs \cup {Event}), wire : SUBSET Msgs, rcvd : Msgs \cup {NULL},
        queue : Nat, cb : BOOLEAN, late : BOOLEAN]

Opens == {"open", "publish", "unpublish"}
Closes == {"close", "release_poll", "release_evt", "join_evt"}

Caller == [pc : {"idle", "reopen", "intf", "cam", "ch", "register", "map", "add_channel",
                 "start", "stop", "join", "map_stream", "del_channel", "wait", "mapped"}
                \cup Opens \cup Closes,
           op : CameraCalls \cup ChannelCalls \cup {"close", NULL},
           hdl : Objs \cup {NULL}, o : Objs \cup {NULL},
           msg : Msgs \cup {NULL}, ans : Msgs \cup {NULL}]

TypeInv ==
    /\ intf \in Callers \cup Objs \cup {NULL} /\ published \in Objs \cup {NULL}
    /\ obj \in [Objs -> Obj] /\ call \in [Callers -> Caller]
    /\ data \in [Objs -> {"off", "ready", "intf", "cam"}]

\* Where a caller can be with which handle, object and operation.
Consistent(c) ==
    /\ c.pc \in {"idle", "reopen"} \cup Opens <=> c.op = NULL
    /\ c.pc \in {"reopen"} \cup Opens => c.hdl = NULL
    /\ c.pc \notin {"idle", "reopen"} \cup Opens => c.hdl # NULL
    /\ c.pc \in {"idle", "reopen", "intf"} <=> c.o = NULL
    /\ c.o # NULL /\ c.hdl # NULL => c.o = c.hdl
    /\ c.pc \in Closes => c.op = "close"
    /\ c.pc \in CameraCalls \cup ChannelCalls => c.op = c.pc
    /\ c.pc = "join" => c.op = "stop"
    /\ c.pc = "ch" => c.op \in ChannelCalls
    /\ c.pc \in {"wait", "mapped"} => c.op \in Mapping
    /\ c.op = "close" => c.pc \in {"intf", "cam"} \cup Closes

CallInv == \A t \in Callers : Consistent(call[t])

\* A close that is past the point of no return: it has the last reference.
Closer(t) == call[t].op = "close" /\ call[t].o # NULL

\* Whoever has a handle has it of the published object, or is closing; what is being
\* opened or closed is known to its caller only.
HandleInv ==
    /\ \A t \in Callers :
        /\ call[t].hdl # NULL => call[t].hdl = published \/ Closer(t)
        /\ At(t, "reopen") => published # NULL
        /\ call[t].pc \in Opens => published = NULL
        /\ Closer(t) \/ call[t].pc \in Opens =>
             /\ call[t].o # published
             /\ \A u \in Callers : u # t => call[t].o \notin {call[u].hdl, call[u].o}
    /\ \A t, u \in Opening : t = u
    /\ \A t \in Callers : At(t, "cam") <=> intf = t
    /\ \A o \in Objs : data[o] = "cam" <=> intf = o

\* The references of the published object are the handles.
RefInv ==
    published # NULL => obj[published].ref = Cardinality({t \in Callers : Holds(t, published)})

LiveInv ==
    /\ published # NULL => obj[published].life = "live"
    /\ \A t \in Callers : call[t].o # NULL => obj[call[t].o].life = "live"
    /\ \A t \in Callers : call[t].pc \in Opens => obj[call[t].o].ref = 1

\* A channel has an owner, who has a handle of the camera; data flow while the channel
\* is active, and until the caller that stops it has joined the thread.
OwnerInv ==
    \A o \in Objs :
        /\ obj[o].owner = NULL <=> obj[o].chan = "NOTUSED"
        /\ obj[o].owner # NULL =>
             o = published /\ call[obj[o].owner].hdl = o /\ call[obj[o].owner].op # "close"
        /\ data[o] # "off" => \/ obj[o].chan = "ACTIVE"
                              \/ \E t \in Callers : At(t, "join") /\ call[t].o = o

\* What a call on the channel found when it was made still holds.
AskedInv ==
    \A t \in Callers :
        /\ call[t].op = "add_channel" => obj[call[t].hdl].owner = NULL
        /\ call[t].op \in ChannelCalls => obj[call[t].hdl].chan # "NOTUSED"
        /\ call[t].op = "del_channel" =>
             obj[call[t].hdl].owner = t /\ obj[call[t].hdl].chan = "STOPPED"
        /\ At(t, "join") => obj[call[t].hdl].chan = "STOPPED"

OneByOne ==
    /\ \A t, u \in InChannelCall : t = u
    /\ \A t, u \in Callers : call[t].op = "add_channel" /\ call[u].op = "add_channel" => t = u

ChannelInv == OwnerInv /\ AskedInv /\ OneByOne

\* The event thread outlives the poll thread that feeds it.
EventInv ==
    /\ \A o \in Objs :
        /\ obj[o].poll => obj[o].evt /\ ~obj[o].exit
        /\ obj[o].queue > 0 \/ obj[o].cb => obj[o].evt
    /\ \A t \in Callers :
        /\ At(t, "open") => ~obj[call[t].o].evt /\ ~obj[call[t].o].exit
        /\ call[t].pc \in {"release_evt", "join_evt"} => ~obj[call[t].o].poll

\* A message is in one place at a time.
On(o, m) == \E i \in DOMAIN obj[o].kernel : obj[o].kernel[i] = m

OnePlaceInv ==
    \A o \in Objs :
        /\ \A m \in obj[o].wire : obj[o].rcvd # m /\ ~On(o, m)
        /\ \A i, j \in DOMAIN obj[o].kernel :
             obj[o].kernel[i] = obj[o].kernel[j] /\ obj[o].kernel[i] # Event => i = j
        /\ ~On(o, obj[o].rcvd)

\* As long as nobody has given up waiting, only the message of the caller that waits
\* is anywhere.
WaitInv ==
    \A o \in Objs : obj[o].late \/ \A m \in Msgs :
        m \in obj[o].wire \/ m = obj[o].rcvd \/ On(o, m)
          => \E t \in Callers : At(t, "wait") /\ call[t].o = o /\ call[t].msg = m

\* The caller that waits has msg_lock, and takes its own answer.
AnswerInv ==
    \A t \in Callers :
        /\ call[t].pc \in {"wait", "mapped"} => obj[call[t].o].msg = t
        /\ At(t, "mapped") => Own(t) \/ obj[call[t].o].late

MessageInv == OnePlaceInv /\ WaitInv /\ AnswerInv

IInv ==
    /\ TypeInv /\ CallInv /\ HandleInv /\ RefInv /\ LiveInv /\ ChannelInv /\ EventInv /\ MessageInv

-----------------------------------------------------------------------------
(* What a step leaves alone. *)

OthersStay(t) == \A u \in Callers : u # t => call'[u] = call[u]
LifeKept == \A p \in Objs : obj'[p].life = obj[p].life /\ obj'[p].ref = obj[p].ref
ChannelKept == data' = data /\ \A p \in Objs : obj'[p].chan = obj[p].chan /\ obj'[p].owner = obj[p].owner
EventsKept ==
    \A p \in Objs : /\ obj'[p].poll = obj[p].poll /\ obj'[p].evt = obj[p].evt /\ obj'[p].exit = obj[p].exit
                    /\ obj'[p].queue = obj[p].queue /\ obj'[p].cb = obj[p].cb
MessagesKept ==
    \A p \in Objs : /\ obj'[p].kernel = obj[p].kernel /\ obj'[p].wire = obj[p].wire
                    /\ obj'[p].rcvd = obj[p].rcvd /\ obj'[p].late = obj[p].late
                    /\ obj'[p].msg = obj[p].msg

\* The call of t goes on with the same handle and object.
GoesOn(t) ==
    /\ call[t].pc \notin Opens \cup {"idle", "reopen", "intf", "cam"}
    /\ call'[t].pc \notin Opens \cup {"idle", "reopen", "intf", "cam"}
    /\ call'[t].op = call[t].op /\ call'[t].hdl = call[t].hdl /\ call'[t].o = call[t].o

\* The call of t returns, and the handle stays.
Returns(t) ==
    /\ call[t].pc \notin Opens \cup {"idle", "reopen", "cam"} /\ call[t].op # "close"
    /\ call'[t].pc = "idle" /\ call'[t].op = NULL /\ call'[t].hdl = call[t].hdl
    /\ call'[t].o = NULL /\ call'[t].msg = NULL /\ call'[t].ans = NULL

\* Handles, references and lives when a call goes on or returns.
LEMMA HandlesKept ==
    ASSUME IInv, NEW t \in Callers, GoesOn(t) \/ Returns(t), OthersStay(t), LifeKept,
           \A p \in Objs : data'[p] = "cam" <=> data[p] = "cam",
           TypeInv', UNCHANGED <<intf, published>>
    PROVE  HandleInv' /\ RefInv' /\ LiveInv'
<1> USE CameraConstants DEF IInv
<1>1. \A u \in Callers : Consistent(call[u]) /\ call[u].o \in Objs \cup {NULL}
  BY DEF CallInv, TypeInv, Caller
<1>2. \A u \in Callers :
        /\ call'[u].hdl = call[u].hdl /\ (call'[u].pc \in Opens <=> call[u].pc \in Opens)
        /\ call'[u].o = call[u].o \/ (u = t /\ call'[u].o = NULL)
        /\ Closer(u)' => Closer(u)
        /\ At(u, "reopen")' <=> At(u, "reopen")
        /\ At(u, "cam")' <=> At(u, "cam")
  BY DEF GoesOn, Returns, OthersStay, Closer, At, Opens
<1>3. HandleInv'
  <2>1. ASSUME NEW u \in Callers PROVE call'[u].hdl # NULL => call'[u].hdl = published \/ Closer(u)'
    BY <1>1, <1>2 DEF HandleInv, Closer, GoesOn, Returns, OthersStay
  <2>2. ASSUME NEW u \in Callers, (Closer(u) \/ call[u].pc \in Opens)', NEW v \in Callers, u # v
        PROVE  call'[u].o # published /\ call'[u].o \notin {call'[v].hdl, call'[v].o}
    <3>1. Closer(u) \/ call[u].pc \in Opens BY <1>2, <2>2
    <3>2. call[u].o # NULL BY <1>1, <3>1 DEF Closer, Consistent, Opens
    <3>3. call'[u].o = call[u].o
      BY <1>2, <2>2, <3>1, <1>1 DEF Closer, Consistent, Opens, OthersStay, GoesOn, Returns
    <3> QED BY <1>2, <2>2, <3>1, <3>2, <3>3 DEF HandleInv
  <2>2a. ASSUME NEW u \in Callers, (Closer(u) \/ call[u].pc \in Opens)'
        PROVE  call'[u].o # published
    <3>1. Closer(u) \/ call[u].pc \in Opens BY <1>2, <2>2a
    <3>3. call'[u].o = call[u].o
      BY <1>2, <2>2a, <3>1, <1>1 DEF Closer, Consistent, Opens, OthersStay, GoesOn, Returns
    <3> QED BY <1>2, <2>2a, <3>1, <3>3 DEF HandleInv
  <2>3. \A u, v \in Opening' : u = v BY <1>2 DEF HandleInv, Opening, Opens
  <2>4. \A u \in Callers : At(u, "cam")' <=> intf' = u BY <1>2 DEF HandleInv
  <2>5. \A p \in Objs : data'[p] = "cam" <=> intf' = p BY DEF HandleInv
  <2> QED BY <1>2, <2>1, <2>2, <2>2a, <2>3, <2>4, <2>5 DEF HandleInv
<1>4. RefInv'
  <2>1. \A u \in Callers : Holds(u, published)' <=> Holds(u, published) BY <1>2 DEF Holds
  <2>2. {u \in Callers : Holds(u, published)}' = {u \in Callers : Holds(u, published)} BY <2>1
  <2> QED BY <2>2 DEF RefInv, LifeKept, TypeInv
<1>5. LiveInv'
  <2>1. published' # NULL => obj'[published'].life = "live" BY DEF LiveInv, LifeKept, TypeInv
  <2>2. \A u \in Callers : call'[u].o # NULL => obj'[call'[u].o].life = "live"
    BY <1>1, <1>2 DEF LiveInv, LifeKept
  <2>3. ASSUME NEW u \in Callers, call'[u].pc \in Opens PROVE obj'[call'[u].o].ref = 1
    <3>1. call[u].pc \in Opens /\ call'[u] = call[u]
      BY <1>2, <2>3 DEF GoesOn, Returns, OthersStay
    <3>2. call[u].o \in Objs BY <1>1, <3>1 DEF Consistent, Opens
    <3> QED BY <3>1, <3>2 DEF LiveInv, LifeKept
  <2> QED BY <2>1, <2>2, <2>3 DEF LiveInv
<1> QED BY <1>3, <1>4, <1>5

\* Nobody asks for more when the others stay and t asks for nothing new.
LEMMA OneByOneKept ==
    ASSUME IInv, NEW t \in Callers, OthersStay(t), call'[t].op \in {call[t].op, NULL}
    PROVE  OneByOne'
<1> USE CameraConstants DEF IInv
<1>1. \A u \in Callers : call'[u].op \in {call[u].op, NULL} BY DEF OthersStay
<1>2. \A u \in InChannelCall' : u \in InChannelCall
  BY <1>1 DEF InChannelCall, ChannelCalls
<1>3. \A u, v \in InChannelCall' : u = v BY <1>2 DEF ChannelInv, OneByOne
<1>4. \A u \in Callers : call'[u].op = "add_channel" => call[u].op = "add_channel"
  BY <1>1 DEF CameraCalls
<1>5. \A u, v \in Callers : call'[u].op = "add_channel" /\ call'[v].op = "add_channel" => u = v
  BY <1>4 DEF ChannelInv, OneByOne
<1> QED BY <1>3, <1>5 DEF OneByOne

\* The channel and its owner, when neither is touched.
LEMMA ChannelsKept ==
    ASSUME IInv, NEW t \in Callers, OthersStay(t), ChannelKept, published' = published,
           call'[t].hdl = call[t].hdl, call'[t].op \in {call[t].op, NULL},
           At(t, "join")' <=> At(t, "join"), At(t, "join") => call'[t].o = call[t].o
    PROVE  ChannelInv'
<1> USE CameraConstants DEF IInv
<1>1. \A u \in Callers : Consistent(call[u]) /\ call[u].hdl \in Objs \cup {NULL} /\ call[u].o \in Objs \cup {NULL}
  BY DEF CallInv, TypeInv, Caller
<1>2. \A u \in Callers :
        /\ call'[u].hdl = call[u].hdl /\ call'[u].op \in {call[u].op, NULL}
        /\ At(u, "join")' <=> At(u, "join")
        /\ At(u, "join") => call'[u].o = call[u].o
  BY DEF OthersStay, At
<1>3. \A p \in Objs : obj[p].owner \in Callers \cup {NULL}
  BY DEF TypeInv, Obj
<1>4. OwnerInv'
  <2>1. ASSUME NEW p \in Objs
        PROVE  /\ obj'[p].owner = NULL <=> obj'[p].chan = "NOTUSED"
               /\ obj'[p].owner # NULL =>
                    p = published' /\ call'[obj'[p].owner].hdl = p /\ call'[obj'[p].owner].op # "close"
    BY <1>2, <1>3 DEF ChannelInv, OwnerInv, ChannelKept
  <2>2. ASSUME NEW p \in Objs, data'[p] # "off"
        PROVE  obj'[p].chan = "ACTIVE" \/ \E u \in Callers : At(u, "join")' /\ call'[u].o = p
    BY <1>2, <2>2 DEF ChannelInv, OwnerInv, ChannelKept
  <2> QED BY <2>1, <2>2 DEF OwnerInv
<1>5. ASSUME NEW u \in Callers
      PROVE  /\ call'[u].op = "add_channel" => obj'[call'[u].hdl].owner = NULL
             /\ call'[u].op \in ChannelCalls => obj'[call'[u].hdl].chan # "NOTUSED"
             /\ call'[u].op = "del_channel" =>
                  obj'[call'[u].hdl].owner = u /\ obj'[call'[u].hdl].chan = "STOPPED"
             /\ At(u, "join")' => obj'[call'[u].hdl].chan = "STOPPED"
  <2>1. CASE call[u].hdl = NULL
    BY <2>1, <1>1, <1>2 DEF Consistent, CameraCalls, ChannelCalls, Opens, At
  <2>2. CASE call[u].hdl \in Objs
    BY <2>2, <1>1, <1>2 DEF ChannelInv, AskedInv, ChannelKept, CameraCalls, ChannelCalls
  <2> QED BY <2>1, <2>2, <1>1
<1>6. AskedInv' BY <1>5 DEF AskedInv
<1>7. OneByOne' BY OneByOneKept
<1> QED BY <1>4, <1>6, <1>7 DEF ChannelInv

\* The threads of the events, when only calls move.
LEMMA ThreadsKept ==
    ASSUME IInv, NEW t \in Callers, OthersStay(t), EventsKept, TypeInv', CallInv',
           call'[t].pc \notin {"open", "release_evt", "join_evt"}
    PROVE  EventInv'
<1> USE CameraConstants DEF IInv
<1>1. \A u \in Callers : At(u, "open") \/ call[u].pc \in {"release_evt", "join_evt"} => call[u].o \in Objs
  BY DEF CallInv, TypeInv, Caller, Consistent, At, Opens
<1> QED BY <1>1 DEF EventInv, EventsKept, OthersStay, At

\* The messages, when no call that waits for an answer moves.
LEMMA AnswersKept ==
    ASSUME IInv, NEW t \in Callers, OthersStay(t), MessagesKept,
           call[t].pc \notin {"wait", "mapped"}, call'[t].pc \notin {"wait", "mapped"}
    PROVE  MessageInv'
<1> USE CameraConstants DEF IInv
<1>1. \A u \in Callers : call[u].pc \in {"wait", "mapped"} => call[u].o \in Objs
  BY DEF CallInv, TypeInv, Caller, Consistent, Opens
<1>2. \A u \in Callers : call'[u].pc \in {"wait", "mapped"} \/ call[u].pc \in {"wait", "mapped"} => call'[u] = call[u]
  BY DEF OthersStay
<1>3. OnePlaceInv' BY DEF MessageInv, OnePlaceInv, MessagesKept, On
<1>4. WaitInv' BY <1>2 DEF MessageInv, WaitInv, MessagesKept, On, At
<1>5. AnswerInv' BY <1>1, <1>2 DEF MessageInv, AnswerInv, MessagesKept, At, Own
<1> QED BY <1>3, <1>4, <1>5 DEF MessageInv

-----------------------------------------------------------------------------
(* How a call moves. *)

\* What the place of a caller says of its handle and its object.
LEMMA CallerFacts ==
    ASSUME IInv, NEW t \in Callers
    PROVE  /\ call[t] \in Caller /\ Consistent(call[t])
           /\ call[t].hdl \in Objs \cup {NULL} /\ call[t].o \in Objs \cup {NULL}
           /\ call[t].pc \notin Opens \cup {"idle", "reopen"} => call[t].hdl \in Objs
           /\ call[t].pc \notin {"idle", "reopen", "intf"} => call[t].o \in Objs
           /\ call[t].pc \notin Opens \cup {"idle", "reopen", "intf"} => call[t].hdl = call[t].o
  BY CameraConstants DEF IInv, TypeInv, CallInv, Caller, Consistent, Opens

\* A call that returns leaves the caller with its handle only.
LEMMA ReturnReturns ==
    ASSUME IInv, NEW t \in Callers, Return(t),
           call[t].pc \notin Opens \cup {"idle", "reopen", "cam"}, call[t].op # "close"
    PROVE  Returns(t) /\ OthersStay(t) /\ call' \in [Callers -> Caller] /\ CallInv'
<1> USE CameraConstants DEF IInv
<1>1. call[t].hdl \in Objs \cup {NULL} BY CallerFacts
<1>2. [Idle EXCEPT !.hdl = call[t].hdl] \in Caller BY <1>1 DEF Idle, Caller
<1>3. call' \in [Callers -> Caller] /\ OthersStay(t) /\ call'[t] = [Idle EXCEPT !.hdl = call[t].hdl]
  BY <1>2 DEF TypeInv, Return, OthersStay
<1>4. Returns(t) BY <1>3 DEF Returns, Idle
<1>5. Consistent(call'[t])
  BY <1>4 DEF Returns, Consistent, Opens, Closes, CameraCalls, ChannelCalls
<1> QED BY <1>3, <1>4, <1>5 DEF CallInv, OthersStay

\* Where a caller may go from one step of its call to the next.
LEMMA GotoGoesOn ==
    ASSUME IInv, NEW t \in Callers, NEW p, Goto(t, p),
           call[t].pc \notin Opens \cup {"idle", "reopen", "cam", "intf"},
           \/ p \in ChannelCalls /\ p = call[t].op
           \/ p = "join" /\ call[t].op = "stop"
           \/ p \in {"wait", "mapped"} /\ call[t].op \in Mapping
           \/ p \in {"release_poll", "release_evt", "join_evt"} /\ call[t].op = "close"
    PROVE  /\ GoesOn(t) /\ OthersStay(t) /\ call' \in [Callers -> Caller] /\ CallInv'
           /\ call'[t].pc = p /\ call'[t].msg = call[t].msg /\ call'[t].ans = call[t].ans
<1> USE CameraConstants DEF IInv
<1>1. call[t] \in Caller /\ Consistent(call[t]) BY CallerFacts
<1>2. [call[t] EXCEPT !.pc = p] \in Caller
  BY <1>1 DEF Caller, ChannelCalls, Opens, Closes
<1>3. call' \in [Callers -> Caller] /\ OthersStay(t) /\ call'[t] = [call[t] EXCEPT !.pc = p]
  BY <1>2 DEF TypeInv, Goto, OthersStay
<1>4. /\ call'[t].pc = p /\ call'[t].op = call[t].op /\ call'[t].hdl = call[t].hdl
      /\ call'[t].o = call[t].o /\ call'[t].msg = call[t].msg /\ call'[t].ans = call[t].ans
  BY <1>1, <1>3 DEF Caller
<1>5. GoesOn(t) BY <1>4 DEF GoesOn, ChannelCalls, Opens
<1>6. Consistent(call'[t])
  BY <1>1, <1>4 DEF Consistent, Opens, Closes, CameraCalls, ChannelCalls, Mapping
<1> QED BY <1>3, <1>4, <1>5, <1>6 DEF CallInv, OthersStay

\* Callbacks are registered under cam_lock, and nothing else changes.
LEMMA RegisterStep == ASSUME IInv, NEW t \in Callers, RegisterEventNotify(t) PROVE IInv'
<1> USE CameraConstants
<1>1. PICK o \in Objs : call[t].o = o BY CallerFacts DEF RegisterEventNotify, At, Opens
<1>2. call[t].pc = "register" /\ call[t].op # "close"
  BY CallerFacts DEF RegisterEventNotify, At, Consistent, CameraCalls
<1>3. Returns(t) /\ OthersStay(t) /\ call' \in [Callers -> Caller] /\ CallInv'
  BY <1>2, ReturnReturns DEF RegisterEventNotify, Opens
<1>4. obj[o] \in Obj /\ obj' = [obj EXCEPT ![o].cam = NULL] /\ obj \in [Objs -> Obj]
  BY <1>1 DEF RegisterEventNotify, IInv, TypeInv
<1>5. obj' \in [Objs -> Obj] /\ LifeKept /\ EventsKept /\ MessagesKept
  BY <1>4 DEF Obj, LifeKept, EventsKept, MessagesKept
<1>6. ChannelKept
  BY <1>4 DEF Obj, ChannelKept, RegisterEventNotify
<1>7. TypeInv' BY <1>3, <1>5 DEF IInv, TypeInv, RegisterEventNotify
<1>8. HandleInv' /\ RefInv' /\ LiveInv' BY <1>3, <1>5, <1>7, HandlesKept DEF RegisterEventNotify
<1>9. ChannelInv' BY <1>2, <1>3, <1>6, ChannelsKept DEF RegisterEventNotify, Returns, At
<1>10. EventInv' BY <1>3, <1>5, <1>7, ThreadsKept DEF Returns
<1>11. MessageInv' BY <1>2, <1>3, <1>5, AnswersKept DEF Returns
<1> QED BY <1>3, <1>7, <1>8, <1>9, <1>10, <1>11 DEF IInv

\* What the one call on a channel does to it.
LEMMA ChannelMoved ==
    ASSUME IInv, NEW t \in Callers, NEW o \in Objs, call[t].hdl = o, call[t].op \in ChannelCalls,
           OthersStay(t), published' = published,
           \/ Returns(t)
           \/ GoesOn(t) /\ call[t].op = "stop" /\ At(t, "join")' /\ obj'[o].chan = "STOPPED",
           \A p \in Objs : p # o =>
             obj'[p].chan = obj[p].chan /\ obj'[p].owner = obj[p].owner /\ data'[p] = data[p],
           obj'[o].owner = NULL <=> obj'[o].chan = "NOTUSED",
           obj'[o].owner \in {obj[o].owner, NULL},
           data'[o] # "off" => obj'[o].chan = "ACTIVE" \/ At(t, "join")'
    PROVE  ChannelInv'
<1> USE CameraConstants DEF IInv
<1>1. ASSUME NEW u \in Callers, u # t
      PROVE  /\ call'[u] = call[u] /\ call[u].op \notin ChannelCalls /\ ~At(u, "join")
             /\ call[u].op = "add_channel" => call[u].hdl \in Objs \ {o}
  <2>1. call'[u] = call[u] /\ call[u].op \notin ChannelCalls
    BY <1>1 DEF OthersStay, ChannelInv, OneByOne, InChannelCall
  <2>2. ~At(u, "join") BY <2>1, CallerFacts DEF At, Consistent, ChannelCalls
  <2>3. obj[o].chan # "NOTUSED" BY DEF ChannelInv, AskedInv
  <2>4. call[u].op = "add_channel" => call[u].hdl \in Objs
    BY CallerFacts DEF Consistent, Opens, CameraCalls
  <2> QED BY <2>1, <2>2, <2>3, <2>4 DEF ChannelInv, AskedInv, OwnerInv
<1>2. \A u \in Callers : call'[u].hdl = call[u].hdl /\ call'[u].op \in {call[u].op, NULL}
  BY <1>1 DEF Returns, GoesOn
<1>3. call[t].o # NULL => call[t].o = o BY CallerFacts DEF Consistent
<1>4. OwnerInv'
  <2>1. ASSUME NEW p \in Objs
        PROVE  /\ obj'[p].owner = NULL <=> obj'[p].chan = "NOTUSED"
               /\ obj'[p].owner # NULL =>
                    p = published' /\ call'[obj'[p].owner].hdl = p /\ call'[obj'[p].owner].op # "close"
    <3>1. obj[p].owner \in Callers \cup {NULL} BY DEF TypeInv, Obj
    <3> QED BY <1>2, <3>1 DEF ChannelInv, OwnerInv
  <2>2. ASSUME NEW p \in Objs, data'[p] # "off"
        PROVE  obj'[p].chan = "ACTIVE" \/ \E u \in Callers : At(u, "join")' /\ call'[u].o = p
    <3>1. CASE p = o
      <4>1. At(t, "join")' => call'[t].o = o
        BY <1>3, CallerFacts DEF GoesOn, Returns, At
      <4> QED BY <2>2, <3>1, <4>1
    <3>2. CASE p # o
      <4>1. ~(\E u \in Callers : At(u, "join") /\ call[u].o = p)
        BY <1>1, <1>3, <3>2, CallerFacts DEF Consistent, At, Opens
      <4> QED BY <2>2, <3>2, <4>1 DEF ChannelInv, OwnerInv
    <3> QED BY <3>1, <3>2
  <2> QED BY <2>1, <2>2 DEF OwnerInv
<1>5. AskedInv'
  <2>1. ASSUME NEW u \in Callers, u # t
        PROVE  /\ call'[u].op = "add_channel" => obj'[call'[u].hdl].owner = NULL
               /\ call'[u].op \notin ChannelCalls /\ ~At(u, "join")'
    BY <1>1, <2>1 DEF ChannelInv, AskedInv, At
  <2>2. CASE Returns(t)
    BY <2>1, <2>2 DEF AskedInv, Returns, CameraCalls, ChannelCalls, At
  <2>3. CASE GoesOn(t) /\ call[t].op = "stop" /\ At(t, "join")' /\ obj'[o].chan = "STOPPED"
    BY <2>1, <2>3 DEF AskedInv, GoesOn, ChannelCalls, At
  <2> QED BY <2>2, <2>3
<1>6. OneByOne' BY <1>2, OneByOneKept
<1> QED BY <1>4, <1>5, <1>6 DEF ChannelInv

\* From cam_lock to ch_lock, or back with an error when the channel is gone.
LEMMA EnterChannelStep == ASSUME IInv, NEW t \in Callers, EnterChannel(t) PROVE IInv'
<1> USE CameraConstants
<1>1. PICK o \in Objs : call[t].o = o BY CallerFacts DEF EnterChannel, At, Opens
<1>2. call[t].pc = "ch" /\ call[t].op \in ChannelCalls
  BY CallerFacts DEF EnterChannel, At, Consistent
<1>3. /\ GoesOn(t) \/ Returns(t)
      /\ OthersStay(t) /\ call' \in [Callers -> Caller] /\ CallInv'
      /\ call'[t].pc \in ChannelCalls \cup {"idle"}
  <2>1. CASE Return(t) BY <1>2, <2>1, ReturnReturns DEF Opens, Returns, ChannelCalls
  <2>2. CASE Goto(t, call[t].op) BY <1>2, <2>2, GotoGoesOn DEF Opens
  <2> QED BY <2>1, <2>2 DEF EnterChannel
<1>4. /\ obj[o] \in Obj /\ obj \in [Objs -> Obj]
      /\ \/ obj' = [obj EXCEPT ![o].cam = NULL]
         \/ obj' = [obj EXCEPT ![o].cam = NULL, ![o].ch = t]
  BY <1>1 DEF EnterChannel, IInv, TypeInv
<1>5. obj' \in [Objs -> Obj] /\ LifeKept /\ EventsKept /\ MessagesKept /\ ChannelKept
  <2>1. CASE obj' = [obj EXCEPT ![o].cam = NULL]
    BY <1>4, <2>1, ZenonT(60) DEF Obj, LifeKept, EventsKept, MessagesKept, ChannelKept, EnterChannel
  <2>2. CASE obj' = [obj EXCEPT ![o].cam = NULL, ![o].ch = t]
    BY <1>4, <2>2, ZenonT(60) DEF Obj, LifeKept, EventsKept, MessagesKept, ChannelKept, EnterChannel
  <2> QED BY <1>4, <2>1, <2>2
<1>6. ChannelKept BY <1>5
<1>7. TypeInv' BY <1>3, <1>5 DEF IInv, TypeInv, EnterChannel
<1>8. HandleInv' /\ RefInv' /\ LiveInv' BY <1>3, <1>5, <1>7, HandlesKept DEF EnterChannel
<1>9. ChannelInv'
  BY <1>2, <1>3, <1>6, ChannelsKept DEF EnterChannel, Returns, GoesOn, At, ChannelCalls
<1>10. EventInv' BY <1>3, <1>5, <1>7, ThreadsKept DEF ChannelCalls
<1>11. MessageInv' BY <1>2, <1>3, <1>5, AnswersKept DEF ChannelCalls
<1> QED BY <1>3, <1>7, <1>8, <1>9, <1>10, <1>11 DEF IInv

\* A channel is added where there was none, and belongs to the caller.
LEMMA AddChannelStep == ASSUME IInv, NEW t \in Callers, AddChannel(t) PROVE IInv'
<1> USE CameraConstants
<1>1. PICK o \in Objs : call[t].o = o /\ call[t].hdl = o
  BY CallerFacts DEF AddChannel, At, Opens
<1>2. call[t].pc = "add_channel" /\ call[t].op = "add_channel"
  BY CallerFacts DEF AddChannel, At, Consistent, CameraCalls
<1>3. Returns(t) /\ OthersStay(t) /\ call' \in [Callers -> Caller] /\ CallInv'
  BY <1>2, ReturnReturns DEF AddChannel, Opens
<1>4. /\ obj[o] \in Obj /\ obj \in [Objs -> Obj]
      /\ obj' = [obj EXCEPT ![o] = [@ EXCEPT !.chan = "STOPPED", !.owner = t, !.cam = NULL]]
  BY <1>1 DEF AddChannel, IInv, TypeInv
<1>5. obj' \in [Objs -> Obj] /\ LifeKept /\ EventsKept /\ MessagesKept
  BY <1>4 DEF Obj, LifeKept, EventsKept, MessagesKept
<1>6. /\ obj'[o].chan = "STOPPED" /\ obj'[o].owner = t
      /\ \A p \in Objs : p # o => obj'[p].chan = obj[p].chan /\ obj'[p].owner = obj[p].owner
  BY <1>4 DEF Obj
<1>7. TypeInv' BY <1>3, <1>5 DEF IInv, TypeInv, AddChannel
<1>8. HandleInv' /\ RefInv' /\ LiveInv' BY <1>3, <1>5, <1>7, HandlesKept DEF AddChannel
<1>9. ChannelInv'
  <2> USE DEF IInv
  <2>1. obj[o].owner = NULL /\ obj[o].chan = "NOTUSED"
    BY <1>1, <1>2 DEF ChannelInv, AskedInv, OwnerInv
  <2>2. o = published BY <1>1, <1>2 DEF HandleInv, Closer
  <2>3. data[o] = "off"
    <3>1. ASSUME NEW u \in Callers, At(u, "join") PROVE call[u].o # o
      BY <2>1, <3>1, CallerFacts DEF ChannelInv, AskedInv, At, Opens
    <3> QED BY <2>1, <3>1 DEF ChannelInv, OwnerInv
  <2>4. \A u \in Callers : /\ call'[u].hdl = call[u].hdl /\ call'[u].op \in {call[u].op, NULL}
                           /\ At(u, "join")' <=> At(u, "join")
                           /\ At(u, "join") => call'[u].o = call[u].o
    BY <1>2, <1>3 DEF Returns, OthersStay, At
  <2>5. OwnerInv'
    <3>1. ASSUME NEW p \in Objs
          PROVE  /\ obj'[p].owner = NULL <=> obj'[p].chan = "NOTUSED"
                 /\ obj'[p].owner # NULL =>
                      p = published' /\ call'[obj'[p].owner].hdl = p /\ call'[obj'[p].owner].op # "close"
      <4>1. CASE p = o BY <4>1, <1>1, <1>3, <1>6, <2>2 DEF Returns, AddChannel
      <4>2. CASE p # o
        <5>1. obj[p].owner \in Callers \cup {NULL} BY DEF TypeInv, Obj
        <5> QED BY <4>2, <5>1, <1>6, <2>4 DEF ChannelInv, OwnerInv, AddChannel
      <4> QED BY <4>1, <4>2
    <3>2. ASSUME NEW p \in Objs, data'[p] # "off"
          PROVE  obj'[p].chan = "ACTIVE" \/ \E u \in Callers : At(u, "join")' /\ call'[u].o = p
      BY <1>6, <2>3, <2>4, <3>2 DEF ChannelInv, OwnerInv, AddChannel
    <3> QED BY <3>1, <3>2 DEF OwnerInv
  <2>6. AskedInv'
    <3>1. \A u \in Callers : u # t => call[u].op # "add_channel"
      BY <1>2 DEF ChannelInv, OneByOne
    <3>2. ASSUME NEW u \in Callers, u # t, call[u].hdl # o
          PROVE  /\ call'[u].op = "add_channel" => obj'[call'[u].hdl].owner = NULL
                 /\ call'[u].op \in ChannelCalls => obj'[call'[u].hdl].chan # "NOTUSED"
                 /\ call'[u].op = "del_channel" =>
                      obj'[call'[u].hdl].owner = u /\ obj'[call'[u].hdl].chan = "STOPPED"
                 /\ At(u, "join")' => obj'[call'[u].hdl].chan = "STOPPED"
      <4>1. call'[u] = call[u] BY <1>3, <3>2 DEF OthersStay
      <4>2. call[u].op \in ChannelCalls \/ At(u, "join") => call[u].hdl \in Objs
        BY CallerFacts DEF Consistent, At, Opens, ChannelCalls
      <4> QED BY <3>1, <3>2, <4>1, <4>2, <1>6 DEF ChannelInv, AskedInv, At, ChannelCalls
    <3>3. ASSUME NEW u \in Callers, u # t, call[u].hdl = o
          PROVE  call[u].op \notin ChannelCalls \cup {"add_channel"} /\ ~At(u, "join")
      BY <2>1, <3>1, <3>3, CallerFacts DEF ChannelInv, AskedInv, At, Consistent, ChannelCalls
    <3> QED BY <3>2, <3>3, <1>3, <2>4 DEF AskedInv, Returns, OthersStay, At, CameraCalls, ChannelCalls
  <2>7. OneByOne' BY <2>4, <1>3, OneByOneKept
  <2> QED BY <2>5, <2>6, <2>7 DEF ChannelInv
<1>10. EventInv' BY <1>3, <1>5, <1>7, ThreadsKept DEF Returns
<1>11. MessageInv' BY <1>2, <1>3, <1>5, AnswersKept DEF Returns
<1> QED BY <1>3, <1>7, <1>8, <1>9, <1>10, <1>11 DEF IInv

\* The channel is active before its thread runs.
LEMMA StartChannelStep == ASSUME IInv, NEW t \in Callers, StartChannel(t) PROVE IInv'
<1> USE CameraConstants
<1>1. PICK o \in Objs : call[t].o = o /\ call[t].hdl = o
  BY CallerFacts DEF StartChannel, At, Opens
<1>2. call[t].pc = "start" /\ call[t].op = "start"
  BY CallerFacts DEF StartChannel, At, Consistent, ChannelCalls
<1>3. Returns(t) /\ OthersStay(t) /\ call' \in [Callers -> Caller] /\ CallInv'
  BY <1>2, ReturnReturns DEF StartChannel, Opens
<1>4. /\ obj[o] \in Obj /\ obj \in [Objs -> Obj]
      /\ obj' = [obj EXCEPT ![o].chan = "ACTIVE", ![o].ch = NULL]
  BY <1>1 DEF StartChannel, IInv, TypeInv
<1>5. obj' \in [Objs -> Obj] /\ LifeKept /\ EventsKept /\ MessagesKept
  BY <1>4, ZenonT(60) DEF Obj, LifeKept, EventsKept, MessagesKept
<1>6. /\ obj'[o].chan = "ACTIVE" /\ obj'[o].owner = obj[o].owner
      /\ \A p \in Objs : p # o => obj'[p].chan = obj[p].chan /\ obj'[p].owner = obj[p].owner
  BY <1>4 DEF Obj
<1>7. /\ data' \in [Objs -> {"off", "ready", "intf", "cam"}]
      /\ \A p \in Objs : p # o => data'[p] = data[p]
      /\ \A p \in Objs : data'[p] = "cam" <=> data[p] = "cam"
  BY <1>1 DEF StartChannel, IInv, TypeInv
<1>8. TypeInv' BY <1>3, <1>5, <1>7 DEF IInv, TypeInv, StartChannel
<1>9. HandleInv' /\ RefInv' /\ LiveInv' BY <1>3, <1>5, <1>7, <1>8, HandlesKept DEF StartChannel
<1>10. ChannelInv'
  <2>1. obj[o].owner # NULL
    BY <1>1, <1>2 DEF IInv, ChannelInv, AskedInv, OwnerInv, ChannelCalls
  <2>2. published' = published BY DEF StartChannel
  <2>3. obj'[o].owner = NULL <=> obj'[o].chan = "NOTUSED" BY <1>6, <2>1
  <2> QED BY <1>1, <1>2, <1>3, <1>6, <1>7, <2>2, <2>3, ChannelMoved DEF ChannelCalls
<1>11. EventInv' BY <1>3, <1>5, <1>8, ThreadsKept DEF Returns
<1>12. MessageInv' BY <1>2, <1>3, <1>5, AnswersKept DEF Returns
<1> QED BY <1>3, <1>8, <1>9, <1>10, <1>11, <1>12 DEF IInv

\* The channel stops first; its thread is joined next.
LEMMA StopChannelStep == ASSUME IInv, NEW t \in Callers, StopChannel(t) PROVE IInv'
<1> USE CameraConstants
<1>1. PICK o \in Objs : call[t].o = o /\ call[t].hdl = o
  BY CallerFacts DEF StopChannel, At, Opens
<1>2. call[t].pc = "stop" /\ call[t].op = "stop"
  BY CallerFacts DEF StopChannel, At, Consistent, ChannelCalls
<1>3. /\ obj[o] \in Obj /\ obj \in [Objs -> Obj]
      /\ \/ /\ obj[o].chan = "ACTIVE" /\ Goto(t, "join")
            /\ obj' = [obj EXCEPT ![o].chan = "STOPPED"]
         \/ /\ obj[o].chan # "ACTIVE" /\ Return(t)
            /\ obj' = [obj EXCEPT ![o].ch = NULL]
  BY <1>1 DEF StopChannel, IInv, TypeInv
<1>4. /\ \/ Returns(t) /\ obj[o].chan # "ACTIVE"
         \/ GoesOn(t) /\ call'[t].pc = "join" /\ obj[o].chan = "ACTIVE"
      /\ OthersStay(t) /\ call' \in [Callers -> Caller] /\ CallInv'
  <2>1. CASE Return(t) /\ obj[o].chan # "ACTIVE" BY <1>2, <2>1, ReturnReturns DEF Opens
  <2>2. CASE Goto(t, "join") /\ obj[o].chan = "ACTIVE"
    BY <1>2, <2>2, GotoGoesOn DEF Opens
  <2> QED BY <1>3, <2>1, <2>2
<1>5. /\ obj' \in [Objs -> Obj] /\ LifeKept /\ EventsKept /\ MessagesKept
      /\ obj'[o].owner = obj[o].owner
      /\ obj'[o].chan = IF obj[o].chan = "ACTIVE" THEN "STOPPED" ELSE obj[o].chan
      /\ \A p \in Objs : p # o => obj'[p].chan = obj[p].chan /\ obj'[p].owner = obj[p].owner
  <2>1. CASE obj[o].chan = "ACTIVE"
    <3>1. obj' = [obj EXCEPT ![o].chan = "STOPPED"] BY <1>3, <2>1
    <3> QED BY <1>3, <2>1, <3>1, ZenonT(60) DEF Obj, LifeKept, EventsKept, MessagesKept
  <2>2. CASE obj[o].chan # "ACTIVE"
    <3>1. obj' = [obj EXCEPT ![o].ch = NULL] BY <1>3, <2>2
    <3> QED BY <1>3, <2>2, <3>1, ZenonT(60) DEF Obj, LifeKept, EventsKept, MessagesKept
  <2> QED BY <2>1, <2>2
<1>6. TypeInv' BY <1>4, <1>5 DEF IInv, TypeInv, StopChannel
<1>7. HandleInv' /\ RefInv' /\ LiveInv' BY <1>4, <1>5, <1>6, HandlesKept DEF StopChannel
<1>8. ChannelInv'
  <2>1. obj[o].owner # NULL /\ obj[o].chan # "NOTUSED"
    BY <1>1, <1>2 DEF IInv, ChannelInv, AskedInv, OwnerInv, ChannelCalls
  <2>2. Returns(t) => data[o] = "off"
    <3>1. ASSUME Returns(t), NEW u \in Callers, At(u, "join") PROVE call[u].o # o
      <4>1. call[u].op \in ChannelCalls BY <3>1, CallerFacts DEF At, Consistent, ChannelCalls
      <4>2. u = t BY <1>2, <4>1 DEF IInv, ChannelInv, OneByOne, InChannelCall, ChannelCalls
      <4> QED BY <1>2, <3>1, <4>2 DEF At
    <3>2. Returns(t) => obj[o].chan # "ACTIVE" BY <1>4 DEF Returns, GoesOn
    <3> QED BY <3>1, <3>2 DEF IInv, ChannelInv, OwnerInv
  <2>3. data' = data /\ published' = published BY DEF StopChannel
  <2>4. \/ Returns(t)
        \/ GoesOn(t) /\ call[t].op = "stop" /\ At(t, "join")' /\ obj'[o].chan = "STOPPED"
    BY <1>2, <1>4, <1>5 DEF At
  <2>5. data'[o] # "off" => obj'[o].chan = "ACTIVE" \/ At(t, "join")'
    BY <2>2, <2>3, <2>4
  <2>6. obj'[o].chan # "NOTUSED" BY <1>5, <2>1
  <2> QED BY <1>1, <1>2, <1>4, <1>5, <2>1, <2>3, <2>4, <2>5, <2>6, ChannelMoved DEF ChannelCalls
<1>9. EventInv' BY <1>4, <1>5, <1>6, ThreadsKept DEF Returns
<1>10. MessageInv' BY <1>2, <1>4, <1>5, AnswersKept DEF Returns
<1> QED BY <1>4, <1>6, <1>7, <1>8, <1>9, <1>10 DEF IInv

\* The thread of the channel is off when the join returns.
LEMMA JoinDataStep == ASSUME IInv, NEW t \in Callers, JoinData(t) PROVE IInv'
<1> USE CameraConstants
<1>1. PICK o \in Objs : call[t].o = o /\ call[t].hdl = o
  BY CallerFacts DEF JoinData, At, Opens
<1>2. call[t].pc = "join" /\ call[t].op = "stop"
  BY CallerFacts DEF JoinData, At, Consistent, ChannelCalls
<1>3. Returns(t) /\ OthersStay(t) /\ call' \in [Callers -> Caller] /\ CallInv'
  BY <1>2, ReturnReturns DEF JoinData, Opens
<1>4. obj[o] \in Obj /\ obj \in [Objs -> Obj] /\ obj' = [obj EXCEPT ![o].ch = NULL]
  BY <1>1 DEF JoinData, IInv, TypeInv
<1>5. obj' \in [Objs -> Obj] /\ LifeKept /\ EventsKept /\ MessagesKept
  BY <1>4 DEF Obj, LifeKept, EventsKept, MessagesKept
<1>6. \A p \in Objs : obj'[p].chan = obj[p].chan /\ obj'[p].owner = obj[p].owner
  BY <1>4 DEF Obj
<1>7. /\ data' \in [Objs -> {"off", "ready", "intf", "cam"}] /\ data'[o] = "off"
      /\ \A p \in Objs : p # o => data'[p] = data[p]
      /\ \A p \in Objs : data'[p] = "cam" <=> data[p] = "cam"
  BY <1>1 DEF JoinData, IInv, TypeInv
<1>8. TypeInv' BY <1>3, <1>5, <1>7 DEF IInv, TypeInv, JoinData
<1>9. HandleInv' /\ RefInv' /\ LiveInv' BY <1>3, <1>5, <1>7, <1>8, HandlesKept DEF JoinData
<1>10. ChannelInv'
  <2>1. obj[o].owner = NULL <=> obj[o].chan = "NOTUSED" BY DEF IInv, ChannelInv, OwnerInv
  <2> QED BY <1>1, <1>2, <1>3, <1>6, <1>7, <2>1, ChannelMoved DEF JoinData, ChannelCalls
<1>11. EventInv' BY <1>3, <1>5, <1>8, ThreadsKept DEF Returns
<1>12. MessageInv' BY <1>2, <1>3, <1>5, AnswersKept DEF Returns
<1> QED BY <1>3, <1>8, <1>9, <1>10, <1>11, <1>12 DEF IInv

\* The channel deleted is the caller's own, stopped, without a thread.
LEMMA DelChannelStep == ASSUME IInv, NEW t \in Callers, DelChannel(t) PROVE IInv'
<1> USE CameraConstants
<1>1. PICK o \in Objs : call[t].o = o /\ call[t].hdl = o
  BY CallerFacts DEF DelChannel, At, Opens
<1>2. call[t].pc = "del_channel" /\ call[t].op = "del_channel"
  BY CallerFacts DEF DelChannel, At, Consistent, ChannelCalls
<1>3. Returns(t) /\ OthersStay(t) /\ call' \in [Callers -> Caller] /\ CallInv'
  BY <1>2, ReturnReturns DEF DelChannel, Opens
<1>4. /\ obj[o] \in Obj /\ obj \in [Objs -> Obj]
      /\ obj' = [obj EXCEPT ![o] = [@ EXCEPT !.chan = "NOTUSED", !.owner = NULL, !.ch = NULL]]
  BY <1>1 DEF DelChannel, IInv, TypeInv
<1>5. obj' \in [Objs -> Obj] /\ LifeKept /\ EventsKept /\ MessagesKept
  BY <1>4 DEF Obj, LifeKept, EventsKept, MessagesKept
<1>6. /\ obj'[o].chan = "NOTUSED" /\ obj'[o].owner = NULL
      /\ \A p \in Objs : p # o => obj'[p].chan = obj[p].chan /\ obj'[p].owner = obj[p].owner
  BY <1>4 DEF Obj
<1>7. TypeInv' BY <1>3, <1>5 DEF IInv, TypeInv, DelChannel
<1>8. HandleInv' /\ RefInv' /\ LiveInv' BY <1>3, <1>5, <1>7, HandlesKept DEF DelChannel
<1>9. ChannelInv'
  <2>1. obj[o].chan = "STOPPED"
    BY <1>1, <1>2 DEF IInv, ChannelInv, AskedInv
  <2>2. data[o] = "off"
    <3>1. ASSUME NEW u \in Callers, At(u, "join") PROVE FALSE
      <4>1. call[u].op \in ChannelCalls BY <3>1, CallerFacts DEF At, Consistent, ChannelCalls
      <4>2. u = t BY <1>2, <4>1 DEF IInv, ChannelInv, OneByOne, InChannelCall, ChannelCalls
      <4> QED BY <1>2, <3>1, <4>2 DEF At
    <3> QED BY <2>1, <3>1 DEF IInv, ChannelInv, OwnerInv
  <2> QED BY <1>1, <1>2, <1>3, <1>6, <2>2, ChannelMoved DEF DelChannel, ChannelCalls
<1>10. EventInv' BY <1>3, <1>5, <1>7, ThreadsKept DEF Returns
<1>11. MessageInv' BY <1>2, <1>3, <1>5, AnswersKept DEF Returns
<1> QED BY <1>3, <1>7, <1>8, <1>9, <1>10, <1>11 DEF IInv

\* Whoever waits for an answer of an object has its msg_lock, so that is one caller.
LEMMA OneWaits ==
    ASSUME IInv, NEW t \in Callers, NEW u \in Callers, call[t].pc \in {"wait", "mapped"},
           call[u].pc \in {"wait", "mapped"}, call[t].o = call[u].o
    PROVE  t = u
  BY DEF IInv, MessageInv, AnswerInv

\* The end of a map call gives back the lock it came with.
LEMMA LeaveMapLeaves ==
    ASSUME IInv, NEW t \in Callers, NEW o \in Objs, NEW changed \in Obj, LeaveMap(t, o, changed),
           \/ changed = obj[o] \/ changed = [obj[o] EXCEPT !.msg = NULL],
           call[t].pc \in {"map", "map_stream", "mapped"}
    PROVE  /\ Returns(t) /\ OthersStay(t) /\ call' \in [Callers -> Caller] /\ CallInv'
           /\ obj' \in [Objs -> Obj] /\ LifeKept /\ EventsKept
           /\ \A p \in Objs : /\ obj'[p].chan = obj[p].chan /\ obj'[p].owner = obj[p].owner
                              /\ obj'[p].kernel = obj[p].kernel /\ obj'[p].wire = obj[p].wire
                              /\ obj'[p].rcvd = obj[p].rcvd /\ obj'[p].late = obj[p].late
           /\ \A p \in Objs : p # o => obj'[p].msg = obj[p].msg
           /\ obj'[o].msg = changed.msg
<1> USE CameraConstants
<1>1. call[t].op # "close"
  BY CallerFacts DEF Consistent, CameraCalls, ChannelCalls, Mapping
<1>2. Returns(t) /\ OthersStay(t) /\ call' \in [Callers -> Caller] /\ CallInv'
  BY <1>1, ReturnReturns DEF LeaveMap, Opens
<1>3. obj \in [Objs -> Obj] /\ obj[o] \in Obj BY DEF IInv, TypeInv
<1>4. PICK r \in {[changed EXCEPT !.cam = NULL], [changed EXCEPT !.ch = NULL]} :
        obj' = [obj EXCEPT ![o] = r]
  BY DEF LeaveMap
<1>5. /\ r \in Obj /\ r.life = obj[o].life /\ r.ref = obj[o].ref
      /\ r.poll = obj[o].poll /\ r.evt = obj[o].evt /\ r.exit = obj[o].exit
      /\ r.queue = obj[o].queue /\ r.cb = obj[o].cb
      /\ r.chan = obj[o].chan /\ r.owner = obj[o].owner
      /\ r.kernel = obj[o].kernel /\ r.wire = obj[o].wire
      /\ r.rcvd = obj[o].rcvd /\ r.late = obj[o].late /\ r.msg = changed.msg
  <2>1. CASE changed = obj[o]
    <3>1. CASE r = [obj[o] EXCEPT !.cam = NULL] BY <1>3, <2>1, <3>1 DEF Obj
    <3>2. CASE r = [obj[o] EXCEPT !.ch = NULL] BY <1>3, <2>1, <3>2 DEF Obj
    <3> QED BY <1>4, <2>1, <3>1, <3>2
  <2>2. CASE changed = [obj[o] EXCEPT !.msg = NULL]
    <3>1. CASE r = [[obj[o] EXCEPT !.msg = NULL] EXCEPT !.cam = NULL] BY <1>3, <2>2, <3>1 DEF Obj
    <3>2. CASE r = [[obj[o] EXCEPT !.msg = NULL] EXCEPT !.ch = NULL] BY <1>3, <2>2, <3>2 DEF Obj
    <3> QED BY <1>4, <2>2, <3>1, <3>2
  <2> QED BY <2>1, <2>2
<1>6. obj' \in [Objs -> Obj] /\ obj'[o] = r /\ \A p \in Objs : p # o => obj'[p] = obj[p]
  BY <1>3, <1>4, <1>5
<1> QED BY <1>2, <1>5, <1>6 DEF LifeKept, EventsKept

\* A message that is nowhere is sent under msg_lock, or none is.
LEMMA SendMsgStep == ASSUME IInv, NEW t \in Callers, SendMsg(t) PROVE IInv'
<1> USE CameraConstants
<1>1. call[t].pc \in Mapping /\ call[t].op = call[t].pc
  BY CallerFacts DEF SendMsg, Consistent, Mapping, CameraCalls, ChannelCalls
<1>2. PICK o \in Objs : call[t].o = o BY <1>1, CallerFacts DEF Mapping, Opens
<1>3. obj[o] \in Obj /\ obj \in [Objs -> Obj] /\ obj[o].msg = NULL
  BY <1>2 DEF SendMsg, IInv, TypeInv
<1>4. CASE LeaveMap(t, o, obj[o])
  <2>1. /\ Returns(t) /\ OthersStay(t) /\ call' \in [Callers -> Caller] /\ CallInv'
        /\ obj' \in [Objs -> Obj] /\ LifeKept /\ EventsKept
        /\ \A p \in Objs : obj'[p].chan = obj[p].chan /\ obj'[p].owner = obj[p].owner
        /\ MessagesKept
    BY <1>1, <1>3, <1>4, LeaveMapLeaves DEF Mapping, MessagesKept
  <2>2. TypeInv' BY <2>1 DEF IInv, TypeInv, SendMsg
  <2>3. HandleInv' /\ RefInv' /\ LiveInv' BY <2>1, <2>2, HandlesKept DEF SendMsg
  <2>4. ChannelKept BY <2>1 DEF ChannelKept, SendMsg
  <2>5. ChannelInv' BY <1>1, <2>1, <2>4, ChannelsKept DEF SendMsg, Returns, At, Mapping
  <2>6. EventInv' BY <2>1, <2>2, ThreadsKept DEF Returns
  <2>7. MessageInv' BY <1>1, <2>1, AnswersKept DEF Returns, Mapping
  <2> QED BY <2>1, <2>2, <2>3, <2>5, <2>6, <2>7 DEF IInv
<1>5. ASSUME NEW m \in Msgs, ~InPlay(m),
             obj' = [obj EXCEPT ![o].msg = t, ![o].wire = @ \cup {m}],
             call' = [call EXCEPT ![t].pc = "wait", ![t].msg = m]
      PROVE  IInv'
  <2>1. call[t] \in Caller /\ Consistent(call[t]) BY CallerFacts
  <2>2. [call[t] EXCEPT !.pc = "wait", !.msg = m] \in Caller BY <2>1 DEF Caller
  <2>3. call' \in [Callers -> Caller] /\ OthersStay(t)
        /\ call'[t] = [call[t] EXCEPT !.pc = "wait", !.msg = m]
    BY <1>5, <2>2 DEF IInv, TypeInv, OthersStay
  <2>4. /\ call'[t].pc = "wait" /\ call'[t].op = call[t].op /\ call'[t].hdl = call[t].hdl
        /\ call'[t].o = call[t].o /\ call'[t].msg = m
    BY <2>1, <2>3 DEF Caller
  <2>5. GoesOn(t) BY <1>1, <2>4 DEF GoesOn, Mapping, Opens
  <2>6. Consistent(call'[t])
    BY <1>1, <2>1, <2>4 DEF Consistent, Opens, Closes, CameraCalls, ChannelCalls, Mapping
  <2>7. CallInv' BY <2>3, <2>6 DEF IInv, CallInv, OthersStay
  <2>8. /\ obj' \in [Objs -> Obj] /\ LifeKept /\ EventsKept
        /\ \A p \in Objs : obj'[p].chan = obj[p].chan /\ obj'[p].owner = obj[p].owner
    <3>1. [obj[o] EXCEPT !.msg = t, !.wire = @ \cup {m}] \in Obj BY <1>3, ZenonT(60) DEF Obj
    <3>2. obj' \in [Objs -> Obj] BY <1>3, <1>5, <3>1
    <3>3. LifeKept /\ EventsKept BY <1>3, <1>5 DEF Obj, LifeKept, EventsKept
    <3>4. \A p \in Objs : obj'[p].chan = obj[p].chan /\ obj'[p].owner = obj[p].owner
      BY <1>3, <1>5 DEF Obj
    <3> QED BY <3>2, <3>3, <3>4
  <2>9. /\ \A p \in Objs : p # o => obj'[p] = obj[p]
        /\ obj'[o].kernel = obj[o].kernel /\ obj'[o].rcvd = obj[o].rcvd
        /\ obj'[o].late = obj[o].late /\ obj'[o].msg = t /\ obj'[o].wire = obj[o].wire \cup {m}
    BY <1>3, <1>5 DEF Obj
  <2>10. TypeInv' BY <2>3, <2>8 DEF IInv, TypeInv, SendMsg
  <2>11. HandleInv' /\ RefInv' /\ LiveInv' BY <2>3, <2>5, <2>8, <2>10, HandlesKept DEF SendMsg
  <2>12. ChannelKept BY <2>8 DEF ChannelKept, SendMsg
  <2>13. ChannelInv' BY <1>1, <2>3, <2>4, <2>12, ChannelsKept DEF SendMsg, At, Mapping
  <2>14. EventInv' BY <2>3, <2>4, <2>7, <2>8, <2>10, ThreadsKept
  <2>15. m \notin obj[o].wire /\ m # obj[o].rcvd /\ ~On(o, m)
    BY <1>5 DEF InPlay, Range, On
  <2>16. OnePlaceInv'
    <3>1. \A p \in Objs, n \in Msgs : On(p, n)' <=> On(p, n) BY <2>9 DEF On
    <3>2. ASSUME NEW p \in Objs
          PROVE  /\ \A n \in obj'[p].wire : obj'[p].rcvd # n /\ ~On(p, n)'
                 /\ \A i, j \in DOMAIN obj'[p].kernel :
                      obj'[p].kernel[i] = obj'[p].kernel[j] /\ obj'[p].kernel[i] # Event => i = j
                 /\ ~(\E i \in DOMAIN obj'[p].kernel : obj'[p].kernel[i] = obj'[p].rcvd)
      BY <2>9, <2>15 DEF IInv, MessageInv, OnePlaceInv, On
    <3> QED BY <3>2 DEF OnePlaceInv, On
  <2>17. WaitInv'
    <3>1. ASSUME NEW u \in Callers, At(u, "wait") PROVE call[u].o # o
      BY <1>3, <3>1 DEF IInv, MessageInv, AnswerInv, At
    <3>2. ASSUME NEW p \in Objs, ~obj'[p].late, NEW n \in Msgs,
                 n \in obj'[p].wire \/ n = obj'[p].rcvd \/ On(p, n)'
          PROVE  \E u \in Callers : At(u, "wait")' /\ call'[u].o = p /\ call'[u].msg = n
      <4>1. CASE p = o
        <5>1. n \in obj[o].wire \cup {m} \/ n = obj[o].rcvd \/ On(o, n) BY <2>9, <3>2, <4>1 DEF On
        <5>2. n = m BY <2>9, <3>1, <3>2, <4>1, <5>1 DEF IInv, MessageInv, WaitInv
        <5> QED BY <1>2, <2>4, <4>1, <5>2 DEF At
      <4>2. CASE p # o
        <5>1. ~obj[p].late /\ (n \in obj[p].wire \/ n = obj[p].rcvd \/ On(p, n))
          BY <2>9, <3>2, <4>2 DEF On
        <5>2. PICK u \in Callers : At(u, "wait") /\ call[u].o = p /\ call[u].msg = n
          BY <5>1 DEF IInv, MessageInv, WaitInv
        <5> QED BY <1>1, <2>3, <5>2 DEF OthersStay, At, Mapping
      <4> QED BY <4>1, <4>2
    <3> QED BY <3>2 DEF WaitInv
  <2>18. AnswerInv'
    <3>1. ASSUME NEW u \in Callers, u # t
          PROVE  /\ call'[u].pc \in {"wait", "mapped"} => obj'[call'[u].o].msg = u
                 /\ At(u, "mapped")' => Own(u)' \/ obj'[call'[u].o].late
      <4>1. call'[u] = call[u] BY <2>3, <3>1 DEF OthersStay
      <4>2. call[u].pc \in {"wait", "mapped"} => call[u].o \in Objs \ {o}
        BY <1>3, CallerFacts DEF IInv, MessageInv, AnswerInv, Opens
      <4> QED BY <2>9, <4>1, <4>2 DEF IInv, MessageInv, AnswerInv, At, Own
    <3> QED BY <1>2, <2>4, <2>9, <3>1 DEF AnswerInv, At
  <2>19. MessageInv' BY <2>16, <2>17, <2>18 DEF MessageInv
  <2> QED BY <2>7, <2>10, <2>11, <2>13, <2>14, <2>19 DEF IInv
<1> QED BY <1>2, <1>4, <1>5 DEF SendMsg

\* Both ends of the wait: the answer there is is taken, or there is none.
LEMMA WaitEnds ==
    ASSUME IInv, NEW t \in Callers, NEW o \in Objs, call[t].o = o, call[t].pc = "wait",
           OthersStay(t), call' \in [Callers -> Caller], UNCHANGED <<intf, published, data>>,
           /\ call'[t].pc = "mapped" /\ call'[t].op = call[t].op /\ call'[t].hdl = call[t].hdl
           /\ call'[t].o = call[t].o /\ call'[t].msg = call[t].msg,
           obj' \in [Objs -> Obj], LifeKept, EventsKept,
           \A p \in Objs : obj'[p].chan = obj[p].chan /\ obj'[p].owner = obj[p].owner,
           \A p \in Objs : p # o => obj'[p] = obj[p],
           /\ obj'[o].kernel = obj[o].kernel /\ obj'[o].wire = obj[o].wire
           /\ obj'[o].msg = obj[o].msg /\ obj'[o].rcvd = NULL,
           \/ obj'[o].late
           \/ obj[o].rcvd # NULL /\ call'[t].ans = obj[o].rcvd /\ obj'[o].late = obj[o].late
    PROVE  IInv'
<1> USE CameraConstants
<1>1. Consistent(call[t]) /\ call[t].op \in Mapping BY CallerFacts DEF Consistent
<1>2. GoesOn(t) BY <1>1 DEF GoesOn, Mapping, Opens
<1>3. Consistent(call'[t])
  BY <1>1 DEF Consistent, Opens, Closes, CameraCalls, ChannelCalls, Mapping
<1>4. CallInv' BY <1>3 DEF IInv, CallInv, OthersStay
<1>5. TypeInv' BY DEF IInv, TypeInv
<1>6. HandleInv' /\ RefInv' /\ LiveInv' BY <1>2, <1>5, HandlesKept
<1>7. ChannelKept BY DEF ChannelKept
<1>8. ChannelInv' BY <1>7, ChannelsKept DEF At
<1>9. EventInv' BY <1>4, <1>5, ThreadsKept
<1>10. OnePlaceInv'
  <2>1. obj[o].kernel \in Seq(Msgs \cup {Event}) /\ obj[o].wire \subseteq Msgs
    BY DEF IInv, TypeInv, Obj
  <2>2. \A i \in DOMAIN obj[o].kernel : obj[o].kernel[i] # NULL BY <2>1 DEF Event, Msgs
  <2>3. ASSUME NEW p \in Objs
        PROVE  /\ \A n \in obj'[p].wire : obj'[p].rcvd # n /\ ~On(p, n)'
               /\ \A i, j \in DOMAIN obj'[p].kernel :
                    obj'[p].kernel[i] = obj'[p].kernel[j] /\ obj'[p].kernel[i] # Event => i = j
               /\ ~(\E i \in DOMAIN obj'[p].kernel : obj'[p].kernel[i] = obj'[p].rcvd)
    <3>1. CASE p = o BY <2>1, <2>2, <3>1 DEF IInv, MessageInv, OnePlaceInv, On, Msgs
    <3>2. CASE p # o BY <3>2 DEF IInv, MessageInv, OnePlaceInv, On
    <3> QED BY <3>1, <3>2
  <2> QED BY <2>3 DEF OnePlaceInv, On
<1>11. \A n \in Msgs : ~obj[o].late /\ (n \in obj[o].wire \/ n = obj[o].rcvd \/ On(o, n))
          => n = call[t].msg
  BY OneWaits DEF IInv, MessageInv, WaitInv, At
<1>12. WaitInv'
  <2>1. ASSUME NEW p \in Objs, ~obj'[p].late, NEW n \in Msgs,
               n \in obj'[p].wire \/ n = obj'[p].rcvd \/ On(p, n)'
        PROVE  \E u \in Callers : At(u, "wait")' /\ call'[u].o = p /\ call'[u].msg = n
    <3>1. CASE p = o
      <4>1. obj[o].rcvd \in Msgs /\ ~obj[o].late BY <2>1, <3>1 DEF IInv, TypeInv, Obj
      <4>2. n # NULL /\ (n \in obj[o].wire \/ On(o, n)) BY <2>1, <3>1 DEF On, Msgs
      <4>3. n = obj[o].rcvd BY <1>11, <4>1, <4>2
      <4> QED BY <4>2, <4>3 DEF IInv, MessageInv, OnePlaceInv
    <3>2. CASE p # o
      <4>1. ~obj[p].late /\ (n \in obj[p].wire \/ n = obj[p].rcvd \/ On(p, n))
        BY <2>1, <3>2 DEF On
      <4>2. PICK u \in Callers : At(u, "wait") /\ call[u].o = p /\ call[u].msg = n
        BY <4>1 DEF IInv, MessageInv, WaitInv
      <4> QED BY <3>2, <4>2 DEF OthersStay, At
    <3> QED BY <3>1, <3>2
  <2> QED BY <2>1 DEF WaitInv
<1>13. AnswerInv'
  <2>1. ASSUME NEW u \in Callers, u # t
        PROVE  /\ call'[u].pc \in {"wait", "mapped"} => obj'[call'[u].o].msg = u
               /\ At(u, "mapped")' => Own(u)' \/ obj'[call'[u].o].late
    <3>1. call'[u] = call[u] BY <2>1 DEF OthersStay
    <3>2. call[u].pc \in {"wait", "mapped"} => call[u].o \in Objs \ {o}
      BY <2>1, CallerFacts, OneWaits DEF Opens
    <3> QED BY <3>1, <3>2 DEF IInv, MessageInv, AnswerInv, At, Own
  <2>2. obj'[call'[t].o].msg = t BY DEF IInv, MessageInv, AnswerInv
  <2>3. Own(t)' \/ obj'[call'[t].o].late
    <3>1. ASSUME ~obj'[o].late PROVE Own(t)'
      <4>1. obj[o].rcvd \in Msgs /\ ~obj[o].late BY <3>1 DEF IInv, TypeInv, Obj
      <4>2. obj[o].rcvd = call[t].msg BY <1>11, <4>1
      <4> QED BY <3>1, <4>2 DEF Own
    <3> QED BY <3>1
  <2> QED BY <2>1, <2>2, <2>3 DEF AnswerInv
<1> QED BY <1>4, <1>5, <1>6, <1>8, <1>9, <1>10, <1>12, <1>13 DEF IInv, MessageInv

\* The answer received is taken, and evt_rcvd cleared.
LEMMA WaitEventStep == ASSUME IInv, NEW t \in Callers, WaitEvent(t) PROVE IInv'
<1>1. PICK o \in Objs : call[t].o = o BY CallerFacts DEF WaitEvent, At, Opens
<1>2. /\ obj[o] \in Obj /\ obj \in [Objs -> Obj] /\ obj' = [obj EXCEPT ![o].rcvd = NULL]
      /\ call[t].pc = "wait" /\ obj[o].rcvd # NULL
  BY <1>1 DEF WaitEvent, At, IInv, TypeInv
<1>3. /\ obj' \in [Objs -> Obj] /\ LifeKept /\ EventsKept
      /\ \A p \in Objs : obj'[p].chan = obj[p].chan /\ obj'[p].owner = obj[p].owner
      /\ \A p \in Objs : p # o => obj'[p] = obj[p]
      /\ obj'[o].kernel = obj[o].kernel /\ obj'[o].wire = obj[o].wire
      /\ obj'[o].msg = obj[o].msg /\ obj'[o].rcvd = NULL /\ obj'[o].late = obj[o].late
  BY <1>2 DEF Obj, LifeKept, EventsKept
<1>4. /\ call[t] \in Caller /\ obj[o].rcvd \in Msgs \cup {NULL} /\ call \in [Callers -> Caller]
      /\ call' = [call EXCEPT ![t].pc = "mapped", ![t].ans = obj[o].rcvd]
  BY <1>1, <1>2, CallerFacts DEF WaitEvent, Obj, IInv, TypeInv
<1>5. [call[t] EXCEPT !.pc = "mapped", !.ans = obj[o].rcvd] \in Caller BY <1>4 DEF Caller
<1>6. call' \in [Callers -> Caller] /\ OthersStay(t)
      /\ call'[t] = [call[t] EXCEPT !.pc = "mapped", !.ans = obj[o].rcvd]
  BY <1>4, <1>5 DEF OthersStay
<1>7. /\ call'[t].pc = "mapped" /\ call'[t].op = call[t].op /\ call'[t].hdl = call[t].hdl
      /\ call'[t].o = call[t].o /\ call'[t].msg = call[t].msg /\ call'[t].ans = obj[o].rcvd
  BY <1>4, <1>6 DEF Caller
<1>8. UNCHANGED <<intf, published, data>> BY DEF WaitEvent
<1>9. OthersStay(t) /\ call' \in [Callers -> Caller] BY <1>6
<1> QED BY <1>1, <1>2, <1>3, <1>7, <1>8, <1>9, WaitEnds

\* The wait is given up: from now on answers may be of another message.
LEMMA WaitTimeoutStep == ASSUME IInv, NEW t \in Callers, WaitTimeout(t) PROVE IInv'
<1>1. PICK o \in Objs : call[t].o = o BY CallerFacts DEF WaitTimeout, At, Opens
<1>2. /\ obj[o] \in Obj /\ obj \in [Objs -> Obj]
      /\ obj' = [obj EXCEPT ![o].rcvd = NULL, ![o].late = TRUE]
      /\ call[t].pc = "wait"
  BY <1>1 DEF WaitTimeout, At, IInv, TypeInv
<1>3. /\ \A p \in Objs : p # o => obj'[p] = obj[p]
      /\ obj'[o].kernel = obj[o].kernel /\ obj'[o].wire = obj[o].wire
      /\ obj'[o].msg = obj[o].msg /\ obj'[o].rcvd = NULL /\ obj'[o].late
  BY <1>2 DEF Obj
<1>4. obj' \in [Objs -> Obj] /\ LifeKept /\ EventsKept
  <2>1. [obj[o] EXCEPT !.rcvd = NULL, !.late = TRUE] \in Obj BY <1>2 DEF Obj
  <2>2. obj' \in [Objs -> Obj] BY <1>2, <2>1
  <2> QED BY <1>2, <2>2 DEF Obj, LifeKept, EventsKept
<1>5. \A p \in Objs : obj'[p].chan = obj[p].chan /\ obj'[p].owner = obj[p].owner
  BY <1>2 DEF Obj
<1>6. call[t].op \in Mapping BY <1>2, CallerFacts DEF Consistent
<1>7. /\ GoesOn(t) /\ OthersStay(t) /\ call' \in [Callers -> Caller]
      /\ call'[t].pc = "mapped" /\ call'[t].msg = call[t].msg
  BY <1>2, <1>6, GotoGoesOn DEF WaitTimeout, Opens
<1>8. UNCHANGED <<intf, published, data>> BY DEF WaitTimeout
<1>9. /\ call'[t].op = call[t].op /\ call'[t].hdl = call[t].hdl /\ call'[t].o = call[t].o
      /\ call'[t].pc = "mapped" /\ call'[t].msg = call[t].msg
  BY <1>7 DEF GoesOn
<1>10. OthersStay(t) /\ call' \in [Callers -> Caller] BY <1>7
<1>11. call[t].pc = "wait" BY <1>2
<1> QED BY <1>1, <1>3, <1>4, <1>5, <1>8, <1>9, <1>10, <1>11, WaitEnds

\* msg_lock is given back, with the lock the call came with.
LEMMA EndMsgStep == ASSUME IInv, NEW t \in Callers, EndMsg(t) PROVE IInv'
<1> USE CameraConstants
<1>1. PICK o \in Objs : call[t].o = o BY CallerFacts DEF EndMsg, At, Opens
<1>2. /\ obj[o] \in Obj /\ call[t].pc = "mapped"
      /\ LeaveMap(t, o, [obj[o] EXCEPT !.msg = NULL])
  BY <1>1 DEF EndMsg, At, IInv, TypeInv
<1>3. [obj[o] EXCEPT !.msg = NULL] \in Obj BY <1>2 DEF Obj
<1>4. /\ Returns(t) /\ OthersStay(t) /\ call' \in [Callers -> Caller] /\ CallInv'
      /\ obj' \in [Objs -> Obj] /\ LifeKept /\ EventsKept
      /\ \A p \in Objs : /\ obj'[p].chan = obj[p].chan /\ obj'[p].owner = obj[p].owner
                         /\ obj'[p].kernel = obj[p].kernel /\ obj'[p].wire = obj[p].wire
                         /\ obj'[p].rcvd = obj[p].rcvd /\ obj'[p].late = obj[p].late
      /\ \A p \in Objs : p # o => obj'[p].msg = obj[p].msg
  BY <1>2, <1>3, LeaveMapLeaves
<1>5. TypeInv' BY <1>4 DEF IInv, TypeInv, EndMsg
<1>6. HandleInv' /\ RefInv' /\ LiveInv' BY <1>4, <1>5, HandlesKept DEF EndMsg
<1>7. ChannelKept BY <1>4 DEF ChannelKept, EndMsg
<1>8. ChannelInv' BY <1>2, <1>4, <1>7, ChannelsKept DEF EndMsg, Returns, At
<1>9. EventInv' BY <1>4, <1>5, ThreadsKept DEF Returns
<1>10. OnePlaceInv' BY <1>4 DEF IInv, MessageInv, OnePlaceInv, On
<1>11. \A u \in Callers : At(u, "wait") => At(u, "wait")' /\ call'[u] = call[u]
  BY <1>2, <1>4 DEF OthersStay, At
<1>12. WaitInv'
  <2>1. \A p \in Objs, n \in Msgs : On(p, n)' <=> On(p, n) BY <1>4 DEF On
  <2> QED BY <1>4, <1>11, <2>1 DEF IInv, MessageInv, WaitInv
<1>13. AnswerInv'
  <2>1. ASSUME NEW u \in Callers, u # t
        PROVE  /\ call'[u].pc \in {"wait", "mapped"} => obj'[call'[u].o].msg = u
               /\ At(u, "mapped")' => Own(u)' \/ obj'[call'[u].o].late
    <3>1. call'[u] = call[u] BY <1>4, <2>1 DEF OthersStay
    <3>2. call[u].pc \in {"wait", "mapped"} => call[u].o \in Objs \ {o}
      BY <1>1, <1>2, <2>1, CallerFacts, OneWaits DEF Opens
    <3> QED BY <1>4, <3>1, <3>2 DEF IInv, MessageInv, AnswerInv, At, Own
  <2> QED BY <1>4, <2>1 DEF AnswerInv, Returns, At
<1> QED BY <1>4, <1>5, <1>6, <1>8, <1>9, <1>10, <1>12, <1>13 DEF IInv, MessageInv

\* Where a close is under way.
LEMMA CloserFacts ==
    ASSUME IInv, NEW t \in Callers, call[t].pc \in Closes
    PROVE  /\ call[t].op = "close" /\ Closer(t) /\ call[t].o \in Objs
           /\ \A u \in Callers : u # t => call[u].o # call[t].o /\ call[u].hdl # call[t].o
           /\ call[t].o # published
<1>1. call[t].op = "close" /\ call[t].o \in Objs
  BY CallerFacts DEF Consistent, Closes, Opens
<1>2. Closer(t) BY <1>1, CameraConstants DEF Closer
<1> QED BY <1>1, <1>2 DEF IInv, HandleInv

\* The subscription, the poll thread and the event thread, one after the other.
LEMMA CloseGoesOn ==
    ASSUME IInv, NEW t \in Callers, NEW o \in Objs, call[t].o = o, call[t].pc \in Closes,
           NEW p \in {"release_poll", "release_evt", "join_evt"}, Goto(t, p),
           UNCHANGED <<intf, published, data>>,
           NEW r \in Obj, obj' = [obj EXCEPT ![o] = r],
           /\ r.life = obj[o].life /\ r.ref = obj[o].ref
           /\ r.chan = obj[o].chan /\ r.owner = obj[o].owner
           /\ r.evt = obj[o].evt /\ r.queue = obj[o].queue /\ r.cb = obj[o].cb
           /\ r.wire = obj[o].wire /\ r.rcvd = obj[o].rcvd /\ r.late = obj[o].late
           /\ r.msg = obj[o].msg,
           r.kernel \in {obj[o].kernel, <<>>},
           r.poll => obj[o].poll,
           p \in {"release_evt", "join_evt"} => ~r.poll,
           r.exit = obj[o].exit \/ p = "join_evt"
    PROVE  IInv'
<1> USE CameraConstants
<1>1. call[t].op = "close" /\ \A u \in Callers : u # t => call[u].o # o
  BY CloserFacts
<1>2. /\ GoesOn(t) /\ OthersStay(t) /\ call' \in [Callers -> Caller] /\ CallInv'
      /\ call'[t].pc = p /\ call'[t].msg = call[t].msg /\ call'[t].ans = call[t].ans
  BY <1>1, GotoGoesOn DEF Opens, Closes
<1>3. obj \in [Objs -> Obj] BY DEF IInv, TypeInv
<1>4. obj' \in [Objs -> Obj] /\ obj'[o] = r /\ \A q \in Objs : q # o => obj'[q] = obj[q]
  BY <1>3
<1>5. TypeInv' BY <1>2, <1>4 DEF IInv, TypeInv
<1>6. LifeKept /\ ChannelKept BY <1>4 DEF LifeKept, ChannelKept
<1>7. HandleInv' /\ RefInv' /\ LiveInv' BY <1>2, <1>5, <1>6, HandlesKept
<1>8. ChannelInv'
  <2>1. ~At(t, "join") /\ ~At(t, "join")' BY <1>2 DEF At, Closes
  <2> QED BY <1>2, <1>6, <2>1, ChannelsKept DEF GoesOn
<1>9. EventInv'
  <2>1. ASSUME NEW q \in Objs
        PROVE  /\ obj'[q].poll => obj'[q].evt /\ ~obj'[q].exit
               /\ obj'[q].queue > 0 \/ obj'[q].cb => obj'[q].evt
    <3>1. CASE q = o BY <1>4, <3>1 DEF IInv, EventInv
    <3>2. CASE q # o BY <1>4, <3>2 DEF IInv, EventInv
    <3> QED BY <3>1, <3>2
  <2>2. ASSUME NEW u \in Callers
        PROVE  /\ At(u, "open")' => ~obj'[call'[u].o].evt /\ ~obj'[call'[u].o].exit
               /\ call'[u].pc \in {"release_evt", "join_evt"} => ~obj'[call'[u].o].poll
    <3>1. CASE u = t BY <1>2, <1>4, <3>1 DEF At, GoesOn
    <3>2. CASE u # t
      <4>1. call'[u] = call[u] /\ call[u].o # o BY <1>1, <1>2, <3>2 DEF OthersStay
      <4>2. At(u, "open") \/ call[u].pc \in {"release_evt", "join_evt"} => call[u].o \in Objs
        BY CallerFacts DEF At
      <4> QED BY <1>4, <4>1, <4>2 DEF IInv, EventInv, At
    <3> QED BY <3>1, <3>2
  <2> QED BY <2>1, <2>2 DEF EventInv
<1>10. MessageInv'
  <2>1. ASSUME NEW q \in Objs
        PROVE  /\ obj'[q].kernel = obj[q].kernel \/ obj'[q].kernel = <<>>
               /\ obj'[q].wire = obj[q].wire /\ obj'[q].rcvd = obj[q].rcvd
               /\ obj'[q].late = obj[q].late /\ obj'[q].msg = obj[q].msg
    BY <1>4
  <2>2. \A q \in Objs : /\ DOMAIN obj'[q].kernel \subseteq DOMAIN obj[q].kernel
                        /\ \A i \in DOMAIN obj'[q].kernel : obj'[q].kernel[i] = obj[q].kernel[i]
    BY <2>1
  <2>3. OnePlaceInv' BY <2>1, <2>2 DEF IInv, MessageInv, OnePlaceInv, On
  <2>4. \A u \in Callers : call[u].pc \in {"wait", "mapped"} \/ call'[u].pc \in {"wait", "mapped"}
          => call'[u] = call[u] /\ call[u].o \in Objs
    BY <1>2, CallerFacts DEF OthersStay, Closes, Opens
  <2>5. WaitInv'
    <3>1. \A q \in Objs, n \in Msgs : On(q, n)' => On(q, n) BY <2>2 DEF On
    <3> QED BY <2>1, <2>4, <3>1 DEF IInv, MessageInv, WaitInv, At
  <2>6. AnswerInv' BY <2>1, <2>4 DEF IInv, MessageInv, AnswerInv, At, Own
  <2> QED BY <2>3, <2>5, <2>6 DEF MessageInv
<1> QED BY <1>2, <1>5, <1>7, <1>8, <1>9, <1>10 DEF IInv

\* Close ends the subscription, or fails to.
LEMMA UnsubscribeStep == ASSUME IInv, NEW t \in Callers, Unsubscribe(t) PROVE IInv'
<1>1. call[t].pc = "close" /\ Goto(t, "release_poll") /\ UNCHANGED <<intf, published, data>>
  BY DEF Unsubscribe, At
<1>2. PICK o \in Objs : call[t].o = o BY <1>1, CallerFacts DEF Opens
<1>3. obj[o] \in Obj /\ obj \in [Objs -> Obj] BY DEF IInv, TypeInv
<1>4. CASE obj' = [obj EXCEPT ![o].poll = FALSE, ![o].kernel = <<>>]
  <2>1. PICK r : r = [obj[o] EXCEPT !.poll = FALSE, !.kernel = <<>>] OBVIOUS
  <2>2. r \in Obj
    <3>1. <<>> \in Seq(Msgs \cup {Event}) OBVIOUS
    <3> QED BY <1>3, <2>1, <3>1 DEF Obj
  <2>3. obj' = [obj EXCEPT ![o] = r] BY <1>3, <1>4, <2>1
  <2>4. /\ r.life = obj[o].life /\ r.ref = obj[o].ref
        /\ r.chan = obj[o].chan /\ r.owner = obj[o].owner
        /\ r.evt = obj[o].evt /\ r.queue = obj[o].queue /\ r.cb = obj[o].cb
        /\ r.wire = obj[o].wire /\ r.rcvd = obj[o].rcvd /\ r.late = obj[o].late
        /\ r.msg = obj[o].msg /\ r.kernel = <<>> /\ ~r.poll /\ r.exit = obj[o].exit
    BY <1>3, <2>1 DEF Obj
  <2> QED BY <1>1, <1>2, <2>2, <2>3, <2>4, CloseGoesOn DEF Closes
<1>5. CASE obj' = obj
  <2>1. obj' = [obj EXCEPT ![o] = obj[o]] BY <1>3, <1>5
  <2> QED BY <1>1, <1>2, <1>3, <2>1, CloseGoesOn DEF Closes
<1> QED BY <1>2, <1>4, <1>5 DEF Unsubscribe

\* Close stops the thread that feeds the event thread.
LEMMA ReleasePollStep == ASSUME IInv, NEW t \in Callers, ReleasePoll(t) PROVE IInv'
<1>1. call[t].pc = "release_poll" /\ Goto(t, "release_evt") /\ UNCHANGED <<intf, published, data>>
  BY DEF ReleasePoll, At
<1>2. PICK o \in Objs : call[t].o = o BY <1>1, CallerFacts DEF Opens
<1>3. obj[o] \in Obj /\ obj \in [Objs -> Obj] BY DEF IInv, TypeInv
<1>4. PICK r : r = [obj[o] EXCEPT !.poll = FALSE] OBVIOUS
<1>5. r \in Obj BY <1>3, <1>4 DEF Obj
<1>6. obj' = [obj EXCEPT ![o] = r] BY <1>2, <1>3, <1>4 DEF ReleasePoll
<1>7. /\ r.life = obj[o].life /\ r.ref = obj[o].ref
      /\ r.chan = obj[o].chan /\ r.owner = obj[o].owner
      /\ r.evt = obj[o].evt /\ r.queue = obj[o].queue /\ r.cb = obj[o].cb
      /\ r.wire = obj[o].wire /\ r.rcvd = obj[o].rcvd /\ r.late = obj[o].late
      /\ r.msg = obj[o].msg /\ r.kernel = obj[o].kernel /\ ~r.poll /\ r.exit = obj[o].exit
  BY <1>3, <1>4 DEF Obj
<1> QED BY <1>1, <1>2, <1>5, <1>6, <1>7, CloseGoesOn DEF Closes

\* Close tells the event thread to end.
LEMMA ReleaseEvtStep == ASSUME IInv, NEW t \in Callers, ReleaseEvt(t) PROVE IInv'
<1>1. call[t].pc = "release_evt" /\ Goto(t, "join_evt") /\ UNCHANGED <<intf, published, data>>
  BY DEF ReleaseEvt, At
<1>2. PICK o \in Objs : call[t].o = o BY <1>1, CallerFacts DEF Opens
<1>3. obj[o] \in Obj /\ obj \in [Objs -> Obj] BY DEF IInv, TypeInv
<1>4. PICK r : r = [obj[o] EXCEPT !.exit = TRUE] OBVIOUS
<1>5. r \in Obj BY <1>3, <1>4 DEF Obj
<1>6. obj' = [obj EXCEPT ![o] = r] BY <1>2, <1>3, <1>4 DEF ReleaseEvt
<1>7. /\ r.life = obj[o].life /\ r.ref = obj[o].ref
      /\ r.chan = obj[o].chan /\ r.owner = obj[o].owner
      /\ r.evt = obj[o].evt /\ r.queue = obj[o].queue /\ r.cb = obj[o].cb
      /\ r.wire = obj[o].wire /\ r.rcvd = obj[o].rcvd /\ r.late = obj[o].late
      /\ r.msg = obj[o].msg /\ r.kernel = obj[o].kernel /\ r.poll = obj[o].poll
  BY <1>3, <1>4 DEF Obj
<1>8. ~r.poll BY <1>1, <1>2, <1>7 DEF IInv, EventInv
<1> QED BY <1>1, <1>2, <1>5, <1>6, <1>7, <1>8, CloseGoesOn DEF Closes

\* A free object is an object.
LEMMA UnallocatedIsObj == Unallocated \in Obj
<1>1. <<>> \in Seq(Msgs \cup {Event}) OBVIOUS
<1> QED BY <1>1 DEF Unallocated, Obj

\* A caller that loses its handle is where it began.
LEMMA IdleAgain ==
    ASSUME IInv, NEW t \in Callers, NoHandle(t)
    PROVE  /\ OthersStay(t) /\ call' \in [Callers -> Caller] /\ CallInv'
           /\ call'[t].pc = "idle" /\ call'[t].op = NULL /\ call'[t].hdl = NULL
           /\ call'[t].o = NULL /\ call'[t].msg = NULL /\ call'[t].ans = NULL
<1> USE CameraConstants DEF IInv
<1>1. Idle \in Caller BY DEF Idle, Caller
<1>2. call' \in [Callers -> Caller] /\ OthersStay(t) /\ call'[t] = Idle
  BY <1>1 DEF NoHandle, TypeInv, OthersStay
<1>3. /\ call'[t].pc = "idle" /\ call'[t].op = NULL /\ call'[t].hdl = NULL
      /\ call'[t].o = NULL /\ call'[t].msg = NULL /\ call'[t].ans = NULL
  BY <1>2 DEF Idle
<1>4. Consistent(call'[t])
  BY <1>3 DEF Consistent, Opens, Closes, CameraCalls, ChannelCalls
<1> QED BY <1>2, <1>3, <1>4 DEF CallInv, OthersStay

\* The memory of an object that only t knows of is freed.
LEMMA ObjectFreed ==
    ASSUME IInv, NEW t \in Callers, NEW o \in Objs, call[t].o = o,
           call[t].pc \in Opens \cup Closes,
           obj' = [obj EXCEPT ![o] = Unallocated], NoHandle(t),
           UNCHANGED <<intf, published, data>>
    PROVE  IInv'
<1> USE CameraConstants
<1>1. /\ OthersStay(t) /\ call' \in [Callers -> Caller] /\ CallInv'
      /\ call'[t].pc = "idle" /\ call'[t].op = NULL /\ call'[t].hdl = NULL
      /\ call'[t].o = NULL /\ call'[t].msg = NULL /\ call'[t].ans = NULL
  BY IdleAgain
<1>2. /\ o # published
      /\ \A u \in Callers : u # t => call'[u] = call[u] /\ call[u].hdl # o /\ call[u].o # o
  <2>1. Closer(t) \/ call[t].pc \in Opens BY CloserFacts
  <2> QED BY <1>1, <2>1 DEF IInv, HandleInv, OthersStay
<1>3. call[t].hdl # NULL => call[t].hdl = o BY CallerFacts DEF Consistent
<1>4. ~At(t, "join") /\ ~At(t, "cam") /\ ~At(t, "reopen") /\ call[t].pc \notin {"wait", "mapped"}
  BY DEF At, Opens, Closes
<1>5. obj \in [Objs -> Obj] BY DEF IInv, TypeInv
<1>6. /\ obj' \in [Objs -> Obj] /\ obj'[o] = Unallocated
      /\ \A p \in Objs : p # o => obj'[p] = obj[p]
  BY <1>5, UnallocatedIsObj
<1>7. /\ obj'[o].chan = "NOTUSED" /\ obj'[o].owner = NULL /\ obj'[o].ref = 0
      /\ ~obj'[o].poll /\ ~obj'[o].evt /\ ~obj'[o].exit /\ obj'[o].queue = 0 /\ ~obj'[o].cb
      /\ obj'[o].kernel = <<>> /\ obj'[o].wire = {} /\ obj'[o].rcvd = NULL
  BY <1>6 DEF Unallocated
<1>8. TypeInv' BY <1>1, <1>6 DEF IInv, TypeInv
<1>9. HandleInv'
  <2>1. ASSUME NEW u \in Callers, NEW v \in Callers
        PROVE  /\ call'[u].hdl # NULL => call'[u].hdl = published' \/ Closer(u)'
               /\ At(u, "reopen")' => published' # NULL
               /\ call'[u].pc \in Opens => published' = NULL
               /\ At(u, "cam")' <=> intf' = u
               /\ (Closer(u) \/ call[u].pc \in Opens)' => call'[u].o # published'
    <3>1. CASE u = t BY <1>1, <1>4, <3>1 DEF IInv, HandleInv, Closer, At, Opens
    <3>2. CASE u # t BY <1>2, <3>2 DEF IInv, HandleInv, Closer, At
    <3> QED BY <3>1, <3>2
  <2>2. ASSUME NEW u \in Callers, NEW v \in Callers, u # v, (Closer(u) \/ call[u].pc \in Opens)'
        PROVE  call'[u].o \notin {call'[v].hdl, call'[v].o}
    <3>1. u # t BY <1>1, <2>2 DEF Closer, Opens
    <3>2. call'[u] = call[u] /\ (Closer(u) \/ call[u].pc \in Opens) BY <1>2, <2>2, <3>1 DEF Closer
    <3>3. call[u].o # NULL BY <3>2, CallerFacts DEF Closer, Opens
    <3>4. v # t => call[u].o \notin {call[v].hdl, call[v].o} /\ call'[v] = call[v]
      BY <1>2, <2>2, <3>2 DEF IInv, HandleInv
    <3> QED BY <1>1, <3>2, <3>3, <3>4
  <2>3. \A u, v \in Opening' : u = v
    <3>1. \A u \in Opening' : u \in Opening BY <1>1, <1>2 DEF Opening
    <3> QED BY <3>1 DEF IInv, HandleInv
  <2>4. \A p \in Objs : data'[p] = "cam" <=> intf' = p BY DEF IInv, HandleInv
  <2> QED BY <2>1, <2>2, <2>3, <2>4 DEF HandleInv
<1>10. RefInv'
  <2>1. ASSUME published # NULL
        PROVE  \A u \in Callers : Holds(u, published)' <=> Holds(u, published)
    <3>1. \A u \in Callers : u # t => (Holds(u, published)' <=> Holds(u, published))
      BY <1>2 DEF Holds, At
    <3>2. ~Holds(t, published)' /\ ~Holds(t, published)
      BY <1>1, <1>2, <1>3, <1>4, <2>1 DEF Holds, At
    <3> QED BY <3>1, <3>2
  <2>2. published # NULL =>
          {u \in Callers : Holds(u, published)}' = {u \in Callers : Holds(u, published)}
    BY <2>1
  <2>3. published # NULL => obj'[published].ref = obj[published].ref
    BY <1>2, <1>6 DEF IInv, TypeInv
  <2> QED BY <2>2, <2>3 DEF IInv, RefInv
<1>11. LiveInv'
  <2>1. published' # NULL => obj'[published'].life = "live"
    BY <1>2, <1>6 DEF IInv, LiveInv, TypeInv
  <2>2. ASSUME NEW u \in Callers
        PROVE  /\ call'[u].o # NULL => obj'[call'[u].o].life = "live"
               /\ call'[u].pc \in Opens => obj'[call'[u].o].ref = 1
    <3>1. CASE u = t BY <1>1, <3>1 DEF Opens
    <3>2. CASE u # t
      <4>1. call[u].o # NULL => call[u].o \in Objs BY CallerFacts
      <4>2. call[u].pc \in Opens => call[u].o \in Objs BY CallerFacts DEF Opens
      <4> QED BY <1>2, <1>6, <3>2, <4>1, <4>2 DEF IInv, LiveInv
    <3> QED BY <3>1, <3>2
  <2> QED BY <2>1, <2>2 DEF LiveInv
<1>12. ChannelInv'
  <2>1. data[o] = "off"
    <3>1. obj[o].chan = "NOTUSED" BY <1>2 DEF IInv, ChannelInv, OwnerInv
    <3>2. \A u \in Callers : ~(At(u, "join") /\ call[u].o = o) BY <1>2, <1>4
    <3> QED BY <3>1, <3>2 DEF IInv, ChannelInv, OwnerInv
  <2>2. OwnerInv'
    <3>1. ASSUME NEW p \in Objs, p # o
          PROVE  /\ obj'[p].owner = NULL <=> obj'[p].chan = "NOTUSED"
                 /\ obj'[p].owner # NULL =>
                      p = published' /\ call'[obj'[p].owner].hdl = p /\ call'[obj'[p].owner].op # "close"
                 /\ data'[p] # "off" => \/ obj'[p].chan = "ACTIVE"
                                        \/ \E u \in Callers : At(u, "join")' /\ call'[u].o = p
      <4>1. obj[p].owner \in Callers \cup {NULL} BY <1>5 DEF Obj
      <4>2. obj[p].owner # t
        BY <1>3, <3>1 DEF IInv, ChannelInv, OwnerInv
      <4>3. obj'[p] = obj[p] BY <1>6, <3>1
      <4>4. obj[p].owner # NULL => call'[obj[p].owner] = call[obj[p].owner] BY <1>2, <4>1, <4>2
      <4>5. \A u \in Callers : At(u, "join") => At(u, "join")' /\ call'[u].o = call[u].o
        BY <1>2, <1>4 DEF At
      <4> QED BY <4>3, <4>4, <4>5 DEF IInv, ChannelInv, OwnerInv
    <3> QED BY <1>7, <2>1, <3>1 DEF OwnerInv
  <2>3. AskedInv'
    <3>1. ASSUME NEW u \in Callers, u # t
          PROVE  /\ call'[u].op = "add_channel" => obj'[call'[u].hdl].owner = NULL
                 /\ call'[u].op \in ChannelCalls => obj'[call'[u].hdl].chan # "NOTUSED"
                 /\ call'[u].op = "del_channel" =>
                      obj'[call'[u].hdl].owner = u /\ obj'[call'[u].hdl].chan = "STOPPED"
                 /\ At(u, "join")' => obj'[call'[u].hdl].chan = "STOPPED"
      <4>1. call'[u] = call[u] /\ call[u].hdl # o BY <1>2, <3>1
      <4>2. call[u].op \in ChannelCalls \cup {"add_channel"} \/ At(u, "join") => call[u].hdl \in Objs
        BY CallerFacts DEF Consistent, At, Opens, CameraCalls, ChannelCalls
      <4> QED BY <1>6, <4>1, <4>2 DEF IInv, ChannelInv, AskedInv, At, ChannelCalls
    <3> QED BY <1>1, <3>1 DEF AskedInv, At, CameraCalls, ChannelCalls
  <2>4. OneByOne' BY <1>1, OneByOneKept
  <2> QED BY <2>2, <2>3, <2>4 DEF ChannelInv
<1>13. EventInv'
  <2>1. ASSUME NEW p \in Objs
        PROVE  /\ obj'[p].poll => obj'[p].evt /\ ~obj'[p].exit
               /\ obj'[p].queue > 0 \/ obj'[p].cb => obj'[p].evt
    BY <1>6, <1>7 DEF IInv, EventInv
  <2>2. ASSUME NEW u \in Callers
        PROVE  /\ At(u, "open")' => ~obj'[call'[u].o].evt /\ ~obj'[call'[u].o].exit
               /\ call'[u].pc \in {"release_evt", "join_evt"} => ~obj'[call'[u].o].poll
    <3>1. CASE u = t BY <1>1, <3>1 DEF At
    <3>2. CASE u # t
      <4>1. At(u, "open") \/ call[u].pc \in {"release_evt", "join_evt"} => call[u].o \in Objs
        BY CallerFacts DEF At
      <4> QED BY <1>2, <1>6, <3>2, <4>1 DEF IInv, EventInv, At
    <3> QED BY <3>1, <3>2
  <2> QED BY <2>1, <2>2 DEF EventInv
<1>14. MessageInv'
  <2>1. OnePlaceInv' BY <1>6, <1>7 DEF IInv, MessageInv, OnePlaceInv, On
  <2>2. \A u \in Callers : call[u].pc \in {"wait", "mapped"} \/ call'[u].pc \in {"wait", "mapped"}
          => call'[u] = call[u] /\ call[u].o \in Objs \ {o}
    BY <1>1, <1>2, <1>4, CallerFacts DEF Opens
  <2>3. WaitInv'
    <3>1. ASSUME NEW p \in Objs, ~obj'[p].late, NEW n \in Msgs,
                 n \in obj'[p].wire \/ n = obj'[p].rcvd \/ On(p, n)'
          PROVE  \E u \in Callers : At(u, "wait")' /\ call'[u].o = p /\ call'[u].msg = n
      <4>1. p # o BY <1>7, <3>1 DEF On, Msgs
      <4>2. ~obj[p].late /\ (n \in obj[p].wire \/ n = obj[p].rcvd \/ On(p, n))
        BY <1>6, <3>1, <4>1 DEF On
      <4>3. PICK u \in Callers : At(u, "wait") /\ call[u].o = p /\ call[u].msg = n
        BY <4>2 DEF IInv, MessageInv, WaitInv
      <4> QED BY <2>2, <4>3 DEF At
    <3> QED BY <3>1 DEF WaitInv
  <2>4. AnswerInv' BY <1>6, <2>2 DEF IInv, MessageInv, AnswerInv, At, Own
  <2> QED BY <2>1, <2>3, <2>4 DEF MessageInv
<1> QED BY <1>1, <1>8, <1>9, <1>10, <1>11, <1>12, <1>13, <1>14 DEF IInv

\* Close frees the object, which only the closer knows of.
LEMMA CloseEndStep == ASSUME IInv, NEW t \in Callers, CloseEnd(t) PROVE IInv'
<1>1. call[t].pc \in Closes BY DEF CloseEnd, At, Closes
<1>2. PICK o \in Objs : call[t].o = o BY <1>1, CloserFacts
<1> QED BY <1>1, <1>2, ObjectFreed DEF CloseEnd

-----------------------------------------------------------------------------
(* Opening. *)

\* The references to the published object can be counted.
LEMMA ReferencesFinite == IsFiniteSet({u \in Callers : Holds(u, published)})
<1>1. {u \in Callers : Holds(u, published)} \subseteq Callers OBVIOUS
<1> QED BY <1>1, CameraConstants, FS_Subset

\* Parts of the invariant a caller has no say in outside a call.
LEMMA OutsideCalls ==
    ASSUME IInv, NEW t \in Callers, OthersStay(t), ChannelKept,
           call[t].op = NULL, call'[t].op = NULL, call[t].hdl = NULL \/ call'[t].hdl = call[t].hdl,
           call[t].pc \in Opens \cup {"idle", "reopen"}, call'[t].pc \in Opens \cup {"idle", "reopen"},
           published \in {NULL, published'}
    PROVE  ChannelInv'
<1> USE CameraConstants
<1>1. \A u \in Callers :
        /\ call'[u].op = call[u].op
        /\ call[u].hdl = NULL \/ call'[u].hdl = call[u].hdl
        /\ At(u, "join")' <=> At(u, "join")
        /\ At(u, "join") => call'[u].o = call[u].o
  BY DEF OthersStay, At, Opens
<1>2. OwnerInv'
  <2>1. ASSUME NEW p \in Objs
        PROVE  /\ obj'[p].owner = NULL <=> obj'[p].chan = "NOTUSED"
               /\ obj'[p].owner # NULL =>
                    p = published' /\ call'[obj'[p].owner].hdl = p /\ call'[obj'[p].owner].op # "close"
               /\ data'[p] # "off" => \/ obj'[p].chan = "ACTIVE"
                                      \/ \E u \in Callers : At(u, "join")' /\ call'[u].o = p
    <3>1. obj[p].owner \in Callers \cup {NULL} BY DEF IInv, TypeInv, Obj
    <3>2. obj[p].owner # NULL => p = published' /\ call'[obj[p].owner].hdl = p
      BY <1>1, <3>1 DEF IInv, ChannelInv, OwnerInv
    <3> QED BY <1>1, <3>1, <3>2 DEF IInv, ChannelInv, OwnerInv, ChannelKept
  <2> QED BY <2>1 DEF OwnerInv
<1>3. AskedInv'
  <2>1. ASSUME NEW u \in Callers, u # t
        PROVE  /\ call'[u].op = "add_channel" => obj'[call'[u].hdl].owner = NULL
               /\ call'[u].op \in ChannelCalls => obj'[call'[u].hdl].chan # "NOTUSED"
               /\ call'[u].op = "del_channel" =>
                    obj'[call'[u].hdl].owner = u /\ obj'[call'[u].hdl].chan = "STOPPED"
               /\ At(u, "join")' => obj'[call'[u].hdl].chan = "STOPPED"
    <3>1. call'[u] = call[u] BY <2>1 DEF OthersStay
    <3>2. call[u].op \in ChannelCalls \cup {"add_channel"} \/ At(u, "join") => call[u].hdl \in Objs
      BY CallerFacts DEF Consistent, At, Opens, CameraCalls, ChannelCalls
    <3> QED BY <3>1, <3>2 DEF IInv, ChannelInv, AskedInv, At, ChannelCalls, ChannelKept
  <2> QED BY <2>1 DEF AskedInv, At, CameraCalls, ChannelCalls, Opens
<1>4. OneByOne' BY OneByOneKept
<1> QED BY <1>2, <1>3, <1>4 DEF ChannelInv

\* Only the count of references changes.
LEMMA Recounted ==
    ASSUME IInv, NEW o \in Objs, NEW n \in Nat, obj' = [obj EXCEPT ![o].ref = n]
    PROVE  /\ obj' \in [Objs -> Obj] /\ obj'[o].ref = n /\ obj'[o].life = obj[o].life
           /\ \A p \in Objs : p # o => obj'[p] = obj[p]
           /\ \A p \in Objs : obj'[p].chan = obj[p].chan /\ obj'[p].owner = obj[p].owner
           /\ EventsKept /\ MessagesKept
<1>1. obj \in [Objs -> Obj] /\ obj[o] \in Obj BY DEF IInv, TypeInv
<1>2. [obj[o] EXCEPT !.ref = n] \in Obj BY <1>1 DEF Obj
<1>3. obj' \in [Objs -> Obj] BY <1>1, <1>2
<1>4. /\ obj'[o].ref = n /\ obj'[o].life = obj[o].life
      /\ \A p \in Objs : p # o => obj'[p] = obj[p]
      /\ \A p \in Objs : obj'[p].chan = obj[p].chan /\ obj'[p].owner = obj[p].owner
  BY <1>1 DEF Obj
<1>5. EventsKept /\ MessagesKept BY <1>1 DEF Obj, EventsKept, MessagesKept
<1> QED BY <1>3, <1>4, <1>5

\* The reference an open camera gets is the caller's.
LEMMA ReopenBegins ==
    ASSUME IInv, NEW t \in Callers, At(t, "idle"), call[t].hdl = NULL, published # NULL,
           obj' = [obj EXCEPT ![published].ref = @ + 1], Goto(t, "reopen"),
           UNCHANGED <<intf, published, data>>
    PROVE  IInv'
<1> USE CameraConstants
<1>1. PICK o \in Objs : published = o BY DEF IInv, TypeInv
<1>2. call[t] \in Caller /\ Consistent(call[t]) BY CallerFacts
<1>3. call[t].op = NULL /\ call[t].o = NULL /\ call[t].pc = "idle" BY <1>2 DEF Consistent, At
<1>4. obj[o].ref \in Nat /\ obj' = [obj EXCEPT ![o].ref = obj[o].ref + 1]
  BY <1>1 DEF IInv, TypeInv, Obj
<1>5. obj[o].ref + 1 \in Nat BY <1>4
<1>6. /\ obj' \in [Objs -> Obj] /\ \A p \in Objs : p # o => obj'[p] = obj[p]
      /\ obj'[o].ref = obj[o].ref + 1 /\ obj'[o].life = obj[o].life
      /\ \A p \in Objs : obj'[p].chan = obj[p].chan /\ obj'[p].owner = obj[p].owner
      /\ EventsKept /\ MessagesKept
  BY <1>4, <1>5, Recounted
<1>8. EventsKept /\ MessagesKept /\ ChannelKept BY <1>6 DEF ChannelKept
<1>9. [call[t] EXCEPT !.pc = "reopen"] \in Caller BY <1>2 DEF Caller
<1>10. call' \in [Callers -> Caller] /\ OthersStay(t) /\ call'[t] = [call[t] EXCEPT !.pc = "reopen"]
  BY <1>9 DEF IInv, TypeInv, Goto, OthersStay
<1>11. /\ call'[t].pc = "reopen" /\ call'[t].op = NULL /\ call'[t].hdl = NULL /\ call'[t].o = NULL
  BY <1>2, <1>3, <1>10 DEF Caller
<1>12. CallInv'
  <2>1. Consistent(call'[t])
    BY <1>11 DEF Consistent, Opens, Closes, CameraCalls, ChannelCalls
  <2> QED BY <1>10, <2>1 DEF IInv, CallInv, OthersStay
<1>13. TypeInv' BY <1>6, <1>10 DEF IInv, TypeInv
<1>14. \A u \in Callers : u # t => call'[u] = call[u] BY <1>10 DEF OthersStay
<1>15. HandleInv'
  <2>1. ASSUME NEW u \in Callers
        PROVE  /\ call'[u].hdl # NULL => call'[u].hdl = published' \/ Closer(u)'
               /\ At(u, "reopen")' => published' # NULL
               /\ call'[u].pc \in Opens => published' = NULL
               /\ At(u, "cam")' <=> intf' = u
               /\ (Closer(u) \/ call[u].pc \in Opens)' => call'[u].o # published'
    <3>1. CASE u = t BY <1>3, <1>11, <3>1 DEF IInv, HandleInv, Closer, At, Opens
    <3>2. CASE u # t BY <1>14, <3>2 DEF IInv, HandleInv, Closer, At
    <3> QED BY <3>1, <3>2
  <2>2. ASSUME NEW u \in Callers, NEW v \in Callers, u # v, (Closer(u) \/ call[u].pc \in Opens)'
        PROVE  call'[u].o \notin {call'[v].hdl, call'[v].o}
    <3>1. u # t BY <1>11, <2>2 DEF Closer, Opens
    <3>2. call'[u] = call[u] /\ (Closer(u) \/ call[u].pc \in Opens) BY <1>14, <2>2, <3>1 DEF Closer
    <3>3. call'[v].hdl = call[v].hdl /\ call'[v].o = call[v].o BY <1>3, <1>11, <1>14
    <3> QED BY <2>2, <3>2, <3>3 DEF IInv, HandleInv
  <2>3. \A u, v \in Opening' : u = v
    <3>1. \A u \in Opening' : u \in Opening BY <1>11, <1>14 DEF Opening
    <3> QED BY <3>1 DEF IInv, HandleInv
  <2>4. \A p \in Objs : data'[p] = "cam" <=> intf' = p BY DEF IInv, HandleInv
  <2> QED BY <2>1, <2>2, <2>3, <2>4 DEF HandleInv
<1>16. RefInv'
  <2> DEFINE H == {u \in Callers : Holds(u, published)}
  <2>1. t \notin H BY <1>1, <1>3 DEF Holds, At
  <2>2. \A u \in Callers : Holds(u, published)' <=> Holds(u, published) \/ u = t
    BY <1>1, <1>3, <1>11, <1>14 DEF Holds, At
  <2>3. H' = H \cup {t} BY <2>2
  <2>4. Cardinality(H') = Cardinality(H) + 1
    BY <2>1, <2>3, ReferencesFinite, FS_AddElement
  <2> QED BY <1>1, <1>6, <2>4 DEF IInv, RefInv
<1>17. LiveInv'
  <2>1. \A p \in Objs : obj'[p].life = obj[p].life BY <1>6
  <2>2. published' # NULL => obj'[published'].life = "live" BY <1>1, <2>1 DEF IInv, LiveInv
  <2>3. ASSUME NEW u \in Callers
        PROVE  /\ call'[u].o # NULL => obj'[call'[u].o].life = "live"
               /\ call'[u].pc \in Opens => obj'[call'[u].o].ref = 1
    <3>1. CASE u = t BY <1>11, <3>1 DEF Opens
    <3>2. CASE u # t
      <4>1. call[u].o # NULL => call[u].o \in Objs BY CallerFacts
      <4>2. call[u].pc \notin Opens BY <1>1 DEF IInv, HandleInv
      <4> QED BY <1>14, <2>1, <3>2, <4>1, <4>2 DEF IInv, LiveInv
    <3> QED BY <3>1, <3>2
  <2> QED BY <2>2, <2>3 DEF LiveInv
<1>18. ChannelInv' BY <1>3, <1>8, <1>10, <1>11, OutsideCalls
<1>19. EventInv' BY <1>8, <1>10, <1>11, <1>12, <1>13, ThreadsKept
<1>20. MessageInv' BY <1>3, <1>8, <1>10, <1>11, AnswersKept
<1> QED BY <1>12, <1>13, <1>15, <1>16, <1>17, <1>18, <1>19, <1>20 DEF IInv

\* A new object, that only the caller knows of.
LEMMA OpenBegins ==
    ASSUME ~OpensOverlap, IInv, NEW t \in Callers, NEW o \in Objs,
           At(t, "idle"), call[t].hdl = NULL, published = NULL, Unknown(o),
           OpensOverlap \/ Opening = {},
           obj' = [obj EXCEPT ![o] = [@ EXCEPT !.life = "live", !.ref = 1, !.cam = t]],
           call' = [call EXCEPT ![t].pc = "open", ![t].o = o],
           UNCHANGED <<intf, published, data>>
    PROVE  IInv'
<1> USE CameraConstants
<1>1. call[t] \in Caller /\ Consistent(call[t]) BY CallerFacts
<1>2. call[t].op = NULL /\ call[t].o = NULL /\ call[t].pc = "idle" BY <1>1 DEF Consistent, At
<1>3. /\ obj[o] = Unallocated /\ obj \in [Objs -> Obj]
      /\ \A u \in Callers : call[u].o # o /\ call[u].hdl # o
  BY DEF Unknown, IInv, TypeInv
<1>4. PICK r : r = [obj[o] EXCEPT !.life = "live", !.ref = 1, !.cam = t] OBVIOUS
<1>5. /\ r \in Obj /\ r.life = "live" /\ r.ref = 1
      /\ r.chan = obj[o].chan /\ r.owner = obj[o].owner
      /\ r.poll = obj[o].poll /\ r.evt = obj[o].evt /\ r.exit = obj[o].exit
      /\ r.queue = obj[o].queue /\ r.cb = obj[o].cb
      /\ r.kernel = obj[o].kernel /\ r.wire = obj[o].wire /\ r.rcvd = obj[o].rcvd
      /\ r.late = obj[o].late /\ r.msg = obj[o].msg
  <2>1. obj[o] \in Obj BY <1>3
  <2> QED BY <1>4, <2>1, ZenonT(60) DEF Obj
<1>6. /\ obj' \in [Objs -> Obj] /\ obj'[o] = r
      /\ \A p \in Objs : p # o => obj'[p] = obj[p]
  BY <1>3, <1>4, <1>5
<1>7. EventsKept /\ MessagesKept /\ ChannelKept
  BY <1>5, <1>6 DEF EventsKept, MessagesKept, ChannelKept
<1>8. ~obj[o].evt /\ ~obj[o].exit BY <1>3 DEF Unallocated
<1>9. [call[t] EXCEPT !.pc = "open", !.o = o] \in Caller BY <1>1, ZenonT(60) DEF Caller, Opens
<1>10. /\ call' \in [Callers -> Caller] /\ OthersStay(t)
       /\ call'[t] = [call[t] EXCEPT !.pc = "open", !.o = o]
  BY <1>9 DEF IInv, TypeInv, OthersStay
<1>11. /\ call'[t].pc = "open" /\ call'[t].op = NULL /\ call'[t].hdl = NULL /\ call'[t].o = o
  BY <1>1, <1>2, <1>10 DEF Caller
<1>12. CallInv'
  <2>1. Consistent(call'[t])
    BY <1>11 DEF Consistent, Opens, Closes, CameraCalls, ChannelCalls
  <2> QED BY <1>10, <2>1 DEF IInv, CallInv, OthersStay
<1>13. TypeInv' BY <1>6, <1>10 DEF IInv, TypeInv
<1>14. \A u \in Callers : u # t => call'[u] = call[u] /\ call[u].pc \notin Opens
  BY <1>10 DEF OthersStay, Opening, Opens
<1>15. HandleInv'
  <2>1. ASSUME NEW u \in Callers
        PROVE  /\ call'[u].hdl # NULL => call'[u].hdl = published' \/ Closer(u)'
               /\ At(u, "reopen")' => published' # NULL
               /\ call'[u].pc \in Opens => published' = NULL
               /\ At(u, "cam")' <=> intf' = u
               /\ (Closer(u) \/ call[u].pc \in Opens)' => call'[u].o # published'
    <3>1. CASE u = t BY <1>2, <1>11, <3>1 DEF IInv, HandleInv, Closer, At, Opens
    <3>2. CASE u # t BY <1>14, <3>2, ZenonT(60) DEF IInv, HandleInv, Closer, At
    <3> QED BY <3>1, <3>2
  <2>2. ASSUME NEW u \in Callers, NEW v \in Callers, u # v, (Closer(u) \/ call[u].pc \in Opens)'
        PROVE  call'[u].o \notin {call'[v].hdl, call'[v].o}
    <3>1. CASE u = t BY <1>3, <1>11, <1>14, <2>2, <3>1, ZenonT(60)
    <3>2. CASE u # t
      <4>1. call'[u] = call[u] /\ (Closer(u) \/ call[u].pc \in Opens) BY <1>14, <2>2, <3>2 DEF Closer
      <4>2. v # t => call[u].o \notin {call[v].hdl, call[v].o} /\ call'[v] = call[v]
        BY <1>14, <2>2, <4>1 DEF IInv, HandleInv
      <4>3. call[u].o # NULL BY <4>1, CallerFacts DEF Closer, Opens
      <4> QED BY <1>3, <1>11, <4>1, <4>2, <4>3
    <3> QED BY <3>1, <3>2
  <2>3. \A u, v \in Opening' : u = v
    <3>1. \A u \in Opening' : u = t BY <1>14 DEF Opening, Opens
    <3> QED BY <3>1
  <2>4. \A p \in Objs : data'[p] = "cam" <=> intf' = p BY DEF IInv, HandleInv
  <2> QED BY <2>1, <2>2, <2>3, <2>4 DEF HandleInv
<1>16. RefInv' BY DEF RefInv
<1>17. LiveInv'
  <2>1. ASSUME NEW u \in Callers
        PROVE  /\ call'[u].o # NULL => obj'[call'[u].o].life = "live"
               /\ call'[u].pc \in Opens => obj'[call'[u].o].ref = 1
    <3>1. CASE u = t BY <1>5, <1>6, <1>11, <3>1
    <3>2. CASE u # t
      <4>1. call[u].o # NULL => call[u].o \in Objs \ {o} BY <1>3, CallerFacts
      <4> QED BY <1>6, <1>14, <3>2, <4>1 DEF IInv, LiveInv
    <3> QED BY <3>1, <3>2
  <2> QED BY <2>1 DEF LiveInv
<1>18. ChannelInv' BY <1>2, <1>7, <1>10, <1>11, OutsideCalls DEF Opens
<1>19. EventInv'
  <2>1. ASSUME NEW u \in Callers
        PROVE  /\ At(u, "open")' => ~obj'[call'[u].o].evt /\ ~obj'[call'[u].o].exit
               /\ call'[u].pc \in {"release_evt", "join_evt"} => ~obj'[call'[u].o].poll
    <3>1. CASE u = t BY <1>5, <1>6, <1>8, <1>11, <3>1 DEF At
    <3>2. CASE u # t
      <4>1. At(u, "open") \/ call[u].pc \in {"release_evt", "join_evt"} => call[u].o \in Objs \ {o}
        BY <1>3, CallerFacts DEF At
      <4> QED BY <1>6, <1>14, <3>2, <4>1 DEF IInv, EventInv, At
    <3> QED BY <3>1, <3>2
  <2>2. \A p \in Objs :
          /\ obj'[p].poll => obj'[p].evt /\ ~obj'[p].exit
          /\ obj'[p].queue > 0 \/ obj'[p].cb => obj'[p].evt
    BY <1>7 DEF IInv, EventInv, EventsKept
  <2> QED BY <2>1, <2>2 DEF EventInv
<1>20. MessageInv' BY <1>2, <1>7, <1>10, <1>11, AnswersKept
<1> QED BY <1>12, <1>13, <1>15, <1>16, <1>17, <1>18, <1>19, <1>20 DEF IInv

\* Open begins with a reference to the object there is, or with a new object.
LEMMA OpenBeginStep == ASSUME ~OpensOverlap, IInv, NEW t \in Callers, OpenBegin(t) PROVE IInv'
<1>1. At(t, "idle") /\ call[t].hdl = NULL /\ UNCHANGED <<intf, published, data>>
  BY DEF OpenBegin
<1>2. CASE published # NULL /\ obj' = [obj EXCEPT ![published].ref = @ + 1] /\ Goto(t, "reopen")
  BY <1>1, <1>2, ReopenBegins
<1>3. ASSUME NEW o \in Objs, published = NULL, Unknown(o), OpensOverlap \/ Opening = {},
             obj' = [obj EXCEPT ![o] = [@ EXCEPT !.life = "live", !.ref = 1, !.cam = t]],
             call' = [call EXCEPT ![t].pc = "open", ![t].o = o]
      PROVE  IInv'
  BY <1>1, <1>3, OpenBegins
<1> QED BY <1>2, <1>3 DEF OpenBegin

\* t gets the handle of the published object in place of what entitled it to one.
LEMMA HandleGiven ==
    ASSUME IInv, NEW t \in Callers, NEW o \in Objs, call' = [call EXCEPT ![t] = [Idle EXCEPT !.hdl = o]]
    PROVE  /\ OthersStay(t) /\ call' \in [Callers -> Caller] /\ CallInv'
           /\ call'[t].pc = "idle" /\ call'[t].op = NULL /\ call'[t].hdl = o
           /\ call'[t].o = NULL /\ call'[t].msg = NULL /\ call'[t].ans = NULL
<1> USE CameraConstants DEF IInv
<1>1. [Idle EXCEPT !.hdl = o] \in Caller BY DEF Idle, Caller
<1>2. call' \in [Callers -> Caller] /\ OthersStay(t) /\ call'[t] = [Idle EXCEPT !.hdl = o]
  BY <1>1 DEF TypeInv, OthersStay
<1>3. /\ call'[t].pc = "idle" /\ call'[t].op = NULL /\ call'[t].hdl = o
      /\ call'[t].o = NULL /\ call'[t].msg = NULL /\ call'[t].ans = NULL
  BY <1>2 DEF Idle
<1>4. Consistent(call'[t])
  BY <1>3 DEF Consistent, Opens, Closes, CameraCalls, ChannelCalls
<1> QED BY <1>2, <1>3, <1>4 DEF CallInv, OthersStay

\* The end of an open, of the camera there was or of a new one.
LEMMA Opened ==
    ASSUME IInv, NEW t \in Callers, NEW o \in Objs,
           \/ At(t, "reopen") /\ published = o
           \/ At(t, "publish") /\ call[t].o = o,
           published' = o, call' = [call EXCEPT ![t] = [Idle EXCEPT !.hdl = o]],
           UNCHANGED <<intf, obj, data>>
    PROVE  IInv'
<1> USE CameraConstants
<1>1. /\ OthersStay(t) /\ call' \in [Callers -> Caller] /\ CallInv'
      /\ call'[t].pc = "idle" /\ call'[t].op = NULL /\ call'[t].hdl = o
      /\ call'[t].o = NULL /\ call'[t].msg = NULL /\ call'[t].ans = NULL
  BY HandleGiven
<1>2. call[t].op = NULL /\ call[t].hdl = NULL /\ call[t].pc \in {"reopen", "publish"}
  BY CallerFacts DEF Consistent, At, Opens
<1>3. \A u \in Callers : u # t => call'[u] = call[u] BY <1>1 DEF OthersStay
<1>4. TypeInv' BY <1>1 DEF IInv, TypeInv
<1>5. LifeKept /\ ChannelKept /\ EventsKept /\ MessagesKept
  BY DEF LifeKept, ChannelKept, EventsKept, MessagesKept
<1>6. published \in {NULL, o} BY DEF IInv, HandleInv, At, Opens
<1>7. \A u \in Callers : u # t => (call[u].pc \notin Opens /\ (Closer(u) => call[u].o # o))
  <2>1. CASE At(t, "reopen") /\ published = o
    BY <2>1 DEF IInv, HandleInv
  <2>2. CASE At(t, "publish") /\ call[t].o = o
    <3>1. t \in Opening BY <2>2 DEF At, Opening
    <3>2. \A u \in Callers : u # t => call[u].pc \notin Opens
      BY <3>1 DEF IInv, HandleInv, Opening, Opens
    <3> QED BY <2>2, <3>2 DEF IInv, HandleInv, At, Opens
  <2> QED BY <2>1, <2>2
<1>8. HandleInv'
  <2>1. ASSUME NEW u \in Callers
        PROVE  /\ call'[u].hdl # NULL => call'[u].hdl = published' \/ Closer(u)'
               /\ At(u, "reopen")' => published' # NULL
               /\ call'[u].pc \in Opens => published' = NULL
               /\ At(u, "cam")' <=> intf' = u
               /\ (Closer(u) \/ call[u].pc \in Opens)' => call'[u].o # published'
    <3>1. CASE u = t BY <1>1, <1>2, <3>1 DEF IInv, HandleInv, Closer, At, Opens
    <3>2. CASE u # t
      <4>1. call'[u] = call[u] /\ call[u].pc \notin Opens BY <1>3, <1>7, <3>2
      <4>2. call[u].hdl # NULL => call[u].hdl = published' \/ Closer(u)
        BY <1>6 DEF IInv, HandleInv
      <4> QED BY <1>7, <3>2, <4>1, <4>2 DEF IInv, HandleInv, Closer, At
    <3> QED BY <3>1, <3>2
  <2>2. ASSUME NEW u \in Callers, NEW v \in Callers, u # v, (Closer(u) \/ call[u].pc \in Opens)'
        PROVE  call'[u].o \notin {call'[v].hdl, call'[v].o}
    <3>1. u # t BY <1>1, <2>2 DEF Closer, Opens
    <3>2. call'[u] = call[u] /\ Closer(u) BY <1>3, <1>7, <2>2, <3>1 DEF Closer
    <3>3. call[u].o # NULL /\ call[u].o # o BY <1>7, <3>1, <3>2 DEF Closer
    <3>4. v # t => call[u].o \notin {call[v].hdl, call[v].o} /\ call'[v] = call[v]
      BY <1>3, <2>2, <3>2 DEF IInv, HandleInv
    <3> QED BY <1>1, <3>2, <3>3, <3>4
  <2>3. \A u, v \in Opening' : u = v
    <3>1. \A u \in Opening' : u \in Opening BY <1>1, <1>3 DEF Opening
    <3> QED BY <3>1 DEF IInv, HandleInv
  <2>4. \A p \in Objs : data'[p] = "cam" <=> intf' = p BY DEF IInv, HandleInv
  <2> QED BY <2>1, <2>2, <2>3, <2>4 DEF HandleInv
<1>9. RefInv'
  <2> DEFINE H == {u \in Callers : Holds(u, published)}
  <2>1. CASE At(t, "reopen") /\ published = o
    <3>1. \A u \in Callers : Holds(u, published)' <=> Holds(u, published)
      BY <1>1, <1>2, <1>3, <2>1 DEF Holds, At
    <3>2. H' = H BY <3>1
    <3> QED BY <2>1, <3>2 DEF IInv, RefInv
  <2>2. CASE At(t, "publish") /\ call[t].o = o
    <3>1. published = NULL BY <2>2 DEF IInv, HandleInv, At, Opens
    <3>2. \A u \in Callers : Holds(u, published)' <=> u = t
      BY <1>1, <1>3, <2>2, <3>1 DEF Holds, At, IInv, HandleInv, Opens
    <3>3. H' = {t} BY <3>2
    <3>4. Cardinality(H') = 1 BY <3>3, FS_Singleton
    <3>5. obj[o].ref = 1 BY <2>2 DEF IInv, LiveInv, At, Opens
    <3> QED BY <3>4, <3>5 DEF RefInv
  <2> QED BY <2>1, <2>2
<1>10. LiveInv'
  <2>1. obj[o].life = "live"
    <3>1. CASE published = o BY <3>1 DEF IInv, LiveInv
    <3>2. CASE call[t].o = o BY <3>2 DEF IInv, LiveInv
    <3> QED BY <3>1, <3>2
  <2>2. ASSUME NEW u \in Callers
        PROVE  /\ call'[u].o # NULL => obj'[call'[u].o].life = "live"
               /\ call'[u].pc \in Opens => obj'[call'[u].o].ref = 1
    BY <1>1, <1>3 DEF IInv, LiveInv, Opens
  <2> QED BY <2>1, <2>2 DEF LiveInv
<1>11. ChannelInv' BY <1>1, <1>2, <1>5, <1>6, OutsideCalls DEF Opens
<1>12. EventInv' BY <1>1, <1>4, <1>5, ThreadsKept
<1>13. MessageInv' BY <1>1, <1>2, <1>5, AnswersKept
<1> QED BY <1>1, <1>4, <1>8, <1>9, <1>10, <1>11, <1>12, <1>13 DEF IInv

\* The handle of a camera that was open is read outside the lock.
LEMMA ReopenedStep == ASSUME IInv, NEW t \in Callers, Reopened(t) PROVE IInv'
<1>1. PICK o \in Objs : published = o
  BY DEF Reopened, IInv, TypeInv, HandleInv
<1> QED BY <1>1, Opened DEF Reopened

\* A new object is published, or freed when the device did not open.
LEMMA OpenEndStep == ASSUME IInv, NEW t \in Callers, OpenEnd(t) PROVE IInv'
<1>1. call[t].pc \in {"publish", "unpublish"} BY DEF OpenEnd, At
<1>2. PICK o \in Objs : call[t].o = o BY <1>1, CallerFacts
<1>3. CASE At(t, "publish") /\ published' = o /\ call' = [call EXCEPT ![t] = [Idle EXCEPT !.hdl = o]]
           /\ UNCHANGED obj
  BY <1>2, <1>3, Opened DEF OpenEnd
<1>4. CASE published' = NULL /\ obj' = [obj EXCEPT ![o] = Unallocated] /\ NoHandle(t)
  <2>1. published' = published BY <1>1, <1>4 DEF IInv, HandleInv, Opens
  <2> QED BY <1>1, <1>2, <1>4, <2>1, ObjectFreed DEF OpenEnd, Opens
<1> QED BY <1>2, <1>3, <1>4 DEF OpenEnd

\* The device is open or not, and nobody else knows of the object yet.
LEMMA DeviceOpened ==
    ASSUME IInv, NEW t \in Callers, NEW o \in Objs, call[t].o = o, At(t, "open"),
           NEW p \in {"publish", "unpublish"}, Goto(t, p), UNCHANGED <<intf, published, data>>,
           NEW r \in Obj, obj' = [obj EXCEPT ![o] = r],
           /\ r.life = obj[o].life /\ r.ref = obj[o].ref
           /\ r.chan = obj[o].chan /\ r.owner = obj[o].owner
           /\ r.exit = obj[o].exit /\ r.queue = obj[o].queue /\ r.cb = obj[o].cb
           /\ r.kernel = obj[o].kernel /\ r.wire = obj[o].wire /\ r.rcvd = obj[o].rcvd
           /\ r.late = obj[o].late /\ r.msg = obj[o].msg,
           \/ r.evt
           \/ r.evt = obj[o].evt /\ r.poll = obj[o].poll
    PROVE  IInv'
<1> USE CameraConstants
<1>1. call[t] \in Caller /\ Consistent(call[t]) BY CallerFacts
<1>2. call[t].op = NULL /\ call[t].hdl = NULL /\ call[t].pc = "open"
  BY <1>1 DEF Consistent, At, Opens
<1>3. [call[t] EXCEPT !.pc = p] \in Caller BY <1>1 DEF Caller, Opens
<1>4. call' \in [Callers -> Caller] /\ OthersStay(t) /\ call'[t] = [call[t] EXCEPT !.pc = p]
  BY <1>3 DEF IInv, TypeInv, Goto, OthersStay
<1>5. call'[t].pc = p /\ call'[t].op = NULL /\ call'[t].hdl = NULL /\ call'[t].o = o
  BY <1>1, <1>2, <1>4 DEF Caller
<1>6. CallInv'
  <2>1. Consistent(call'[t])
    BY <1>5 DEF Consistent, Opens, Closes, CameraCalls, ChannelCalls
  <2> QED BY <1>4, <2>1 DEF IInv, CallInv, OthersStay
<1>7. obj \in [Objs -> Obj] BY DEF IInv, TypeInv
<1>8. /\ obj' \in [Objs -> Obj] /\ obj'[o] = r /\ \A q \in Objs : q # o => obj'[q] = obj[q]
  BY <1>7
<1>9. LifeKept /\ ChannelKept /\ MessagesKept BY <1>8 DEF LifeKept, ChannelKept, MessagesKept
<1>10. TypeInv' BY <1>4, <1>8 DEF IInv, TypeInv
<1>11. \A u \in Callers :
         /\ call'[u].hdl = call[u].hdl /\ call'[u].o = call[u].o /\ call'[u].op = call[u].op
         /\ call'[u].pc \in Opens <=> call[u].pc \in Opens
         /\ At(u, "reopen")' <=> At(u, "reopen")
         /\ At(u, "cam")' <=> At(u, "cam")
         /\ Closer(u)' <=> Closer(u)
  BY <1>2, <1>4, <1>5, ZenonT(60) DEF OthersStay, At, Opens, Closer
<1>12. HandleInv'
  <2>1. ASSUME NEW u \in Callers
        PROVE  /\ call'[u].hdl # NULL => call'[u].hdl = published' \/ Closer(u)'
               /\ At(u, "reopen")' => published' # NULL
               /\ call'[u].pc \in Opens => published' = NULL
               /\ At(u, "cam")' <=> intf' = u
               /\ (Closer(u) \/ call[u].pc \in Opens)' => call'[u].o # published'
    BY <1>11 DEF IInv, HandleInv
  <2>2. ASSUME NEW u \in Callers, NEW v \in Callers, u # v, (Closer(u) \/ call[u].pc \in Opens)'
        PROVE  call'[u].o \notin {call'[v].hdl, call'[v].o}
    BY <1>11, <2>2 DEF IInv, HandleInv
  <2>3. \A u, v \in Opening' : u = v
    <3>1. \A u \in Opening' : u \in Opening BY <1>11 DEF Opening, Opens
    <3> QED BY <3>1 DEF IInv, HandleInv
  <2>4. \A q \in Objs : data'[q] = "cam" <=> intf' = q BY DEF IInv, HandleInv
  <2> QED BY <2>1, <2>2, <2>3, <2>4 DEF HandleInv
<1>13. published = NULL BY <1>2 DEF IInv, HandleInv, Opens
<1>14. RefInv' BY <1>13 DEF RefInv
<1>15. LiveInv'
  <2>1. ASSUME NEW u \in Callers
        PROVE  /\ call'[u].o # NULL => obj'[call'[u].o].life = "live"
               /\ call'[u].pc \in Opens => obj'[call'[u].o].ref = 1
    <3>1. call[u].o # NULL => call[u].o \in Objs BY CallerFacts
    <3>2. call[u].pc \in Opens => call[u].o \in Objs BY CallerFacts DEF Opens
    <3> QED BY <1>9, <1>11, <3>1, <3>2 DEF IInv, LiveInv, LifeKept
  <2> QED BY <1>13, <2>1 DEF LiveInv
<1>16. ChannelInv' BY <1>2, <1>4, <1>5, <1>9, OutsideCalls DEF Opens
<1>17. EventInv'
  <2>1. ~obj[o].exit BY <1>2 DEF IInv, EventInv, At
  <2>2. ASSUME NEW q \in Objs
        PROVE  /\ obj'[q].poll => obj'[q].evt /\ ~obj'[q].exit
               /\ obj'[q].queue > 0 \/ obj'[q].cb => obj'[q].evt
    <3>1. CASE q = o BY <1>8, <2>1, <3>1 DEF IInv, EventInv
    <3>2. CASE q # o BY <1>8, <3>2 DEF IInv, EventInv
    <3> QED BY <3>1, <3>2
  <2>3. ASSUME NEW u \in Callers
        PROVE  /\ At(u, "open")' => ~obj'[call'[u].o].evt /\ ~obj'[call'[u].o].exit
               /\ call'[u].pc \in {"release_evt", "join_evt"} => ~obj'[call'[u].o].poll
    <3>1. CASE u = t BY <1>5, <3>1 DEF At
    <3>2. CASE u # t
      <4>1. call'[u] = call[u] BY <1>4, <3>2 DEF OthersStay
      <4>2. At(u, "open") \/ call[u].pc \in {"release_evt", "join_evt"} => call[u].o \in Objs
        BY CallerFacts DEF At
      <4>3. call[u].o # o BY <1>2, <3>2 DEF IInv, HandleInv, Opens
      <4> QED BY <1>8, <4>1, <4>2, <4>3 DEF IInv, EventInv, At
    <3> QED BY <3>1, <3>2
  <2> QED BY <2>2, <2>3 DEF EventInv
<1>18. MessageInv' BY <1>2, <1>4, <1>5, <1>9, AnswersKept
<1> QED BY <1>6, <1>10, <1>12, <1>14, <1>15, <1>16, <1>17, <1>18 DEF IInv

\* The device opens with both threads, or not.
LEMMA OpenStep == ASSUME IInv, NEW t \in Callers, Open(t) PROVE IInv'
<1>1. At(t, "open") /\ UNCHANGED <<intf, published, data>> BY DEF Open
<1>2. PICK o \in Objs : call[t].o = o BY <1>1, CallerFacts DEF At
<1>3. obj[o] \in Obj /\ obj \in [Objs -> Obj] BY DEF IInv, TypeInv
<1>4. CASE obj' = [obj EXCEPT ![o].cam = NULL] /\ Goto(t, "unpublish")
  <2>1. PICK r : r = [obj[o] EXCEPT !.cam = NULL] OBVIOUS
  <2>2. r \in Obj BY <1>3, <2>1 DEF Obj
  <2>3. obj' = [obj EXCEPT ![o] = r] BY <1>3, <1>4, <2>1
  <2>4. /\ r.life = obj[o].life /\ r.ref = obj[o].ref
        /\ r.chan = obj[o].chan /\ r.owner = obj[o].owner
        /\ r.exit = obj[o].exit /\ r.queue = obj[o].queue /\ r.cb = obj[o].cb
        /\ r.kernel = obj[o].kernel /\ r.wire = obj[o].wire /\ r.rcvd = obj[o].rcvd
        /\ r.late = obj[o].late /\ r.msg = obj[o].msg
        /\ r.evt = obj[o].evt /\ r.poll = obj[o].poll
    BY <1>3, <2>1 DEF Obj
  <2>5. Goto(t, "unpublish") BY <1>4
  <2> QED BY <1>1, <1>2, <2>2, <2>3, <2>4, <2>5, DeviceOpened
<1>5. ASSUME NEW subscribed \in BOOLEAN, Goto(t, "publish"),
             obj' = [obj EXCEPT ![o].cam = NULL, ![o].evt = TRUE, ![o].poll = subscribed]
      PROVE  IInv'
  <2>1. PICK r : r = [obj[o] EXCEPT !.cam = NULL, !.evt = TRUE, !.poll = subscribed] OBVIOUS
  <2>2. r \in Obj BY <1>3, <2>1 DEF Obj
  <2>3. obj' = [obj EXCEPT ![o] = r] BY <1>3, <1>5, <2>1
  <2>4. /\ r.life = obj[o].life /\ r.ref = obj[o].ref
        /\ r.chan = obj[o].chan /\ r.owner = obj[o].owner
        /\ r.exit = obj[o].exit /\ r.queue = obj[o].queue /\ r.cb = obj[o].cb
        /\ r.kernel = obj[o].kernel /\ r.wire = obj[o].wire /\ r.rcvd = obj[o].rcvd
        /\ r.late = obj[o].late /\ r.msg = obj[o].msg /\ r.evt
    BY <1>3, <2>1 DEF Obj
  <2>5. Goto(t, "publish") BY <1>5
  <2> QED BY <1>1, <1>2, <2>2, <2>3, <2>4, <2>5, DeviceOpened
<1> QED BY <1>2, <1>4, <1>5 DEF Open

-----------------------------------------------------------------------------
(* The way into a call. *)

\* A call is begun by a caller that may make it.
LEMMA CallOpStep ==
    ASSUME ~ChannelCallsOverlap, IInv, NEW t \in Callers,
           NEW op \in CameraCalls \cup ChannelCalls \cup {"close"}, Call(t, op)
    PROVE  IInv'
<1> USE CameraConstants
<1>1. /\ call[t] \in Caller /\ Consistent(call[t]) /\ call[t].pc = "idle"
      /\ UNCHANGED <<intf, published, obj, data>>
  BY CallerFacts DEF Call, At
<1>2. PICK o \in Objs : call[t].hdl = o BY CallerFacts DEF Call
<1>3. call[t].op = NULL /\ call[t].o = NULL BY <1>1 DEF Consistent
<1>4. /\ op = "close" => obj[o].owner # t
      /\ op = "add_channel" => obj[o].owner = NULL /\ \A u \in Callers : call[u].op # op
      /\ op \in ChannelCalls => obj[o].chan # "NOTUSED" /\ InChannelCall = {}
      /\ op = "del_channel" => obj[o].owner = t /\ obj[o].chan = "STOPPED"
  <2>1. MayCall(t, op) BY DEF Call
  <2>2. CASE op = "close" BY <1>2, <2>1, <2>2 DEF MayCall, ChannelCalls
  <2>3. CASE op = "add_channel" BY <1>2, <2>1, <2>3 DEF MayCall, ChannelCalls
  <2>4. CASE op \in ChannelCalls BY <1>2, <2>1, <2>4 DEF MayCall, ChannelCalls
  <2>5. CASE op \in {"register", "map"} BY <2>5 DEF ChannelCalls
  <2> QED BY <2>2, <2>3, <2>4, <2>5 DEF CameraCalls
<1>5. [call[t] EXCEPT !.pc = "intf", !.op = op] \in Caller BY <1>1 DEF Caller
<1>6. /\ call' \in [Callers -> Caller] /\ OthersStay(t)
      /\ call'[t] = [call[t] EXCEPT !.pc = "intf", !.op = op]
  BY <1>5 DEF Call, IInv, TypeInv, OthersStay
<1>7. call'[t].pc = "intf" /\ call'[t].op = op /\ call'[t].hdl = o /\ call'[t].o = NULL
  BY <1>1, <1>2, <1>3, <1>6 DEF Caller
<1>8. CallInv'
  <2>1. Consistent(call'[t])
    BY <1>7 DEF Consistent, Opens, Closes, CameraCalls, ChannelCalls
  <2> QED BY <1>6, <2>1 DEF IInv, CallInv, OthersStay
<1>9. LifeKept /\ ChannelKept /\ EventsKept /\ MessagesKept
  BY <1>1 DEF LifeKept, ChannelKept, EventsKept, MessagesKept
<1>10. TypeInv' BY <1>1, <1>6 DEF IInv, TypeInv
<1>11. \A u \in Callers :
         /\ call'[u].hdl = call[u].hdl /\ call'[u].o = call[u].o
         /\ call'[u].pc \in Opens <=> call[u].pc \in Opens
         /\ At(u, "reopen")' <=> At(u, "reopen")
         /\ At(u, "cam")' <=> At(u, "cam")
         /\ Closer(u)' <=> Closer(u)
  BY <1>1, <1>2, <1>3, <1>6, <1>7 DEF OthersStay, At, Opens, Closer
<1>12. HandleInv'
  <2>1. ASSUME NEW u \in Callers
        PROVE  /\ call'[u].hdl # NULL => call'[u].hdl = published' \/ Closer(u)'
               /\ At(u, "reopen")' => published' # NULL
               /\ call'[u].pc \in Opens => published' = NULL
               /\ At(u, "cam")' <=> intf' = u
               /\ (Closer(u) \/ call[u].pc \in Opens)' => call'[u].o # published'
    BY <1>1, <1>11 DEF IInv, HandleInv
  <2>2. ASSUME NEW u \in Callers, NEW v \in Callers, u # v, (Closer(u) \/ call[u].pc \in Opens)'
        PROVE  call'[u].o \notin {call'[v].hdl, call'[v].o}
    BY <1>11, <2>2 DEF IInv, HandleInv
  <2>3. \A u, v \in Opening' : u = v
    <3>1. \A u \in Opening' : u \in Opening BY <1>11 DEF Opening, Opens
    <3> QED BY <3>1 DEF IInv, HandleInv
  <2>4. \A q \in Objs : data'[q] = "cam" <=> intf' = q BY <1>1 DEF IInv, HandleInv
  <2> QED BY <2>1, <2>2, <2>3, <2>4 DEF HandleInv
<1>13. RefInv'
  <2>1. \A u \in Callers : Holds(u, published)' <=> Holds(u, published) BY <1>1, <1>11 DEF Holds
  <2>2. {u \in Callers : Holds(u, published)}' = {u \in Callers : Holds(u, published)} BY <2>1
  <2> QED BY <1>1, <2>2 DEF IInv, RefInv
<1>14. LiveInv' BY <1>1, <1>11 DEF IInv, LiveInv
<1>15. ChannelInv'
  <2>1. \A u \in Callers : u # t => call'[u] = call[u] BY <1>6 DEF OthersStay
  <2>2. OwnerInv'
    <3>1. ASSUME NEW p \in Objs
          PROVE  /\ obj'[p].owner = NULL <=> obj'[p].chan = "NOTUSED"
                 /\ obj'[p].owner # NULL =>
                      p = published' /\ call'[obj'[p].owner].hdl = p /\ call'[obj'[p].owner].op # "close"
      <4>1. obj[p].owner \in Callers \cup {NULL} BY DEF IInv, TypeInv, Obj
      <4>2. obj[p].owner = t => p = o BY <1>2 DEF IInv, ChannelInv, OwnerInv
      <4> QED BY <1>1, <1>4, <1>7, <1>11, <2>1, <4>1, <4>2 DEF IInv, ChannelInv, OwnerInv
    <3>2. ASSUME NEW p \in Objs, data'[p] # "off"
          PROVE  obj'[p].chan = "ACTIVE" \/ \E u \in Callers : At(u, "join")' /\ call'[u].o = p
      BY <1>1, <2>1, <3>2 DEF IInv, ChannelInv, OwnerInv, At
    <3> QED BY <3>1, <3>2 DEF OwnerInv
  <2>3. AskedInv'
    <3>1. ASSUME NEW u \in Callers
          PROVE  /\ call'[u].op = "add_channel" => obj'[call'[u].hdl].owner = NULL
                 /\ call'[u].op \in ChannelCalls => obj'[call'[u].hdl].chan # "NOTUSED"
                 /\ call'[u].op = "del_channel" =>
                      obj'[call'[u].hdl].owner = u /\ obj'[call'[u].hdl].chan = "STOPPED"
                 /\ At(u, "join")' => obj'[call'[u].hdl].chan = "STOPPED"
      <4>1. CASE u = t BY <1>1, <1>4, <1>7, <4>1 DEF At
      <4>2. CASE u # t BY <1>1, <2>1, <4>2 DEF IInv, ChannelInv, AskedInv, At
      <4> QED BY <4>1, <4>2
    <3> QED BY <3>1 DEF AskedInv
  <2>4. OneByOne'
    <3>1. \A u, v \in InChannelCall' : u = v
      <4>1. CASE op \in ChannelCalls
        <5>1. \A u \in InChannelCall' : u = t BY <1>4, <2>1, <4>1 DEF InChannelCall
        <5> QED BY <5>1
      <4>2. CASE op \notin ChannelCalls
        <5>1. \A u \in InChannelCall' : u \in InChannelCall BY <1>7, <2>1, <4>2 DEF InChannelCall
        <5> QED BY <5>1 DEF IInv, ChannelInv, OneByOne
      <4> QED BY <4>1, <4>2
    <3>2. \A u, v \in Callers : call'[u].op = "add_channel" /\ call'[v].op = "add_channel" => u = v
      <4>1. CASE op = "add_channel" BY <1>4, <2>1, <4>1
      <4>2. CASE op # "add_channel"
        <5>1. \A u \in Callers : call'[u].op = "add_channel" => call[u].op = "add_channel"
          BY <1>7, <2>1, <4>2
        <5> QED BY <5>1 DEF IInv, ChannelInv, OneByOne
      <4> QED BY <4>1, <4>2
    <3> QED BY <3>1, <3>2 DEF OneByOne
  <2> QED BY <2>2, <2>3, <2>4 DEF ChannelInv
<1>16. EventInv' BY <1>6, <1>7, <1>8, <1>9, <1>10, ThreadsKept
<1>17. MessageInv' BY <1>1, <1>6, <1>7, <1>9, AnswersKept
<1> QED BY <1>8, <1>10, <1>12, <1>13, <1>14, <1>15, <1>16, <1>17 DEF IInv

\* The steps of a call before it has, or when it gets, the object it asked for.
LEMMA OnTheWay ==
    ASSUME IInv, NEW t \in Callers, OthersStay(t), call' \in [Callers -> Caller],
           /\ call[t].pc \in {"intf", "cam"} /\ call[t].op # NULL
           /\ call'[t].pc \in {"ch", "cam", "close"} \cup CameraCalls
           /\ call'[t].op = call[t].op /\ call'[t].hdl = call[t].hdl,
           call'[t].o = call[t].hdl, Consistent(call'[t]),
           \/ call[t].op # "close" /\ call'[t].pc # "close"
           \/ call[t].pc = "cam",
           obj' \in [Objs -> Obj], LifeKept, EventsKept, MessagesKept, ChannelKept, published' = published,
           intf' \in Callers \cup Objs \cup {NULL},
           \A u \in Callers : At(u, "cam")' <=> intf' = u,
           \A p \in Objs : data'[p] = "cam" <=> intf' = p
    PROVE  IInv'
<1> USE CameraConstants
<1>1. CallInv' BY DEF IInv, CallInv, OthersStay
<1>2. TypeInv' BY DEF IInv, TypeInv, ChannelKept
<1>3. \A u \in Callers : u # t => call'[u] = call[u] BY DEF OthersStay
<1>4. call[t].hdl \in Objs BY CallerFacts DEF Opens
<1>5. call[t].pc = "cam" => call[t].o = call[t].hdl BY CallerFacts DEF Opens
<1>6. call[t].hdl = published \/ Closer(t) BY <1>4 DEF IInv, HandleInv
<1>7. Closer(t)' => Closer(t) BY <1>4, <1>5 DEF Closer
<1>8. HandleInv'
  <2>1. ASSUME NEW u \in Callers
        PROVE  /\ call'[u].hdl # NULL => call'[u].hdl = published' \/ Closer(u)'
               /\ At(u, "reopen")' => published' # NULL
               /\ call'[u].pc \in Opens => published' = NULL
               /\ (Closer(u) \/ call[u].pc \in Opens)' => call'[u].o # published'
    <3>1. CASE u = t
      <4>1. Closer(t) => Closer(t)' BY <1>4, <1>5 DEF Closer
      <4>2. ~At(t, "reopen")' /\ call'[t].pc \notin Opens BY DEF At, Opens, CameraCalls
      <4>3. Closer(t)' => call[t].pc = "cam" BY <1>7, CallerFacts DEF Closer
      <4> QED BY <1>5, <1>6, <1>7, <3>1, <4>1, <4>2, <4>3 DEF IInv, HandleInv
    <3>2. CASE u # t BY <1>3, <3>2 DEF IInv, HandleInv, Closer, At
    <3> QED BY <3>1, <3>2
  <2>2. ASSUME NEW u \in Callers, NEW v \in Callers, u # v, (Closer(u) \/ call[u].pc \in Opens)'
        PROVE  call'[u].o \notin {call'[v].hdl, call'[v].o}
    <3>1. Closer(u) \/ call[u].pc \in Opens
      <4>1. CASE u = t BY <1>7, <2>2, <4>1 DEF Opens, CameraCalls
      <4>2. CASE u # t BY <1>3, <2>2, <4>2 DEF Closer
      <4> QED BY <4>1, <4>2
    <3>2. call'[u].o = call[u].o
      <4>1. CASE u = t
        <5>1. call[t].pc = "cam" BY <3>1, <4>1, CallerFacts DEF Closer, Opens
        <5> QED BY <1>5, <4>1, <5>1
      <4>2. CASE u # t BY <1>3, <4>2
      <4> QED BY <4>1, <4>2
    <3>3. call[u].o \notin {call[v].hdl, call[v].o} BY <2>2, <3>1 DEF IInv, HandleInv
    <3>4. call'[v].hdl = call[v].hdl /\ call'[v].o \in {call[v].hdl, call[v].o} BY <1>3
    <3> QED BY <3>2, <3>3, <3>4
  <2>3. \A u, v \in Opening' : u = v
    <3>1. \A u \in Opening' : u \in Opening BY <1>3 DEF Opening, CameraCalls
    <3> QED BY <3>1 DEF IInv, HandleInv
  <2> QED BY <2>1, <2>2, <2>3 DEF HandleInv
<1>9. RefInv'
  <2>1. \A u \in Callers : Holds(u, published)' <=> Holds(u, published)
    BY <1>3 DEF Holds, At, CameraCalls
  <2>2. {u \in Callers : Holds(u, published)}' = {u \in Callers : Holds(u, published)} BY <2>1
  <2> QED BY <2>2 DEF IInv, RefInv, LifeKept, TypeInv
<1>10. LiveInv'
  <2>1. published' # NULL => obj'[published'].life = "live" BY DEF IInv, LiveInv, LifeKept, TypeInv
  <2>2. obj[call[t].hdl].life = "live"
    <3>1. CASE call[t].hdl = published BY <1>4, <3>1 DEF IInv, LiveInv
    <3>2. CASE Closer(t)
      <4>1. call[t].pc = "cam" BY <3>2, CallerFacts DEF Closer
      <4> QED BY <1>4, <1>5, <4>1 DEF IInv, LiveInv
    <3> QED BY <1>6, <3>1, <3>2
  <2>3. ASSUME NEW u \in Callers
        PROVE  /\ call'[u].o # NULL => obj'[call'[u].o].life = "live"
               /\ call'[u].pc \in Opens => obj'[call'[u].o].ref = 1
    <3>1. CASE u = t BY <1>4, <2>2, <3>1 DEF LifeKept, Opens, CameraCalls
    <3>2. CASE u # t
      <4>1. call[u].o # NULL => call[u].o \in Objs BY CallerFacts
      <4>2. call[u].pc \in Opens => call[u].o \in Objs BY CallerFacts DEF Opens
      <4> QED BY <1>3, <3>2, <4>1, <4>2 DEF IInv, LiveInv, LifeKept
    <3> QED BY <3>1, <3>2
  <2> QED BY <2>1, <2>3 DEF LiveInv
<1>11. ChannelInv' BY ChannelsKept DEF At, CameraCalls
<1>12. EventInv' BY <1>1, <1>2, ThreadsKept DEF CameraCalls
<1>13. MessageInv' BY AnswersKept DEF CameraCalls
<1> QED BY <1>1, <1>2, <1>8, <1>9, <1>10, <1>11, <1>12, <1>13 DEF IInv

\* The handle is looked up under g_intf_lock.
LEMMA LookupStep == ASSUME IInv, NEW t \in Callers, Lookup(t) PROVE IInv'
<1> USE CameraConstants
<1>1. /\ call[t] \in Caller /\ Consistent(call[t]) /\ call[t].pc = "intf" /\ call[t].op # "close"
      /\ intf = NULL /\ UNCHANGED <<published, obj, data>>
  BY CallerFacts DEF Lookup, At
<1>2. PICK o \in Objs : call[t].hdl = o BY <1>1, CallerFacts DEF Opens
<1>3. published = o BY <1>1, <1>2 DEF IInv, HandleInv, Closer
<1>4. intf' = t /\ call' = [call EXCEPT ![t].pc = "cam", ![t].o = o] BY <1>2, <1>3 DEF Lookup
<1>5. [call[t] EXCEPT !.pc = "cam", !.o = o] \in Caller BY <1>1 DEF Caller
<1>6. /\ call' \in [Callers -> Caller] /\ OthersStay(t)
      /\ call'[t] = [call[t] EXCEPT !.pc = "cam", !.o = o]
  BY <1>4, <1>5 DEF IInv, TypeInv, OthersStay
<1>7. /\ call'[t].pc = "cam" /\ call'[t].op = call[t].op /\ call'[t].hdl = call[t].hdl
      /\ call'[t].o = call[t].hdl
  BY <1>1, <1>2, <1>6 DEF Caller
<1>8. call[t].op # NULL BY <1>1 DEF Consistent, Opens
<1>9. Consistent(call'[t])
  BY <1>1, <1>2, <1>7, <1>8 DEF Consistent, Opens, Closes, CameraCalls, ChannelCalls
<1>10. obj' \in [Objs -> Obj] /\ LifeKept /\ EventsKept /\ MessagesKept /\ ChannelKept
  BY <1>1 DEF LifeKept, EventsKept, MessagesKept, ChannelKept, IInv, TypeInv
<1>11. \A u \in Callers : At(u, "cam")' <=> intf' = u
  BY <1>1, <1>4, <1>6, <1>7 DEF IInv, HandleInv, At, OthersStay
<1>12. \A p \in Objs : data'[p] = "cam" <=> intf' = p
  BY <1>1, <1>4 DEF IInv, HandleInv
<1>13. published' = published /\ OthersStay(t) BY <1>1, <1>6
<1>14. intf' \in Callers \cup Objs \cup {NULL} BY <1>4
<1> QED BY <1>1, <1>6, <1>7, <1>8, <1>9, <1>10, <1>11, <1>12, <1>13, <1>14, OnTheWay

\* cam_lock is there, and g_intf_lock given back.
LEMMA EnterCameraStep == ASSUME IInv, NEW t \in Callers, EnterCamera(t) PROVE IInv'
<1> USE CameraConstants
<1>1. /\ call[t] \in Caller /\ Consistent(call[t]) /\ call[t].pc = "cam"
      /\ intf' = NULL /\ UNCHANGED <<published, data>>
  BY CallerFacts DEF EnterCamera, At
<1>2. PICK o \in Objs : call[t].o = o /\ call[t].hdl = o BY <1>1, CallerFacts DEF Opens
<1>3. call[t].op # NULL BY <1>1 DEF Consistent, Opens
<1>4. PICK p : p = IF call[t].op \in ChannelCalls THEN "ch" ELSE call[t].op OBVIOUS
<1>5. p \in {"ch", "close"} \cup CameraCalls /\ (p # "ch" => call[t].op = p)
      /\ (p = "ch" => call[t].op \in ChannelCalls)
  BY <1>1, <1>3, <1>4 DEF Caller, CameraCalls, ChannelCalls
<1>6. call' = [call EXCEPT ![t].pc = p] BY <1>4 DEF EnterCamera, Goto
<1>7. [call[t] EXCEPT !.pc = p] \in Caller BY <1>1, <1>5 DEF Caller, CameraCalls, Closes
<1>8. /\ call' \in [Callers -> Caller] /\ OthersStay(t)
      /\ call'[t] = [call[t] EXCEPT !.pc = p]
  BY <1>6, <1>7 DEF IInv, TypeInv, OthersStay
<1>9. /\ call'[t].pc = p /\ call'[t].op = call[t].op /\ call'[t].hdl = call[t].hdl
      /\ call'[t].o = call[t].hdl
  BY <1>1, <1>2, <1>8 DEF Caller
<1>10. Consistent(call'[t])
  BY <1>1, <1>2, <1>3, <1>5, <1>9 DEF Consistent, Opens, Closes, CameraCalls, ChannelCalls
<1>11. obj \in [Objs -> Obj] /\ obj[o] \in Obj /\ obj' = [obj EXCEPT ![o].cam = t]
  BY <1>2 DEF EnterCamera, IInv, TypeInv
<1>12. obj' \in [Objs -> Obj] /\ LifeKept /\ EventsKept /\ MessagesKept
  BY <1>11 DEF Obj, LifeKept, EventsKept, MessagesKept
<1>13. ChannelKept BY <1>1, <1>11 DEF Obj, ChannelKept
<1>14. intf = t BY <1>1 DEF IInv, HandleInv, At
<1>15. \A u \in Callers : At(u, "cam")' <=> intf' = u
  BY <1>1, <1>5, <1>8, <1>9, <1>14, ZenonT(60) DEF IInv, HandleInv, At, OthersStay, CameraCalls
<1>16. \A q \in Objs : data'[q] = "cam" <=> intf' = q
  BY <1>1, <1>14 DEF IInv, HandleInv
<1>17. call'[t].pc \in {"ch", "cam", "close"} \cup CameraCalls BY <1>5, <1>9
<1>18. intf' \in Callers \cup Objs \cup {NULL} /\ published' = published BY <1>1
<1>19. OthersStay(t) /\ call' \in [Callers -> Caller] BY <1>8
<1> QED BY <1>1, <1>3, <1>9, <1>10, <1>12, <1>13, <1>15, <1>16, <1>17, <1>18, <1>19, OnTheWay

\* A caller whose handle is the only one closes the camera.
LEMMA LastReference ==
    ASSUME IInv, NEW t \in Callers, NEW o \in Objs, published = o, call[t].hdl = o, obj[o].ref <= 1
    PROVE  \A u \in Callers : u # t => ~Holds(u, o)
<1> DEFINE H == {u \in Callers : Holds(u, published)}
<1>1. t \in H BY DEF Holds
<1>2. IsFiniteSet(H) BY ReferencesFinite
<1>3. Cardinality(H) = obj[o].ref BY CameraConstants DEF IInv, RefInv
<1>4. IsFiniteSet(H \ {t}) /\ Cardinality(H \ {t}) = Cardinality(H) - 1
  BY <1>1, <1>2, FS_RemoveElement
<1>5. Cardinality(H) \in Nat /\ Cardinality(H \ {t}) \in Nat BY <1>2, <1>4, FS_CardinalityType
<1>6. Cardinality(H \ {t}) = 0 BY <1>3, <1>4, <1>5
<1>7. H \ {t} = {} BY <1>4, <1>6, FS_EmptySet
<1> QED BY <1>7

\* Close gives back a reference, and goes on if it was the last.
LEMMA CloseLookupStep == ASSUME IInv, NEW t \in Callers, CloseLookup(t) PROVE IInv'
<1> USE CameraConstants
<1>1. /\ call[t] \in Caller /\ Consistent(call[t]) /\ call[t].pc = "intf" /\ call[t].op = "close"
      /\ intf = NULL /\ data' = data
  BY CallerFacts DEF CloseLookup, At
<1>2. PICK o \in Objs : call[t].hdl = o BY <1>1, CallerFacts DEF Opens
<1>3. call[t].o = NULL BY <1>1 DEF Consistent
<1>4. published = o BY <1>1, <1>2, <1>3 DEF IInv, HandleInv, Closer
<1>5. obj[o].ref \in Nat /\ obj[o].ref # 0
  <2> DEFINE H == {u \in Callers : Holds(u, published)}
  <2>1. t \in H BY <1>2, <1>4 DEF Holds
  <2>2. Cardinality(H) = obj[o].ref BY <1>4 DEF IInv, RefInv
  <2>3. Cardinality(H) # 0 BY <2>1, ReferencesFinite, FS_EmptySet
  <2> QED BY <2>2, <2>3 DEF IInv, TypeInv, Obj
<1>6. obj' = [obj EXCEPT ![o].ref = obj[o].ref - 1] BY <1>2, <1>4 DEF CloseLookup
<1>7. obj[o].ref - 1 \in Nat BY <1>5
<1>8. /\ obj' \in [Objs -> Obj] /\ obj'[o].ref = obj[o].ref - 1 /\ obj'[o].life = obj[o].life
      /\ \A p \in Objs : p # o => obj'[p] = obj[p]
      /\ \A p \in Objs : obj'[p].chan = obj[p].chan /\ obj'[p].owner = obj[p].owner
      /\ EventsKept /\ MessagesKept
  BY <1>6, <1>7, Recounted
<1>9. ChannelKept BY <1>1, <1>8 DEF ChannelKept
<1>10. \A u \in Callers : call[u].pc \notin Opens BY <1>4 DEF IInv, HandleInv
<1>11. \A u \in Callers : ~At(u, "cam") BY <1>1 DEF IInv, HandleInv
<1>12. \A p \in Objs : data[p] # "cam" BY <1>1 DEF IInv, HandleInv
<1>13. CASE obj[o].ref > 1
  <2>1. NoHandle(t) /\ UNCHANGED <<intf, published>> BY <1>2, <1>4, <1>13 DEF CloseLookup
  <2>2. /\ OthersStay(t) /\ call' \in [Callers -> Caller] /\ CallInv'
        /\ call'[t].pc = "idle" /\ call'[t].op = NULL /\ call'[t].hdl = NULL
        /\ call'[t].o = NULL /\ call'[t].msg = NULL /\ call'[t].ans = NULL
    BY <2>1, IdleAgain
  <2>3. \A u \in Callers : u # t => call'[u] = call[u] BY <2>2 DEF OthersStay
  <2>4. TypeInv' BY <1>1, <1>8, <2>1, <2>2 DEF IInv, TypeInv
  <2>5. HandleInv'
    <3>1. ASSUME NEW u \in Callers
          PROVE  /\ call'[u].hdl # NULL => call'[u].hdl = published' \/ Closer(u)'
                 /\ At(u, "reopen")' => published' # NULL
                 /\ call'[u].pc \in Opens => published' = NULL
                 /\ At(u, "cam")' <=> intf' = u
                 /\ (Closer(u) \/ call[u].pc \in Opens)' => call'[u].o # published'
      <4>1. CASE u = t BY <1>1, <2>1, <2>2, <4>1 DEF Closer, At, Opens
      <4>2. CASE u # t BY <2>1, <2>3, <4>2 DEF IInv, HandleInv, Closer, At
      <4> QED BY <4>1, <4>2
    <3>2. ASSUME NEW u \in Callers, NEW v \in Callers, u # v, (Closer(u) \/ call[u].pc \in Opens)'
          PROVE  call'[u].o \notin {call'[v].hdl, call'[v].o}
      <4>1. u # t BY <2>2, <3>2 DEF Closer, Opens
      <4>2. call'[u] = call[u] /\ Closer(u) BY <1>10, <2>3, <3>2, <4>1 DEF Closer
      <4>3. v # t => call[u].o \notin {call[v].hdl, call[v].o} /\ call'[v] = call[v]
        BY <2>3, <3>2, <4>2 DEF IInv, HandleInv
      <4> QED BY <2>2, <4>2, <4>3 DEF Closer
    <3>3. \A u, v \in Opening' : u = v
      <4>1. Opening' = {} BY <1>10, <2>2, <2>3 DEF Opening, Opens
      <4> QED BY <4>1
    <3>4. \A p \in Objs : data'[p] = "cam" <=> intf' = p BY <1>1, <2>1 DEF IInv, HandleInv
    <3> QED BY <3>1, <3>2, <3>3, <3>4 DEF HandleInv
  <2>6. RefInv'
    <3> DEFINE H == {u \in Callers : Holds(u, published)}
    <3>1. t \in H BY <1>2, <1>4 DEF Holds
    <3>2. \A u \in Callers : Holds(u, published)' <=> Holds(u, published) /\ u # t
      BY <1>4, <2>1, <2>2, <2>3 DEF Holds, At
    <3>3. H' = H \ {t} BY <3>2
    <3>4. IsFiniteSet(H) BY ReferencesFinite
    <3>5. Cardinality(H \ {t}) = Cardinality(H) - 1 BY <3>1, <3>4, FS_RemoveElement
    <3>6. {u \in Callers : Holds(u, published)}' = H \ {t} BY <2>1, <3>3
    <3> QED BY <1>4, <1>8, <2>1, <3>5, <3>6 DEF IInv, RefInv
  <2>7. LiveInv'
    <3>1. \A p \in Objs : obj'[p].life = obj[p].life BY <1>8
    <3>2. ASSUME NEW u \in Callers
          PROVE  /\ call'[u].o # NULL => obj'[call'[u].o].life = "live"
                 /\ call'[u].pc \in Opens => obj'[call'[u].o].ref = 1
      <4>1. CASE u = t BY <2>2, <4>1 DEF Opens
      <4>2. CASE u # t
        <5>1. call[u].o # NULL => call[u].o \in Objs BY CallerFacts
        <5> QED BY <1>10, <2>3, <3>1, <4>2, <5>1 DEF IInv, LiveInv
      <4> QED BY <4>1, <4>2
    <3> QED BY <1>4, <2>1, <3>1, <3>2 DEF IInv, LiveInv
  <2>8. ChannelInv'
    <3>1. \A p \in Objs : obj[p].owner # t
      BY <1>1 DEF IInv, ChannelInv, OwnerInv
    <3>2. OwnerInv'
      <4>1. ASSUME NEW p \in Objs
            PROVE  /\ obj'[p].owner = NULL <=> obj'[p].chan = "NOTUSED"
                   /\ obj'[p].owner # NULL =>
                        p = published' /\ call'[obj'[p].owner].hdl = p /\ call'[obj'[p].owner].op # "close"
                   /\ data'[p] # "off" => \/ obj'[p].chan = "ACTIVE"
                                          \/ \E u \in Callers : At(u, "join")' /\ call'[u].o = p
        <5>1. obj[p].owner \in Callers \cup {NULL} BY DEF IInv, TypeInv, Obj
        <5>2. \A u \in Callers : At(u, "join") => At(u, "join")' /\ call'[u].o = call[u].o
          BY <1>1, <2>3 DEF At
        <5> QED BY <1>9, <2>1, <2>3, <3>1, <5>1, <5>2 DEF IInv, ChannelInv, OwnerInv, ChannelKept
      <4> QED BY <4>1 DEF OwnerInv
    <3>3. AskedInv'
      <4>1. ASSUME NEW u \in Callers, u # t
            PROVE  /\ call'[u].op = "add_channel" => obj'[call'[u].hdl].owner = NULL
                   /\ call'[u].op \in ChannelCalls => obj'[call'[u].hdl].chan # "NOTUSED"
                   /\ call'[u].op = "del_channel" =>
                        obj'[call'[u].hdl].owner = u /\ obj'[call'[u].hdl].chan = "STOPPED"
                   /\ At(u, "join")' => obj'[call'[u].hdl].chan = "STOPPED"
        <5>1. call[u].op \in ChannelCalls \cup {"add_channel"} \/ At(u, "join") => call[u].hdl \in Objs
          BY CallerFacts DEF Consistent, At, Opens, CameraCalls, ChannelCalls
        <5> QED BY <1>9, <2>3, <4>1, <5>1 DEF IInv, ChannelInv, AskedInv, At, ChannelKept, ChannelCalls
      <4> QED BY <2>2, <4>1 DEF AskedInv, At, CameraCalls, ChannelCalls
    <3>4. OneByOne' BY <2>2, OneByOneKept
    <3> QED BY <3>2, <3>3, <3>4 DEF ChannelInv
  <2>9. EventInv' BY <1>8, <2>2, <2>4, ThreadsKept
  <2>10. MessageInv' BY <1>1, <1>8, <2>2, AnswersKept
  <2> QED BY <2>2, <2>4, <2>5, <2>6, <2>7, <2>8, <2>9, <2>10 DEF IInv
<1>14. CASE ~(obj[o].ref > 1)
  <2>1. /\ published' = NULL /\ intf' = t
        /\ call' = [call EXCEPT ![t].pc = "cam", ![t].o = o]
    BY <1>2, <1>4, <1>14 DEF CloseLookup
  <2>2. [call[t] EXCEPT !.pc = "cam", !.o = o] \in Caller BY <1>1 DEF Caller
  <2>3. /\ call' \in [Callers -> Caller] /\ OthersStay(t)
        /\ call'[t] = [call[t] EXCEPT !.pc = "cam", !.o = o]
    BY <2>1, <2>2 DEF IInv, TypeInv, OthersStay
  <2>4. call'[t].pc = "cam" /\ call'[t].op = "close" /\ call'[t].hdl = o /\ call'[t].o = o
    BY <1>1, <1>2, <2>3 DEF Caller
  <2>5. CallInv'
    <3>1. Consistent(call'[t])
      BY <2>4 DEF Consistent, Opens, Closes, CameraCalls, ChannelCalls
    <3> QED BY <2>3, <3>1 DEF IInv, CallInv, OthersStay
  <2>6. TypeInv' BY <1>1, <1>8, <2>1, <2>3 DEF IInv, TypeInv
  <2>7. \A u \in Callers : u # t => call'[u] = call[u] /\ ~Holds(u, o)
    BY <1>2, <1>4, <1>5, <1>14, <2>3, LastReference DEF OthersStay
  <2>8. \A u \in Callers : u # t => /\ call[u].hdl # o /\ call[u].o # o
                                    /\ call[u].hdl # NULL => Closer(u)
                                    /\ ~At(u, "reopen")
    <3>1. ASSUME NEW u \in Callers, u # t
          PROVE  /\ call[u].hdl # o /\ call[u].hdl # NULL => Closer(u)
                 /\ ~At(u, "reopen")
      BY <1>4, <2>7, <3>1 DEF Holds, IInv, HandleInv
    <3>2. ASSUME NEW u \in Callers, u # t, call[u].hdl # o PROVE call[u].o # o
      <4>1. call[u].o = o => call[u].pc \notin {"idle", "reopen", "intf"}
        BY CallerFacts DEF Consistent
      <4>2. call[u].o = o => call[u].hdl = o BY <1>10, <4>1, CallerFacts
      <4> QED BY <3>2, <4>2
    <3> QED BY <1>4, <2>7, <3>1, <3>2 DEF Holds
  <2>9. HandleInv'
    <3>1. ASSUME NEW u \in Callers
          PROVE  /\ call'[u].hdl # NULL => call'[u].hdl = published' \/ Closer(u)'
                 /\ At(u, "reopen")' => published' # NULL
                 /\ call'[u].pc \in Opens => published' = NULL
                 /\ At(u, "cam")' <=> intf' = u
                 /\ (Closer(u) \/ call[u].pc \in Opens)' => call'[u].o # published'
      <4>1. CASE u = t BY <2>1, <2>4, <4>1 DEF Closer, At, Opens
      <4>2. CASE u # t
        <5>1. call[u].o # NULL \/ ~Closer(u) BY DEF Closer
        <5> QED BY <1>10, <1>11, <2>1, <2>7, <2>8, <4>2, <5>1 DEF Closer, At
      <4> QED BY <4>1, <4>2
    <3>2. ASSUME NEW u \in Callers, NEW v \in Callers, u # v, (Closer(u) \/ call[u].pc \in Opens)'
          PROVE  call'[u].o \notin {call'[v].hdl, call'[v].o}
      <4>1. CASE u = t BY <2>4, <2>7, <2>8, <3>2, <4>1
      <4>2. CASE u # t
        <5>1. call'[u] = call[u] /\ Closer(u) BY <1>10, <2>7, <3>2, <4>2 DEF Closer
        <5>2. v # t => call[u].o \notin {call[v].hdl, call[v].o} /\ call'[v] = call[v]
          BY <2>7, <3>2, <5>1 DEF IInv, HandleInv
        <5> QED BY <2>4, <2>8, <4>2, <5>1, <5>2
      <4> QED BY <4>1, <4>2
    <3>3. \A u, v \in Opening' : u = v
      <4>1. Opening' = {} BY <1>10, <2>4, <2>7 DEF Opening, Opens
      <4> QED BY <4>1
    <3>4. \A p \in Objs : data'[p] = "cam" <=> intf' = p BY <1>1, <1>12, <2>1
    <3> QED BY <3>1, <3>2, <3>3, <3>4 DEF HandleInv
  <2>10. RefInv' BY <2>1 DEF RefInv
  <2>11. LiveInv'
    <3>1. obj[o].life = "live" BY <1>4 DEF IInv, LiveInv
    <3>2. \A p \in Objs : obj'[p].life = obj[p].life BY <1>8
    <3>3. ASSUME NEW u \in Callers
          PROVE  /\ call'[u].o # NULL => obj'[call'[u].o].life = "live"
                 /\ call'[u].pc \in Opens => obj'[call'[u].o].ref = 1
      <4>1. CASE u = t BY <2>4, <3>1, <3>2, <4>1 DEF Opens
      <4>2. CASE u # t
        <5>1. call[u].o # NULL => call[u].o \in Objs BY CallerFacts
        <5> QED BY <1>10, <2>7, <3>2, <4>2, <5>1 DEF IInv, LiveInv
      <4> QED BY <4>1, <4>2
    <3> QED BY <2>1, <3>3 DEF LiveInv
  <2>12. ChannelInv'
    <3>1. \A p \in Objs : obj[p].owner = NULL
      <4>1. ASSUME NEW p \in Objs, obj[p].owner # NULL PROVE FALSE
        <5>1. obj[p].owner \in Callers BY <4>1 DEF IInv, TypeInv, Obj
        <5>2. p = o /\ call[obj[p].owner].hdl = o /\ call[obj[p].owner].op # "close"
          BY <1>4, <4>1 DEF IInv, ChannelInv, OwnerInv
        <5> QED BY <1>1, <2>8, <5>1, <5>2
      <4> QED BY <4>1
    <3>2. OwnerInv'
      <4>1. \A u \in Callers : At(u, "join") => At(u, "join")' /\ call'[u].o = call[u].o
        BY <1>1, <2>7 DEF At
      <4>2. ASSUME NEW p \in Objs
            PROVE  /\ obj'[p].owner = NULL /\ obj'[p].chan = "NOTUSED"
                   /\ data'[p] # "off" => \E u \in Callers : At(u, "join")' /\ call'[u].o = p
        BY <1>9, <3>1, <4>1 DEF IInv, ChannelInv, OwnerInv, ChannelKept
      <4> QED BY <4>2 DEF OwnerInv
    <3>3. AskedInv'
      <4>1. ASSUME NEW u \in Callers, u # t
            PROVE  /\ call'[u].op = "add_channel" => obj'[call'[u].hdl].owner = NULL
                   /\ call'[u].op \in ChannelCalls => obj'[call'[u].hdl].chan # "NOTUSED"
                   /\ call'[u].op = "del_channel" =>
                        obj'[call'[u].hdl].owner = u /\ obj'[call'[u].hdl].chan = "STOPPED"
                   /\ At(u, "join")' => obj'[call'[u].hdl].chan = "STOPPED"
        <5>1. call[u].op \in ChannelCalls \cup {"add_channel"} \/ At(u, "join") => call[u].hdl \in Objs
          BY CallerFacts DEF Consistent, At, Opens, CameraCalls, ChannelCalls
        <5> QED BY <1>9, <2>7, <4>1, <5>1 DEF IInv, ChannelInv, AskedInv, At, ChannelKept, ChannelCalls
      <4> QED BY <2>4, <4>1 DEF AskedInv, At, CameraCalls, ChannelCalls
    <3>4. OneByOne' BY <1>1, <2>3, <2>4, OneByOneKept
    <3> QED BY <3>2, <3>3, <3>4 DEF ChannelInv
  <2>13. EventInv' BY <1>8, <2>3, <2>4, <2>5, <2>6, ThreadsKept
  <2>14. MessageInv' BY <1>1, <1>8, <2>3, <2>4, AnswersKept
  <2> QED BY <2>5, <2>6, <2>9, <2>10, <2>11, <2>12, <2>13, <2>14 DEF IInv
<1> QED BY <1>13, <1>14

-----------------------------------------------------------------------------
(* The data thread, the daemon and the event threads: no caller moves. *)

\* A frame on its way up, or given back through the locks of the interface.
LEMMA DataMoves ==
    ASSUME IInv, NEW o \in Objs, data[o] # "off", NEW d \in {"ready", "intf", "cam"},
           data' = [data EXCEPT ![o] = d], UNCHANGED <<published, obj, call>>,
           \/ intf' = intf /\ d # "cam" /\ data[o] # "cam"
           \/ intf = NULL /\ intf' = o /\ d = "cam"
           \/ data[o] = "cam" /\ intf' = NULL /\ d # "cam"
    PROVE  IInv'
<1> USE CameraConstants
<1>1. data' \in [Objs -> {"off", "ready", "intf", "cam"}] /\ data'[o] = d
      /\ \A p \in Objs : p # o => data'[p] = data[p]
  BY DEF IInv, TypeInv
<1>2. data[o] = "cam" <=> intf = o BY DEF IInv, HandleInv
<1>3. TypeInv' BY <1>1 DEF IInv, TypeInv
<1>4. CallInv' /\ RefInv' /\ LiveInv' /\ EventInv'
  BY DEF IInv, CallInv, RefInv, LiveInv, EventInv, Holds, At
<1>5. HandleInv'
  <2>1. \A t \in Callers : At(t, "cam") <=> intf' = t
    <3>1. \A t \in Callers : t # o /\ t # NULL OBVIOUS
    <3> QED BY <1>2, <3>1 DEF IInv, HandleInv
  <2>2. \A p \in Objs : data'[p] = "cam" <=> intf' = p
    <3>1. ASSUME NEW p \in Objs PROVE data'[p] = "cam" <=> intf' = p
      <4>1. p # NULL /\ (data[p] = "cam" <=> intf = p) BY DEF IInv, HandleInv
      <4> QED BY <1>1, <1>2, <4>1
    <3> QED BY <3>1
  <2>3. \A t \in Callers :
          /\ call'[t].hdl # NULL => call'[t].hdl = published' \/ Closer(t)'
          /\ At(t, "reopen")' => published' # NULL
          /\ call'[t].pc \in Opens => published' = NULL
          /\ (Closer(t) \/ call[t].pc \in Opens)' =>
               /\ call'[t].o # published'
               /\ \A u \in Callers : u # t => call'[t].o \notin {call'[u].hdl, call'[u].o}
    BY DEF IInv, HandleInv, Closer, At
  <2>4. \A t, u \in Opening' : t = u BY DEF IInv, HandleInv, Opening
  <2> QED BY <2>1, <2>2, <2>3, <2>4 DEF HandleInv, At
<1>6. ChannelInv'
  <2>1. OwnerInv'
    <3>1. \A p \in Objs : data'[p] # "off" => data[p] # "off" BY <1>1
    <3> QED BY <3>1 DEF IInv, ChannelInv, OwnerInv, At
  <2>2. AskedInv' /\ OneByOne'
    BY DEF IInv, ChannelInv, AskedInv, OneByOne, At, InChannelCall
  <2> QED BY <2>1, <2>2 DEF ChannelInv
<1>7. MessageInv'
  BY DEF IInv, MessageInv, OnePlaceInv, WaitInv, AnswerInv, On, At, Own
<1> QED BY <1>3, <1>4, <1>5, <1>6, <1>7 DEF IInv

\* The steps of the data thread.
LEMMA DataStep == ASSUME IInv, NEW o \in Objs, FrameUp(o) \/ QbufStep(o) PROVE IInv'
<1>1. CASE FrameUp(o) BY <1>1, DataMoves DEF FrameUp
<1>2. CASE QbufLookup(o)
  <2>1. data[o] = "intf" /\ UNCHANGED <<published, obj, call>> BY <1>2 DEF QbufLookup
  <2>2. CASE published = o
    <3>1. intf = NULL /\ intf' = o /\ data' = [data EXCEPT ![o] = "cam"]
      BY <1>2, <2>2 DEF QbufLookup
    <3> QED BY <2>1, <3>1, DataMoves
  <2>3. CASE published # o
    <3>1. intf' = intf /\ data' = [data EXCEPT ![o] = "ready"]
      BY <1>2, <2>3 DEF QbufLookup
    <3> QED BY <2>1, <3>1, DataMoves
  <2> QED BY <2>2, <2>3
<1>3. CASE Qbuf(o) BY <1>3, DataMoves DEF Qbuf
<1> QED BY <1>1, <1>2, <1>3 DEF QbufStep

\* Everything but the events and the messages, when only these move.
LEMMA CallsStay ==
    ASSUME IInv, UNCHANGED <<intf, published, call, data>>, NEW o \in Objs,
           NEW r \in Obj, obj' = [obj EXCEPT ![o] = r],
           /\ r.life = obj[o].life /\ r.ref = obj[o].ref
           /\ r.chan = obj[o].chan /\ r.owner = obj[o].owner
           /\ r.poll = obj[o].poll /\ r.exit = obj[o].exit,
           /\ r.poll => r.evt
           /\ r.queue > 0 \/ r.cb => r.evt
           /\ r.evt => obj[o].evt
    PROVE  /\ TypeInv' /\ CallInv' /\ HandleInv' /\ RefInv' /\ LiveInv' /\ ChannelInv' /\ EventInv'
           /\ obj'[o] = r /\ \A p \in Objs : p # o => obj'[p] = obj[p]
<1> USE CameraConstants
<1>1. obj \in [Objs -> Obj] BY DEF IInv, TypeInv
<1>2. obj' \in [Objs -> Obj] /\ obj'[o] = r /\ \A p \in Objs : p # o => obj'[p] = obj[p]
  BY <1>1
<1>3. TypeInv' BY <1>2 DEF IInv, TypeInv
<1>4. \A p \in Objs : /\ obj'[p].life = obj[p].life /\ obj'[p].ref = obj[p].ref
                      /\ obj'[p].chan = obj[p].chan /\ obj'[p].owner = obj[p].owner
                      /\ obj'[p].poll = obj[p].poll /\ obj'[p].exit = obj[p].exit
  BY <1>2
<1>5. CallInv' BY DEF IInv, CallInv
<1>6. HandleInv' BY DEF IInv, HandleInv, Closer, At, Opening
<1>7. RefInv'
  <2>1. {t \in Callers : Holds(t, published)}' = {t \in Callers : Holds(t, published)}
    BY DEF Holds, At
  <2>2. published \in Objs \cup {NULL} BY DEF IInv, TypeInv
  <2> QED BY <1>4, <2>1, <2>2 DEF IInv, RefInv
<1>8. LiveInv'
  <2>1. published \in Objs \cup {NULL} BY DEF IInv, TypeInv
  <2>2. \A t \in Callers : /\ call[t].o \in Objs \cup {NULL}
                           /\ call[t].pc \in Opens => call[t].o \in Objs
    BY CallerFacts DEF Opens
  <2> QED BY <1>4, <2>1, <2>2 DEF IInv, LiveInv
<1>9. ChannelInv'
  <2>1. OwnerInv' BY <1>4 DEF IInv, ChannelInv, OwnerInv, At
  <2>2. AskedInv'
    <3>1. ASSUME NEW t \in Callers
          PROVE  call[t].op \in ChannelCalls \cup {"add_channel"} \/ At(t, "join") => call[t].hdl \in Objs
      BY CallerFacts DEF Consistent, At, Opens, CameraCalls, ChannelCalls
    <3>2. ASSUME NEW t \in Callers
          PROVE  /\ call'[t].op = "add_channel" => obj'[call'[t].hdl].owner = NULL
                 /\ call'[t].op \in ChannelCalls => obj'[call'[t].hdl].chan # "NOTUSED"
                 /\ call'[t].op = "del_channel" =>
                      obj'[call'[t].hdl].owner = t /\ obj'[call'[t].hdl].chan = "STOPPED"
                 /\ At(t, "join")' => obj'[call'[t].hdl].chan = "STOPPED"
      BY <1>4, <3>1 DEF IInv, ChannelInv, AskedInv, At, ChannelCalls
    <3> QED BY <3>2 DEF AskedInv
  <2>3. OneByOne' BY DEF IInv, ChannelInv, OneByOne, InChannelCall
  <2> QED BY <2>1, <2>2, <2>3 DEF ChannelInv
<1>10. EventInv'
  <2>1. ASSUME NEW p \in Objs
        PROVE  /\ obj'[p].poll => obj'[p].evt /\ ~obj'[p].exit
               /\ obj'[p].queue > 0 \/ obj'[p].cb => obj'[p].evt
    <3>1. CASE p = o BY <1>2, <3>1 DEF IInv, EventInv
    <3>2. CASE p # o BY <1>2, <3>2 DEF IInv, EventInv
    <3> QED BY <3>1, <3>2
  <2>2. ASSUME NEW t \in Callers
        PROVE  /\ At(t, "open")' => ~obj'[call'[t].o].evt /\ ~obj'[call'[t].o].exit
               /\ call'[t].pc \in {"release_evt", "join_evt"} => ~obj'[call'[t].o].poll
    <3>1. At(t, "open") \/ call[t].pc \in {"release_evt", "join_evt"} => call[t].o \in Objs
      BY CallerFacts DEF At
    <3>2. \A p \in Objs : obj'[p].evt => obj[p].evt BY <1>2
    <3> QED BY <1>4, <3>1, <3>2 DEF IInv, EventInv, At
  <2> QED BY <2>1, <2>2 DEF EventInv
<1> QED BY <1>2, <1>3, <1>5, <1>6, <1>7, <1>8, <1>9, <1>10

\* A message that moves is where one was.
LEMMA MessageMoves ==
    ASSUME IInv, UNCHANGED call, NEW o \in Objs,
           \A p \in Objs : p # o => obj'[p] = obj[p],
           obj'[o].late = obj[o].late, obj'[o].msg = obj[o].msg,
           \A m \in obj'[o].wire : obj'[o].rcvd # m /\ ~On(o, m)',
           \A i, j \in DOMAIN obj'[o].kernel :
             obj'[o].kernel[i] = obj'[o].kernel[j] /\ obj'[o].kernel[i] # Event => i = j,
           ~(\E i \in DOMAIN obj'[o].kernel : obj'[o].kernel[i] = obj'[o].rcvd),
           \A m \in Msgs : m \in obj'[o].wire \/ m = obj'[o].rcvd \/ On(o, m)'
             => m \in obj[o].wire \/ m = obj[o].rcvd \/ On(o, m)
    PROVE  MessageInv'
<1>1. OnePlaceInv'
  <2>1. ASSUME NEW p \in Objs
        PROVE  /\ \A m \in obj'[p].wire : obj'[p].rcvd # m /\ ~On(p, m)'
               /\ \A i, j \in DOMAIN obj'[p].kernel :
                    obj'[p].kernel[i] = obj'[p].kernel[j] /\ obj'[p].kernel[i] # Event => i = j
               /\ ~(\E i \in DOMAIN obj'[p].kernel : obj'[p].kernel[i] = obj'[p].rcvd)
    <3>1. CASE p = o BY <3>1
    <3>2. CASE p # o BY <3>2 DEF IInv, MessageInv, OnePlaceInv, On
    <3> QED BY <3>1, <3>2
  <2> QED BY <2>1 DEF OnePlaceInv, On
<1>2. WaitInv'
  <2>1. ASSUME NEW p \in Objs, ~obj'[p].late, NEW m \in Msgs,
               m \in obj'[p].wire \/ m = obj'[p].rcvd \/ On(p, m)'
        PROVE  \E t \in Callers : At(t, "wait") /\ call[t].o = p /\ call[t].msg = m
    <3>1. ~obj[p].late /\ (m \in obj[p].wire \/ m = obj[p].rcvd \/ On(p, m))
      <4>1. CASE p = o BY <2>1, <4>1
      <4>2. CASE p # o BY <2>1, <4>2 DEF On
      <4> QED BY <4>1, <4>2
    <3> QED BY <3>1 DEF IInv, MessageInv, WaitInv
  <2> QED BY <2>1 DEF WaitInv, At
<1>3. AnswerInv'
  <2>1. \A p \in Objs : obj'[p].late = obj[p].late /\ obj'[p].msg = obj[p].msg OBVIOUS
  <2>2. \A t \in Callers : call[t].pc \in {"wait", "mapped"} => call[t].o \in Objs
    BY CallerFacts DEF Opens
  <2> QED BY <2>1, <2>2 DEF IInv, MessageInv, AnswerInv, At, Own
<1> QED BY <1>1, <1>2, <1>3 DEF MessageInv

\* The steps of the event thread.
LEMMA EvtThreadStep == ASSUME IInv, NEW o \in Objs, EvtThread(o) PROVE IInv'
<1> DEFINE Same(r) ==
      /\ r.life = obj[o].life /\ r.ref = obj[o].ref /\ r.chan = obj[o].chan /\ r.owner = obj[o].owner
      /\ r.poll = obj[o].poll /\ r.exit = obj[o].exit /\ r.kernel = obj[o].kernel
      /\ r.wire = obj[o].wire /\ r.rcvd = obj[o].rcvd /\ r.late = obj[o].late /\ r.msg = obj[o].msg
<1>1. obj \in [Objs -> Obj] /\ obj[o] \in Obj BY DEF IInv, TypeInv
<1>2. UNCHANGED <<intf, published, call, data>>
  BY DEF EvtThread, DispatchBegin, DispatchEnd, EvtThreadEnds
<1>3. /\ obj[o].poll => obj[o].evt /\ ~obj[o].exit
      /\ obj[o].queue > 0 \/ obj[o].cb => obj[o].evt
  BY DEF IInv, EventInv
<1>4. PICK r \in Obj : /\ obj' = [obj EXCEPT ![o] = r] /\ Same(r)
                       /\ r.poll => r.evt
                       /\ r.queue > 0 \/ r.cb => r.evt
                       /\ r.evt => obj[o].evt
  <2>1. CASE DispatchBegin(o)
    <3>1. PICK n \in Nat : n = obj[o].queue - 1 BY <1>1, <2>1 DEF DispatchBegin, Obj
    <3>2. PICK r : r = [obj[o] EXCEPT !.queue = n, !.cb = TRUE] OBVIOUS
    <3>3. r \in Obj /\ Same(r) /\ r.evt = obj[o].evt BY <1>1, <3>1, <3>2 DEF Obj
    <3>4. obj' = [obj EXCEPT ![o] = r] BY <1>1, <2>1, <3>1, <3>2 DEF DispatchBegin
    <3> QED BY <1>3, <2>1, <3>3, <3>4 DEF DispatchBegin
  <2>2. CASE DispatchEnd(o)
    <3>1. PICK r : r = [obj[o] EXCEPT !.cb = FALSE] OBVIOUS
    <3>2. r \in Obj /\ Same(r) /\ r.evt = obj[o].evt BY <1>1, <3>1 DEF Obj
    <3>3. obj' = [obj EXCEPT ![o] = r] BY <1>1, <2>2, <3>1 DEF DispatchEnd
    <3> QED BY <1>3, <2>2, <3>2, <3>3 DEF DispatchEnd
  <2>3. CASE EvtThreadEnds(o)
    <3>1. PICK r : r = [obj[o] EXCEPT !.evt = FALSE] OBVIOUS
    <3>2. r \in Obj /\ Same(r) /\ r.evt = FALSE /\ r.queue = obj[o].queue /\ r.cb = obj[o].cb
      BY <1>1, <3>1 DEF Obj
    <3>3. obj' = [obj EXCEPT ![o] = r] BY <1>1, <2>3, <3>1 DEF EvtThreadEnds
    <3>4. ~obj[o].poll /\ ~(obj[o].queue > 0) /\ ~obj[o].cb BY <1>3, <2>3 DEF EvtThreadEnds
    <3> QED BY <3>2, <3>3, <3>4
  <2> QED BY <2>1, <2>2, <2>3 DEF EvtThread
<1> HIDE DEF Same
<1>5. /\ TypeInv' /\ CallInv' /\ HandleInv' /\ RefInv' /\ LiveInv' /\ ChannelInv' /\ EventInv'
      /\ obj'[o] = r /\ \A p \in Objs : p # o => obj'[p] = obj[p]
  BY <1>2, <1>4, CallsStay DEF Same
<1>6. MessageInv'
  <2>1. /\ obj'[o].kernel = obj[o].kernel /\ obj'[o].wire = obj[o].wire
        /\ obj'[o].rcvd = obj[o].rcvd /\ obj'[o].late = obj[o].late /\ obj'[o].msg = obj[o].msg
    BY <1>4, <1>5 DEF Same
  <2>2. \A m : On(o, m)' <=> On(o, m) BY <2>1 DEF On
  <2>3. /\ \A m \in obj'[o].wire : obj'[o].rcvd # m /\ ~On(o, m)'
        /\ \A i, j \in DOMAIN obj'[o].kernel :
             obj'[o].kernel[i] = obj'[o].kernel[j] /\ obj'[o].kernel[i] # Event => i = j
        /\ ~(\E i \in DOMAIN obj'[o].kernel : obj'[o].kernel[i] = obj'[o].rcvd)
        /\ \A m \in Msgs : m \in obj'[o].wire \/ m = obj'[o].rcvd \/ On(o, m)'
             => m \in obj[o].wire \/ m = obj[o].rcvd \/ On(o, m)
    BY <2>1, <2>2 DEF IInv, MessageInv, OnePlaceInv, On
  <2>4. \A p \in Objs : p # o => obj'[p] = obj[p] BY <1>5
  <2> QED BY <1>2, <2>1, <2>3, <2>4, MessageMoves
<1> QED BY <1>5, <1>6 DEF IInv

\* The daemon answers a message or has an event.
LEMMA DaemonStep == ASSUME IInv, NEW o \in Objs, Daemon(o) PROVE IInv'
<1> DEFINE Same(r) ==
      /\ r.life = obj[o].life /\ r.ref = obj[o].ref /\ r.chan = obj[o].chan /\ r.owner = obj[o].owner
      /\ r.poll = obj[o].poll /\ r.exit = obj[o].exit /\ r.evt = obj[o].evt
      /\ r.queue = obj[o].queue /\ r.cb = obj[o].cb
      /\ r.rcvd = obj[o].rcvd /\ r.late = obj[o].late /\ r.msg = obj[o].msg
<1>1. obj \in [Objs -> Obj] /\ obj[o] \in Obj BY DEF IInv, TypeInv
<1>2. UNCHANGED <<intf, published, call, data>> BY DEF Daemon
<1>3. /\ obj[o].poll => obj[o].evt
      /\ obj[o].queue > 0 \/ obj[o].cb => obj[o].evt
  BY DEF IInv, EventInv
<1>4. PICK k \in Seq(Msgs \cup {Event}) : k = obj[o].kernel BY <1>1 DEF Obj
<1>5. obj[o].wire \subseteq Msgs /\ obj[o].rcvd \in Msgs \cup {NULL} /\ NULL # Event
  BY <1>1, CameraConstants DEF Obj, Event
<1>6. PICK e \in Msgs \cup {Event}, w \in SUBSET Msgs :
         /\ obj' = [obj EXCEPT ![o].wire = w, ![o].kernel = Append(k, e)]
         /\ \/ e \in obj[o].wire /\ w = obj[o].wire \ {e}
            \/ e = Event /\ w = obj[o].wire
  <2>1. CASE \E m \in obj[o].wire :
               obj' = [obj EXCEPT ![o].wire = @ \ {m}, ![o].kernel = Append(@, m)]
    <3>1. PICK m \in obj[o].wire :
            obj' = [obj EXCEPT ![o].wire = @ \ {m}, ![o].kernel = Append(@, m)]
      BY <2>1
    <3> QED BY <1>1, <1>4, <1>5, <3>1
  <2>2. CASE obj' = [obj EXCEPT ![o].kernel = Append(@, Event)]
    <3>1. obj' = [obj EXCEPT ![o].wire = obj[o].wire, ![o].kernel = Append(k, Event)]
      BY <1>1, <1>4, <2>2 DEF Obj
    <3> QED BY <1>5, <3>1
  <2> QED BY <2>1, <2>2 DEF Daemon
<1>7. PICK s \in Seq(Msgs \cup {Event}) : s = Append(k, e)
  <2>1. Append(k, e) \in Seq(Msgs \cup {Event}) OBVIOUS
  <2> QED BY <2>1
<1>8. PICK r : r = [obj[o] EXCEPT !.wire = w, !.kernel = s] OBVIOUS
<1>9. r \in Obj /\ Same(r) /\ r.kernel = s /\ r.wire = w BY <1>1, <1>8 DEF Obj
<1>10. obj' = [obj EXCEPT ![o] = r] BY <1>1, <1>6, <1>7, <1>8
<1> HIDE DEF Same
<1>11. /\ TypeInv' /\ CallInv' /\ HandleInv' /\ RefInv' /\ LiveInv' /\ ChannelInv' /\ EventInv'
       /\ obj'[o] = r /\ \A p \in Objs : p # o => obj'[p] = obj[p]
  BY <1>2, <1>3, <1>9, <1>10, CallsStay DEF Same
<1>12. MessageInv'
  <2>1. /\ obj'[o].kernel = s /\ obj'[o].wire = w
        /\ obj'[o].rcvd = obj[o].rcvd /\ obj'[o].late = obj[o].late /\ obj'[o].msg = obj[o].msg
    BY <1>9, <1>11 DEF Same
  <2>2. /\ DOMAIN s = 1..(Len(k) + 1) /\ DOMAIN k = 1..Len(k) /\ Len(k) \in Nat
        /\ \A i \in 1..Len(k) : s[i] = k[i]
        /\ s[Len(k) + 1] = e
    BY <1>7
  <2>3. \A m : On(o, m)' <=> On(o, m) \/ m = e BY <1>4, <2>1, <2>2 DEF On
  <2>4. /\ \A m \in obj[o].wire : obj[o].rcvd # m /\ ~On(o, m)
        /\ \A i, j \in 1..Len(k) : k[i] = k[j] /\ k[i] # Event => i = j
        /\ ~On(o, obj[o].rcvd)
    BY <1>4, <2>2 DEF IInv, MessageInv, OnePlaceInv
  <2>5. e # obj[o].rcvd /\ (e = Event \/ ~On(o, e)) /\ w \subseteq obj[o].wire /\ e \notin w
    BY <1>5, <1>6, <2>4 DEF Event, Msgs
  <2>6. \A m \in obj'[o].wire : obj'[o].rcvd # m /\ ~On(o, m)'
    BY <2>1, <2>3, <2>4, <2>5
  <2>7. \A i, j \in DOMAIN s : s[i] = s[j] /\ s[i] # Event => i = j
    <3>1. ASSUME NEW i \in 1..Len(k), s[i] = e PROVE e = Event
      <4>1. On(o, e) BY <1>4, <2>2, <3>1 DEF On
      <4> QED BY <2>5, <4>1
    <3>2. ASSUME NEW i \in DOMAIN s, NEW j \in DOMAIN s, s[i] = s[j], s[i] # Event PROVE i = j
      <4>1. CASE i \in 1..Len(k) /\ j \in 1..Len(k) BY <2>2, <2>4, <3>2, <4>1
      <4>2. CASE i = Len(k) + 1 /\ j \in 1..Len(k) BY <2>2, <3>1, <3>2, <4>2
      <4>3. CASE i \in 1..Len(k) /\ j = Len(k) + 1 BY <2>2, <3>1, <3>2, <4>3
      <4>4. CASE i = Len(k) + 1 /\ j = Len(k) + 1 BY <4>4
      <4> QED BY <2>2, <4>1, <4>2, <4>3, <4>4
    <3> QED BY <3>2
  <2>8. ~(\E i \in DOMAIN obj'[o].kernel : obj'[o].kernel[i] = obj'[o].rcvd)
    <3>1. \A i \in 1..Len(k) : s[i] # obj[o].rcvd BY <1>4, <2>2, <2>4 DEF On
    <3>2. \A i \in DOMAIN s : s[i] # obj[o].rcvd BY <2>2, <2>5, <3>1
    <3> QED BY <2>1, <3>2
  <2>9. \A m \in Msgs : m \in obj'[o].wire \/ m = obj'[o].rcvd \/ On(o, m)'
          => m \in obj[o].wire \/ m = obj[o].rcvd \/ On(o, m)
    BY <1>6, <2>1, <2>3, <2>5 DEF Event, Msgs
  <2>10. \A p \in Objs : p # o => obj'[p] = obj[p] BY <1>11
  <2>11. \A i, j \in DOMAIN obj'[o].kernel :
           obj'[o].kernel[i] = obj'[o].kernel[j] /\ obj'[o].kernel[i] # Event => i = j
    BY <2>1, <2>7
  <2> QED BY <1>2, <2>1, <2>6, <2>8, <2>9, <2>10, <2>11, MessageMoves
<1> QED BY <1>11, <1>12 DEF IInv

\* The event poll thread takes an event from the kernel.
LEMMA EventNotifyStep == ASSUME IInv, NEW o \in Objs, EventNotify(o) PROVE IInv'
<1> DEFINE Same(r) ==
      /\ r.life = obj[o].life /\ r.ref = obj[o].ref /\ r.chan = obj[o].chan /\ r.owner = obj[o].owner
      /\ r.poll = obj[o].poll /\ r.exit = obj[o].exit /\ r.evt = obj[o].evt
      /\ r.wire = obj[o].wire /\ r.late = obj[o].late /\ r.msg = obj[o].msg
<1>1. obj \in [Objs -> Obj] /\ obj[o] \in Obj BY DEF IInv, TypeInv
<1>2. UNCHANGED <<intf, published, call, data>> BY DEF EventNotify
<1>3. obj[o].evt BY DEF EventNotify, IInv, EventInv
<1>4. PICK k \in Seq(Msgs \cup {Event}) : k = obj[o].kernel BY <1>1 DEF Obj
<1>5. PICK e \in Msgs \cup {Event} : e = Head(k) BY <1>4 DEF EventNotify
<1>6. PICK s \in Seq(Msgs \cup {Event}) : s = Tail(k)
  <2>1. k # <<>> BY <1>4 DEF EventNotify
  <2>2. Tail(k) \in Seq(Msgs \cup {Event}) BY <2>1
  <2> QED BY <2>2
<1>7. PICK n \in Nat : n = IF e = Event THEN obj[o].queue + 1 ELSE obj[o].queue BY <1>1 DEF Obj
<1>8. PICK v \in Msgs \cup {NULL} : v = IF e = Event THEN obj[o].rcvd ELSE e BY <1>1 DEF Obj
<1>9. PICK r : r = [obj[o] EXCEPT !.kernel = s, !.rcvd = v, !.queue = n] OBVIOUS
<1>10. r \in Obj /\ Same(r) /\ r.kernel = s /\ r.rcvd = v BY <1>1, <1>9 DEF Obj
<1>11. obj' = [obj EXCEPT ![o] = r]
  BY <1>1, <1>4, <1>5, <1>6, <1>7, <1>8, <1>9 DEF EventNotify
<1> HIDE DEF Same
<1>12. /\ TypeInv' /\ CallInv' /\ HandleInv' /\ RefInv' /\ LiveInv' /\ ChannelInv' /\ EventInv'
       /\ obj'[o] = r /\ \A p \in Objs : p # o => obj'[p] = obj[p]
  BY <1>2, <1>3, <1>10, <1>11, CallsStay DEF Same
<1>13. MessageInv'
  <2>1. /\ obj'[o].kernel = s /\ obj'[o].rcvd = v
        /\ obj'[o].wire = obj[o].wire /\ obj'[o].late = obj[o].late /\ obj'[o].msg = obj[o].msg
    BY <1>10, <1>12 DEF Same
  <2>2. k # <<>> BY <1>4 DEF EventNotify
  <2>3. /\ DOMAIN k = 1..Len(k) /\ DOMAIN s = 1..(Len(k) - 1) /\ Len(k) \in Nat \ {0}
        /\ \A i \in 1..(Len(k) - 1) : s[i] = k[i + 1]
        /\ k[1] = e
    BY <1>5, <1>6, <2>2
  <2>4. /\ \A m \in obj[o].wire : obj[o].rcvd # m /\ ~On(o, m)
        /\ \A i, j \in 1..Len(k) : k[i] = k[j] /\ k[i] # Event => i = j
        /\ ~On(o, obj[o].rcvd)
    BY <1>4, <2>3 DEF IInv, MessageInv, OnePlaceInv
  <2>5. On(o, e) BY <1>4, <2>3 DEF On
  <2>6. \A m : On(o, m)' => On(o, m)
    <3>1. ASSUME NEW m, NEW i \in 1..(Len(k) - 1), s[i] = m PROVE On(o, m)
      BY <1>4, <2>3, <3>1 DEF On
    <3> QED BY <2>1, <2>3, <3>1 DEF On
  <2>7. e # Event => ~On(o, e)'
    <3>1. ASSUME e # Event, NEW i \in 1..(Len(k) - 1), s[i] = e PROVE FALSE
      <4>1. k[i + 1] = k[1] /\ i + 1 \in 1..Len(k) /\ 1 \in 1..Len(k) BY <2>3, <3>1
      <4> QED BY <2>3, <2>4, <3>1, <4>1
    <3> QED BY <2>1, <2>3, <3>1 DEF On
  <2>8. \A m \in obj'[o].wire : obj'[o].rcvd # m /\ ~On(o, m)'
    BY <1>8, <2>1, <2>4, <2>5, <2>6
  <2>9. \A i, j \in DOMAIN obj'[o].kernel :
          obj'[o].kernel[i] = obj'[o].kernel[j] /\ obj'[o].kernel[i] # Event => i = j
    <3>1. ASSUME NEW i \in 1..(Len(k) - 1), NEW j \in 1..(Len(k) - 1), s[i] = s[j], s[i] # Event
          PROVE  i = j
      <4>1. k[i + 1] = k[j + 1] /\ k[i + 1] # Event /\ i + 1 \in 1..Len(k) /\ j + 1 \in 1..Len(k)
        BY <2>3, <3>1
      <4>2. i + 1 = j + 1 BY <2>4, <4>1
      <4> QED BY <4>2
    <3> QED BY <2>1, <2>3, <3>1
  <2>10. ~(\E i \in DOMAIN obj'[o].kernel : obj'[o].kernel[i] = obj'[o].rcvd)
    BY <1>8, <2>1, <2>4, <2>6, <2>7 DEF On
  <2>11. \A m \in Msgs : m \in obj'[o].wire \/ m = obj'[o].rcvd \/ On(o, m)'
           => m \in obj[o].wire \/ m = obj[o].rcvd \/ On(o, m)
    BY <1>8, <2>1, <2>5, <2>6
  <2>12. \A p \in Objs : p # o => obj'[p] = obj[p] BY <1>12
  <2> QED BY <1>2, <2>1, <2>8, <2>9, <2>10, <2>11, <2>12, MessageMoves
<1> QED BY <1>12, <1>13 DEF IInv

-----------------------------------------------------------------------------
(* The invariant. *)

\* Nothing is open: the invariant holds at the beginning.
LEMMA InitInv == Init => IInv
<1> SUFFICES ASSUME Init PROVE IInv OBVIOUS
<1> USE CameraConstants
<1>1. \A t \in Callers : call[t] = Idle BY DEF Init
<1>2. \A o \in Objs : obj[o] = Unallocated /\ data[o] = "off" BY DEF Init
<1>3. intf = NULL /\ published = NULL BY DEF Init
<1>4. Unallocated \in Obj
  <2>1. <<>> \in Seq(Msgs \cup {Event}) OBVIOUS
  <2> QED BY <2>1 DEF Unallocated, Obj
<1>5. Idle \in Caller BY DEF Idle, Caller
<1>6. TypeInv BY <1>4, <1>5 DEF Init, TypeInv
<1>7. CallInv
  <2>1. Consistent(Idle)
    BY DEF Consistent, Idle, Opens, Closes, CameraCalls, ChannelCalls
  <2> QED BY <1>1, <2>1 DEF CallInv
<1>8. \A t \in Callers : /\ call[t].pc = "idle" /\ call[t].op = NULL
                         /\ call[t].hdl = NULL /\ call[t].o = NULL
  BY <1>1 DEF Idle
<1>9. HandleInv
  <2>1. Opening = {} BY <1>8 DEF Opening
  <2>2. \A t \in Callers : ~Closer(t) /\ call[t].pc \notin Opens BY <1>8 DEF Closer, Opens
  <2> QED BY <1>2, <1>3, <1>8, <2>1, <2>2 DEF HandleInv, At
<1>10. RefInv BY <1>3 DEF RefInv
<1>11. LiveInv BY <1>3, <1>8 DEF LiveInv, Opens
<1>12. ChannelInv
  <2>1. OwnerInv BY <1>2 DEF OwnerInv, Unallocated
  <2>2. AskedInv BY <1>8 DEF AskedInv, At, CameraCalls, ChannelCalls
  <2>3. OneByOne BY <1>8 DEF OneByOne, InChannelCall, CameraCalls, ChannelCalls
  <2> QED BY <2>1, <2>2, <2>3 DEF ChannelInv
<1>13. EventInv BY <1>2, <1>8 DEF EventInv, Unallocated, At
<1>14. MessageInv
  <2>1. \A o \in Objs : /\ obj[o].kernel = <<>> /\ obj[o].wire = {} /\ obj[o].rcvd = NULL
    BY <1>2 DEF Unallocated
  <2>2. \A o \in Objs : \A m : ~On(o, m) BY <2>1 DEF On
  <2>3. OnePlaceInv BY <2>1, <2>2 DEF OnePlaceInv
  <2>4. WaitInv BY <2>1, <2>2 DEF WaitInv, Msgs
  <2>5. AnswerInv BY <1>8 DEF AnswerInv, At
  <2> QED BY <2>3, <2>4, <2>5 DEF MessageInv
<1> QED BY <1>6, <1>7, <1>9, <1>10, <1>11, <1>12, <1>13, <1>14 DEF IInv

\* The invariant speaks of the variables only.
LEMMA StutterInv == IInv /\ UNCHANGED vars => IInv'
<1> SUFFICES ASSUME IInv, UNCHANGED vars PROVE IInv' OBVIOUS
<1> USE DEF vars, IInv
<1>1. TypeInv' /\ CallInv' BY DEF TypeInv, CallInv
<1>2. HandleInv' /\ RefInv' /\ LiveInv'
  BY DEF HandleInv, RefInv, LiveInv, Closer, At, Opening, Holds
<1>3. ChannelInv'
  BY DEF ChannelInv, OwnerInv, AskedInv, OneByOne, At, InChannelCall
<1>4. EventInv' /\ MessageInv'
  BY DEF EventInv, MessageInv, OnePlaceInv, WaitInv, AnswerInv, On, At, Own
<1> QED BY <1>1, <1>2, <1>3, <1>4

\* Every step keeps the invariant.
LEMMA StepInv ==
    ASSUME ~OpensOverlap, ~ChannelCallsOverlap, IInv, [Next]_vars
    PROVE  IInv'
<1>1. ASSUME NEW t \in Callers, CallStep(t) PROVE IInv'
  <2>1. CASE Reopened(t) BY <2>1, ReopenedStep
  <2>2. CASE Open(t) BY <2>2, OpenStep
  <2>3. CASE OpenEnd(t) BY <2>3, OpenEndStep
  <2>4. CASE Lookup(t) BY <2>4, LookupStep
  <2>5. CASE CloseLookup(t) BY <2>5, CloseLookupStep
  <2>6. CASE EnterCamera(t) BY <2>6, EnterCameraStep
  <2>7. CASE EnterChannel(t) BY <2>7, EnterChannelStep
  <2>8. CASE AddChannel(t) BY <2>8, AddChannelStep
  <2>9. CASE RegisterEventNotify(t) BY <2>9, RegisterStep
  <2>10. CASE StartChannel(t) BY <2>10, StartChannelStep
  <2>11. CASE StopChannel(t) BY <2>11, StopChannelStep
  <2>12. CASE JoinData(t) BY <2>12, JoinDataStep
  <2>13. CASE DelChannel(t) BY <2>13, DelChannelStep
  <2>14. CASE SendMsg(t) BY <2>14, SendMsgStep
  <2>15. CASE WaitEvent(t) BY <2>15, WaitEventStep
  <2>16. CASE WaitTimeout(t) BY <2>16, WaitTimeoutStep
  <2>17. CASE EndMsg(t) BY <2>17, EndMsgStep
  <2>18. CASE Unsubscribe(t) BY <2>18, UnsubscribeStep
  <2>19. CASE ReleasePoll(t) BY <2>19, ReleasePollStep
  <2>20. CASE ReleaseEvt(t) BY <2>20, ReleaseEvtStep
  <2>21. CASE CloseEnd(t) BY <2>21, CloseEndStep
  <2> QED BY <1>1, <2>1, <2>2, <2>3, <2>4, <2>5, <2>6, <2>7, <2>8, <2>9, <2>10, <2>11,
             <2>12, <2>13, <2>14, <2>15, <2>16, <2>17, <2>18, <2>19, <2>20, <2>21 DEF CallStep
<1>2. ASSUME NEW t \in Callers, OpenBegin(t) PROVE IInv' BY <1>2, OpenBeginStep
<1>3. ASSUME NEW t \in Callers, NEW op \in CameraCalls \cup ChannelCalls \cup {"close"}, Call(t, op)
      PROVE  IInv'
  BY <1>3, CallOpStep
<1>4. ASSUME NEW o \in Objs, FrameUp(o) \/ QbufStep(o) PROVE IInv' BY <1>4, DataStep
<1>5. ASSUME NEW o \in Objs, Daemon(o) PROVE IInv' BY <1>5, DaemonStep
<1>6. ASSUME NEW o \in Objs, EventNotify(o) PROVE IInv' BY <1>6, EventNotifyStep
<1>7. ASSUME NEW o \in Objs, EvtThread(o) PROVE IInv' BY <1>7, EvtThreadStep
<1>8. CASE UNCHANGED vars BY <1>8, StutterInv
<1> QED BY <1>1, <1>2, <1>3, <1>4, <1>5, <1>6, <1>7, <1>8 DEF Next

\* The inductive invariant of the camera object (mm_camera.c, mm_camera_interface.c).
THEOREM Invariance ==
    ASSUME ~OpensOverlap, ~ChannelCallsOverlap PROVE Spec => []IInv
<1>1. Init => IInv BY InitInv
<1>2. IInv /\ [Next]_vars => IInv' BY StepInv
<1> QED BY <1>1, <1>2, PTL DEF Spec

\* What the invariant says of lives, handles and threads.
LEMMA InvLive == IInv => ObjectsLive
<1> SUFFICES ASSUME IInv PROVE ObjectsLive OBVIOUS
<1> USE CameraConstants
<1>1. TypeOK
  <2>1. \A o \in Objs : obj[o] \in Obj BY DEF IInv, TypeInv
  <2>2. \A t \in Callers : call[t] \in Caller BY DEF IInv, TypeInv
  <2>3. ASSUME NEW o \in Objs PROVE DOMAIN obj[o] = DOMAIN Unallocated
    BY <2>1 DEF Obj, Unallocated
  <2>4. ASSUME NEW t \in Callers PROVE DOMAIN call[t] = DOMAIN Idle
    BY <2>2 DEF Caller, Idle
  <2> QED BY <2>1, <2>2, <2>3, <2>4 DEF TypeOK, Obj, Caller, IInv, TypeInv
<1>2. NoUseAfterFree
  <2>1. \A t \in Callers : call[t].o # NULL => obj[call[t].o].life = "live"
    BY DEF IInv, LiveInv
  <2>2. ASSUME NEW o \in Objs, data[o] # "off" PROVE obj[o].life = "live"
    <3>1. CASE obj[o].chan = "ACTIVE"
      <4>1. o = published BY <3>1 DEF IInv, ChannelInv, OwnerInv
      <4> QED BY <4>1 DEF IInv, LiveInv
    <3>2. CASE \E t \in Callers : At(t, "join") /\ call[t].o = o BY <2>1, <3>2
    <3> QED BY <2>2, <3>1, <3>2 DEF IInv, ChannelInv, OwnerInv
  <2> QED BY <2>1, <2>2 DEF NoUseAfterFree
<1>3. HandlesResolve BY DEF IInv, HandleInv, RefInv, Closer, HandlesResolve
<1>4. NothingForDeadThread BY DEF IInv, TypeInv, Obj, EventInv, NothingForDeadThread
<1> QED BY <1>1, <1>2, <1>3, <1>4 DEF ObjectsLive

\* No thread is in a camera object that has been freed, a handle finds its object, the
\* reference count is the number of handles, and the event thread is fed only while it
\* runs (mm_camera_intf_close and camera_open drop one lock before they have the next).
THEOREM Live ==
    ASSUME ~OpensOverlap, ~ChannelCallsOverlap PROVE Spec => []ObjectsLive
  BY Invariance, InvLive, PTL

\* A map call reports the answer to its own message, unless an earlier wait on the object
\* timed out (mm_camera_util_sendmsg: evt_rcvd is cleared under evt_lock).
THEOREM OwnAnswers ==
    ASSUME ~OpensOverlap, ~ChannelCallsOverlap PROVE Spec => []StatusIsOurs
<1>1. IInv => StatusIsOurs BY DEF IInv, MessageInv, AnswerInv, StatusIsOurs
<1> QED BY <1>1, Invariance, PTL

=============================================================================
