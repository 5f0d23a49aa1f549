-------------------------- MODULE RequestPipeline --------------------------
(***************************************************************************)
(* The request pipeline of the HAL3 camera (HAL3/QCamera3HWI.cpp): what    *)
(* processCaptureRequest() registers, how the metadata and the buffers of  *)
(* the back end are turned into results, and how flush() and a dead daemon *)
(* settle what is left.                                                    *)
(*                                                                         *)
(* Everything below happens under mMutex, so a handler is one action,      *)
(* except where the code lets go of the lock: while it waits for an old    *)
(* request to end, while channels stop or the sensor restarts, between the *)
(* two calls made for a reprocessed frame, and between a look at mState    *)
(* and what follows.                                                       *)
(* Threads: the caller of processCaptureRequest ("request"), the caller of *)
(* flush ("flush"), the metadata and the buffer callbacks, the event       *)
(* thread of the camera.                                                   *)
(*                                                                         *)
(* A metadata buffer stands for the frame number it carries. A request is  *)
(* live (the sensor serves it) or reprocesses an input buffer: "yuv" comes *)
(* back through QCamera3ProcessingChannel::reprocessCbRoutine, which gives *)
(* the input back and the output right after; "jpeg" gives the input back  *)
(* when the reprocess is done and the output when the encoder is; "direct" *)
(* needs no reprocess and gives both back with the output.                 *)
(***************************************************************************)
EXTENDS Integers, Sequences, FiniteSets

CONSTANTS
    Streams,        \* the output streams
    NumRequests,    \* bound: requests the framework makes
    MinInFlight,    \* mMinInFlightRequests
    MaxInFlight,    \* mMaxInFlightRequests
    NumFlushes,     \* bound: calls of flush()
    Scenarios       \* [shapes, faults]: the requests made, and what may go wrong

FaultKinds == {"start", "fence", "channel", "restart", "bundle", "daemon", "drop"}

InputKinds == {"yuv", "jpeg", "direct"}

ASSUME PipelineConstants ==
    /\ IsFiniteSet(Streams) /\ Streams # {}
    /\ NumRequests \in Nat /\ NumFlushes \in Nat
    /\ MinInFlight \in Nat \ {0} /\ MaxInFlight \in Nat
    /\ \A c \in Scenarios :
         /\ c.shapes \subseteq [kind : {"live"} \cup InputKinds,
                               streams : (SUBSET Streams) \ {{}}]
         /\ c.faults \subseteq FaultKinds

\* The largest value of the 32-bit mPendingLiveRequest; only its wrapping
\* around is told apart, so a smaller one does.
UintMax == 2^16 - 1

NoFrame == 0
Frames == 1..NumRequests
Flushers == {"request", "flush"}
Pairs == Frames \X Streams

VARIABLES
    scenario,               \* one of Scenarios, for the whole run
    mState,
    mPendingRequestsList,   \* sequence of [frame, kind, streams, cached]
    mPendingBuffersMap,     \* sequence of [frame, bufs]
    mPendingFrameDropList,  \* set of <<frame, stream>>
    mPendingLiveRequest,
    mFlush,
    mWokenUpByDaemon,
    reqPc,                  \* the thread in processCaptureRequest
    req,                    \* its request
    signalled,              \* mRequestCond was signalled and not consumed
    flushPc,                \* where each flusher is in flush()
    owed,                   \* frames the back end owes metadata for
    held,                   \* buffers queued to channels and not called back
    reprocCb,               \* the "yuv" frame between its two callbacks
    next,                   \* the frame number of the next request
    registered,             \* requests that entered the lists, with their streams
    final,                  \* frames that got their last result or error
    returned,               \* buffers the framework got back
    returnedOk,             \* those among them with status OK
    announced,              \* buffers their own metadata announced as dropped
    twice,                  \* frames and buffers answered a second time
    mNeedSensorRestart,
    oldest,                 \* what the walk of a sensor restart saw as the oldest request
    astray,                 \* an error walk took requests that were not its own
    crossed,                \* two threads were in an error walk at once
    flushes,                \* calls of flush() so far
    failedFlush             \* a flush has given up half way

lists == <<mPendingRequestsList, mPendingBuffersMap, mPendingFrameDropList>>
fwk == <<final, returned, returnedOk, announced, twice>>
backend == <<owed, held, reprocCb>>
walks == <<mNeedSensorRestart, oldest, astray, crossed>>
calls == <<scenario, next, registered, flushes, failedFlush>>
vars == <<mState, lists, mPendingLiveRequest, mFlush, mWokenUpByDaemon, reqPc,
          req, signalled, flushPc, backend, fwk, walks, calls>>

Init ==
    /\ scenario \in Scenarios
    /\ mState = "CONFIGURED"
    /\ mPendingRequestsList = <<>> /\ mPendingBuffersMap = <<>>
    /\ mPendingFrameDropList = {}
    /\ mPendingLiveRequest = 0
    /\ mFlush = FALSE /\ mWokenUpByDaemon = FALSE
    /\ reqPc = "idle" /\ req = [frame |-> NoFrame]
    /\ signalled = FALSE
    /\ flushPc = [t \in Flushers |-> "none"]
    /\ owed = {} /\ held = {} /\ reprocCb = NoFrame
    /\ next = 1 /\ registered = {} /\ flushes = 0 /\ failedFlush = FALSE
    /\ final = {} /\ returned = {} /\ returnedOk = {} /\ announced = {}
    /\ twice = {}
    /\ mNeedSensorRestart = FALSE /\ oldest = NoFrame
    /\ astray = FALSE /\ crossed = FALSE

-----------------------------------------------------------------------------
(* What the framework is told. *)

MayFail(kind) == kind \in scenario.faults

Elements(seq) == {seq[k] : k \in DOMAIN seq}
Live(entry) == entry.kind = "live"
Pending(f) == \E k \in DOMAIN mPendingRequestsList : mPendingRequestsList[k].frame = f
BufsOf(map) == UNION {{<<e.frame, s>> : s \in e.bufs} : e \in Elements(map)}

\* The frames of done end and the buffers of bufs go back, those in bad with
\* an error status.
Tell(done, bufs, bad) ==
    /\ final' = final \cup done
    /\ returned' = returned \cup bufs
    /\ returnedOk' = returnedOk \cup (bufs \ bad)
    /\ twice' = twice \cup (final \cap done) \cup (returned \cap bufs)

\* Mutant: a request without buffers stays in the map.
removeBuf_Keep(map, bufs) ==
    LET Left(e) == [e EXCEPT !.bufs = {s \in @ : <<e.frame, s>> \notin bufs}]
    IN  [k \in DOMAIN map |-> Left(map[k])]

\* Takes buffers off the map; a request without any leaves it.
removeBuf(map, bufs) ==
    LET Left(e) == [e EXCEPT !.bufs = {s \in @ : <<e.frame, s>> \notin bufs}]
    IN  SelectSeq([k \in DOMAIN map |-> Left(map[k])], LAMBDA e : e.bufs # {})

\* Mutant: everything up to the request is erased.
erasePendingRequest_Older(f) ==
    mPendingRequestsList' = SelectSeq(mPendingRequestsList, LAMBDA e : e.frame > f)

erasePendingRequest(f) ==
    mPendingRequestsList' = SelectSeq(mPendingRequestsList, LAMBDA e : e.frame # f)

Decrement(n, by) == (n + UintMax + 1 - by) % (UintMax + 1)

Signal == signalled' = (signalled \/ reqPc = "wait")

-----------------------------------------------------------------------------
(* processCaptureRequest: everything up to the wait, in one go. *)

Requests == {[frame |-> next, kind |-> h.kind, streams |-> h.streams] : h \in scenario.shapes}

\* The first request since the streams were configured counts from zero.
StartedCount == IF mState = "CONFIGURED" THEN 0 ELSE mPendingLiveRequest
StartedWoken == mState # "CONFIGURED" /\ mWokenUpByDaemon

\* The loop condition around mRequestCond.
MustWait(count, r) ==
    count >= MinInFlight /\ Live(r) /\ mState \notin {"ERROR", "DEINIT"}

\* From the lists to the return or the wait; count is mPendingLiveRequest so far.
Register(r, count) ==
    /\ mPendingBuffersMap' =
          Append(mPendingBuffersMap, [frame |-> r.frame, bufs |-> r.streams])
    /\ mPendingRequestsList' =
          Append(mPendingRequestsList,
                 [frame |-> r.frame, kind |-> r.kind, streams |-> r.streams, cached |-> {}])
    /\ registered' = registered \cup {r}
    /\ \/ /\ mFlush                       \* only registered: flush() answers it
          /\ reqPc' = "idle"
          /\ mPendingLiveRequest' = count
          /\ UNCHANGED <<owed, held, mState>>
       \/ /\ ~mFlush /\ MayFail("channel")  \* a channel refuses: rc goes up as it is
          /\ \E S \in SUBSET r.streams : held' = held \cup ({r.frame} \X S)
          /\ reqPc' = "idle"
          /\ mPendingLiveRequest' = count
          /\ UNCHANGED <<owed, mState>>
       \/ /\ ~mFlush
          /\ held' = held \cup ({r.frame} \X r.streams)
          /\ owed' = IF Live(r) THEN owed \cup {r.frame} ELSE owed
          /\ mPendingLiveRequest' = IF Live(r) THEN (count + 1) % (UintMax + 1) ELSE count
          /\ mState' = "STARTED"
          /\ reqPc' = IF mPendingLiveRequest' >= MinInFlight /\ Live(r)
                      THEN "wait" ELSE "idle"
    /\ signalled' = FALSE
    /\ UNCHANGED <<mPendingFrameDropList, reprocCb, fwk, mFlush, flushPc,
                   scenario, flushes, failedFlush>>

\* A request is registered: streams on first if it is the first one.
processCaptureRequest ==
    /\ reqPc = "idle" /\ flushPc["request"] = "none" /\ next \in Frames
    /\ mState \in {"CONFIGURED", "STARTED"}
    /\ \E r \in Requests : (mNeedSensorRestart => ~Live(r)) /\ req' = r /\ Register(r, StartedCount)
    /\ mWokenUpByDaemon' = StartedWoken
    /\ next' = next + 1
    /\ UNCHANGED walks

\* The same, refused before anything is registered: streams do not start, or a
\* fence, the settings or the metadata are bad.
processCaptureRequestRefused ==
    /\ reqPc = "idle" /\ flushPc["request"] = "none" /\ next \in Frames
    /\ \/ /\ mState = "DEINIT" \/ (mState = "CONFIGURED" /\ MayFail("start"))
          /\ UNCHANGED <<mPendingLiveRequest, mWokenUpByDaemon>>
       \/ /\ mState \in {"CONFIGURED", "STARTED"} /\ MayFail("fence")
          /\ mPendingLiveRequest' = StartedCount
          /\ mWokenUpByDaemon' = StartedWoken
    /\ next' = next + 1
    /\ UNCHANGED <<mState, lists, mFlush, reqPc, req, signalled, flushPc, backend,
                   fwk, walks, scenario, registered, flushes, failedFlush>>

\* The daemon is dead: the caller settles everything and reports the device.
processCaptureRequestError ==
    /\ reqPc = "idle" /\ flushPc["request"] = "none" /\ next \in Frames
    /\ mState = "ERROR"
    /\ flushPc' = [flushPc EXCEPT !["request"] = "deviceError"]
    /\ next' = next + 1
    /\ UNCHANGED <<mState, lists, mPendingLiveRequest, mFlush, mWokenUpByDaemon, reqPc,
                   req, signalled, backend, fwk, walks, scenario, registered, flushes, failedFlush>>

\* A change of the high-speed frame rate restarts the sensor, without the lock; so
\* does the next live request after one whose restart failed.
restartBegin ==
    /\ reqPc = "idle" /\ flushPc["request"] = "none" /\ next \in Frames
    /\ MayFail("restart")
    /\ mNeedSensorRestart' = TRUE
    /\ mState \in {"CONFIGURED", "STARTED"}
    /\ \E r \in Requests : Live(r) /\ req' = r
    /\ mPendingLiveRequest' = StartedCount /\ mWokenUpByDaemon' = StartedWoken
    /\ reqPc' = "restart"
    /\ next' = next + 1
    /\ UNCHANGED <<mState, lists, mFlush, signalled, flushPc, backend, fwk, oldest, astray,
                   crossed, scenario, registered, flushes, failedFlush>>

\* Mutant: only the metadata channel is stopped.
stopAllChannels_NoDrain ==
    /\ reprocCb = NoFrame
    /\ owed' = {}
    /\ UNCHANGED <<held, reprocCb>>

\* stopAllChannels joins the callback threads: a reprocessed frame gets both
\* its callbacks. What the back end held is gone.
stopAllChannels ==
    /\ reprocCb = NoFrame
    /\ owed' = {} /\ held' = {}
    /\ UNCHANGED reprocCb

restartStop ==
    /\ reqPc = "restart" /\ reqPc' = "restartStopped"
    /\ stopAllChannels
    /\ UNCHANGED <<mState, lists, mPendingLiveRequest, mFlush, mWokenUpByDaemon, req,
                   signalled, flushPc, fwk, walks, calls>>

-----------------------------------------------------------------------------
(* notifyErrorForPendingRequests: requests of the map older than all that   *)
(* are pending have only buffers left; for every other one the first        *)
(* pending request is erased along with it.                                 *)

Oldest == IF mPendingRequestsList = <<>> THEN NumRequests + 1
                                         ELSE Head(mPendingRequestsList).frame

\* Under mMutex, in one go.  The k-th entry of the map from Oldest on takes the k-th
\* pending request with it, if there is one (the code does not ask): both should be
\* the same.
notifyErrorForPendingRequests ==
    LET young == SelectSeq(mPendingBuffersMap, LAMBDA e : e.frame >= Oldest)
        n == Len(young)
        all == BufsOf(mPendingBuffersMap)
    IN  /\ Tell({e.frame : e \in Elements(young)}, all, all)
        /\ astray' = (n > Len(mPendingRequestsList)
                        \/ \E k \in 1..n : young[k].frame # mPendingRequestsList[k].frame)
        /\ mPendingRequestsList' =
              SubSeq(mPendingRequestsList, n + 1, Len(mPendingRequestsList))
        /\ mPendingBuffersMap' = <<>>
        /\ mPendingFrameDropList' = {}
        /\ UNCHANGED announced

\* dynamicUpdateMetaStreamInfo walks without the lock, so in steps: it looks for the
\* oldest request, ...
WalkPlaces == {"walk", "walkTold", "walkReturned"}

WalkStep(there) ==
    /\ reqPc' = there
    /\ UNCHANGED <<mState, mPendingLiveRequest, mFlush, mWokenUpByDaemon, req, signalled,
                   flushPc, backend, announced, mNeedSensorRestart, crossed, calls>>

walkBegin ==
    /\ reqPc = "restartStopped" /\ WalkStep("walk")
    /\ oldest' = Oldest
    /\ UNCHANGED <<lists, final, returned, returnedOk, twice, astray>>

\* ... tells the framework of an entry of the map, or gives back the buffers of a
\* request that has nothing else left, ...
walkTell ==
    /\ reqPc = "walk" /\ mPendingBuffersMap # <<>>
    /\ LET e == Head(mPendingBuffersMap)
           bufs == {e.frame} \X e.bufs IN
       \/ e.frame < oldest /\ WalkStep("walk") /\ Tell({}, bufs, bufs)
             /\ mPendingBuffersMap' = Tail(mPendingBuffersMap)
       \/ e.frame >= oldest /\ WalkStep("walkTold") /\ Tell({e.frame}, {}, {})
             /\ UNCHANGED mPendingBuffersMap
    /\ UNCHANGED <<mPendingRequestsList, mPendingFrameDropList, oldest, astray>>

\* ... takes the entry off the map and gives its buffers back, ...
walkReturn ==
    /\ reqPc = "walkTold" /\ mPendingBuffersMap # <<>> /\ WalkStep("walkReturned")
    /\ LET e == Head(mPendingBuffersMap)
           bufs == {e.frame} \X e.bufs IN
       /\ Tell({}, bufs, bufs)
       /\ mPendingBuffersMap' = Tail(mPendingBuffersMap)
       /\ astray' = (mPendingRequestsList = <<>> \/ Head(mPendingRequestsList).frame # e.frame)
    /\ UNCHANGED <<mPendingRequestsList, mPendingFrameDropList, oldest>>

\* ... erases the first pending request ...
walkErase ==
    /\ reqPc = "walkReturned" /\ mPendingRequestsList # <<>> /\ WalkStep("walk")
    /\ mPendingRequestsList' = Tail(mPendingRequestsList)
    /\ UNCHANGED <<mPendingBuffersMap, mPendingFrameDropList, final, returned, returnedOk,
                   twice, oldest, astray>>

\* ... and clears what is left.
walkEnd ==
    /\ reqPc = "walk" /\ mPendingBuffersMap = <<>> /\ WalkStep("restarted")
    /\ mPendingFrameDropList' = {} /\ oldest' = NoFrame
    /\ UNCHANGED <<mPendingRequestsList, mPendingBuffersMap, final, returned, returnedOk,
                   twice, astray>>

\* A walk under mMutex is one step here: a walk without it may be under way, or begin
\* before that one ends.
Crosses == CASE reqPc \in WalkPlaces -> {TRUE}
             [] reqPc = "restartStopped" -> BOOLEAN
             [] OTHER -> {FALSE}

\* The streams are started again, and the request takes the lock and its place in
\* the lists.
restartRegister ==
    /\ reqPc = "restarted"
    /\ mNeedSensorRestart' = FALSE
    /\ Register(req, mPendingLiveRequest)
    /\ UNCHANGED <<mWokenUpByDaemon, req, next, oldest, astray, crossed>>

\* They are not: the request is refused, with everything before it ended.
restartFails ==
    /\ reqPc = "restarted" /\ MayFail("start")
    /\ reqPc' = "idle"
    /\ UNCHANGED <<mState, lists, mPendingLiveRequest, mFlush, mWokenUpByDaemon, req,
                   signalled, flushPc, backend, fwk, walks, calls>>

-----------------------------------------------------------------------------
(* The wait for older requests. *)

waitWake ==
    /\ reqPc = "wait" /\ signalled
    /\ signalled' = FALSE
    /\ mWokenUpByDaemon' = FALSE
    /\ reqPc' = IF \/ mWokenUpByDaemon /\ mPendingLiveRequest < MaxInFlight
                   \/ ~MustWait(mPendingLiveRequest, req)
                THEN "idle" ELSE "wait"
    /\ UNCHANGED <<mState, lists, mPendingLiveRequest, mFlush, req, flushPc, backend,
                   fwk, walks, calls>>

\* Mutant: pthread_cond_wait, without a deadline.
waitTimeout_Never ==
    /\ FALSE
    /\ reqPc' = "idle" /\ signalled' = FALSE
    /\ UNCHANGED <<mState, lists, mPendingLiveRequest, mFlush, mWokenUpByDaemon, req,
                   flushPc, backend, fwk, walks, calls>>

\* Five seconds: the call fails, its request stays.
waitTimeout ==
    /\ reqPc = "wait"
    /\ reqPc' = "idle" /\ signalled' = FALSE
    /\ UNCHANGED <<mState, lists, mPendingLiveRequest, mFlush, mWokenUpByDaemon, req,
                   flushPc, backend, fwk, walks, calls>>

\* The daemon asks for a request.
DaemonPull ==
    /\ ~mWokenUpByDaemon
    /\ mWokenUpByDaemon' = TRUE
    /\ Signal
    /\ UNCHANGED <<mState, lists, mPendingLiveRequest, mFlush, reqPc, req, flushPc,
                   backend, fwk, walks, calls>>

\* The daemon dies; nobody is woken. (Once: it is not restarted under a camera.)
DaemonDied ==
    /\ MayFail("daemon")
    /\ mState \in {"CONFIGURED", "STARTED"}
    /\ mState' = "ERROR"
    /\ UNCHANGED <<lists, mPendingLiveRequest, mFlush, mWokenUpByDaemon, reqPc, req,
                   signalled, flushPc, backend, fwk, walks, calls>>

-----------------------------------------------------------------------------
(* handleMetadataWithLock: metadata of frame f, which says that the buffers *)
(* of the streams in dropped are lost. Frames come in order, some may never.*)

Unavailable == mState \in {"ERROR", "DEINIT"}

\* Mutant: only the request of the metadata's own frame ends.
EndedBy_MatchOnly(f) == {e \in Elements(mPendingRequestsList) : e.frame = f}

\* Mutant: older input requests end along with the live ones.
EndedBy_InputsToo(f) == {e \in Elements(mPendingRequestsList) : e.frame <= f}

\* The metadata's own request and older live ones; an older input request is
\* left to its own callbacks.
EndedBy(f) == {e \in Elements(mPendingRequestsList) : e.frame = f \/ (e.frame < f /\ Live(e))}

handleMetadata(f, dropped) ==
    LET upTo == {e \in Elements(mPendingRequestsList) : e.frame <= f}
        done == EndedBy(f)
        noticed == UNION {{<<e.frame, s>> : s \in e.streams \cap dropped} : e \in upTo}
        drops == mPendingFrameDropList \cup noticed
        filled == UNION {{<<e.frame, s>> : s \in e.cached} : e \in done}
        \* matched against the frame of the metadata, whatever e is
        bad == {p \in filled : p[1] = f /\ p \in drops}
    IN  /\ Tell({e.frame : e \in done}, filled, bad)
        /\ announced' = announced \cup {p \in noticed : p[1] = f}
        /\ mPendingLiveRequest' = Decrement(mPendingLiveRequest, Cardinality(done))
        /\ mPendingFrameDropList' = drops \ bad
        /\ mPendingBuffersMap' = removeBuf(mPendingBuffersMap, filled)
        /\ mPendingRequestsList' = SelectSeq(mPendingRequestsList, LAMBDA e : e \notin done)

\* Mutant: unblockRequestIfNecessary is not called.
MetadataCallback_NoSignal ==
    /\ \E f \in owed :
         /\ owed' = {g \in owed : g > f}
         /\ IF Unavailable
            THEN UNCHANGED <<lists, fwk, mPendingLiveRequest, signalled>>
            ELSE /\ \E D \in IF MayFail("drop") THEN SUBSET Streams ELSE {{}} :
                      handleMetadata(f, D)
                 /\ UNCHANGED signalled
    /\ UNCHANGED <<mState, mFlush, mWokenUpByDaemon, reqPc, req, flushPc, held, reprocCb,
                   walks, calls>>

MetadataCallback ==
    /\ \E f \in owed :
         /\ owed' = {g \in owed : g > f}
         /\ IF Unavailable
            THEN UNCHANGED <<lists, fwk, mPendingLiveRequest, signalled>>
            ELSE /\ \E D \in IF MayFail("drop") THEN SUBSET Streams ELSE {{}} :
                      handleMetadata(f, D)
                 /\ Signal
    /\ UNCHANGED <<mState, mFlush, mWokenUpByDaemon, reqPc, req, flushPc, held, reprocCb,
                   walks, calls>>

-----------------------------------------------------------------------------
(* handleBufferWithLock and handleInputBufferWithLock. *)

Entry(f) == CHOOSE e \in Elements(mPendingRequestsList) : e.frame = f

\* Mutant: a late buffer is not looked up in mPendingFrameDropList.
handleBuffer_IgnoresDrops(f, s) ==
    IF Unavailable THEN UNCHANGED <<lists, fwk>>
    ELSE /\ UNCHANGED announced
         /\ IF ~Pending(f)
            THEN /\ Tell({}, {<<f, s>>}, {})
                 /\ mPendingFrameDropList' = mPendingFrameDropList \ {<<f, s>>}
                 /\ mPendingBuffersMap' = removeBuf(mPendingBuffersMap, {<<f, s>>})
                 /\ UNCHANGED mPendingRequestsList
            ELSE IF ~Live(Entry(f))
            THEN /\ Tell({f}, {<<f, s>>}, {})
                 /\ mPendingBuffersMap' = removeBuf(mPendingBuffersMap, {<<f, s>>})
                 /\ erasePendingRequest(f)
                 /\ UNCHANGED mPendingFrameDropList
            ELSE /\ mPendingRequestsList' =
                       [k \in DOMAIN mPendingRequestsList |->
                          IF mPendingRequestsList[k].frame = f
                          THEN [mPendingRequestsList[k] EXCEPT !.cached = @ \cup {s}]
                          ELSE mPendingRequestsList[k]]
                 /\ UNCHANGED <<mPendingFrameDropList, mPendingBuffersMap, final, returned,
                                returnedOk, twice>>

handleBuffer(f, s) ==
    IF Unavailable THEN UNCHANGED <<lists, fwk>>
    ELSE /\ UNCHANGED announced
         /\ IF ~Pending(f)
            THEN /\ Tell({}, {<<f, s>>}, mPendingFrameDropList)
                 /\ mPendingFrameDropList' = mPendingFrameDropList \ {<<f, s>>}
                 /\ mPendingBuffersMap' = removeBuf(mPendingBuffersMap, {<<f, s>>})
                 /\ UNCHANGED mPendingRequestsList
            ELSE IF ~Live(Entry(f))
            THEN /\ Tell({f}, {<<f, s>>}, {})
                 /\ mPendingBuffersMap' = removeBuf(mPendingBuffersMap, {<<f, s>>})
                 /\ erasePendingRequest(f)
                 /\ UNCHANGED mPendingFrameDropList
            ELSE /\ mPendingRequestsList' =
                       [k \in DOMAIN mPendingRequestsList |->
                          IF mPendingRequestsList[k].frame = f
                          THEN [mPendingRequestsList[k] EXCEPT !.cached = @ \cup {s}]
                          ELSE mPendingRequestsList[k]]
                 /\ UNCHANGED <<mPendingFrameDropList, mPendingBuffersMap, final, returned,
                                returnedOk, twice>>

handleInputBuffer(f) ==
    IF Pending(f) /\ ~Live(Entry(f))
    THEN /\ Tell({f}, {}, {})
         /\ erasePendingRequest(f)
         /\ UNCHANGED <<mPendingBuffersMap, mPendingFrameDropList, announced>>
    ELSE UNCHANGED <<lists, fwk>>

KindOf(f) == (CHOOSE r \in registered : r.frame = f).kind

\* A buffer comes back; that of a reprocessed frame only after its input.
BufferCallback ==
    /\ \E p \in held :
         /\ KindOf(p[1]) = "jpeg" => ~Pending(p[1])
         /\ KindOf(p[1]) = "yuv" => reprocCb = p[1]
         /\ held' = held \ {p}
         /\ reprocCb' = IF reprocCb = p[1] THEN NoFrame ELSE reprocCb
         /\ handleBuffer(p[1], p[2])
    /\ UNCHANGED <<mState, mPendingLiveRequest, mFlush, mWokenUpByDaemon, reqPc, req,
                   signalled, flushPc, owed, walks, calls>>

\* A frame has been reprocessed: its input goes back first.
InputCallback ==
    /\ reprocCb = NoFrame
    /\ \E p \in held :
         /\ Pending(p[1])
         /\ KindOf(p[1]) \in {"yuv", "jpeg"}
         /\ reprocCb' = IF KindOf(p[1]) = "yuv" THEN p[1] ELSE NoFrame
         /\ handleInputBuffer(p[1])
    /\ UNCHANGED <<mState, mPendingLiveRequest, mFlush, mWokenUpByDaemon, reqPc, req,
                   signalled, flushPc, owed, held, walks, calls>>

-----------------------------------------------------------------------------
(* flush(), called by the framework or, restart channels or not, by the     *)
(* thread that finds the device in error.                                   *)

At(t, here) == flushPc[t] = here
GoTo(t, there) == flushPc' = [flushPc EXCEPT ![t] = there]

\* The framework's call looks at the state and lets go of the lock.
FlushCall ==
    /\ flushes < NumFlushes /\ At("flush", "none")
    /\ flushes' = flushes + 1
    /\ \/ mState = "STARTED" /\ GoTo("flush", "begin")
       \/ mState = "ERROR" /\ GoTo("flush", "deviceError")
    /\ UNCHANGED <<mState, lists, mPendingLiveRequest, mFlush, mWokenUpByDaemon, reqPc, req,
                   signalled, backend, fwk, walks, scenario, next, registered, failedFlush>>

\* handleCameraDeviceError looks again; the state may have moved on.
handleCameraDeviceError(t) ==
    /\ At(t, "deviceError")
    /\ GoTo(t, IF mState = "ERROR" THEN "begin error" ELSE "none")
    /\ UNCHANGED <<mState, lists, mPendingLiveRequest, mFlush, mWokenUpByDaemon, reqPc, req,
                   signalled, backend, fwk, walks, calls>>

\* Mutant: flush() does not say that it runs.
flushBegin_NoFlag(t) ==
    /\ \/ At(t, "begin") /\ GoTo(t, "stop")
       \/ At(t, "begin error") /\ GoTo(t, "stop error")
    /\ mFlush' = mFlush
    /\ UNCHANGED <<mState, lists, mPendingLiveRequest, mWokenUpByDaemon, reqPc, req,
                   signalled, backend, fwk, walks, calls>>

flushBegin(t) ==
    /\ \/ At(t, "begin") /\ GoTo(t, "stop")
       \/ At(t, "begin error") /\ GoTo(t, "stop error")
    /\ mFlush' = TRUE
    /\ UNCHANGED <<mState, lists, mPendingLiveRequest, mWokenUpByDaemon, reqPc, req,
                   signalled, backend, fwk, walks, calls>>

flushStop(t) ==
    /\ stopAllChannels
    /\ \/ At(t, "stop") /\ GoTo(t, "errors")
       \/ At(t, "stop error") /\ GoTo(t, "errors error")
    /\ UNCHANGED <<mState, lists, mPendingLiveRequest, mFlush, mWokenUpByDaemon, reqPc, req,
                   signalled, fwk, walks, calls>>

\* Resetting the bundle, or the link of two cameras, fails: flush() returns as
\* it stands.
flushFails(t) ==
    /\ MayFail("bundle")
    /\ \/ At(t, "errors") /\ GoTo(t, "none")
       \/ At(t, "errors error") /\ GoTo(t, "deinit")
    /\ failedFlush' = TRUE
    /\ UNCHANGED <<mState, lists, mPendingLiveRequest, mFlush, mWokenUpByDaemon, reqPc, req,
                   signalled, backend, fwk, walks, scenario, next, registered, flushes>>

\* Mutant: mFlush is not reset.
flushErrors_KeepsFlag(t) ==
    /\ \/ At(t, "errors") /\ GoTo(t, "none")
       \/ At(t, "errors error") /\ GoTo(t, "deinit")
    /\ mPendingLiveRequest' = 0
    /\ Signal
    /\ notifyErrorForPendingRequests /\ crossed' \in Crosses
    /\ mFlush' = mFlush
    /\ UNCHANGED <<mState, mWokenUpByDaemon, reqPc, req, backend, mNeedSensorRestart, oldest,
                   calls>>

flushErrors(t) ==
    /\ \/ At(t, "errors") /\ GoTo(t, "none")
       \/ At(t, "errors error") /\ GoTo(t, "deinit")
    /\ mPendingLiveRequest' = 0
    /\ Signal
    /\ notifyErrorForPendingRequests /\ crossed' \in Crosses
    /\ mFlush' = FALSE
    /\ UNCHANGED <<mState, mWokenUpByDaemon, reqPc, req, backend, mNeedSensorRestart, oldest,
                   calls>>

\* Whatever flush() returned: the device is gone, and the framework is told.
deviceGone(t) ==
    /\ At(t, "deinit") /\ GoTo(t, "none")
    /\ mState' = "DEINIT"
    /\ UNCHANGED <<lists, mPendingLiveRequest, mFlush, mWokenUpByDaemon, reqPc, req,
                   signalled, backend, fwk, walks, calls>>

\* configureStreams, which the framework calls when it has everything back.
configureStreams ==
    /\ mState \in {"CONFIGURED", "STARTED"}
    /\ reqPc = "idle" /\ flushPc = [t \in Flushers |-> "none"] /\ reprocCb = NoFrame
    /\ {r.frame : r \in registered} \subseteq final
    /\ UNION {{r.frame} \X r.streams : r \in registered} \subseteq returned
    /\ mState' = "CONFIGURED"
    /\ mPendingRequestsList' = <<>> /\ mPendingBuffersMap' = <<>>
    /\ mPendingFrameDropList' = {}
    /\ owed' = {} /\ held' = {}
    /\ UNCHANGED <<mPendingLiveRequest, mFlush, mWokenUpByDaemon, reqPc, req, signalled,
                   flushPc, reprocCb, fwk, walks, calls>>

-----------------------------------------------------------------------------
FlushStep(t) ==
    \/ handleCameraDeviceError(t)
    \/ flushBegin(t)
    \/ flushStop(t)
    \/ flushFails(t)
    \/ flushErrors(t)
    \/ deviceGone(t)

WalkOn == walkBegin \/ walkTell \/ walkReturn \/ walkErase \/ walkEnd
RequestStep == restartStop \/ WalkOn \/ restartRegister \/ restartFails \/ waitWake

\* Nothing is claimed after a walk that went wrong.
Lost == astray \/ crossed

Next ==
    /\ ~Lost
    /\ \/ processCaptureRequest
       \/ processCaptureRequestRefused
       \/ processCaptureRequestError
       \/ restartBegin
       \/ RequestStep
       \/ waitTimeout
       \/ DaemonPull
       \/ DaemonDied
       \/ MetadataCallback
       \/ BufferCallback
       \/ InputCallback
       \/ FlushCall
       \/ \E t \in Flushers : FlushStep(t)
       \/ configureStreams

Spec == Init /\ [][Next]_vars

\* The threads of the HAL go on, and a wait ends after five seconds (one
\* deadline for the whole wait, however often it is woken).
HalFairness ==
    /\ WF_vars(RequestStep) /\ WF_vars(waitTimeout)
    /\ \A t \in Flushers : WF_vars(FlushStep(t))
    /\ WF_vars(BufferCallback)

\* The back end: as long as the camera runs it serves the requests it was given.
BackendFairness == WF_vars(MetadataCallback \/ InputCallback)

FairSpec == Spec /\ HalFairness /\ BackendFairness

-----------------------------------------------------------------------------
(* Properties. *)

Entries == [frame : Frames, kind : {"live"} \cup InputKinds, streams : SUBSET Streams,
            cached : SUBSET Streams]
FlushPlaces == {"none", "deviceError", "begin", "begin error", "stop", "stop error",
                "errors", "errors error", "deinit"}

\* The ranges of the variables.
TypeOK ==
    /\ mState \in {"CONFIGURED", "STARTED", "ERROR", "DEINIT"}
    /\ mPendingRequestsList \in Seq(Entries)
    /\ mPendingBuffersMap \in Seq([frame : Frames, bufs : SUBSET Streams \ {{}}])
    /\ mPendingFrameDropList \subseteq Pairs
    /\ mPendingLiveRequest \in 0..UintMax
    /\ {mFlush, mWokenUpByDaemon, signalled, astray, crossed, mNeedSensorRestart, failedFlush}
          \subseteq BOOLEAN
    /\ reqPc \in {"idle", "restart", "restartStopped", "restarted", "wait"} \cup WalkPlaces
    /\ oldest \in 0..(NumRequests + 1)
    /\ flushPc \in [Flushers -> FlushPlaces]
    /\ owed \subseteq Frames /\ held \subseteq Pairs /\ reprocCb \in {NoFrame} \cup Frames
    /\ next \in 1..(NumRequests + 1) /\ flushes \in 0..NumFlushes
    /\ final \subseteq Frames /\ returned \subseteq Pairs
    /\ returnedOk \subseteq returned /\ announced \subseteq Pairs

Answered(r) == r.frame \in final /\ {r.frame} \X r.streams \subseteq returned

\* No request is ended twice and no buffer is given back twice, by whichever of
\* the metadata, the buffer callbacks and the flushes come first (up to a walk
\* that went astray or met another; after one nothing is claimed).
AnsweredOnce == Lost \/ twice = {}

BeingErased == IF reqPc \in {"walkTold", "walkReturned"} THEN {Oldest} ELSE {}

\* mPendingRequestsList and mPendingBuffersMap hold exactly what the framework
\* still waits for: a request that left them unanswered would never be. (A walk
\* without the lock tells of a request before it erases it.)
Accounted == Lost \/
    /\ {e.frame : e \in Elements(mPendingRequestsList)} \ BeingErased
         = {r.frame : r \in registered} \ final
    /\ BufsOf(mPendingBuffersMap)
         = UNION {{r.frame} \X r.streams : r \in registered} \ returned

\* Live requests end in the order of their frame numbers, whatever metadata is
\* lost on the way (handleMetadataWithLock ends the older ones first).
LiveInOrder ==
    \A q, r \in registered :
        Live(q) /\ Live(r) /\ q.frame < r.frame /\ r.frame \in final => q.frame \in final

LivePending == {e \in Elements(mPendingRequestsList) : Live(e)}

\* A restart forgets to uncount the requests it ends, and a request refused by
\* a channel was never counted.
MayMiscount == MayFail("restart") \/ MayFail("channel")

\* mPendingLiveRequest counts the live requests that are pending; those that
\* came during a flush are not counted until it settles them.
LiveCountExact == MayMiscount \/
    IF mFlush THEN mPendingLiveRequest <= Cardinality(LivePending)
              ELSE mPendingLiveRequest = Cardinality(LivePending)

WaitIsNeeded == reqPc = "wait" /\ ~signalled => Cardinality(LivePending) >= MinInFlight

\* processCaptureRequest sleeps only while as many live requests as allowed are
\* pending: no wake-up is lost ("Unblock capture_request if max_buffer hasn't
\* been reached").
BlockedOnlyWhenFull == MayMiscount \/ WaitIsNeeded

\* A flush that ends well leaves no request unanswered, also none that came
\* while it ran, and nothing in the back end that could answer one later.
FlushSettles ==
    [][mFlush /\ ~mFlush' /\ ~Lost' => /\ \A r \in registered : Answered(r)'
                                       /\ owed' = {} /\ held' = {}]_vars

\* A buffer its frame's own metadata reported as dropped never comes back with
\* status OK, be it cached, late or flushed.
DroppedComesBackInError == announced \cap returnedOk = {}

UnderWay == reqPc # "idle" \/ \E t \in Flushers : flushPc[t] # "none"

\* processCaptureRequest and flush return, whatever the daemon does. (The calls
\* are finitely many, so "none is under way again" says it of each.)
CallsReturn == UnderWay ~> (~UnderWay \/ Lost)

\* Every registered request ends, unless the device failed or a flush gave up (a
\* request a channel refused waits for the metadata of a later one).
EveryRequestEnds ==
    mPendingRequestsList # <<>>
      ~> (mPendingRequestsList = <<>> \/ Unavailable \/ failedFlush \/ Lost
            \/ MayFail("channel"))

\* WaitIsNeeded in every scenario: no call of processCaptureRequest waits for
\* requests that have ended.
WaitsForPendingRequests == WaitIsNeeded

\* notifyErrorForPendingRequests ends, with an ERROR_REQUEST, the requests that
\* are pending: "Send Error notify to frameworks for each buffer for which
\* metadata buffer is already sent" is what it says of the others.
ErrorsGoToPendingRequests == ~astray

\* AnsweredOnce where two walks meet, too: processCaptureRequest lets go of mMutex
\* "as restartSensor waits on the channels to be stopped", and walks without it.
EachAnsweredOnce == twice = {}

\* The framework gets back each request and each buffer exactly once, in order,
\* and none as good that was dropped.
AnswersExact ==
    TypeOK /\ AnsweredOnce /\ Accounted /\ LiveInOrder /\ DroppedComesBackInError

\* The count that throttles processCaptureRequest is exact, and with it its wait.
ThrottleExact == LiveCountExact /\ BlockedOnlyWhenFull

\* What has to happen in the end: calls return, and requests end.
Progress == CallsReturn /\ EveryRequestEnds

=============================================================================
