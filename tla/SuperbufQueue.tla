--------------------------- MODULE SuperbufQueue ---------------------------
(***************************************************************************)
(* The super buffer queue of a channel (mm_camera_channel.c): frames of    *)
(* the bundled streams that belong together are matched by frame index and *)
(* handed to the HAL as one super buffer.                                  *)
(*                                                                         *)
(* The queue lives on the channel's command thread, which takes one        *)
(* command at a time (CmdThread), so one command with everything           *)
(* mm_channel_process_stream_buf() does for it, overflow and dispatch      *)
(* included, is one step: a function from the channel object to the        *)
(* channel object.  What is hard is the long run: frames of several        *)
(* streams arrive with gaps and at different paces, and metadata moves the *)
(* expected frame back and forth.                                          *)
(*                                                                         *)
(* Metadata is modelled for divert, good-frame range and "need future      *)
(* frame"; bracketing, 1x zoom, batch capture settings, retroactive        *)
(* requests and frame sync of two cameras are off, and nobody changes the  *)
(* notify mode of a bundle (configure_notify_mode has no caller).          *)
(***************************************************************************)
EXTENDS Integers, Sequences, SequencesExt, FiniteSets, FiniteSetsExt

CONSTANTS
    Meta,               \* the metadata stream
    Attrs,              \* the bundles there may be, with their mm_camera_channel_attr_t
    FutureWait,         \* MM_CAMERA_MAX_FUTURE_FRAME_WAIT
    NoMem,              \* the bundles with which malloc() may fail
    MaxFrame,           \* bound: frame indices
    FlushFrames,        \* bound: frame indices given to a flush
    MaxRequest          \* bound: super buffers of one request in burst mode

ASSUME SuperbufQueueAssumption ==
    /\ {FutureWait, MaxFrame, MaxRequest} \subseteq Nat /\ NoMem \subseteq Attrs
    /\ FlushFrames \subseteq 0..MaxFrame
    /\ \A a \in Attrs :
         /\ Meta \in a.streams /\ IsFiniteSet(a.streams)
         /\ a.priority \in {"low", "normal"} /\ a.notify_mode \in {"burst", "continuous"}
         /\ {a.max_unmatched_frames, a.water_mark, a.look_back, a.post_frame_skip} \subseteq Nat

VARIABLES
    attr,               \* the bundle of the channel, made before the threads run
    ch,                 \* the channel object, see TypeOK
    arrived             \* the frames <<stream, index>> delivered by the streams

vars == <<attr, ch, arrived>>

Streams == attr.streams
LowPriority == attr.priority = "low"
Continuous == attr.notify_mode = "continuous"
MaxUnmatched == attr.max_unmatched_frames
WaterMark == attr.water_mark
LookBack == attr.look_back
PostFrameSkip == attr.post_frame_skip

Frames == 0..MaxFrame

\* A node of the queue; slot 0 is a stream still missing.
SuperBufs == [frame_idx : Frames, slot : [Streams -> Frames],
              unmatched_meta_idx : Frames, expected_frame : BOOLEAN]

Matched(n) == \A s \in Streams : n.slot[s] # 0

FramesOf(slot) == {<<s, slot[s]>> : s \in {t \in Streams : slot[t] # 0}}

FramesIn(q) == UNION {FramesOf(q[i].slot) : i \in DOMAIN q}

\* mm_channel_qbuf(): the frames go back to their streams.
Qbuf(c, frames) == [c EXCEPT !.back = @ \cup frames]

-----------------------------------------------------------------------------
(* Taking super buffers out *)

\* How many super buffers mm_channel_superbuf_dequeue() can take in a row: it
\* looks at the first node only, and takes it if it is matched.
Ready(c) == Cardinality({i \in DOMAIN c.queue : \A j \in 1..i : Matched(c.queue[j])})

Dequeue(c, n) ==
    [c EXCEPT !.queue = SubSeq(@, n + 1, Len(@)), !.match_cnt = @ - n]

\* "while (match_cnt > limit)": a loop without end when a matched super buffer is
\* counted that is not at the head.
DropAbove(c, limit) ==
    LET n == Min({Ready(c), Max({c.match_cnt - limit, 0})})
        d == Qbuf(Dequeue(c, n), FramesIn(SubSeq(c.queue, 1, n)))
    IN  [d EXCEPT !.spinning = d.match_cnt > limit]

\* Mutant: the first water mark is let through.
Overflow_OffByOne(c) == IF Continuous THEN c ELSE DropAbove(c, WaterMark + 1)

\* mm_channel_superbuf_bufdone_overflow()
Overflow(c) == IF Continuous THEN c ELSE DropAbove(c, WaterMark)

\* mm_channel_superbuf_skip()
Skip(c) == IF Continuous THEN c ELSE DropAbove(c, LookBack)

\* Mutant: every node counts as matched.
Flush_CountsAll(c) ==
    Qbuf([c EXCEPT !.queue = <<>>, !.match_cnt = @ - Len(c.queue)], FramesIn(c.queue))

\* mm_channel_superbuf_flush(): every node, matched or not.
Flush(c) ==
    Qbuf([c EXCEPT !.queue = <<>>,
                   !.match_cnt = @ - Cardinality({i \in DOMAIN c.queue : Matched(c.queue[i])})],
         FramesIn(c.queue))

\* The dispatch loop at the end of mm_channel_process_stream_buf().
Dispatch(c) ==
    LET n == IF Continuous THEN Ready(c) ELSE Min({Ready(c), c.pending_cnt})
    IN  [Dequeue(c, n) EXCEPT
            !.up = @ \o [i \in 1..n |-> c.queue[i].slot],
            !.pending_cnt = IF Continuous THEN @ ELSE @ - n]

Finish(c) == Dispatch(Overflow(c))

-----------------------------------------------------------------------------
(* mm_channel_superbuf_comp_and_enqueue(), frame i of stream s *)

\* mm_channel_validate_super_buf(): a frame older than expected is kept if it
\* belongs to a super buffer that is expected itself.
Validated(c, i) ==
    \E k \in DOMAIN c.queue : c.queue[k].expected_frame /\ c.queue[k].frame_idx = i

\* Mutant: metadata is matched loosely in every priority.
Fits_AnyPriority(n, s, i) ==
    /\ ~Matched(n)
    /\ \/ n.frame_idx = i
       \/ n.slot[s] = 0
          /\ IF s = Meta THEN n.frame_idx < i ELSE n.unmatched_meta_idx > i

\* The super buffer a frame belongs to.  In low priority the metadata need not
\* be the frame's own: an unfilled one may take a later metadata frame, and one
\* that has only metadata an earlier frame.
Fits(n, s, i) ==
    /\ ~Matched(n)
    /\ \/ n.frame_idx = i
       \/ LowPriority /\ n.slot[s] = 0
          /\ IF s = Meta THEN n.frame_idx < i ELSE n.unmatched_meta_idx > i

First(S) == IF S = {} THEN 0 ELSE Min(S)

\* Mutant: the older unmatched super buffers stay in the queue.
ReleaseOlder_Keep(c, from, to) == c

\* Mutant: they are freed without giving their frames back.
ReleaseOlder_Leak(c, from, to) ==
    IF from = 0 THEN c
    ELSE [c EXCEPT !.queue = SubSeq(@, 1, from - 1) \o SubSeq(@, to, Len(@))]

\* The unmatched super buffers older than a matched one are given up: the nodes
\* from "from" up to, not including, "to".
ReleaseOlder(c, from, to) ==
    IF from = 0 THEN c
    ELSE Qbuf([c EXCEPT !.queue = SubSeq(@, 1, from - 1) \o SubSeq(@, to, Len(@))],
              FramesIn(SubSeq(c.queue, from, to - 1)))

\* Mutant: the super buffer keeps the index of its metadata.
AdoptIndex_Kept(c, pos, i) == [c EXCEPT !.queue[pos].unmatched_meta_idx = 0]

\* A frame that meets a super buffer of metadata only gives it its own index, so that
\* the other streams are matched against that.
AdoptIndex(c, pos, i) ==
    IF c.queue[pos].unmatched_meta_idx = 0 THEN c
    ELSE [c EXCEPT !.queue[pos].unmatched_meta_idx = 0, !.queue[pos].frame_idx = i]

\* The frame fills a slot; a complete super buffer moves the expectation on.
Fill(c, s, i, pos, last_buf) ==
    LET n == [c.queue[pos] EXCEPT !.slot[s] = i]
    IN  IF Matched(n)
        THEN ReleaseOlder([c EXCEPT !.queue[pos] = [n EXCEPT !.expected_frame = FALSE],
                                    !.expected_frame_id = i + PostFrameSkip,
                                    !.match_cnt = @ + 1],
                          last_buf, pos)
        ELSE IF c.diverted_frame_id = i
        THEN [c EXCEPT !.queue[pos] = [n EXCEPT !.expected_frame = TRUE],
                       !.diverted_frame_id = 0]
        ELSE [c EXCEPT !.queue[pos] = n]

\* With too many unmatched super buffers, one of them is given up: the first that
\* is neither expected nor the one the frame goes before, from last_buf on, or
\* else last_buf.  (UnmatchedBounded: it is never more than one.)
Victim(c, last_buf, insert_before) ==
    LET spare == {k \in last_buf..Len(c.queue) :
                    ~c.queue[k].expected_frame /\ k # insert_before}
    IN  IF spare = {} THEN last_buf ELSE Min(spare)

\* Mutant: nothing is given up.
MakeRoom_Never(c, unmatched, last_buf, insert_before) == c

MakeRoom(c, unmatched, last_buf, insert_before) ==
    IF unmatched <= MaxUnmatched THEN c
    ELSE LET v == Victim(c, last_buf, insert_before)
         IN  Qbuf([c EXCEPT !.queue = RemoveAt(@, v)], FramesOf(c.queue[v].slot))

\* Mutant: new super buffers go to the head.
Insert_AtHead(c, s, i, before) ==
    LET n == [frame_idx |-> i,
              slot |-> [t \in Streams |-> IF t = s THEN i ELSE 0],
              unmatched_meta_idx |-> IF LowPriority /\ s = Meta THEN i ELSE 0,
              expected_frame |-> FALSE]
    IN  [c EXCEPT !.queue = <<n>> \o @]

\* A new super buffer, matched at once if there is one stream only.  "before" is
\* its successor, or 0 for the tail.
Insert(c, s, i, before) ==
    LET single == Streams = {s}
        expected == i = c.diverted_frame_id \/ i = c.good_frame_id
        n == [frame_idx |-> i,
              slot |-> [t \in Streams |-> IF t = s THEN i ELSE 0],
              unmatched_meta_idx |-> IF LowPriority /\ s = Meta THEN i ELSE 0,
              expected_frame |-> expected /\ ~single]
    IN  [c EXCEPT !.queue = InsertAt(@, IF before = 0 THEN Len(@) + 1 ELSE before, n),
                  !.diverted_frame_id = IF expected THEN 0 ELSE @,
                  !.expected_frame_id = IF single THEN i + PostFrameSkip ELSE @,
                  !.match_cnt = IF single THEN @ + 1 ELSE @]

CompAndEnqueue(c, s, i, nomem) ==
    LET q == c.queue
        frame == {<<s, i>>}
        pos == First({k \in DOMAIN q : Fits(q[k], s, i)})
        scanned == {k \in DOMAIN q : ~Matched(q[k]) /\ (pos # 0 => k < pos)}
        last_buf == First({k \in scanned : q[k].frame_idx < i})
        insert_before == First({k \in scanned : q[k].frame_idx > i})
        unmatched == Cardinality(scanned)
        discarded ==
            \/ i = 0
            \/ i < c.expected_frame_id /\ ~Validated(c, i)
            \/ pos = 0 /\ unmatched > MaxUnmatched /\ last_buf = 0
        room == MakeRoom(c, unmatched, last_buf, insert_before)
        moved == Len(room.queue) < Len(q) /\ insert_before > Victim(c, last_buf, insert_before)
    IN  CASE discarded -> Qbuf(c, frame)
          [] ~discarded /\ pos # 0 ->
                IF q[pos].slot[s] # 0 THEN Qbuf(AdoptIndex(c, pos, i), frame)
                ELSE Fill(AdoptIndex(c, pos, i), s, i, pos, last_buf)
          [] ~discarded /\ pos = 0 ->
                IF nomem THEN Qbuf(room, frame)
                ELSE Insert(room, s, i, IF moved THEN insert_before - 1 ELSE insert_before)

-----------------------------------------------------------------------------
Init ==
    /\ attr \in Attrs
    /\ ch = [queue |-> <<>>, expected_frame_id |-> 0, good_frame_id |-> 0,
             diverted_frame_id |-> 0, match_cnt |-> 0, pending_cnt |-> 0,
             back |-> {}, up |-> <<>>, spinning |-> FALSE]
    /\ arrived = {}

\* A command is taken unless the thread is caught in the overflow loop.
Handle(c) == ~ch.spinning /\ ch' = c

\* The next frame of a stream; streams drop frames.
NextFrame(s, i) ==
    /\ \A j \in i..MaxFrame : <<s, j>> \notin arrived
    /\ arrived' = arrived \cup {<<s, i>>}

\* A frame of a stream other than metadata, or metadata without news.
StreamBuf(s, i) ==
    /\ NextFrame(s, i)
    /\ \E nomem \in {FALSE, (attr \in NoMem)} : Handle(Finish(CompAndEnqueue(ch, s, i, nomem)))

\* Metadata with news, mm_channel_handle_metadata(); index 0 is given back before.
NewsFrame(i) == i > 0 /\ NextFrame(Meta, i)

\* The frame diverted is this one or a later one, else there is none.
DivertMeta(i, frame_id) ==
    /\ NewsFrame(i)
    /\ LET c == [ch EXCEPT !.diverted_frame_id = IF frame_id >= i THEN frame_id ELSE 0]
       IN  Handle(Finish(CompAndEnqueue(c, Meta, i, FALSE)))

\* A range of good frames begins at min, before or after this frame.
GoodFrameMeta(i, min) ==
    /\ NewsFrame(i)
    /\ LET c == [ch EXCEPT !.expected_frame_id = min, !.good_frame_id = min]
       IN  Handle(Finish(CompAndEnqueue(c, Meta, i, FALSE)))

\* Prepare-snapshot is done and a future frame is needed.
FutureFrameMeta(i) ==
    /\ NewsFrame(i)
    /\ ch.expected_frame_id <= MaxFrame                     \* bound
    /\ LET c == Flush([ch EXCEPT !.expected_frame_id = @ + FutureWait])
       IN  Handle(Finish(CompAndEnqueue(c, Meta, i, FALSE)))

\* MM_CAMERA_CMD_TYPE_REQ_DATA_CB: n super buffers are requested, 0 cancels.
RequestSuperBuf(n) ==
    /\ Handle(Finish(Skip([ch EXCEPT !.pending_cnt = n])))
    /\ UNCHANGED arrived

\* MM_CAMERA_CMD_TYPE_FLUSH_QUEUE: no overflow or dispatch follows.
FlushSuperBufQueue(frame_idx) ==
    /\ Handle(Flush([ch EXCEPT !.expected_frame_id = frame_idx]))
    /\ UNCHANGED arrived

Next ==
    /\ \/ \E s \in Streams, i \in Frames : StreamBuf(s, i)
       \/ \E i, frame_id \in Frames : DivertMeta(i, frame_id) \/ GoodFrameMeta(i, frame_id)
       \/ \E i \in Frames : FutureFrameMeta(i)
       \/ \E n \in 0..(IF Continuous THEN 0 ELSE MaxRequest) : RequestSuperBuf(n)
       \/ \E i \in FlushFrames : FlushSuperBufQueue(i)
    /\ UNCHANGED attr

Spec == Init /\ [][Next]_vars

-----------------------------------------------------------------------------
(* Properties *)

TypeOK ==
    /\ ch.queue \in Seq(SuperBufs)
    /\ ch.expected_frame_id \in 0..MaxFrame + Max({PostFrameSkip, FutureWait})
    /\ ch.good_frame_id \in Frames /\ ch.diverted_frame_id \in Frames
    /\ ch.match_cnt \in Nat /\ ch.pending_cnt \in 0..MaxRequest
    /\ ch.back \subseteq Streams \X Frames
    /\ ch.up \in Seq([Streams -> Frames])
    /\ arrived \subseteq Streams \X Frames

FramesUp == UNION {FramesOf(ch.up[k]) : k \in DOMAIN ch.up}

\* No frame is lost and none is used twice: every frame of a stream sits in one
\* super buffer of the queue, or went up in one, or went back to its stream, and
\* is in no two of these places.
FrameInOnePlace ==
    /\ arrived = FramesIn(ch.queue) \cup FramesUp \cup ch.back
    /\ (FramesIn(ch.queue) \cup FramesUp) \cap ch.back = {}
    /\ LET bufs == [k \in DOMAIN ch.queue |-> ch.queue[k].slot] \o ch.up
       IN  \A j, k \in DOMAIN bufs : j # k => FramesOf(bufs[j]) \cap FramesOf(bufs[k]) = {}

\* match_cnt is the number of matched super buffers, and these stand before all
\* others: the loops "while (match_cnt > ...)" that take the first node, and only
\* if it is matched, come to an end.
MatchedFirst ==
    /\ ~ch.spinning
    /\ ch.match_cnt = Ready(ch)
    /\ ch.match_cnt = Cardinality({k \in DOMAIN ch.queue : Matched(ch.queue[k])})

\* At most one unmatched super buffer too many: the loop that gives them up never
\* goes on to the successor of a node it has just freed, nor frees last_buf twice.
UnmatchedBounded ==
    Cardinality({k \in DOMAIN ch.queue : ~Matched(ch.queue[k])}) <= MaxUnmatched + 1

\* What goes up together belongs together: all frames of a super buffer have one
\* index, in low priority all but the metadata.
BundleAgrees ==
    \A k \in DOMAIN ch.up : \A s, t \in IF LowPriority THEN Streams \ {Meta} ELSE Streams :
        ch.up[k][s] = ch.up[k][t]

\* Super buffers go up in the order of their frames, no stream going back.
DeliveredInOrder ==
    \A j, k \in DOMAIN ch.up : j < k => \A s \in Streams : ch.up[j][s] < ch.up[k][s]

\* "queue depth": after each command at most water_mark matched super buffers
\* wait, so that the streams keep the other buffers.
WithinWaterMark == Continuous \/ ch.match_cnt <= WaterMark

\* "frame idx until which to flush all superbufs": those of later frames stay.
FlushKeepsLaterFrames ==
    [][\A f \in Frames : FlushSuperBufQueue(f) =>
        \A k \in DOMAIN ch.queue :
            ch.queue[k].frame_idx > f => ch.queue[k] \in {ch'.queue[j] : j \in DOMAIN ch'.queue}]_vars

\* The length of the queue is bounded in each of its two parts, matched and
\* unmatched, and match_cnt, which the bounds are kept by, is exact.
QueueBounded == TypeOK /\ MatchedFirst /\ UnmatchedBounded /\ WithinWaterMark

\* The right super buffers go up, in the right order.
RightBundles == BundleAgrees /\ DeliveredInOrder

=============================================================================
