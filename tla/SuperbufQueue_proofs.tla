------------------------ MODULE SuperbufQueue_proofs ------------------------
(***************************************************************************)
(* The super buffer queue for every set of streams, every bundle attribute *)
(* and any number of frames: no frame is lost or used twice, the queue is  *)
(* bounded, and what goes up belongs together and keeps its order.         *)
(*                                                                         *)
(* The code looks at the first node only, and takes it if it is matched.   *)
(* That nothing is overlooked is a fact about the history of the frames:   *)
(* a stream's indices grow, so an unmatched node that a newer frame of a   *)
(* stream has passed can never be completed with that stream (Stale), and  *)
(* every other unmatched node is newer than all nodes before it (Ahead).   *)
(* Hence a node that becomes matched has only older ones before it; the    *)
(* unmatched among them are given up and it joins the matched prefix,      *)
(* whose length match_cnt counts (Counted).  In low priority the metadata  *)
(* may be of a later frame; its own order is kept by the second clause of  *)
(* Ahead and by what NodeOk says of a node of metadata only.               *)
(*                                                                         *)
(* The handlers are functions from channel object to channel object, so    *)
(* the invariant is stated of an object c and the set A of the frames that *)
(* have arrived, and each helper of the code has a lemma of its own.       *)
(***************************************************************************)
EXTENDS SuperbufQueue, FiniteSetTheorems, SequenceTheorems, TLAPS

-----------------------------------------------------------------------------
(* Numbers and sequences *)

\* A set of numbers that is not empty has a smallest element, and Min is it.
LEMMA MinOf ==
    ASSUME NEW S \in SUBSET Nat, S # {}
    PROVE  Min(S) \in S /\ \A y \in S : Min(S) <= y
<1>1. IsWellFoundedOn(OpToRel(<, Nat), Nat) BY NatLessThanWellFounded
<1>2. PICK x \in S : \A y \in S : <<y, x>> \notin OpToRel(<, Nat) BY <1>1, WFMin
<1>3. \A y \in S : ~(y < x) BY <1>2 DEF OpToRel
<1>4. \A y \in S : x =< y BY <1>3
<1>5. \E z \in S : \A y \in S : z =< y BY <1>4
<1> QED BY <1>5 DEF Min

\* Min of two numbers, as in the dispatch loop.
LEMMA MinOfTwo ==
    ASSUME NEW a \in Int, NEW b \in Int
    PROVE  /\ Min({a, b}) \in {a, b} /\ Min({a, b}) <= a /\ Min({a, b}) <= b
<1>1. \E z \in {a, b} : \A y \in {a, b} : z =< y OBVIOUS
<1> QED BY <1>1 DEF Min

\* Max of two numbers, as in the overflow loop.
LEMMA MaxOfTwo ==
    ASSUME NEW a \in Int, NEW b \in Int
    PROVE  /\ Max({a, b}) \in {a, b} /\ Max({a, b}) >= a /\ Max({a, b}) >= b
<1>1. \E z \in {a, b} : \A y \in {a, b} : z >= y OBVIOUS
<1> QED BY <1>1 DEF Max

\* First is the least position in a set of positions of the queue, or 0: the
\* code's search for pos, last_buf and insert_before.
LEMMA FirstOf ==
    ASSUME NEW n \in Nat, NEW S \in SUBSET (1..n)
    PROVE  /\ S = {} => First(S) = 0
           /\ S # {} => First(S) \in S /\ \A y \in S : First(S) <= y
<1>1. S \in SUBSET Nat OBVIOUS
<1> QED BY <1>1, MinOf DEF First

\* A part of a queue, position by position.
LEMMA SubSeqIs ==
    ASSUME NEW T, NEW q \in Seq(T), NEW a \in 1..Len(q) + 1, NEW b \in 0..Len(q)
    PROVE  /\ SubSeq(q, a, b) \in Seq(T)
           /\ Len(SubSeq(q, a, b)) = IF a <= b THEN b - a + 1 ELSE 0
           /\ \A k \in 1..b - a + 1 : SubSeq(q, a, b)[k] = q[a + k - 1]
OBVIOUS

\* Taking a node out joins what is before it with what is behind it.
LEMMA RemoveAtIs ==
    ASSUME NEW T, NEW q \in Seq(T), NEW v \in 1..Len(q)
    PROVE  RemoveAt(q, v) = SubSeq(q, 1, v - 1) \o SubSeq(q, v + 1, Len(q))
BY DEF RemoveAt

-----------------------------------------------------------------------------
(* The invariant of a channel object *)

\* The largest expected_frame_id.
ExpectedMax == MaxFrame + Max({PostFrameSkip, FutureWait})

\* The channel objects of the model. The overflow loop never hangs in one.
Chan == [queue : Seq(SuperBufs), expected_frame_id : 0..ExpectedMax, good_frame_id : Frames,
         diverted_frame_id : Frames, match_cnt : Int, pending_cnt : 0..MaxRequest,
         back : SUBSET (Streams \X Frames), up : Seq([Streams -> Frames]), spinning : {FALSE}]

\* The frames of the super buffers c has sent up.
UpIn(c) == UNION {FramesOf(c.up[k]) : k \in DOMAIN c.up}

\* Every frame of A is in one place: in one node, in one super buffer that went
\* up, or back with its stream.
Placed(c, A) ==
    /\ A = FramesIn(c.queue) \cup UpIn(c) \cup c.back
    /\ (FramesIn(c.queue) \cup UpIn(c)) \cap c.back = {}
    /\ FramesIn(c.queue) \cap UpIn(c) = {}
    /\ \A j, k \in DOMAIN c.queue :
          j # k => FramesOf(c.queue[j].slot) \cap FramesOf(c.queue[k].slot) = {}
    /\ \A j, k \in DOMAIN c.up : j # k => FramesOf(c.up[j]) \cap FramesOf(c.up[k]) = {}

\* The streams whose frames must have the index of the super buffer.
Exact(s) == s # Meta \/ ~LowPriority

\* A node that can never be matched: a stream it waits for is already past its
\* index.
Stale(A, n) ==
    /\ n.unmatched_meta_idx = 0
    /\ \E t \in Streams : /\ Exact(t) /\ n.slot[t] = 0
                          /\ \E y \in Frames : y > n.frame_idx /\ <<t, y>> \in A

\* What a node holds: frames of its own index, in low priority metadata of that
\* index or later, and metadata alone only under its own index.
NodeOk(n) ==
    /\ n.frame_idx # 0
    /\ \A t \in Streams : Exact(t) /\ n.slot[t] # 0 => n.slot[t] = n.frame_idx
    /\ LowPriority /\ n.slot[Meta] # 0 => n.frame_idx <= n.slot[Meta]
    /\ n.unmatched_meta_idx = 0 => \E t \in Streams : Exact(t) /\ n.slot[t] # 0
    /\ n.unmatched_meta_idx # 0 =>
         /\ LowPriority
         /\ n.frame_idx = n.unmatched_meta_idx /\ n.slot[Meta] = n.unmatched_meta_idx
         /\ \A t \in Streams : t # Meta => n.slot[t] = 0

\* What a complete super buffer holds.
SlotOk(p) ==
    /\ \A t \in Streams : p[t] # 0
    /\ \A t, u \in Streams : Exact(t) /\ Exact(u) => p[t] = p[u]
    /\ \A t \in Streams : p[t] <= p[Meta]

\* Node n stands rightly before the unmatched node r: r is stale or newer, and
\* so is its metadata in low priority unless n will never be matched.
Ahead(A, n, r) ==
    \/ Stale(A, r)
    \/ /\ n.frame_idx < r.frame_idx
       /\ LowPriority /\ r.slot[Meta] # 0 =>
            Stale(A, n) \/ (n.slot[Meta] # 0 /\ n.slot[Meta] < r.slot[Meta])

\* The same of a super buffer that went up before r.
UpAhead(A, p, r) ==
    \/ Stale(A, r)
    \/ /\ \A t \in Streams : Exact(t) => p[t] < r.frame_idx
       /\ LowPriority /\ r.slot[Meta] # 0 => p[Meta] < r.slot[Meta]

\* Every stream of p is before the one of r.
Precedes(p, r) == \A s \in Streams : p[s] < r[s]

\* Every node is well formed, and everything that went up was complete.
Nodes(c) == \A k \in DOMAIN c.queue : NodeOk(c.queue[k])
Ups(c) == \A k \in DOMAIN c.up : SlotOk(c.up[k])

\* The order of the nodes and of what went up.
Ordered(c, A) ==
    /\ \A j, k \in DOMAIN c.queue :
          j < k /\ ~Matched(c.queue[k]) => Ahead(A, c.queue[j], c.queue[k])
    /\ \A j, k \in DOMAIN c.queue : j < k /\ Matched(c.queue[j]) /\ Matched(c.queue[k])
          => Precedes(c.queue[j].slot, c.queue[k].slot)
    /\ \A j \in DOMAIN c.up, k \in DOMAIN c.queue :
          IF Matched(c.queue[k]) THEN Precedes(c.up[j], c.queue[k].slot)
                                 ELSE UpAhead(A, c.up[j], c.queue[k])
    /\ \A j, k \in DOMAIN c.up : j < k => Precedes(c.up[j], c.up[k])

\* The matched nodes stand first, match_cnt is their number, and at most one
\* unmatched node is too many.
Counted(c) ==
    /\ c.match_cnt \in 0..Len(c.queue)
    /\ \A k \in DOMAIN c.queue : Matched(c.queue[k]) <=> k <= c.match_cnt
    /\ Len(c.queue) - c.match_cnt <= MaxUnmatched + 1

\* All but the counts, which hold between the steps of a handler too.
Sound(c, A) ==
    /\ c \in Chan /\ A \subseteq Streams \X Frames
    /\ Placed(c, A) /\ Nodes(c) /\ Ups(c) /\ Ordered(c, A)

\* The invariant of a channel object c to which the frames A have been
\* delivered.
Inv(c, A) == Sound(c, A) /\ Counted(c)

\* Overflow has been dealt with.
Watered(c) == Continuous \/ c.match_cnt <= WaterMark

\* The inductive invariant.
IInv == attr \in Attrs /\ Inv(ch, arrived) /\ Watered(ch)

-----------------------------------------------------------------------------
(* Simple facts about it *)

\* The attributes of the bundle are the numbers the assumption says.
LEMMA Numbers ==
    ASSUME attr \in Attrs
    PROVE  /\ MaxUnmatched \in Nat /\ WaterMark \in Nat /\ LookBack \in Nat
           /\ PostFrameSkip \in Nat /\ FutureWait \in Nat /\ MaxFrame \in Nat /\ MaxRequest \in Nat
           /\ Meta \in Streams /\ IsFiniteSet(Streams)
           /\ ExpectedMax \in Nat
           /\ MaxFrame + PostFrameSkip <= ExpectedMax /\ MaxFrame + FutureWait <= ExpectedMax
<1>1. /\ MaxUnmatched \in Nat /\ WaterMark \in Nat /\ LookBack \in Nat
      /\ PostFrameSkip \in Nat /\ FutureWait \in Nat /\ MaxFrame \in Nat /\ MaxRequest \in Nat
      /\ Meta \in Streams /\ IsFiniteSet(Streams)
  BY SuperbufQueueAssumption
  DEF MaxUnmatched, WaterMark, LookBack, PostFrameSkip, Streams
<1>2. /\ Max({PostFrameSkip, FutureWait}) \in {PostFrameSkip, FutureWait}
      /\ Max({PostFrameSkip, FutureWait}) >= PostFrameSkip
      /\ Max({PostFrameSkip, FutureWait}) >= FutureWait
  <2>1. PostFrameSkip \in Int /\ FutureWait \in Int BY <1>1
  <2> QED BY <2>1, MaxOfTwo
<1> DEFINE m == Max({PostFrameSkip, FutureWait})
<1>3. m \in Nat /\ m >= PostFrameSkip /\ m >= FutureWait BY <1>1, <1>2
<1>4. ExpectedMax = MaxFrame + m BY DEF ExpectedMax
<1> HIDE DEF m
<1> QED BY <1>1, <1>3, <1>4

\* The frames of a queue are those of its nodes.
LEMMA QueueFrames ==
    ASSUME NEW q
    PROVE  \A f : f \in FramesIn(q) <=> \E k \in DOMAIN q : f \in FramesOf(q[k].slot)
BY DEF FramesIn

\* The frames that went up are those of the super buffers that did.
LEMMA UpFrames ==
    ASSUME NEW c
    PROVE  \A f : f \in UpIn(c) <=> \E k \in DOMAIN c.up : f \in FramesOf(c.up[k])
BY DEF UpIn

\* The frames of a super buffer are its slots in use.
LEMMA SlotFrames ==
    ASSUME NEW p
    PROVE  \A f : f \in FramesOf(p) <=> \E s \in Streams : p[s] # 0 /\ f = <<s, p[s]>>
BY DEF FramesOf

\* A stale node stays stale when more frames arrive.
LEMMA StaleGrows ==
    ASSUME NEW A, NEW B, A \subseteq B, NEW n, Stale(A, n)
    PROVE  Stale(B, n)
BY DEF Stale

\* The types of the two sequences of a channel object.
LEMMA ChanIs ==
    ASSUME NEW c \in Chan
    PROVE  /\ c.queue \in Seq(SuperBufs) /\ Len(c.queue) \in Nat
           /\ DOMAIN c.queue = 1..Len(c.queue)
           /\ \A k \in DOMAIN c.queue : c.queue[k] \in SuperBufs
           /\ c.up \in Seq([Streams -> Frames]) /\ Len(c.up) \in Nat
           /\ DOMAIN c.up = 1..Len(c.up)
           /\ \A k \in DOMAIN c.up : c.up[k] \in [Streams -> Frames]
BY DEF Chan

-----------------------------------------------------------------------------
(* Taking nodes out *)

\* d is c with the nodes G taken out and given back; g maps the nodes that stay to
\* their old positions.
Thins(c, d, g, G) ==
    /\ g \in [DOMAIN d.queue -> DOMAIN c.queue] /\ G \in SUBSET DOMAIN c.queue
    /\ \A k \in DOMAIN d.queue : d.queue[k] = c.queue[g[k]] /\ g[k] \notin G
    /\ \A j, k \in DOMAIN d.queue : j < k => g[j] < g[k]
    /\ \A k \in DOMAIN c.queue \ G : \E j \in DOMAIN d.queue : g[j] = k
    /\ d.up = c.up
    /\ d.back = c.back \cup UNION {FramesOf(c.queue[k].slot) : k \in G}

\* Taking any nodes out and giving them back keeps the channel sound.
LEMMA Thinned ==
    ASSUME NEW A, NEW c, NEW d \in Chan, Sound(c, A), NEW g, NEW G, Thins(c, d, g, G)
    PROVE  Sound(d, A)
<1> USE DEF Thins
<1>1. Placed(d, A)
  <2>1. \A f : f \in FramesIn(c.queue) <=>
                 f \in FramesIn(d.queue) \/ f \in UNION {FramesOf(c.queue[k].slot) : k \in G}
    <3>1. \A f : f \in FramesIn(d.queue) => f \in FramesIn(c.queue) BY QueueFrames
    <3>2. \A f : f \in UNION {FramesOf(c.queue[k].slot) : k \in G} => f \in FramesIn(c.queue)
      BY QueueFrames
    <3>3. ASSUME NEW f \in FramesIn(c.queue), f \notin UNION {FramesOf(c.queue[k].slot) : k \in G}
          PROVE f \in FramesIn(d.queue)
      <4>1. PICK k \in DOMAIN c.queue : f \in FramesOf(c.queue[k].slot) BY QueueFrames
      <4>2. k \notin G BY <3>3, <4>1
      <4>3. PICK j \in DOMAIN d.queue : g[j] = k BY <4>2
      <4> QED BY <4>1, <4>3, QueueFrames
    <3> QED BY <3>1, <3>2, <3>3
  <2>2. \A j, k \in DOMAIN d.queue : j # k => g[j] # g[k]
    <3>1. DOMAIN c.queue \subseteq Nat /\ DOMAIN d.queue \subseteq Nat BY ChanIs DEF Sound
    <3> SUFFICES ASSUME NEW j \in DOMAIN d.queue, NEW k \in DOMAIN d.queue, j # k
                 PROVE  g[j] # g[k]
      OBVIOUS
    <3>2. j < k \/ k < j BY <3>1
    <3>3. g[j] < g[k] \/ g[k] < g[j] BY <3>2
    <3> QED BY <3>1, <3>3
  <2>3. \A j, k \in DOMAIN d.queue :
           j # k => FramesOf(d.queue[j].slot) \cap FramesOf(d.queue[k].slot) = {}
    <3> SUFFICES ASSUME NEW j \in DOMAIN d.queue, NEW k \in DOMAIN d.queue, j # k
                 PROVE  FramesOf(d.queue[j].slot) \cap FramesOf(d.queue[k].slot) = {}
      OBVIOUS
    <3>1. g[j] # g[k] BY <2>2
    <3>2. FramesOf(c.queue[g[j]].slot) \cap FramesOf(c.queue[g[k]].slot) = {}
      BY <3>1 DEF Sound, Placed
    <3> QED BY <3>2
  <2>4. FramesIn(d.queue) \cap UNION {FramesOf(c.queue[k].slot) : k \in G} = {}
    <3> SUFFICES ASSUME NEW f \in FramesIn(d.queue), NEW k \in G, f \in FramesOf(c.queue[k].slot)
                 PROVE FALSE
      OBVIOUS
    <3>1. PICK j \in DOMAIN d.queue : f \in FramesOf(d.queue[j].slot) BY QueueFrames
    <3>2. g[j] # k /\ f \in FramesOf(c.queue[g[j]].slot) BY <3>1
    <3> QED BY <3>2 DEF Sound, Placed
  <2>5. UpIn(d) = UpIn(c) BY DEF UpIn
  <2> QED BY <2>1, <2>3, <2>4, <2>5 DEF Sound, Placed
<1>2. Nodes(d) BY DEF Sound, Nodes
<1>3. Ups(d) BY DEF Sound, Ups
<1>4. Ordered(d, A)
  <2> USE DEF Sound, Ordered
  <2>1. \A j, k \in DOMAIN d.queue :
           j < k /\ ~Matched(d.queue[k]) => Ahead(A, d.queue[j], d.queue[k])
    OBVIOUS
  <2>2. \A j, k \in DOMAIN d.queue : j < k /\ Matched(d.queue[j]) /\ Matched(d.queue[k])
          => Precedes(d.queue[j].slot, d.queue[k].slot)
    OBVIOUS
  <2>3. \A j \in DOMAIN d.up, k \in DOMAIN d.queue :
          IF Matched(d.queue[k]) THEN Precedes(d.up[j], d.queue[k].slot)
                                 ELSE UpAhead(A, d.up[j], d.queue[k])
    OBVIOUS
  <2> QED BY <2>1, <2>2, <2>3
<1> QED BY <1>1, <1>2, <1>3, <1>4 DEF Sound

\* The nodes a to b - 1 are taken out and given back.
LEMMA CutOut ==
    ASSUME NEW A, NEW c, NEW d \in Chan, Sound(c, A),
           NEW a \in Nat, NEW b \in Nat, 1 <= a, a <= b, b <= Len(c.queue) + 1,
           Len(d.queue) = Len(c.queue) - (b - a),
           \A k \in 1..a - 1 : d.queue[k] = c.queue[k],
           \A k \in a..Len(d.queue) : d.queue[k] = c.queue[k + (b - a)],
           d.up = c.up,
           d.back = c.back \cup UNION {FramesOf(c.queue[k].slot) : k \in a..b - 1}
    PROVE  Sound(d, A)
<1>1. c \in Chan BY DEF Sound
<1>2. /\ DOMAIN c.queue = 1..Len(c.queue) /\ Len(c.queue) \in Nat
      /\ DOMAIN d.queue = 1..Len(d.queue) /\ Len(d.queue) \in Nat
  BY <1>1, ChanIs
<1> DEFINE g == [k \in DOMAIN d.queue |-> IF k < a THEN k ELSE k + (b - a)]
           G == a..b - 1
<1>3. g \in [DOMAIN d.queue -> DOMAIN c.queue] /\ G \in SUBSET DOMAIN c.queue
  <2>1. \A k \in DOMAIN d.queue : (IF k < a THEN k ELSE k + (b - a)) \in DOMAIN c.queue BY <1>2
  <2>2. G \in SUBSET DOMAIN c.queue BY <1>2
  <2> QED BY <2>1, <2>2
<1>4. \A k \in DOMAIN d.queue : d.queue[k] = c.queue[g[k]] /\ g[k] \notin G
  <2> SUFFICES ASSUME NEW k \in 1..Len(d.queue)
               PROVE  d.queue[k] = c.queue[g[k]] /\ g[k] \notin G
    BY <1>2
  <2>1. CASE k < a
    <3>1. g[k] = k BY <1>2, <2>1
    <3>2. d.queue[k] = c.queue[k] BY <1>2, <2>1
    <3> QED BY <2>1, <3>1, <3>2
  <2>2. CASE k >= a
    <3>1. g[k] = k + (b - a) BY <1>2, <2>2
    <3>2. d.queue[k] = c.queue[k + (b - a)] BY <1>2, <2>2
    <3>3. k + (b - a) \notin G BY <1>2, <2>2
    <3> QED BY <3>1, <3>2, <3>3
  <2> QED BY <1>2, <2>1, <2>2
<1>5. \A j, k \in DOMAIN d.queue : j < k => g[j] < g[k] BY <1>2
<1>6. \A k \in DOMAIN c.queue \ G : \E j \in DOMAIN d.queue : g[j] = k
  <2> SUFFICES ASSUME NEW k \in DOMAIN c.queue, k \notin G
               PROVE  \E j \in DOMAIN d.queue : g[j] = k
    OBVIOUS
  <2>1. CASE k < a
    <3>1. k \in DOMAIN d.queue BY <1>2, <2>1
    <3> QED BY <2>1, <3>1
  <2>2. CASE k >= b
    <3>1. k - (b - a) \in DOMAIN d.queue BY <1>2, <2>2
    <3>2. g[k - (b - a)] = k BY <1>2, <2>2, <3>1
    <3> QED BY <3>1, <3>2
  <2> QED BY <1>2, <2>1, <2>2
<1> HIDE DEF g
<1>7. d.back = c.back \cup UNION {FramesOf(c.queue[k].slot) : k \in G} OBVIOUS
<1> HIDE DEF G
<1>8. Thins(c, d, g, G) BY <1>3, <1>4, <1>5, <1>6, <1>7 DEF Thins
<1> QED BY <1>8, Thinned

\* The frames of a part of the queue.
LEMMA GivenBack ==
    ASSUME NEW q, NEW a \in Nat, NEW b \in Int, q \in Seq(SuperBufs),
           a >= 1, a <= Len(q) + 1, b <= Len(q), b >= 0
    PROVE  FramesIn(SubSeq(q, a, b)) = UNION {FramesOf(q[k].slot) : k \in a..b}
<1> DEFINE r == SubSeq(q, a, b)
<1>1. /\ r \in Seq(SuperBufs) /\ Len(r) = IF a <= b THEN b - a + 1 ELSE 0
      /\ \A k \in 1..b - a + 1 : r[k] = q[a + k - 1]
  BY SubSeqIs
<1>2. DOMAIN r = 1..(b - a + 1) BY <1>1
<1> HIDE DEF r
<1>3. \A f : f \in FramesIn(r) <=> \E k \in a..b : f \in FramesOf(q[k].slot)
  <2> SUFFICES ASSUME NEW f
               PROVE  f \in FramesIn(r) <=> \E k \in a..b : f \in FramesOf(q[k].slot)
    OBVIOUS
  <2>1. ASSUME f \in FramesIn(r) PROVE \E k \in a..b : f \in FramesOf(q[k].slot)
    <3>1. PICK k \in DOMAIN r : f \in FramesOf(r[k].slot) BY <2>1, QueueFrames
    <3>2. a + k - 1 \in a..b /\ r[k] = q[a + k - 1] BY <1>1, <1>2
    <3> QED BY <3>1, <3>2
  <2>2. ASSUME NEW k \in a..b, f \in FramesOf(q[k].slot) PROVE f \in FramesIn(r)
    <3>1. k - a + 1 \in DOMAIN r /\ r[k - a + 1] = q[k] BY <1>1, <1>2
    <3> QED BY <2>2, <3>1, QueueFrames
  <2> QED BY <2>1, <2>2
<1> QED BY <1>3 DEF r

\* With the matched nodes in front, match_cnt super buffers can be taken in a
\* row, and match_cnt counts the matched ones.
LEMMA ReadyIs ==
    ASSUME NEW c \in Chan, Counted(c)
    PROVE  /\ Ready(c) = c.match_cnt
           /\ Cardinality({k \in DOMAIN c.queue : Matched(c.queue[k])}) = c.match_cnt
           /\ Cardinality({k \in DOMAIN c.queue : ~Matched(c.queue[k])})
                = Len(c.queue) - c.match_cnt
<1>1. DOMAIN c.queue = 1..Len(c.queue) /\ Len(c.queue) \in Nat BY ChanIs
<1>2. /\ c.match_cnt \in Nat /\ c.match_cnt <= Len(c.queue)
      /\ \A k \in DOMAIN c.queue : Matched(c.queue[k]) <=> k <= c.match_cnt
  BY <1>1 DEF Counted
<1>3. {i \in DOMAIN c.queue : \A j \in 1..i : Matched(c.queue[j])} = 1..c.match_cnt
  <2>1. ASSUME NEW i \in DOMAIN c.queue
        PROVE  (\A j \in 1..i : Matched(c.queue[j])) <=> i <= c.match_cnt
    <3>1. ASSUME i <= c.match_cnt, NEW j \in 1..i PROVE Matched(c.queue[j])
      BY <1>1, <1>2, <3>1
    <3>2. ASSUME \A j \in 1..i : Matched(c.queue[j]) PROVE i <= c.match_cnt
      <4>1. i \in 1..i BY <1>1
      <4> QED BY <1>2, <3>2, <4>1
    <3> QED BY <3>1, <3>2
  <2> QED BY <1>1, <1>2, <2>1
<1>4. {k \in DOMAIN c.queue : Matched(c.queue[k])} = 1..c.match_cnt BY <1>1, <1>2
<1>5. {k \in DOMAIN c.queue : ~Matched(c.queue[k])} = c.match_cnt + 1..Len(c.queue) BY <1>1, <1>2
<1>6. Cardinality(1..c.match_cnt) = c.match_cnt BY <1>2, FS_Interval
<1>7. Cardinality(c.match_cnt + 1..Len(c.queue)) = Len(c.queue) - c.match_cnt
  <2>1. c.match_cnt + 1 \in Int /\ Len(c.queue) \in Int BY <1>1, <1>2
  <2>2. Cardinality(c.match_cnt + 1..Len(c.queue)) =
          IF c.match_cnt + 1 > Len(c.queue) THEN 0 ELSE Len(c.queue) - (c.match_cnt + 1) + 1
    BY <2>1, FS_Interval
  <2> QED BY <1>1, <1>2, <2>2
<1> QED BY <1>3, <1>4, <1>5, <1>6, <1>7 DEF Ready

\* The loop of mm_channel_superbuf_skip() and of bufdone_overflow() ends and
\* leaves at most limit matched nodes.
LEMMA Dropped ==
    ASSUME attr \in Attrs, NEW A, NEW c, Inv(c, A), NEW limit \in Nat
    PROVE  /\ Inv(DropAbove(c, limit), A)
           /\ DropAbove(c, limit).match_cnt <= limit
<1> DEFINE n == Min({Ready(c), Max({c.match_cnt - limit, 0})})
<1>1. /\ c \in Chan /\ Sound(c, A) /\ Counted(c) /\ c.match_cnt \in Nat
      /\ c.match_cnt <= Len(c.queue) /\ Len(c.queue) \in Nat /\ DOMAIN c.queue = 1..Len(c.queue)
  <2>1. c \in Chan BY DEF Inv, Sound
  <2> QED BY <2>1, ChanIs DEF Inv, Counted
<1>2. n \in Nat /\ n <= c.match_cnt /\ c.match_cnt - n <= limit
  <2>1. Ready(c) = c.match_cnt BY <1>1, ReadyIs
  <2> DEFINE m == Max({c.match_cnt - limit, 0})
  <2>2. m \in {c.match_cnt - limit, 0} /\ m >= c.match_cnt - limit /\ m >= 0
    <3>1. c.match_cnt - limit \in Int /\ 0 \in Int BY <1>1
    <3> QED BY <3>1, MaxOfTwo
  <2>3. n = Min({c.match_cnt, m}) BY <2>1
  <2>4. m \in Int /\ c.match_cnt \in Int BY <1>1, <2>2
  <2> HIDE DEF m, n
  <2>5. n \in {c.match_cnt, m} /\ n <= c.match_cnt /\ n <= m BY <1>1, <2>3, <2>4, MinOfTwo
  <2> QED BY <1>1, <2>2, <2>5
<1> HIDE DEF n
<1> DEFINE b == c.back \cup FramesIn(SubSeq(c.queue, 1, n))
           q == SubSeq(c.queue, n + 1, Len(c.queue))
           d == DropAbove(c, limit)
<1>3. b = c.back \cup UNION {FramesOf(c.queue[k].slot) : k \in 1..n}
  <2>1. c.queue \in Seq(SuperBufs) BY <1>1, ChanIs
  <2>2. n \in Int /\ n >= 0 /\ n <= Len(c.queue) /\ 1 <= Len(c.queue) + 1 BY <1>1, <1>2
  <2>3. FramesIn(SubSeq(c.queue, 1, n)) = UNION {FramesOf(c.queue[k].slot) : k \in 1..n}
    BY <2>1, <2>2, GivenBack
  <2> QED BY <2>3
<1>4. b \in SUBSET (Streams \X Frames)
  <2>1. c.back \in SUBSET (Streams \X Frames) BY <1>1 DEF Chan
  <2>2. \A k \in 1..n : \A f \in FramesOf(c.queue[k].slot) : f \in Streams \X Frames
    <3>1. \A k \in 1..n : k \in DOMAIN c.queue BY <1>1, <1>2
    <3> QED BY <1>1, <3>1, QueueFrames DEF Sound, Placed
  <2> QED BY <1>3, <2>1, <2>2
<1>5. /\ q \in Seq(SuperBufs) /\ Len(q) = Len(c.queue) - n
      /\ \A k \in 1..Len(c.queue) - n : q[k] = c.queue[k + n]
  <2>1. c.queue \in Seq(SuperBufs) BY <1>1, ChanIs
  <2> QED BY <1>1, <1>2, <2>1
<1>6. /\ d = [c EXCEPT !.queue = q, !.match_cnt = c.match_cnt - n, !.back = b,
                       !.spinning = c.match_cnt - n > limit]
  BY <1>1 DEF DropAbove, Qbuf, Dequeue, Chan, n
<1> HIDE DEF b, q, d
<1>x. PICK m \in Int : m = c.match_cnt - n BY <1>1, <1>2
<1>7. /\ d \in Chan /\ d.queue = q /\ d.match_cnt = c.match_cnt - n /\ d.back = b /\ d.up = c.up
  <2>1. (c.match_cnt - n > limit) = FALSE BY <1>1, <1>2
  <2>2. d = [c EXCEPT !.queue = q, !.match_cnt = m, !.back = b, !.spinning = FALSE]
    BY <1>6, <1>x, <2>1
  <2>3. q \in Seq(SuperBufs) BY <1>5
  <2>4. c \in Chan BY <1>1
  <2> QED BY <1>4, <1>x, <2>2, <2>3, <2>4 DEF Chan
<1>8. Sound(d, A)
  <2>a. PICK a \in Nat : a = 1 OBVIOUS
  <2>b. PICK z \in Nat : z = n + 1 BY <1>2
  <2>1. 1 <= a /\ a <= z /\ z <= Len(c.queue) + 1 BY <1>1, <1>2, <2>a, <2>b
  <2>2. Len(d.queue) = Len(c.queue) - (z - a) BY <1>1, <1>2, <1>5, <1>7, <2>a, <2>b
  <2>3. \A k \in a..Len(d.queue) : d.queue[k] = c.queue[k + (z - a)]
    <3>1. z - a = n BY <1>2, <2>a, <2>b
    <3> QED BY <1>1, <1>2, <1>5, <1>7, <2>a, <3>1
  <2>4. \A k \in 1..a - 1 : d.queue[k] = c.queue[k] BY <2>a
  <2>5. d.back = c.back \cup UNION {FramesOf(c.queue[k].slot) : k \in a..z - 1}
    <3>1. z - 1 = n BY <1>2, <2>b
    <3> QED BY <1>3, <1>7, <2>a, <3>1
  <2>6. d \in Chan /\ d.up = c.up /\ Sound(c, A) BY <1>1, <1>7
  <2> QED BY <2>1, <2>2, <2>3, <2>4, <2>5, <2>6, CutOut
<1>9. Counted(d)
  <2>1. /\ Len(d.queue) = Len(c.queue) - n /\ DOMAIN d.queue = 1..Len(d.queue)
        /\ \A k \in DOMAIN d.queue : d.queue[k] = c.queue[k + n]
    BY <1>1, <1>2, <1>5, <1>7, ChanIs
  <2>2. \A k \in DOMAIN d.queue : Matched(d.queue[k]) <=> k <= d.match_cnt
    <3> SUFFICES ASSUME NEW k \in 1..Len(d.queue)
                 PROVE  Matched(d.queue[k]) <=> k <= d.match_cnt
      BY <2>1
    <3>1. d.queue[k] = c.queue[k + n] /\ k + n \in DOMAIN c.queue
      <4>1. k \in DOMAIN d.queue BY <2>1
      <4>2. k + n \in 1..Len(c.queue) BY <1>1, <1>2, <2>1
      <4> QED BY <1>1, <2>1, <4>1, <4>2
    <3>2. Matched(c.queue[k + n]) <=> k + n <= c.match_cnt BY <1>1, <3>1 DEF Counted
    <3>3. k + n <= c.match_cnt <=> k <= d.match_cnt BY <1>1, <1>2, <1>7
    <3> QED BY <3>1, <3>2, <3>3
  <2>3. d.match_cnt \in 0..Len(d.queue) BY <1>1, <1>2, <1>7, <2>1
  <2>4. Len(d.queue) - d.match_cnt <= MaxUnmatched + 1
    <3>1. Len(c.queue) - c.match_cnt <= MaxUnmatched + 1 BY <1>1 DEF Counted
    <3>2. MaxUnmatched \in Nat BY Numbers
    <3> QED BY <1>1, <1>2, <1>7, <2>1, <3>1, <3>2
  <2> QED BY <2>2, <2>3, <2>4 DEF Counted
<1>10. d.match_cnt <= limit BY <1>1, <1>2, <1>7
<1> QED BY <1>8, <1>9, <1>10 DEF Inv, d

\* mm_channel_superbuf_flush() gives every node back and leaves match_cnt at 0.
LEMMA Flushed ==
    ASSUME attr \in Attrs, NEW A, NEW c, Inv(c, A)
    PROVE  /\ Inv(Flush(c), A) /\ Flush(c).match_cnt = 0
           /\ Flush(c).pending_cnt = c.pending_cnt
<1>1. /\ c \in Chan /\ Sound(c, A) /\ Counted(c) /\ c.match_cnt \in Nat
      /\ c.queue \in Seq(SuperBufs) /\ Len(c.queue) \in Nat /\ DOMAIN c.queue = 1..Len(c.queue)
  <2>1. c \in Chan BY DEF Inv, Sound
  <2> QED BY <2>1, ChanIs DEF Inv, Counted
<1> DEFINE d == Flush(c)
           b == c.back \cup FramesIn(c.queue)
<1>2. b \in SUBSET (Streams \X Frames) BY <1>1 DEF Sound, Placed
<1>3. Cardinality({k \in DOMAIN c.queue : Matched(c.queue[k])}) = c.match_cnt BY <1>1, ReadyIs
<1>4. d = [c EXCEPT !.queue = <<>>, !.match_cnt = c.match_cnt - c.match_cnt, !.back = b]
  BY <1>1, <1>3 DEF Flush, Qbuf, Chan
<1>b. b = c.back \cup UNION {FramesOf(c.queue[k].slot) : k \in 1..Len(c.queue)}
  BY <1>1 DEF FramesIn
<1> HIDE DEF b
<1>5. /\ d \in Chan /\ d.queue = <<>> /\ d.match_cnt = 0 /\ d.back = b /\ d.up = c.up
      /\ d.pending_cnt = c.pending_cnt
  <2>1. c.match_cnt - c.match_cnt = 0 /\ <<>> \in Seq(SuperBufs) BY <1>1
  <2>2. PICK q \in Seq(SuperBufs) : q = <<>> BY <2>1
  <2>z. PICK m \in Int : m = 0 OBVIOUS
  <2>3. d = [c EXCEPT !.queue = q, !.match_cnt = m, !.back = b] BY <1>4, <2>1, <2>2, <2>z
  <2>4. c \in Chan /\ q \in Seq(SuperBufs) /\ m \in Int BY <1>1, <2>2
  <2> HIDE DEF d
  <2>5. d.queue = q /\ d.match_cnt = m /\ d.back = b /\ d.up = c.up
        /\ d.pending_cnt = c.pending_cnt
    BY <1>2, <2>3, <2>4 DEF Chan
  <2>6. d \in Chan BY <1>2, <2>3, <2>4 DEF Chan
  <2> QED BY <2>2, <2>z, <2>5, <2>6
<1> HIDE DEF d
<1>6. Sound(d, A)
  <2>a. PICK a \in Nat : a = 1 OBVIOUS
  <2>b. PICK z \in Nat : z = Len(c.queue) + 1 BY <1>1
  <2>0. Len(d.queue) = 0 BY <1>5
  <2>1. 1 <= a /\ a <= z /\ z <= Len(c.queue) + 1 BY <1>1, <2>a, <2>b
  <2>2. Len(d.queue) = Len(c.queue) - (z - a) BY <1>1, <2>0, <2>a, <2>b
  <2>3. \A k \in a..Len(d.queue) : d.queue[k] = c.queue[k + (z - a)] BY <2>0, <2>a
  <2>4. \A k \in 1..a - 1 : d.queue[k] = c.queue[k] BY <2>a
  <2>5. d.back = c.back \cup UNION {FramesOf(c.queue[k].slot) : k \in a..z - 1}
    <3>1. z - 1 = Len(c.queue) BY <1>1, <2>b
    <3> QED BY <1>b, <1>5, <2>a, <3>1
  <2>6. d \in Chan /\ d.up = c.up /\ Sound(c, A) BY <1>1, <1>5
  <2> QED BY <2>1, <2>2, <2>3, <2>4, <2>5, <2>6, CutOut
<1>7. Counted(d)
  <2>1. Len(d.queue) = 0 /\ DOMAIN d.queue = {} BY <1>5
  <2> QED BY <1>5, <2>1, Numbers DEF Counted
<1> QED BY <1>5, <1>6, <1>7 DEF Inv, d

-----------------------------------------------------------------------------
(* Matched nodes; frames given back at once *)

\* A matched node is a complete super buffer and is not stale.
LEMMA MatchedNode ==
    ASSUME attr \in Attrs, NEW n \in SuperBufs, NodeOk(n), Matched(n)
    PROVE  /\ SlotOk(n.slot)
           /\ \A t \in Streams : Exact(t) => n.slot[t] = n.frame_idx
           /\ \A A : ~Stale(A, n)
           /\ n.slot[Meta] # 0
<1>1. Meta \in Streams BY Numbers
<1>2. \A t \in Streams : n.slot[t] # 0 BY DEF Matched
<1>3. \A t \in Streams : Exact(t) => n.slot[t] = n.frame_idx BY <1>2 DEF NodeOk
<1>4. \A A : ~Stale(A, n) BY <1>2 DEF Stale
<1>5. n.slot \in [Streams -> Frames] /\ n.frame_idx \in Nat BY DEF SuperBufs, Frames
<1>6. \A t \in Streams : n.slot[t] <= n.slot[Meta]
  <2> SUFFICES ASSUME NEW t \in Streams PROVE n.slot[t] <= n.slot[Meta] OBVIOUS
  <2>1. n.slot[t] \in Nat /\ n.slot[Meta] \in Nat BY <1>1, <1>5 DEF Frames
  <2>2. CASE t = Meta BY <2>1, <2>2
  <2>3. CASE t # Meta
    <3>1. n.slot[t] = n.frame_idx BY <1>3, <2>3 DEF Exact
    <3>2. CASE LowPriority BY <1>1, <1>2, <3>1, <3>2 DEF NodeOk
    <3>3. CASE ~LowPriority
      <4>1. n.slot[Meta] = n.frame_idx BY <1>1, <1>3, <3>3 DEF Exact
      <4> QED BY <2>1, <3>1, <4>1
    <3> QED BY <3>2, <3>3
  <2> QED BY <2>2, <2>3
<1> QED BY <1>1, <1>2, <1>3, <1>4, <1>6 DEF SlotOk

\* What a matched node is ahead of stays behind it when it goes up.
LEMMA MatchedAhead ==
    ASSUME attr \in Attrs, NEW A, NEW n \in SuperBufs, NodeOk(n), Matched(n), NEW r, Ahead(A, n, r)
    PROVE  UpAhead(A, n.slot, r)
<1>1. /\ \A t \in Streams : Exact(t) => n.slot[t] = n.frame_idx
      /\ ~Stale(A, n) /\ n.slot[Meta] # 0
  BY MatchedNode
<1>2. CASE Stale(A, r) BY <1>2 DEF UpAhead
<1>3. CASE ~Stale(A, r) BY <1>1, <1>3 DEF UpAhead, Ahead
<1> QED BY <1>2, <1>3

\* The order survives the arrival of frames.
LEMMA OrderedGrows ==
    ASSUME NEW c, NEW A, NEW B, A \subseteq B, Ordered(c, A)
    PROVE  Ordered(c, B)
<1>1. \A n, r : Ahead(A, n, r) => Ahead(B, n, r) BY StaleGrows DEF Ahead
<1>2. \A p, r : UpAhead(A, p, r) => UpAhead(B, p, r) BY StaleGrows DEF UpAhead
<1> QED BY <1>1, <1>2 DEF Ordered

\* Only frames that have arrived are in the queue or went up.
LEMMA InArrived ==
    ASSUME NEW A, NEW c, Sound(c, A)
    PROVE  /\ \A k \in DOMAIN c.queue, s \in Streams :
                c.queue[k].slot[s] # 0 => <<s, c.queue[k].slot[s]>> \in A
           /\ \A k \in DOMAIN c.up, s \in Streams : c.up[k][s] # 0 => <<s, c.up[k][s]>> \in A
<1>1. ASSUME NEW k \in DOMAIN c.queue, NEW s \in Streams, c.queue[k].slot[s] # 0
      PROVE  <<s, c.queue[k].slot[s]>> \in A
  <2>1. <<s, c.queue[k].slot[s]>> \in FramesOf(c.queue[k].slot) BY <1>1, SlotFrames
  <2>2. <<s, c.queue[k].slot[s]>> \in FramesIn(c.queue) BY <2>1, QueueFrames
  <2> QED BY <2>2 DEF Sound, Placed
<1>2. ASSUME NEW k \in DOMAIN c.up, NEW s \in Streams, c.up[k][s] # 0
      PROVE  <<s, c.up[k][s]>> \in A
  <2>1. <<s, c.up[k][s]>> \in FramesOf(c.up[k]) BY <1>2, SlotFrames
  <2>2. <<s, c.up[k][s]>> \in UpIn(c) BY <2>1, UpFrames
  <2> QED BY <2>2 DEF Sound, Placed
<1> QED BY <1>1, <1>2

\* A frame that goes straight back to its stream changes nothing else.
LEMMA GivenBackAtOnce ==
    ASSUME attr \in Attrs, NEW A, NEW c, Inv(c, A), NEW f \in Streams \X Frames, f \notin A
    PROVE  Inv(Qbuf(c, {f}), A \cup {f})
<1> DEFINE d == Qbuf(c, {f})
           b == c.back \cup {f}
           B == A \cup {f}
<1>1. c \in Chan /\ Sound(c, A) /\ Counted(c) BY DEF Inv, Sound
<1>2. d = [c EXCEPT !.back = b] BY <1>1 DEF Qbuf, Chan
<1>3. b \in SUBSET (Streams \X Frames) /\ B \subseteq Streams \X Frames BY <1>1 DEF Chan, Sound
<1> HIDE DEF b, d
<1>4. d \in Chan BY <1>1, <1>2, <1>3 DEF Chan
<1>5. d.queue = c.queue /\ d.up = c.up /\ d.match_cnt = c.match_cnt /\ d.back = b
  BY <1>1, <1>2 DEF Chan
<1>6. Placed(d, B) BY <1>1, <1>5 DEF Sound, Placed, UpIn, b
<1>7. Ordered(d, B)
  <2>1. Ordered(c, B) BY <1>1, OrderedGrows DEF Sound
  <2> QED BY <1>5, <2>1 DEF Ordered
<1>8. Nodes(d) /\ Ups(d) /\ Counted(d) BY <1>1, <1>5 DEF Sound, Nodes, Ups, Counted
<1> QED BY <1>3, <1>4, <1>6, <1>7, <1>8 DEF Inv, Sound, d

-----------------------------------------------------------------------------
(* Going up *)

\* Sending the first n nodes up, all matched, keeps the channel sound.
LEMMA SentUp ==
    ASSUME attr \in Attrs, NEW A, NEW c, NEW d \in Chan, Sound(c, A),
           NEW n \in Nat, n <= Len(c.queue),
           \A k \in 1..n : Matched(c.queue[k]),
           Len(d.queue) = Len(c.queue) - n,
           \A k \in 1..Len(d.queue) : d.queue[k] = c.queue[k + n],
           Len(d.up) = Len(c.up) + n,
           \A k \in 1..Len(c.up) : d.up[k] = c.up[k],
           \A k \in 1..n : d.up[Len(c.up) + k] = c.queue[k].slot,
           d.back = c.back
    PROVE  Sound(d, A)
<1>1. c \in Chan BY DEF Sound
<1>2. /\ DOMAIN c.queue = 1..Len(c.queue) /\ Len(c.queue) \in Nat
      /\ DOMAIN d.queue = 1..Len(d.queue) /\ Len(d.queue) \in Nat
      /\ DOMAIN c.up = 1..Len(c.up) /\ Len(c.up) \in Nat
      /\ DOMAIN d.up = 1..Len(d.up) /\ Len(d.up) \in Nat
      /\ \A k \in DOMAIN c.queue : c.queue[k] \in SuperBufs
  BY <1>1, ChanIs
<1> DEFINE m == Len(c.up)
\* Where the super buffers of d come from.
<1>3. ASSUME NEW k \in DOMAIN d.queue
      PROVE  k + n \in DOMAIN c.queue /\ d.queue[k] = c.queue[k + n]
  <2>1. k \in 1..Len(d.queue) BY <1>2
  <2>2. k + n \in 1..Len(c.queue) BY <1>2, <2>1
  <2> QED BY <1>2, <2>1, <2>2
<1>a. ASSUME NEW k \in DOMAIN d.up, k <= m PROVE k \in DOMAIN c.up /\ d.up[k] = c.up[k]
  BY <1>2, <1>a
<1>b. ASSUME NEW k \in DOMAIN d.up, k > m
      PROVE  k - m \in 1..n /\ d.up[k] = c.queue[k - m].slot
  <2>1. k \in Nat /\ k >= 1 /\ k <= m + n BY <1>2
  <2>2. k - m \in 1..n BY <1>2, <1>b, <2>1
  <2>3. m + (k - m) = k BY <1>2, <2>1
  <2>4. d.up[m + (k - m)] = c.queue[k - m].slot BY <2>2
  <2> QED BY <2>2, <2>3, <2>4
<1>4. \A k \in DOMAIN d.up : \/ k \in DOMAIN c.up /\ d.up[k] = c.up[k]
                             \/ k - m \in 1..n /\ d.up[k] = c.queue[k - m].slot
  <2> SUFFICES ASSUME NEW k \in DOMAIN d.up
               PROVE  \/ k \in DOMAIN c.up /\ d.up[k] = c.up[k]
                      \/ k - m \in 1..n /\ d.up[k] = c.queue[k - m].slot
    OBVIOUS
  <2>1. CASE k <= m BY <1>a, <2>1
  <2>2. CASE k > m BY <1>b, <2>2
  <2> QED BY <1>2, <2>1, <2>2
<1>5. \A k \in 1..n : k \in DOMAIN c.queue BY <1>2
<1>6. Placed(d, A)
  <2>1. \A f \in FramesIn(d.queue) : f \in FramesIn(c.queue)
    <3> SUFFICES ASSUME NEW f \in FramesIn(d.queue) PROVE f \in FramesIn(c.queue) OBVIOUS
    <3>1. PICK k \in DOMAIN d.queue : f \in FramesOf(d.queue[k].slot) BY QueueFrames
    <3> QED BY <1>3, <3>1, QueueFrames
  <2>2. \A f \in UpIn(d) : f \in UpIn(c) \/ \E k \in 1..n : f \in FramesOf(c.queue[k].slot)
    <3> SUFFICES ASSUME NEW f \in UpIn(d)
                 PROVE  f \in UpIn(c) \/ \E k \in 1..n : f \in FramesOf(c.queue[k].slot)
      OBVIOUS
    <3>1. PICK k \in DOMAIN d.up : f \in FramesOf(d.up[k]) BY UpFrames
    <3>2. CASE k \in DOMAIN c.up /\ d.up[k] = c.up[k] BY <3>1, <3>2, UpFrames
    <3>3. CASE k - m \in 1..n /\ d.up[k] = c.queue[k - m].slot BY <3>1, <3>3
    <3> QED BY <1>4, <3>2, <3>3
  <2>3. \A f \in UpIn(c) : f \in UpIn(d)
    <3> SUFFICES ASSUME NEW f \in UpIn(c) PROVE f \in UpIn(d) OBVIOUS
    <3>1. PICK k \in DOMAIN c.up : f \in FramesOf(c.up[k]) BY UpFrames
    <3>2. k \in DOMAIN d.up /\ d.up[k] = c.up[k] BY <1>2
    <3> QED BY <3>1, <3>2, UpFrames
  <2>4. \A k \in 1..n : \A f \in FramesOf(c.queue[k].slot) : f \in UpIn(d)
    <3> SUFFICES ASSUME NEW k \in 1..n, NEW f \in FramesOf(c.queue[k].slot) PROVE f \in UpIn(d)
      OBVIOUS
    <3>1. m + k \in DOMAIN d.up /\ d.up[m + k] = c.queue[k].slot BY <1>2
    <3> QED BY <3>1, UpFrames
  <2>5. \A f \in FramesIn(c.queue) :
          f \in FramesIn(d.queue) \/ \E k \in 1..n : f \in FramesOf(c.queue[k].slot)
    <3> SUFFICES ASSUME NEW f \in FramesIn(c.queue)
                 PROVE  f \in FramesIn(d.queue) \/ \E k \in 1..n : f \in FramesOf(c.queue[k].slot)
      OBVIOUS
    <3>1. PICK k \in DOMAIN c.queue : f \in FramesOf(c.queue[k].slot) BY QueueFrames
    <3>2. CASE k <= n BY <1>2, <3>1, <3>2
    <3>3. CASE k > n
      <4>1. k - n \in DOMAIN d.queue /\ (k - n) + n = k BY <1>2, <3>3
      <4>2. d.queue[k - n] = c.queue[k] BY <1>3, <4>1
      <4> QED BY <3>1, <4>1, <4>2, QueueFrames
    <3> QED BY <1>2, <3>2, <3>3
  <2>6. \A k \in 1..n : \A f \in FramesOf(c.queue[k].slot) : f \in FramesIn(c.queue)
    BY <1>5, QueueFrames
  <2>7. A = FramesIn(d.queue) \cup UpIn(d) \cup d.back
    <3>1. A = FramesIn(c.queue) \cup UpIn(c) \cup c.back BY DEF Sound, Placed
    <3> QED BY <2>1, <2>2, <2>3, <2>4, <2>5, <2>6, <3>1
  <2>8. (FramesIn(d.queue) \cup UpIn(d)) \cap d.back = {}
    <3>1. (FramesIn(c.queue) \cup UpIn(c)) \cap c.back = {} BY DEF Sound, Placed
    <3> QED BY <2>1, <2>2, <2>6, <3>1
  <2>9. FramesIn(d.queue) \cap UpIn(d) = {}
    <3> SUFFICES ASSUME NEW f \in FramesIn(d.queue), f \in UpIn(d) PROVE FALSE OBVIOUS
    <3>1. FramesIn(c.queue) \cap UpIn(c) = {} BY DEF Sound, Placed
    <3>2. PICK k \in 1..n : f \in FramesOf(c.queue[k].slot) BY <2>1, <2>2, <3>1
    <3>3. PICK j \in DOMAIN d.queue : f \in FramesOf(d.queue[j].slot) BY QueueFrames
    <3>4. j + n \in DOMAIN c.queue /\ d.queue[j] = c.queue[j + n] /\ j + n # k BY <1>2, <1>3
    <3>5. FramesOf(c.queue[j + n].slot) \cap FramesOf(c.queue[k].slot) = {}
      BY <1>5, <3>4 DEF Sound, Placed
    <3> QED BY <3>2, <3>3, <3>4, <3>5
  <2>10. \A j, k \in DOMAIN d.queue :
           j # k => FramesOf(d.queue[j].slot) \cap FramesOf(d.queue[k].slot) = {}
    <3> SUFFICES ASSUME NEW j \in DOMAIN d.queue, NEW k \in DOMAIN d.queue, j # k
                 PROVE  FramesOf(d.queue[j].slot) \cap FramesOf(d.queue[k].slot) = {}
      OBVIOUS
    <3>1. j + n # k + n BY <1>2
    <3>2. FramesOf(c.queue[j + n].slot) \cap FramesOf(c.queue[k + n].slot) = {}
      BY <1>3, <3>1 DEF Sound, Placed
    <3> QED BY <1>3, <3>2
  <2>11. \A j, k \in DOMAIN d.up : j # k => FramesOf(d.up[j]) \cap FramesOf(d.up[k]) = {}
    <3>0. \A j, k \in DOMAIN d.up : j # k => j < k \/ k < j BY <1>2
    <3> SUFFICES ASSUME NEW j \in DOMAIN d.up, NEW k \in DOMAIN d.up, j < k
                 PROVE  FramesOf(d.up[j]) \cap FramesOf(d.up[k]) = {}
      BY <3>0
    <3>1. CASE k <= m
      <4>1. /\ j \in DOMAIN c.up /\ d.up[j] = c.up[j] /\ k \in DOMAIN c.up /\ d.up[k] = c.up[k]
            /\ j # k
        BY <1>2, <3>1
      <4> QED BY <4>1 DEF Sound, Placed
    <3>2. CASE k > m
      <4>1. k - m \in 1..n /\ d.up[k] = c.queue[k - m].slot BY <1>b, <3>2
      <4>2. CASE j <= m
        <5>1. j \in DOMAIN c.up /\ d.up[j] = c.up[j] BY <1>2, <4>2
        <5>2. \A f \in FramesOf(d.up[j]) : f \in UpIn(c) BY <5>1, UpFrames
        <5>3. \A f \in FramesOf(d.up[k]) : f \in FramesIn(c.queue) BY <2>6, <4>1
        <5> QED BY <5>2, <5>3 DEF Sound, Placed
      <4>3. CASE j > m
        <5>1. j - m \in 1..n /\ d.up[j] = c.queue[j - m].slot BY <1>b, <4>3
        <5>2. j - m # k - m BY <1>2
        <5> QED BY <1>5, <4>1, <5>1, <5>2 DEF Sound, Placed
      <4> QED BY <1>2, <4>2, <4>3
    <3> QED BY <1>2, <3>1, <3>2
  <2> QED BY <2>7, <2>8, <2>9, <2>10, <2>11 DEF Placed
<1>7. Nodes(d) BY <1>3 DEF Sound, Nodes
<1>8. Ups(d)
  <2> SUFFICES ASSUME NEW k \in DOMAIN d.up PROVE SlotOk(d.up[k]) BY DEF Ups
  <2>1. CASE k \in DOMAIN c.up /\ d.up[k] = c.up[k] BY <2>1 DEF Sound, Ups
  <2>2. CASE k - m \in 1..n /\ d.up[k] = c.queue[k - m].slot
    <3>1. /\ c.queue[k - m] \in SuperBufs /\ NodeOk(c.queue[k - m]) /\ Matched(c.queue[k - m])
      BY <1>2, <1>5, <2>2 DEF Sound, Nodes
    <3> QED BY <2>2, <3>1, MatchedNode
  <2> QED BY <1>4, <2>1, <2>2
<1>9. Ordered(d, A)
  <2>0. Ordered(c, A) /\ Nodes(c) BY DEF Sound
  <2>1. ASSUME NEW j \in DOMAIN d.queue, NEW k \in DOMAIN d.queue, j < k
        PROVE  /\ ~Matched(d.queue[k]) => Ahead(A, d.queue[j], d.queue[k])
               /\ Matched(d.queue[j]) /\ Matched(d.queue[k])
                    => Precedes(d.queue[j].slot, d.queue[k].slot)
    <3>1. j + n < k + n BY <1>2, <2>1
    <3> QED BY <1>3, <2>0, <3>1 DEF Ordered
  <2>2. ASSUME NEW j \in DOMAIN d.up, NEW k \in DOMAIN d.queue
        PROVE  IF Matched(d.queue[k]) THEN Precedes(d.up[j], d.queue[k].slot)
                                      ELSE UpAhead(A, d.up[j], d.queue[k])
    <3>1. CASE j \in DOMAIN c.up /\ d.up[j] = c.up[j] BY <1>3, <2>0, <3>1 DEF Ordered
    <3>2. CASE j - m \in 1..n /\ d.up[j] = c.queue[j - m].slot
      <4> DEFINE p == c.queue[j - m]
                 r == c.queue[k + n]
      <4>1. j - m \in DOMAIN c.queue /\ k + n \in DOMAIN c.queue /\ j - m < k + n
        BY <1>2, <1>3, <1>5, <3>2
      <4>2. p \in SuperBufs /\ NodeOk(p) /\ Matched(p) /\ d.up[j] = p.slot /\ d.queue[k] = r
        BY <1>2, <1>3, <2>0, <3>2, <4>1 DEF Nodes
      <4>3. /\ ~Matched(r) => Ahead(A, p, r)
            /\ Matched(r) => Precedes(p.slot, r.slot)
        BY <2>0, <4>1, <4>2 DEF Ordered
      <4> HIDE DEF p, r
      <4> QED BY <4>2, <4>3, MatchedAhead
    <3> QED BY <1>4, <3>1, <3>2
  <2>3. ASSUME NEW j \in DOMAIN d.up, NEW k \in DOMAIN d.up, j < k
        PROVE  Precedes(d.up[j], d.up[k])
    <3>1. CASE k <= m
      <4>1. /\ j \in DOMAIN c.up /\ d.up[j] = c.up[j] /\ k \in DOMAIN c.up /\ d.up[k] = c.up[k]
        BY <1>2, <2>3, <3>1
      <4> QED BY <2>0, <2>3, <4>1 DEF Ordered
    <3>2. CASE k > m
      <4>1. k - m \in 1..n /\ d.up[k] = c.queue[k - m].slot BY <1>b, <3>2
      <4>2. k - m \in DOMAIN c.queue /\ Matched(c.queue[k - m]) BY <1>5, <4>1
      <4>3. CASE j <= m
        <5>1. j \in DOMAIN c.up /\ d.up[j] = c.up[j] BY <1>2, <4>3
        <5> QED BY <2>0, <4>1, <4>2, <5>1 DEF Ordered
      <4>4. CASE j > m
        <5>1. j - m \in 1..n /\ d.up[j] = c.queue[j - m].slot BY <1>b, <4>4
        <5>2. j - m \in DOMAIN c.queue /\ Matched(c.queue[j - m]) BY <1>5, <5>1
        <5>3. j - m < k - m BY <1>2, <2>3
        <5> QED BY <2>0, <4>1, <4>2, <5>1, <5>2, <5>3 DEF Ordered
      <4> QED BY <1>2, <4>3, <4>4
    <3> QED BY <1>2, <3>1, <3>2
  <2> QED BY <2>1, <2>2, <2>3 DEF Ordered
<1> QED BY <1>6, <1>7, <1>8, <1>9 DEF Sound

\* The dispatch loop of mm_channel_process_stream_buf() keeps the invariant.
LEMMA Dispatched ==
    ASSUME attr \in Attrs, NEW A, NEW c, Inv(c, A)
    PROVE  Inv(Dispatch(c), A) /\ Dispatch(c).match_cnt <= c.match_cnt
<1> DEFINE n == IF Continuous THEN Ready(c) ELSE Min({Ready(c), c.pending_cnt})
           p == IF Continuous THEN c.pending_cnt ELSE c.pending_cnt - n
           d == Dispatch(c)
<1>1. /\ c \in Chan /\ Sound(c, A) /\ Counted(c) /\ c.match_cnt \in Nat
      /\ c.match_cnt <= Len(c.queue) /\ Len(c.queue) \in Nat /\ DOMAIN c.queue = 1..Len(c.queue)
      /\ c.queue \in Seq(SuperBufs) /\ c.up \in Seq([Streams -> Frames])
      /\ c.pending_cnt \in Nat /\ c.pending_cnt <= MaxRequest /\ MaxRequest \in Nat
  <2>1. c \in Chan /\ MaxRequest \in Nat BY Numbers DEF Inv, Sound
  <2>2. c.pending_cnt \in 0..MaxRequest BY <2>1 DEF Chan
  <2> QED BY <2>1, <2>2, ChanIs DEF Inv, Counted
<1>2. n \in Nat /\ n <= c.match_cnt /\ p \in 0..MaxRequest
  <2>1. Ready(c) = c.match_cnt BY <1>1, ReadyIs
  <2>2. CASE Continuous BY <1>1, <2>1, <2>2
  <2>3. CASE ~Continuous
    <3>1. n = Min({c.match_cnt, c.pending_cnt}) BY <2>1, <2>3
    <3>2. c.match_cnt \in Int /\ c.pending_cnt \in Int BY <1>1
    <3>3. p = c.pending_cnt - n BY <2>3
    <3> HIDE DEF n, p
    <3>4. n \in {c.match_cnt, c.pending_cnt} /\ n <= c.match_cnt /\ n <= c.pending_cnt
      BY <3>1, <3>2, MinOfTwo
    <3> QED BY <1>1, <3>3, <3>4
  <2> QED BY <2>2, <2>3
<1> HIDE DEF n, p
<1> DEFINE q == SubSeq(c.queue, n + 1, Len(c.queue))
           w == [i \in 1..n |-> c.queue[i].slot]
           u == c.up \o w
<1>3. /\ q \in Seq(SuperBufs) /\ Len(q) = Len(c.queue) - n
      /\ \A k \in 1..Len(c.queue) - n : q[k] = c.queue[k + n]
  BY <1>1, <1>2
<1>4. /\ u \in Seq([Streams -> Frames]) /\ Len(u) = Len(c.up) + n
      /\ \A k \in 1..Len(c.up) : u[k] = c.up[k]
      /\ \A k \in 1..n : u[Len(c.up) + k] = c.queue[k].slot
  <2>1. \A k \in 1..n : c.queue[k] \in SuperBufs BY <1>1, <1>2
  <2>2. \A k \in 1..n : c.queue[k].slot \in [Streams -> Frames] BY <2>1 DEF SuperBufs
  <2>3. w \in Seq([Streams -> Frames]) /\ Len(w) = n BY <1>2, <2>2
  <2>4. \A k \in 1..n : w[k] = c.queue[k].slot OBVIOUS
  <2> HIDE DEF w
  <2>5. c.up \in Seq([Streams -> Frames]) BY <1>1
  <2>6. /\ u \in Seq([Streams -> Frames]) /\ Len(u) = Len(c.up) + Len(w)
        /\ \A k \in 1..Len(c.up) : u[k] = c.up[k]
        /\ \A k \in 1..Len(w) : u[Len(c.up) + k] = w[k]
    <3>1. w \in Seq([Streams -> Frames]) BY <2>3
    <3> QED BY <2>5, <3>1
  <2> QED BY <2>3, <2>4, <2>6
<1>5. d = [c EXCEPT !.queue = q, !.match_cnt = c.match_cnt - n, !.up = u, !.pending_cnt = p]
  BY <1>1 DEF Dispatch, Dequeue, Chan, n, p
<1> HIDE DEF q, u, d
<1>6. PICK m \in Int : m = c.match_cnt - n BY <1>1, <1>2
<1>7. /\ d \in Chan /\ d.queue = q /\ d.match_cnt = c.match_cnt - n /\ d.back = c.back /\ d.up = u
  <2>1. d = [c EXCEPT !.queue = q, !.match_cnt = m, !.up = u, !.pending_cnt = p] BY <1>5, <1>6
  <2>2. q \in Seq(SuperBufs) /\ u \in Seq([Streams -> Frames]) BY <1>3, <1>4
  <2>3. c \in Chan /\ m \in Int /\ p \in 0..MaxRequest BY <1>1, <1>2, <1>6
  <2>4. d.queue = q /\ d.match_cnt = m /\ d.back = c.back /\ d.up = u BY <2>1, <2>3 DEF Chan
  <2>5. d \in Chan BY <2>1, <2>2, <2>3 DEF Chan
  <2> QED BY <1>6, <2>4, <2>5
<1>8. Sound(d, A)
  <2>1. \A k \in 1..n : Matched(c.queue[k]) BY <1>1, <1>2 DEF Counted
  <2>2. /\ Len(d.queue) = Len(c.queue) - n
        /\ \A k \in 1..Len(d.queue) : d.queue[k] = c.queue[k + n]
    BY <1>3, <1>7
  <2>3. /\ Len(d.up) = Len(c.up) + n
        /\ \A k \in 1..Len(c.up) : d.up[k] = c.up[k]
        /\ \A k \in 1..n : d.up[Len(c.up) + k] = c.queue[k].slot
    BY <1>4, <1>7
  <2>4. n \in Nat /\ n <= Len(c.queue) /\ d \in Chan /\ d.back = c.back /\ Sound(c, A)
    BY <1>1, <1>2, <1>7
  <2> QED BY <2>1, <2>2, <2>3, <2>4, SentUp
<1>9. Counted(d)
  <2>1. /\ Len(d.queue) = Len(c.queue) - n /\ DOMAIN d.queue = 1..Len(d.queue)
        /\ \A k \in DOMAIN d.queue : d.queue[k] = c.queue[k + n]
    BY <1>1, <1>2, <1>3, <1>7, ChanIs
  <2>2. \A k \in DOMAIN d.queue : Matched(d.queue[k]) <=> k <= d.match_cnt
    <3> SUFFICES ASSUME NEW k \in 1..Len(d.queue)
                 PROVE  Matched(d.queue[k]) <=> k <= d.match_cnt
      BY <2>1
    <3>1. d.queue[k] = c.queue[k + n] /\ k + n \in DOMAIN c.queue
      <4>1. k \in DOMAIN d.queue BY <2>1
      <4>2. k + n \in 1..Len(c.queue) BY <1>1, <1>2, <2>1
      <4> QED BY <1>1, <2>1, <4>1, <4>2
    <3>2. Matched(c.queue[k + n]) <=> k + n <= c.match_cnt BY <1>1, <3>1 DEF Counted
    <3>3. k + n <= c.match_cnt <=> k <= d.match_cnt BY <1>1, <1>2, <1>7
    <3> QED BY <3>1, <3>2, <3>3
  <2>3. d.match_cnt \in 0..Len(d.queue) BY <1>1, <1>2, <1>7, <2>1
  <2>4. Len(d.queue) - d.match_cnt <= MaxUnmatched + 1
    <3>1. Len(c.queue) - c.match_cnt <= MaxUnmatched + 1 BY <1>1 DEF Counted
    <3>2. MaxUnmatched \in Nat BY Numbers
    <3> QED BY <1>1, <1>2, <1>7, <2>1, <3>1, <3>2
  <2> QED BY <2>2, <2>3, <2>4 DEF Counted
<1>10. d.match_cnt <= c.match_cnt BY <1>1, <1>2, <1>7
<1> QED BY <1>8, <1>9, <1>10 DEF Inv, d

\* Overflow and dispatch together: the invariant and the water mark.
LEMMA Finished ==
    ASSUME attr \in Attrs, NEW A, NEW c, Inv(c, A)
    PROVE  /\ Inv(Finish(c), A)
           /\ Continuous \/ Finish(c).match_cnt <= WaterMark
<1>1. Inv(Overflow(c), A) /\ (Continuous \/ Overflow(c).match_cnt <= WaterMark)
  <2>1. CASE Continuous BY <2>1 DEF Overflow
  <2>2. CASE ~Continuous BY <2>2, Numbers, Dropped DEF Overflow
  <2> QED BY <2>1, <2>2
<1> DEFINE e == Overflow(c)
<1>2. Inv(Dispatch(e), A) /\ Dispatch(e).match_cnt <= e.match_cnt BY <1>1, Dispatched
<1>3. e.match_cnt \in Int /\ Dispatch(e).match_cnt \in Int BY <1>1, <1>2 DEF Inv, Sound, Chan
<1> HIDE DEF e
<1>4. Continuous \/ Dispatch(e).match_cnt <= WaterMark
  <2>1. Continuous \/ e.match_cnt <= WaterMark BY <1>1 DEF e
  <2> QED BY <1>2, <1>3, <2>1, Numbers
<1> QED BY <1>2, <1>4 DEF Finish, e

\* The channel without node v, whose frames go back.
Without(c, v) == Qbuf([c EXCEPT !.queue = RemoveAt(@, v)], FramesOf(c.queue[v].slot))

\* An unmatched node may be taken out.
LEMMA TakenOut ==
    ASSUME attr \in Attrs, NEW A, NEW c, Inv(c, A), NEW v \in Nat,
           c.match_cnt < v, v <= Len(c.queue)
    PROVE  LET d == Without(c, v)
           IN  /\ Inv(d, A) /\ d.match_cnt = c.match_cnt /\ Len(d.queue) = Len(c.queue) - 1
               /\ \A k \in 1..v - 1 : d.queue[k] = c.queue[k]
               /\ \A k \in v..Len(d.queue) : d.queue[k] = c.queue[k + 1]
<1> DEFINE b == c.back \cup FramesOf(c.queue[v].slot)
           q == RemoveAt(c.queue, v)
           d == Qbuf([c EXCEPT !.queue = RemoveAt(@, v)], FramesOf(c.queue[v].slot))
<1>1. /\ c \in Chan /\ Sound(c, A) /\ Counted(c) /\ c.match_cnt \in Nat
      /\ c.match_cnt <= Len(c.queue) /\ Len(c.queue) \in Nat /\ DOMAIN c.queue = 1..Len(c.queue)
      /\ c.queue \in Seq(SuperBufs)
  <2>1. c \in Chan BY DEF Inv, Sound
  <2> QED BY <2>1, ChanIs DEF Inv, Counted
<1>2. v >= 1 /\ v \in DOMAIN c.queue BY <1>1
<1>3. /\ q \in Seq(SuperBufs) /\ Len(q) = Len(c.queue) - 1
      /\ \A k \in 1..v - 1 : q[k] = c.queue[k]
      /\ \A k \in v..Len(c.queue) - 1 : q[k] = c.queue[k + 1]
  <2> DEFINE x == SubSeq(c.queue, 1, v - 1)
             y == SubSeq(c.queue, v + 1, Len(c.queue))
  <2>1. /\ x \in Seq(SuperBufs) /\ Len(x) = v - 1
        /\ \A k \in 1..v - 1 : x[k] = c.queue[k]
    BY <1>1, <1>2
  <2>2. /\ y \in Seq(SuperBufs) /\ Len(y) = Len(c.queue) - v
        /\ \A k \in 1..Len(c.queue) - v : y[k] = c.queue[v + k]
    BY <1>1, <1>2
  <2>3. q = x \o y BY <1>1, <1>2, RemoveAtIs
  <2> HIDE DEF x, y, q
  <2>4. /\ q \in Seq(SuperBufs) /\ Len(q) = Len(x) + Len(y)
        /\ \A k \in 1..Len(x) : q[k] = x[k]
        /\ \A k \in 1..Len(y) : q[Len(x) + k] = y[k]
    <3>1. x \in Seq(SuperBufs) /\ y \in Seq(SuperBufs) BY <2>1, <2>2
    <3> QED BY <2>3, <3>1
  <2>5. ASSUME NEW k \in v..Len(c.queue) - 1 PROVE q[k] = c.queue[k + 1]
    <3> DEFINE j == k - (v - 1)
    <3>1. j \in 1..Len(y) /\ Len(x) + j = k /\ v + j = k + 1 BY <1>1, <1>2, <2>1, <2>2
    <3> HIDE DEF j
    <3>2. q[Len(x) + j] = y[j] /\ y[j] = c.queue[v + j] BY <2>2, <2>4, <3>1
    <3> QED BY <3>1, <3>2
  <2>6. \A k \in 1..v - 1 : q[k] = c.queue[k] BY <2>1, <2>4
  <2>7. Len(q) = Len(c.queue) - 1 BY <1>1, <2>1, <2>2, <2>4
  <2> QED BY <2>4, <2>5, <2>6, <2>7
<1>4. b \in SUBSET (Streams \X Frames)
  <2>1. c.back \in SUBSET (Streams \X Frames) BY <1>1 DEF Chan
  <2>2. \A f \in FramesOf(c.queue[v].slot) : f \in Streams \X Frames
    BY <1>1, <1>2, QueueFrames DEF Sound, Placed
  <2> QED BY <2>1, <2>2
<1>5. d = [c EXCEPT !.queue = q, !.back = b] BY <1>1 DEF Qbuf, Chan
<1>b. b = c.back \cup FramesOf(c.queue[v].slot) OBVIOUS
<1> HIDE DEF b, q, d
<1>6. /\ d \in Chan /\ d.queue = q /\ d.match_cnt = c.match_cnt /\ d.back = b /\ d.up = c.up
  <2>1. q \in Seq(SuperBufs) /\ c \in Chan BY <1>1, <1>3
  <2> QED BY <1>4, <1>5, <2>1 DEF Chan
<1>7. Sound(d, A)
  <2>1. PICK z \in Nat : z = v + 1 OBVIOUS
  <2>2. 1 <= v /\ v <= z /\ z <= Len(c.queue) + 1 BY <1>1, <1>2, <2>1
  <2>3. z - v = 1 BY <2>1
  <2>4. Len(d.queue) = Len(c.queue) - (z - v) BY <1>3, <1>6, <2>3
  <2>5. \A k \in v..Len(d.queue) : d.queue[k] = c.queue[k + (z - v)] BY <1>3, <1>6, <2>3
  <2>6. \A k \in 1..v - 1 : d.queue[k] = c.queue[k] BY <1>3, <1>6
  <2>7. d.back = c.back \cup UNION {FramesOf(c.queue[k].slot) : k \in v..z - 1}
    <3>1. v..z - 1 = {v} BY <2>1
    <3> QED BY <1>b, <1>6, <3>1
  <2>8. d \in Chan /\ d.up = c.up /\ Sound(c, A) BY <1>1, <1>6
  <2> QED BY <2>2, <2>4, <2>5, <2>6, <2>7, <2>8, CutOut
<1>8. Counted(d)
  <2>1. DOMAIN d.queue = 1..Len(d.queue) /\ Len(d.queue) = Len(c.queue) - 1 BY <1>3, <1>6, ChanIs
  <2>2. ASSUME NEW k \in 1..Len(d.queue) PROVE Matched(d.queue[k]) <=> k <= d.match_cnt
    <3>1. CASE k < v
      <4>1. k \in DOMAIN c.queue /\ d.queue[k] = c.queue[k] BY <1>1, <1>3, <1>6, <2>1, <3>1
      <4> QED BY <1>1, <1>6, <4>1 DEF Counted
    <3>2. CASE k >= v
      <4>1. k + 1 \in DOMAIN c.queue /\ d.queue[k] = c.queue[k + 1]
        BY <1>1, <1>3, <1>6, <2>1, <3>2
      <4>2. ~(k + 1 <= c.match_cnt) /\ ~(k <= c.match_cnt) BY <1>1, <3>2
      <4> QED BY <1>1, <1>6, <4>1, <4>2 DEF Counted
    <3> QED BY <3>1, <3>2
  <2>3. d.match_cnt \in 0..Len(d.queue) BY <1>1, <1>6, <2>1
  <2>4. Len(d.queue) - d.match_cnt <= MaxUnmatched + 1
    <3>1. Len(c.queue) - c.match_cnt <= MaxUnmatched + 1 BY <1>1 DEF Counted
    <3>2. MaxUnmatched \in Nat BY Numbers
    <3> QED BY <1>1, <1>6, <2>1, <3>1, <3>2
  <2> QED BY <2>1, <2>2, <2>3, <2>4 DEF Counted
<1> QED BY <1>3, <1>6, <1>7, <1>8 DEF Inv, d, Without

-----------------------------------------------------------------------------
(* A new frame and the nodes *)

\* Frame i of stream s is newer than all that came from it.
Fresh(A, s, i) == i # 0 /\ \A x \in Frames : x >= i => <<s, x>> \notin A

\* The frames of p have arrived.
Known(A, p) == \A t \in Streams : p[t] # 0 => <<t, p[t]>> \in A

\* Node n is made for frame i of stream s.
IsNew(n, s, i) ==
    /\ n.frame_idx = i /\ n.slot[s] = i /\ \A t \in Streams : t # s => n.slot[t] = 0
    /\ n.unmatched_meta_idx = IF LowPriority /\ s = Meta THEN i ELSE 0

\* Node n is r with frame i of stream s added.
IsFilled(r, n, s, i) ==
    /\ n.slot[s] = i /\ \A t \in Streams : t # s => n.slot[t] = r.slot[t]
    /\ n.unmatched_meta_idx = 0
    /\ r.unmatched_meta_idx = 0 => n.frame_idx = r.frame_idx
    /\ r.unmatched_meta_idx # 0 => n.frame_idx = i

\* The types of the fields of a node.
LEMMA NodeIs ==
    ASSUME attr \in Attrs, NEW n \in SuperBufs
    PROVE  /\ n.frame_idx \in Nat /\ n.frame_idx \in Frames
           /\ n.unmatched_meta_idx \in Nat
           /\ \A t \in Streams : n.slot[t] \in Frames /\ n.slot[t] \in Nat
           /\ Meta \in Streams
BY Numbers DEF SuperBufs, Frames

\* A fresh frame is newer than every super buffer that went up.
LEMMA UpBeforeFresh ==
    ASSUME attr \in Attrs, NEW A, NEW s \in Streams, NEW i \in Frames, Fresh(A, s, i),
           NEW p \in [Streams -> Frames], SlotOk(p), Known(A, p)
    PROVE  /\ p[s] < i
           /\ \A t \in Streams : Exact(t) => p[t] < i
<1>1. \A t \in Streams : p[t] \in Frames /\ p[t] \in Nat BY DEF Frames
<1>2. i \in Nat BY DEF Frames
<1>3. p[s] < i
  <2>1. <<s, p[s]>> \in A BY DEF Known, SlotOk
  <2>2. ~(p[s] >= i) BY <1>1, <2>1 DEF Fresh
  <2> QED BY <1>1, <1>2, <2>2
<1>4. ASSUME NEW t \in Streams, Exact(t) PROVE p[t] < i
  <2>1. CASE Exact(s) BY <1>3, <1>4, <2>1 DEF SlotOk
  <2>2. CASE ~Exact(s)
    <3>1. s = Meta BY <2>2 DEF Exact
    <3>2. p[t] <= p[s] BY <3>1 DEF SlotOk
    <3> QED BY <1>1, <1>2, <1>3, <3>2
  <2> QED BY <2>1, <2>2
<1> QED BY <1>3, <1>4

\* A fresh frame is newer than every matched node.
LEMMA MatchedBeforeFresh ==
    ASSUME attr \in Attrs, NEW A, NEW s \in Streams, NEW i \in Frames, Fresh(A, s, i),
           NEW n \in SuperBufs, NodeOk(n), Matched(n), Known(A, n.slot)
    PROVE  n.frame_idx < i /\ n.slot[s] < i
<1>1. SlotOk(n.slot) /\ \A t \in Streams : Exact(t) => n.slot[t] = n.frame_idx BY MatchedNode
<1>2. n.slot \in [Streams -> Frames] BY DEF SuperBufs
<1>3. n.slot[s] < i /\ \A t \in Streams : Exact(t) => n.slot[t] < i
  BY <1>1, <1>2, UpBeforeFresh
<1>4. n.frame_idx < i
  <2>1. CASE n.unmatched_meta_idx = 0 BY <1>1, <1>3, <2>1 DEF NodeOk
  <2>2. CASE n.unmatched_meta_idx # 0
    <3>1. /\ n.frame_idx = n.slot[Meta]
          /\ \A t \in Streams : t # Meta => n.slot[t] = 0
      BY <2>2 DEF NodeOk
    <3>2. s = Meta BY <3>1 DEF Matched
    <3> QED BY <1>3, <3>1, <3>2
  <2> QED BY <2>1, <2>2
<1> QED BY <1>3, <1>4

\* A new node is well formed, and matched only if there is one stream.
LEMMA NewNode ==
    ASSUME attr \in Attrs, NEW s \in Streams, NEW i \in Frames, i # 0,
           NEW n \in SuperBufs, IsNew(n, s, i)
    PROVE  NodeOk(n) /\ FramesOf(n.slot) = {<<s, i>>} /\ (Matched(n) <=> Streams = {s})
<1>1. i \in Nat BY DEF Frames
<1>2. NodeOk(n)
  <2>1. CASE LowPriority /\ s = Meta BY <1>1, <2>1 DEF IsNew, NodeOk, Exact
  <2>2. CASE ~(LowPriority /\ s = Meta)
    <3>1. Exact(s) BY <2>2 DEF Exact
    <3>2. n.unmatched_meta_idx = 0 BY <2>2 DEF IsNew
    <3>3. \A t \in Streams : n.slot[t] # 0 => t = s /\ n.slot[t] = n.frame_idx BY DEF IsNew
    <3>4. n.frame_idx # 0 /\ n.slot[s] # 0 BY DEF IsNew
    <3>5. n.frame_idx \in Nat BY <1>1 DEF IsNew
    <3>6. LowPriority /\ n.slot[Meta] # 0 => n.frame_idx <= n.slot[Meta]
      BY <3>3, <3>5, Numbers
    <3> QED BY <3>1, <3>2, <3>3, <3>4, <3>6 DEF NodeOk
  <2> QED BY <2>1, <2>2
<1>3. FramesOf(n.slot) = {<<s, i>>}
  <2>1. \A f : f \in FramesOf(n.slot) <=> \E t \in Streams : n.slot[t] # 0 /\ f = <<t, n.slot[t]>>
    BY SlotFrames
  <2> QED BY <2>1 DEF IsNew
<1>4. Matched(n) <=> Streams = {s} BY DEF IsNew, Matched
<1> QED BY <1>2, <1>3, <1>4

\* A new node stands rightly behind a matched one, and behind an unmatched older
\* one the frame did not fit.
LEMMA AheadOfNew ==
    ASSUME attr \in Attrs, NEW A, NEW B, A \subseteq B,
           NEW s \in Streams, NEW i \in Frames, Fresh(A, s, i),
           NEW n \in SuperBufs, NodeOk(n), Known(A, n.slot),
           Matched(n) \/ (n.frame_idx < i /\ ~Fits(n, s, i)),
           NEW r \in SuperBufs, IsNew(r, s, i)
    PROVE  Ahead(B, n, r)
<1>1. n.frame_idx < i BY MatchedBeforeFresh
<1>2. ASSUME LowPriority, r.slot[Meta] # 0 PROVE n.slot[Meta] # 0 /\ n.slot[Meta] < i
  <2>1. s = Meta BY <1>2, NodeIs DEF IsNew
  <2>2. n.slot[Meta] # 0
    <3>1. CASE Matched(n) BY <3>1, MatchedNode
    <3>2. CASE ~Matched(n) BY <1>1, <1>2, <2>1, <3>2 DEF Fits
    <3> QED BY <3>1, <3>2
  <2>3. n.slot[Meta] \in Frames /\ n.slot[Meta] \in Nat /\ i \in Nat BY NodeIs DEF Frames
  <2>4. <<s, n.slot[Meta]>> \in A BY <2>1, <2>2, NodeIs DEF Known
  <2> QED BY <2>1, <2>2, <2>3, <2>4 DEF Fresh
<1>3. r.frame_idx = i BY DEF IsNew
<1>4. LowPriority /\ r.slot[Meta] # 0 => r.slot[Meta] = i BY NodeIs DEF IsNew
<1> QED BY <1>1, <1>2, <1>3, <1>4 DEF Ahead

\* A new node stands rightly before a newer or stale one.
LEMMA NewAhead ==
    ASSUME attr \in Attrs, NEW A, NEW B, A \subseteq B,
           NEW s \in Streams, NEW i \in Frames, Fresh(A, s, i),
           NEW n \in SuperBufs, IsNew(n, s, i),
           NEW r \in SuperBufs, NodeOk(r), Known(A, r.slot), ~Fits(r, s, i), ~Matched(r),
           Stale(A, r) \/ r.frame_idx > i
    PROVE  Ahead(B, n, r)
<1>1. CASE Stale(A, r) BY <1>1, StaleGrows DEF Ahead
<1>2. CASE r.frame_idx > i
  <2>1. n.frame_idx = i /\ n.frame_idx < r.frame_idx BY <1>2, NodeIs DEF IsNew, Frames
  <2>2. ASSUME LowPriority, r.slot[Meta] # 0 PROVE Stale(B, n)
    <3>1. r.frame_idx <= r.slot[Meta] /\ <<Meta, r.slot[Meta]>> \in A /\ r.slot[Meta] \in Frames
      BY <2>2, NodeIs DEF NodeOk, Known
    <3>2. s # Meta
      <4>1. r.slot[Meta] >= i BY <1>2, <3>1, NodeIs DEF Frames
      <4> QED BY <3>1, <4>1 DEF Fresh
    <3>3. r.unmatched_meta_idx = 0
      <4> SUFFICES ASSUME r.unmatched_meta_idx # 0 PROVE FALSE OBVIOUS
      <4>1. r.unmatched_meta_idx > i /\ r.slot[s] = 0 BY <1>2, <3>2 DEF NodeOk
      <4> QED BY <2>2, <3>2, <4>1 DEF Fits
    <3>4. PICK t \in Streams : Exact(t) /\ r.slot[t] # 0 BY <3>3 DEF NodeOk
    <3>5. <<t, r.frame_idx>> \in A /\ r.frame_idx \in Frames BY <3>4, NodeIs DEF NodeOk, Known
    <3>6. t # s
      <4>1. r.frame_idx >= i BY <1>2, NodeIs DEF Frames
      <4> QED BY <3>5, <4>1 DEF Fresh
    <3>7. n.slot[t] = 0 /\ n.unmatched_meta_idx = 0 BY <3>2, <3>6 DEF IsNew
    <3> QED BY <2>1, <3>4, <3>5, <3>7 DEF Stale
  <2> QED BY <2>1, <2>2 DEF Ahead
<1> QED BY <1>1, <1>2

\* A new node is behind everything that went up.
LEMMA UpAheadOfNew ==
    ASSUME attr \in Attrs, NEW A, NEW B, A \subseteq B,
           NEW s \in Streams, NEW i \in Frames, Fresh(A, s, i),
           NEW p \in [Streams -> Frames], SlotOk(p), Known(A, p),
           NEW r \in SuperBufs, IsNew(r, s, i)
    PROVE  UpAhead(B, p, r) /\ (Streams = {s} => Precedes(p, r.slot))
<1>1. p[s] < i /\ \A t \in Streams : Exact(t) => p[t] < i BY UpBeforeFresh
<1>2. r.slot[Meta] # 0 => s = Meta /\ r.slot[Meta] = i BY NodeIs DEF IsNew
<1>3. r.frame_idx = i /\ r.slot[s] = i BY DEF IsNew
<1> QED BY <1>1, <1>2, <1>3 DEF UpAhead, Precedes

\* A node is still well formed when a frame that fits fills its slot, and its
\* index only falls.
LEMMA FilledNode ==
    ASSUME attr \in Attrs, NEW s \in Streams, NEW i \in Frames, i # 0,
           NEW r \in SuperBufs, NodeOk(r), Fits(r, s, i), r.slot[s] = 0,
           NEW n \in SuperBufs, IsFilled(r, n, s, i)
    PROVE  /\ NodeOk(n) /\ FramesOf(n.slot) = FramesOf(r.slot) \cup {<<s, i>>}
           /\ n.frame_idx <= i
           /\ Exact(s) => n.frame_idx = i
           /\ r.unmatched_meta_idx # 0 => LowPriority /\ s # Meta /\ i <= r.frame_idx
<1>1. i \in Nat BY DEF Frames
<1>2. /\ r.frame_idx \in Nat /\ n.frame_idx \in Nat /\ r.unmatched_meta_idx \in Nat
      /\ \A t \in Streams : r.slot[t] \in Nat /\ n.slot[t] \in Nat
      /\ Meta \in Streams
  BY NodeIs
<1>3. ASSUME r.unmatched_meta_idx # 0
      PROVE  /\ LowPriority /\ s # Meta /\ i <= r.frame_idx
             /\ \A t \in Streams : t # Meta => r.slot[t] = 0
             /\ r.slot[Meta] = r.frame_idx
  <2>1. /\ LowPriority /\ r.frame_idx = r.unmatched_meta_idx /\ r.slot[Meta] = r.unmatched_meta_idx
        /\ \A t \in Streams : t # Meta => r.slot[t] = 0
    BY <1>3 DEF NodeOk
  <2>2. s # Meta BY <1>3, <2>1
  <2>3. r.frame_idx = i \/ r.unmatched_meta_idx > i BY <2>2 DEF Fits
  <2> QED BY <1>1, <1>2, <2>1, <2>2, <2>3
<1>4. r.unmatched_meta_idx = 0 => n.frame_idx = r.frame_idx /\ r.frame_idx <= i
  <2>1. ASSUME r.unmatched_meta_idx = 0 PROVE n.frame_idx = r.frame_idx /\ r.frame_idx <= i
    <3>1. r.frame_idx = i \/ r.frame_idx < i BY <1>1, <1>2, <2>1 DEF Fits
    <3> QED BY <1>1, <1>2, <2>1, <3>1 DEF IsFilled
  <2> QED BY <2>1
<1>5. r.unmatched_meta_idx # 0 => n.frame_idx = i BY DEF IsFilled
<1>6. n.frame_idx <= i BY <1>1, <1>4, <1>5
<1>7. Exact(s) => n.frame_idx = i
  <2>1. ASSUME Exact(s), r.unmatched_meta_idx = 0 PROVE r.frame_idx = i
    BY <1>1, <2>1 DEF Fits, Exact
  <2> QED BY <1>4, <1>5, <2>1
<1>8. NodeOk(n)
  <2>1. n.frame_idx # 0 BY <1>4, <1>5 DEF NodeOk
  <2>2. ASSUME NEW t \in Streams, Exact(t), n.slot[t] # 0 PROVE n.slot[t] = n.frame_idx
    <3>1. CASE t = s BY <1>7, <2>2, <3>1 DEF IsFilled
    <3>2. CASE t # s
      <4>1. r.slot[t] # 0 /\ n.slot[t] = r.slot[t] BY <2>2, <3>2 DEF IsFilled
      <4>2. r.unmatched_meta_idx = 0 BY <1>3, <2>2, <4>1 DEF Exact
      <4> QED BY <1>4, <2>2, <4>1, <4>2 DEF NodeOk
    <3> QED BY <3>1, <3>2
  <2>3. ASSUME LowPriority, n.slot[Meta] # 0 PROVE n.frame_idx <= n.slot[Meta]
    <3>1. CASE s = Meta BY <1>6, <3>1 DEF IsFilled
    <3>2. CASE s # Meta
      <4>1. n.slot[Meta] = r.slot[Meta] BY <1>2, <3>2 DEF IsFilled
      <4>2. CASE r.unmatched_meta_idx = 0 BY <1>4, <2>3, <4>1, <4>2 DEF NodeOk
      <4>3. CASE r.unmatched_meta_idx # 0 BY <1>3, <1>5, <4>1, <4>3
      <4> QED BY <4>2, <4>3
    <3> QED BY <3>1, <3>2
  <2>4. \E t \in Streams : Exact(t) /\ n.slot[t] # 0
    <3>1. CASE Exact(s) BY <3>1 DEF IsFilled
    <3>2. CASE ~Exact(s)
      <4>1. r.unmatched_meta_idx = 0 BY <1>3, <3>2 DEF Exact
      <4>2. PICK t \in Streams : Exact(t) /\ r.slot[t] # 0 BY <4>1 DEF NodeOk
      <4> QED BY <3>2, <4>2 DEF IsFilled
    <3> QED BY <3>1, <3>2
  <2>5. n.unmatched_meta_idx = 0 BY DEF IsFilled
  <2> QED BY <2>1, <2>2, <2>3, <2>4, <2>5 DEF NodeOk
<1>9. FramesOf(n.slot) = FramesOf(r.slot) \cup {<<s, i>>}
  <2>1. \A f : f \in FramesOf(n.slot) <=> \E t \in Streams : n.slot[t] # 0 /\ f = <<t, n.slot[t]>>
    BY SlotFrames
  <2>2. \A f : f \in FramesOf(r.slot) <=> \E t \in Streams : r.slot[t] # 0 /\ f = <<t, r.slot[t]>>
    BY SlotFrames
  <2>3. \A f : f \in FramesOf(n.slot) <=> f \in FramesOf(r.slot) \/ f = <<s, i>>
    BY <2>1, <2>2 DEF IsFilled
  <2> QED BY <2>3
<1> QED BY <1>3, <1>6, <1>7, <1>8, <1>9

\* A stale node stays stale when it is filled.
LEMMA StaleFilled ==
    ASSUME attr \in Attrs, NEW A, NEW B, A \subseteq B,
           NEW s \in Streams, NEW i \in Frames, Fresh(A, s, i),
           NEW r \in SuperBufs, NodeOk(r), Fits(r, s, i), r.slot[s] = 0, Stale(A, r),
           NEW n \in SuperBufs, IsFilled(r, n, s, i)
    PROVE  Stale(B, n)
<1>1. r.unmatched_meta_idx = 0 /\ n.frame_idx = r.frame_idx /\ n.unmatched_meta_idx = 0
  BY DEF Stale, IsFilled
<1>2. PICK t \in Streams, y \in Frames : /\ Exact(t) /\ r.slot[t] = 0
                                         /\ y > r.frame_idx /\ <<t, y>> \in A
  BY DEF Stale
<1>3. t # s
  <2> SUFFICES ASSUME t = s PROVE FALSE OBVIOUS
  <2>1. i # 0 BY DEF Fresh
  <2>2. n.frame_idx = i BY <1>2, <2>1, FilledNode
  <2>3. y >= i BY <1>1, <1>2, <2>2 DEF Frames
  <2> QED BY <1>2, <2>3 DEF Fresh
<1>4. n.slot[t] = 0 BY <1>2, <1>3 DEF IsFilled
<1> QED BY <1>1, <1>2, <1>4 DEF Stale

\* What stood before the node that is filled still stands rightly, if the frame
\* did not fit there.
LEMMA AheadOfFilled ==
    ASSUME attr \in Attrs, NEW A, NEW B, A \subseteq B,
           NEW s \in Streams, NEW i \in Frames, Fresh(A, s, i),
           NEW r \in SuperBufs, NodeOk(r), Known(A, r.slot), Fits(r, s, i), r.slot[s] = 0,
           NEW n \in SuperBufs, IsFilled(r, n, s, i),
           NEW j \in SuperBufs, NodeOk(j), Known(A, j.slot), ~Fits(j, s, i), Ahead(A, j, r)
    PROVE  Ahead(B, j, n)
<1>0. /\ i \in Nat /\ i # 0 /\ Meta \in Streams
      /\ r.frame_idx \in Nat /\ n.frame_idx \in Nat /\ j.frame_idx \in Nat /\ j.frame_idx \in Frames
      /\ j.unmatched_meta_idx \in Nat
      /\ \A t \in Streams : /\ r.slot[t] \in Nat /\ n.slot[t] \in Nat
                            /\ j.slot[t] \in Nat /\ j.slot[t] \in Frames
  BY NodeIs DEF Frames, Fresh
<1>1. CASE Stale(A, r) BY <1>1, StaleFilled DEF Ahead
<1>2. CASE ~Stale(A, r)
  <2>1. /\ j.frame_idx < r.frame_idx
        /\ LowPriority /\ r.slot[Meta] # 0 =>
             Stale(A, j) \/ (j.slot[Meta] # 0 /\ j.slot[Meta] < r.slot[Meta])
    BY <1>2 DEF Ahead
  <2>2. CASE s = Meta
    <3>1. r.unmatched_meta_idx = 0 BY <1>0, <2>2, FilledNode
    <3>2. n.frame_idx = r.frame_idx BY <3>1 DEF IsFilled
    <3>3. n.frame_idx <= i BY <1>0, FilledNode
    <3>4. ASSUME LowPriority PROVE j.slot[Meta] # 0 /\ j.slot[Meta] < n.slot[Meta]
      <4>1. j.slot[Meta] # 0
        <5>1. CASE Matched(j) BY <5>1, MatchedNode
        <5>2. CASE ~Matched(j)
          <6>1. j.frame_idx < i BY <1>0, <2>1, <3>2, <3>3
          <6> QED BY <2>2, <3>4, <5>2, <6>1 DEF Fits
        <5> QED BY <5>1, <5>2
      <4>2. <<s, j.slot[Meta]>> \in A BY <1>0, <2>2, <4>1 DEF Known
      <4>3. j.slot[Meta] < i BY <1>0, <2>2, <4>2 DEF Fresh
      <4>4. n.slot[Meta] = i BY <2>2 DEF IsFilled
      <4> QED BY <4>1, <4>3, <4>4
    <3> QED BY <2>1, <3>2, <3>4 DEF Ahead
  <2>3. CASE s # Meta
    <3>1. n.slot[Meta] = r.slot[Meta] BY <1>0, <2>3 DEF IsFilled
    <3>2. ASSUME LowPriority, n.slot[Meta] # 0
          PROVE  Stale(B, j) \/ (j.slot[Meta] # 0 /\ j.slot[Meta] < n.slot[Meta])
      BY <2>1, <3>1, <3>2, StaleGrows
    <3>3. CASE j.frame_idx < n.frame_idx BY <3>2, <3>3 DEF Ahead
    <3>4. CASE ~(j.frame_idx < n.frame_idx)
      <4>1. r.unmatched_meta_idx # 0 BY <2>1, <3>4 DEF IsFilled
      <4>2. n.frame_idx = i /\ j.frame_idx >= i /\ LowPriority
        <5>1. n.frame_idx = i BY <4>1 DEF IsFilled
        <5>2. LowPriority BY <4>1 DEF NodeOk
        <5> QED BY <1>0, <3>4, <5>1, <5>2
      <4>3. ~Matched(j)
        <5> SUFFICES ASSUME Matched(j) PROVE FALSE OBVIOUS
        <5>1. j.frame_idx < i BY MatchedBeforeFresh
        <5> QED BY <1>0, <4>2, <5>1
      <4>4. j.frame_idx > i /\ ~(j.slot[s] = 0 /\ j.unmatched_meta_idx > i)
        BY <1>0, <2>3, <4>2, <4>3 DEF Fits
      <4>5. j.unmatched_meta_idx = 0
        <5> SUFFICES ASSUME j.unmatched_meta_idx # 0 PROVE FALSE OBVIOUS
        <5>1. j.unmatched_meta_idx = j.frame_idx /\ j.slot[s] = 0 BY <2>3 DEF NodeOk
        <5> QED BY <4>4, <5>1
      <4>6. PICK t \in Streams : Exact(t) /\ j.slot[t] # 0 BY <4>5 DEF NodeOk
      <4>7. <<t, j.frame_idx>> \in A BY <4>6 DEF NodeOk, Known
      <4>8. t # s
        <5>1. j.frame_idx >= i BY <1>0, <4>4
        <5> QED BY <1>0, <4>7, <5>1 DEF Fresh
      <4>9. n.slot[t] = 0
        <5>1. t # Meta BY <4>2, <4>6 DEF Exact
        <5>2. r.slot[t] = 0 BY <4>1, <5>1 DEF NodeOk
        <5> QED BY <4>8, <5>2 DEF IsFilled
      <4>10. n.unmatched_meta_idx = 0 BY DEF IsFilled
      <4>11. Stale(B, n) BY <1>0, <4>2, <4>4, <4>6, <4>7, <4>9, <4>10 DEF Stale
      <4> QED BY <4>11 DEF Ahead
    <3> QED BY <3>3, <3>4
  <2> QED BY <2>2, <2>3
<1> QED BY <1>1, <1>2

\* What stood behind the node that is filled still stands rightly.
LEMMA FilledAhead ==
    ASSUME attr \in Attrs, NEW A, NEW B, A \subseteq B,
           NEW s \in Streams, NEW i \in Frames, Fresh(A, s, i),
           NEW r \in SuperBufs, NodeOk(r), Fits(r, s, i), r.slot[s] = 0,
           NEW n \in SuperBufs, IsFilled(r, n, s, i),
           NEW k \in SuperBufs, Ahead(A, r, k)
    PROVE  Ahead(B, n, k)
<1>0. /\ i \in Nat /\ i # 0 /\ Meta \in Streams
      /\ r.frame_idx \in Nat /\ n.frame_idx \in Nat /\ k.frame_idx \in Nat
      /\ \A t \in Streams : r.slot[t] \in Nat /\ n.slot[t] \in Nat
  BY NodeIs DEF Frames, Fresh
<1>1. CASE Stale(A, k) BY <1>1, StaleGrows DEF Ahead
<1>2. CASE ~Stale(A, k)
  <2>1. /\ r.frame_idx < k.frame_idx
        /\ LowPriority /\ k.slot[Meta] # 0 =>
             Stale(A, r) \/ (r.slot[Meta] # 0 /\ r.slot[Meta] < k.slot[Meta])
    BY <1>2 DEF Ahead
  <2>2. n.frame_idx <= r.frame_idx
    <3>1. CASE r.unmatched_meta_idx = 0 BY <1>0, <3>1 DEF IsFilled
    <3>2. CASE r.unmatched_meta_idx # 0
      <4>1. i <= r.frame_idx BY <1>0, <3>2, FilledNode
      <4> QED BY <3>2, <4>1 DEF IsFilled
    <3> QED BY <3>1, <3>2
  <2>3. ASSUME LowPriority, k.slot[Meta] # 0
        PROVE  Stale(B, n) \/ (n.slot[Meta] # 0 /\ n.slot[Meta] < k.slot[Meta])
    <3>1. CASE Stale(A, r) BY <3>1, StaleFilled
    <3>2. CASE r.slot[Meta] # 0 /\ r.slot[Meta] < k.slot[Meta]
      <4>1. s # Meta BY <3>2
      <4>2. n.slot[Meta] = r.slot[Meta] BY <1>0, <4>1 DEF IsFilled
      <4> QED BY <3>2, <4>2
    <3> QED BY <2>1, <2>3, <3>1, <3>2
  <2>4. n.frame_idx < k.frame_idx BY <1>0, <2>1, <2>2
  <2> QED BY <2>3, <2>4 DEF Ahead
<1> QED BY <1>1, <1>2

\* What went up stays ahead of a node that is filled.
LEMMA UpAheadOfFilled ==
    ASSUME attr \in Attrs, NEW A, NEW B, A \subseteq B,
           NEW s \in Streams, NEW i \in Frames, Fresh(A, s, i),
           NEW r \in SuperBufs, NodeOk(r), Fits(r, s, i), r.slot[s] = 0,
           NEW n \in SuperBufs, IsFilled(r, n, s, i),
           NEW p \in [Streams -> Frames], SlotOk(p), Known(A, p), UpAhead(A, p, r)
    PROVE  UpAhead(B, p, n)
<1>0. i \in Nat /\ i # 0 /\ Meta \in Streams BY NodeIs DEF Frames, Fresh
<1>1. p[s] < i /\ \A t \in Streams : Exact(t) => p[t] < i BY UpBeforeFresh
<1>2. CASE Stale(A, r) BY <1>2, StaleFilled DEF UpAhead
<1>3. CASE ~Stale(A, r)
  <2>1. /\ \A t \in Streams : Exact(t) => p[t] < r.frame_idx
        /\ LowPriority /\ r.slot[Meta] # 0 => p[Meta] < r.slot[Meta]
    BY <1>3 DEF UpAhead
  <2>2. \A t \in Streams : Exact(t) => p[t] < n.frame_idx
    <3>1. CASE r.unmatched_meta_idx = 0 BY <2>1, <3>1 DEF IsFilled
    <3>2. CASE r.unmatched_meta_idx # 0 BY <1>1, <3>2 DEF IsFilled
    <3> QED BY <3>1, <3>2
  <2>3. ASSUME LowPriority, n.slot[Meta] # 0 PROVE p[Meta] < n.slot[Meta]
    <3>1. CASE s = Meta BY <1>1, <3>1 DEF IsFilled
    <3>2. CASE s # Meta
      <4>1. n.slot[Meta] = r.slot[Meta] BY <1>0, <3>2 DEF IsFilled
      <4> QED BY <2>1, <2>3, <4>1
    <3> QED BY <3>1, <3>2
  <2> QED BY <2>2, <2>3 DEF UpAhead
<1> QED BY <1>2, <1>3

\* Of complete super buffers, being ahead is to precede.
LEMMA UpPrecedes ==
    ASSUME attr \in Attrs, NEW B, NEW n \in SuperBufs, NodeOk(n), Matched(n),
           NEW p, UpAhead(B, p, n)
    PROVE  Precedes(p, n.slot)
<1>1. /\ \A t \in Streams : Exact(t) => n.slot[t] = n.frame_idx
      /\ ~Stale(B, n) /\ n.slot[Meta] # 0
  BY MatchedNode
<1>2. \A t \in Streams : Exact(t) => p[t] < n.slot[t] BY <1>1 DEF UpAhead
<1>3. \A t \in Streams : ~Exact(t) => p[t] < n.slot[t] BY <1>1 DEF UpAhead, Exact
<1> QED BY <1>2, <1>3 DEF Precedes

-----------------------------------------------------------------------------
(* A node is put in, filled, completed *)

\* A queue with a node put in at position z.
LEMMA InsertAtIs ==
    ASSUME NEW T, NEW q \in Seq(T), NEW e \in T, NEW z \in Nat, 1 <= z, z <= Len(q) + 1
    PROVE  /\ InsertAt(q, z, e) \in Seq(T) /\ Len(InsertAt(q, z, e)) = Len(q) + 1
           /\ \A k \in 1..z - 1 : InsertAt(q, z, e)[k] = q[k]
           /\ InsertAt(q, z, e)[z] = e
           /\ \A k \in z + 1..Len(q) + 1 : InsertAt(q, z, e)[k] = q[k - 1]
<1> DEFINE x == SubSeq(q, 1, z - 1)
           y == SubSeq(q, z, Len(q))
           w == <<e>>
           u == x \o w
           v == InsertAt(q, z, e)
<1>1. x \in Seq(T) /\ Len(x) = z - 1 /\ \A k \in 1..z - 1 : x[k] = q[k] OBVIOUS
<1>2. y \in Seq(T) /\ Len(y) = Len(q) - z + 1 /\ \A k \in 1..Len(q) - z + 1 : y[k] = q[z + k - 1]
  OBVIOUS
<1>3. w \in Seq(T) /\ Len(w) = 1 /\ w[1] = e OBVIOUS
<1>4. v = u \o y BY DEF InsertAt
<1> HIDE DEF x, y, w, v
<1>5. /\ u \in Seq(T) /\ Len(u) = Len(x) + Len(w)
      /\ \A k \in 1..Len(x) : u[k] = x[k]
      /\ \A k \in 1..Len(w) : u[Len(x) + k] = w[k]
  <2>1. x \in Seq(T) /\ w \in Seq(T) BY <1>1, <1>3
  <2> QED BY <2>1
<1> HIDE DEF u
<1>6. /\ v \in Seq(T) /\ Len(v) = Len(u) + Len(y)
      /\ \A k \in 1..Len(u) : v[k] = u[k]
      /\ \A k \in 1..Len(y) : v[Len(u) + k] = y[k]
  <2>1. u \in Seq(T) /\ y \in Seq(T) BY <1>2, <1>5
  <2> QED BY <1>4, <2>1
<1>7. Len(u) = z BY <1>1, <1>3, <1>5
<1>8. Len(v) = Len(q) + 1 BY <1>2, <1>6, <1>7
<1>9. ASSUME NEW k \in 1..z - 1 PROVE v[k] = q[k]
  <2>1. k \in 1..Len(u) /\ k \in 1..Len(x) BY <1>1, <1>7
  <2> QED BY <1>1, <1>5, <1>6, <2>1
<1>10. v[z] = e
  <2>1. z \in 1..Len(u) /\ 1 \in 1..Len(w) /\ Len(x) + 1 = z BY <1>1, <1>3, <1>7
  <2>2. v[z] = u[z] BY <1>6, <2>1
  <2>3. u[Len(x) + 1] = w[1] BY <1>5, <2>1
  <2> QED BY <1>3, <2>1, <2>2, <2>3
<1>11. ASSUME NEW k \in z + 1..Len(q) + 1 PROVE v[k] = q[k - 1]
  <2> DEFINE j == k - z
  <2>1. j \in 1..Len(y) /\ j \in 1..Len(q) - z + 1 /\ Len(u) + j = k /\ z + j - 1 = k - 1
    BY <1>2, <1>7
  <2> HIDE DEF j
  <2>2. v[Len(u) + j] = y[j] /\ y[j] = q[z + j - 1] BY <1>2, <1>6, <2>1
  <2> QED BY <2>1, <2>2
<1> QED BY <1>6, <1>8, <1>9, <1>10, <1>11 DEF v

\* A new node goes in before the first unmatched node that is newer, or at the
\* tail, and the invariant holds with the frame.
LEMMA Inserted ==
    ASSUME attr \in Attrs, NEW A, NEW c, Inv(c, A),
           NEW s \in Streams, NEW i \in Frames, Fresh(A, s, i),
           NEW before \in Nat, NEW z \in Nat,
           before = 0 => z = Len(c.queue) + 1, before # 0 => z = before,
           c.match_cnt < z, z <= Len(c.queue) + 1,
           Len(c.queue) - c.match_cnt <= MaxUnmatched,
           \A k \in DOMAIN c.queue : ~Fits(c.queue[k], s, i),
           \A k \in DOMAIN c.queue : c.match_cnt < k /\ k < z => c.queue[k].frame_idx < i,
           z <= Len(c.queue) => c.queue[z].frame_idx > i
    PROVE  Inv(Insert(c, s, i, before), A \cup {<<s, i>>})
<1> DEFINE single == Streams = {s}
           expected == i = c.diverted_frame_id \/ i = c.good_frame_id
           n == [frame_idx |-> i, slot |-> [t \in Streams |-> IF t = s THEN i ELSE 0],
                 unmatched_meta_idx |-> IF LowPriority /\ s = Meta THEN i ELSE 0,
                 expected_frame |-> expected /\ ~single]
           q == InsertAt(c.queue, z, n)
           dv == IF expected THEN 0 ELSE c.diverted_frame_id
           ex == IF single THEN i + PostFrameSkip ELSE c.expected_frame_id
           mc == IF single THEN c.match_cnt + 1 ELSE c.match_cnt
           d == Insert(c, s, i, before)
           B == A \cup {<<s, i>>}
           L == Len(c.queue)
<1>0. /\ i \in Nat /\ i # 0 /\ 0 \in Frames /\ i <= MaxFrame /\ <<s, i>> \notin A
      /\ A \subseteq B /\ B \subseteq Streams \X Frames
  <2>1. i \in Nat /\ i # 0 /\ 0 \in Frames /\ i <= MaxFrame BY Numbers DEF Frames, Fresh
  <2>2. <<s, i>> \notin A BY <2>1 DEF Fresh
  <2>3. A \subseteq Streams \X Frames BY DEF Inv, Sound
  <2> QED BY <2>1, <2>2, <2>3
<1>1. /\ c \in Chan /\ Sound(c, A) /\ Counted(c) /\ c.match_cnt \in Nat
      /\ c.match_cnt <= L /\ L \in Nat /\ DOMAIN c.queue = 1..L
      /\ c.queue \in Seq(SuperBufs) /\ \A k \in DOMAIN c.queue : c.queue[k] \in SuperBufs
      /\ DOMAIN c.up = 1..Len(c.up) /\ \A k \in DOMAIN c.up : c.up[k] \in [Streams -> Frames]
  <2>1. c \in Chan BY DEF Inv, Sound
  <2> QED BY <2>1, ChanIs DEF Inv, Counted
<1>2. n \in SuperBufs /\ IsNew(n, s, i)
  <2>1. n \in SuperBufs
    <3>1. [t \in Streams |-> IF t = s THEN i ELSE 0] \in [Streams -> Frames] BY <1>0
    <3>2. (expected /\ ~single) \in BOOLEAN OBVIOUS
    <3> QED BY <1>0, <3>1, <3>2 DEF SuperBufs
  <2>2. IsNew(n, s, i) BY DEF IsNew
  <2> QED BY <2>1, <2>2
<1>3. d = [c EXCEPT !.queue = q, !.diverted_frame_id = dv, !.expected_frame_id = ex,
                    !.match_cnt = mc]
  <2>1. z = IF before = 0 THEN Len(c.queue) + 1 ELSE before OBVIOUS
  <2> QED BY <1>1, <2>1 DEF Insert, Chan
<1> HIDE DEF n, d
<1>4. NodeOk(n) /\ FramesOf(n.slot) = {<<s, i>>} /\ (Matched(n) <=> single) BY <1>0, <1>2, NewNode
<1>5. /\ q \in Seq(SuperBufs) /\ Len(q) = L + 1
      /\ \A k \in 1..z - 1 : q[k] = c.queue[k]
      /\ q[z] = n
      /\ \A k \in z + 1..L + 1 : q[k] = c.queue[k - 1]
  <2>1. /\ c.queue \in Seq(SuperBufs) /\ n \in SuperBufs
        /\ z \in Nat /\ 1 <= z /\ z <= Len(c.queue) + 1
    BY <1>1, <1>2
  <2>2. q \in Seq(SuperBufs) /\ Len(q) = Len(c.queue) + 1 BY <2>1, InsertAtIs
  <2>3. \A k \in 1..z - 1 : q[k] = c.queue[k] BY <2>1, InsertAtIs
  <2>4. q[z] = n BY <2>1, InsertAtIs
  <2>5. \A k \in z + 1..Len(c.queue) + 1 : q[k] = c.queue[k - 1]
    <3>1. n \in SuperBufs /\ 1 <= z BY <2>1
    <3>2. ASSUME NEW p \in Seq(SuperBufs), z <= Len(p) + 1, NEW k \in z + 1..Len(p) + 1
          PROVE  InsertAt(p, z, n)[k] = p[k - 1]
      BY <3>1, <3>2, InsertAtIs
    <3> QED BY <2>1, <3>2
  <2> QED BY <2>2, <2>3, <2>4, <2>5
<1> HIDE DEF q
<1>6. dv \in Frames /\ ex \in 0..ExpectedMax /\ mc \in Int
  <2>1. c.diverted_frame_id \in Frames /\ c.expected_frame_id \in 0..ExpectedMax BY <1>1 DEF Chan
  <2>2. i + PostFrameSkip \in 0..ExpectedMax
    <3>1. PostFrameSkip \in Nat /\ MaxFrame + PostFrameSkip <= ExpectedMax /\ MaxFrame \in Nat
          /\ ExpectedMax \in Nat
      BY Numbers
    <3>2. i \in Nat /\ i <= MaxFrame BY <3>1 DEF Frames
    <3> QED BY <3>1, <3>2
  <2> QED BY <1>0, <1>1, <2>1, <2>2
<1>m. mc = IF single THEN c.match_cnt + 1 ELSE c.match_cnt OBVIOUS
<1> HIDE DEF dv, ex, mc, single
<1>7. /\ d \in Chan /\ d.queue = q /\ d.match_cnt = mc /\ d.back = c.back /\ d.up = c.up
  <2>1. q \in Seq(SuperBufs) /\ c \in Chan BY <1>1, <1>5
  <2>2. d.queue = q /\ d.match_cnt = mc /\ d.back = c.back /\ d.up = c.up BY <1>3, <2>1 DEF Chan
  <2>3. d \in Chan BY <1>3, <1>6, <2>1 DEF Chan
  <2> QED BY <2>2, <2>3
<1>8. DOMAIN d.queue = 1..L + 1 /\ z \in DOMAIN d.queue BY <1>1, <1>5, <1>7, ChanIs
\* Where the nodes come from.
<1>9. ASSUME NEW k \in DOMAIN d.queue
      PROVE  /\ k < z => k \in DOMAIN c.queue /\ d.queue[k] = c.queue[k]
             /\ k = z => d.queue[k] = n
             /\ k > z => k - 1 \in DOMAIN c.queue /\ d.queue[k] = c.queue[k - 1] /\ k - 1 >= z
  <2>1. CASE k < z
    <3>1. k \in 1..z - 1 /\ k \in 1..L BY <1>8, <2>1
    <3> QED BY <1>1, <1>5, <1>7, <2>1, <3>1
  <2>2. CASE k = z BY <1>5, <1>7, <2>2
  <2>3. CASE k > z
    <3>1. k \in z + 1..L + 1 /\ k - 1 \in 1..L /\ k - 1 >= z BY <1>8, <2>3
    <3> QED BY <1>1, <1>5, <1>7, <2>3, <3>1
  <2> QED BY <1>8, <2>1, <2>2, <2>3
<1>10. /\ Nodes(c) /\ Ups(c) /\ Ordered(c, A) /\ Placed(c, A)
       /\ \A k \in DOMAIN c.queue : /\ c.queue[k] \in SuperBufs /\ NodeOk(c.queue[k])
                                    /\ Known(A, c.queue[k].slot)
                                    /\ Matched(c.queue[k]) <=> k <= c.match_cnt
       /\ \A k \in DOMAIN c.up : /\ c.up[k] \in [Streams -> Frames] /\ SlotOk(c.up[k])
                                 /\ Known(A, c.up[k])
  BY <1>1, InArrived DEF Sound, Nodes, Ups, Known, Counted
<1>11. single => z = L + 1 /\ c.match_cnt = L
  <2> SUFFICES ASSUME single, c.match_cnt # L PROVE FALSE BY <1>1
  <2>1. L \in DOMAIN c.queue /\ ~(L <= c.match_cnt) BY <1>1
  <2>2. NodeOk(c.queue[L]) /\ ~Matched(c.queue[L]) /\ c.queue[L] \in SuperBufs BY <1>10, <2>1
  <2>3. \E t \in Streams : c.queue[L].slot[t] # 0
    BY <2>2, NodeIs DEF NodeOk
  <2> QED BY <2>2, <2>3 DEF Matched, single
<1>12. Placed(d, B)
  <2>1. ASSUME NEW f PROVE f \in FramesIn(d.queue) <=> f \in FramesIn(c.queue) \/ f = <<s, i>>
    <3>1. ASSUME f \in FramesIn(d.queue) PROVE f \in FramesIn(c.queue) \/ f = <<s, i>>
      <4>1. PICK k \in DOMAIN d.queue : f \in FramesOf(d.queue[k].slot) BY <3>1, QueueFrames
      <4>2. CASE k < z BY <1>9, <4>1, <4>2, QueueFrames
      <4>3. CASE k = z BY <1>4, <1>9, <4>1, <4>3
      <4>4. CASE k > z BY <1>9, <4>1, <4>4, QueueFrames
      <4> QED BY <1>8, <4>2, <4>3, <4>4
    <3>2. ASSUME f \in FramesIn(c.queue) PROVE f \in FramesIn(d.queue)
      <4>1. PICK k \in DOMAIN c.queue : f \in FramesOf(c.queue[k].slot) BY <3>2, QueueFrames
      <4>2. CASE k < z
        <5>1. k \in DOMAIN d.queue BY <1>1, <1>8
        <5> QED BY <1>9, <4>1, <4>2, <5>1, QueueFrames
      <4>3. CASE k >= z
        <5> DEFINE j == k + 1
        <5>1. j \in DOMAIN d.queue /\ j > z /\ j - 1 = k BY <1>1, <1>8, <4>3
        <5> HIDE DEF j
        <5>2. d.queue[j] = c.queue[k] BY <1>9, <5>1
        <5> QED BY <4>1, <5>1, <5>2, QueueFrames
      <4> QED BY <1>1, <4>2, <4>3
    <3>3. <<s, i>> \in FramesIn(d.queue) BY <1>4, <1>8, <1>9, QueueFrames
    <3> QED BY <3>1, <3>2, <3>3
  <2>2. UpIn(d) = UpIn(c) BY <1>7 DEF UpIn
  <2>3. <<s, i>> \notin FramesIn(c.queue) /\ <<s, i>> \notin UpIn(c) /\ <<s, i>> \notin c.back
    BY <1>0, <1>10 DEF Placed
  <2>4. B = FramesIn(d.queue) \cup UpIn(d) \cup d.back BY <1>7, <1>10, <2>1, <2>2 DEF Placed
  <2>5. (FramesIn(d.queue) \cup UpIn(d)) \cap d.back = {}
    BY <1>7, <1>10, <2>1, <2>2, <2>3 DEF Placed
  <2>6. FramesIn(d.queue) \cap UpIn(d) = {} BY <1>10, <2>1, <2>2, <2>3 DEF Placed
  <2>7. ASSUME NEW j \in DOMAIN d.queue, NEW k \in DOMAIN d.queue, j < k
        PROVE  FramesOf(d.queue[j].slot) \cap FramesOf(d.queue[k].slot) = {}
    <3>0. \A x \in DOMAIN c.queue : <<s, i>> \notin FramesOf(c.queue[x].slot)
      BY <2>3, QueueFrames
    <3>1. CASE j < z /\ k < z
      <4>1. /\ j \in DOMAIN c.queue /\ d.queue[j] = c.queue[j]
            /\ k \in DOMAIN c.queue /\ d.queue[k] = c.queue[k]
        BY <1>9, <3>1
      <4>2. j # k BY <1>8, <2>7
      <4> QED BY <1>10, <4>1, <4>2 DEF Placed
    <3>2. CASE j < z /\ k = z BY <1>4, <1>9, <3>0, <3>2
    <3>3. CASE j < z /\ k > z
      <4>1. j # k - 1 BY <1>8, <1>9, <3>3
      <4> QED BY <1>9, <1>10, <3>3, <4>1 DEF Placed
    <3>4. CASE j = z
      <4>1. k > z BY <1>8, <2>7, <3>4
      <4> QED BY <1>4, <1>9, <3>0, <3>4, <4>1
    <3>5. CASE j > z
      <4>1. k > z /\ j - 1 # k - 1 BY <1>8, <2>7, <3>5
      <4>2. /\ j - 1 \in DOMAIN c.queue /\ d.queue[j] = c.queue[j - 1]
            /\ k - 1 \in DOMAIN c.queue /\ d.queue[k] = c.queue[k - 1]
        BY <1>9, <3>5, <4>1
      <4> QED BY <1>10, <4>1, <4>2 DEF Placed
    <3> QED BY <1>8, <2>7, <3>1, <3>2, <3>3, <3>4, <3>5
  <2>8. \A j, k \in DOMAIN d.queue : j # k => j < k \/ k < j BY <1>8
  <2>9. \A j, k \in DOMAIN d.queue :
           j # k => FramesOf(d.queue[j].slot) \cap FramesOf(d.queue[k].slot) = {}
    BY <2>7, <2>8
  <2> QED BY <1>7, <1>10, <2>4, <2>5, <2>6, <2>9 DEF Placed
<1>13. Nodes(d)
  <2> SUFFICES ASSUME NEW k \in DOMAIN d.queue PROVE NodeOk(d.queue[k]) BY DEF Nodes
  <2>1. CASE k < z BY <1>9, <1>10, <2>1
  <2>2. CASE k = z BY <1>4, <1>9, <2>2
  <2>3. CASE k > z BY <1>9, <1>10, <2>3
  <2> QED BY <1>8, <2>1, <2>2, <2>3
<1>14. Ups(d) BY <1>7, <1>10 DEF Ups
<1>15. \A k \in DOMAIN d.queue : Matched(d.queue[k]) <=> k <= mc
  <2> SUFFICES ASSUME NEW k \in DOMAIN d.queue PROVE Matched(d.queue[k]) <=> k <= mc OBVIOUS
  <2>1. CASE k < z
    <3>1. k <= mc <=> k <= c.match_cnt BY <1>1, <1>8, <1>11, <1>m, <2>1
    <3> QED BY <1>9, <1>10, <2>1, <3>1
  <2>2. CASE k = z
    <3>1. z <= mc <=> single BY <1>1, <1>11, <1>m
    <3> QED BY <1>4, <1>9, <2>2, <3>1
  <2>3. CASE k > z
    <3>1. ~single /\ ~(k <= mc) /\ ~(k - 1 <= c.match_cnt) BY <1>1, <1>8, <1>11, <1>m, <2>3
    <3> QED BY <1>9, <1>10, <2>3, <3>1
  <2> QED BY <1>8, <2>1, <2>2, <2>3
<1>16. Counted(d)
  <2>1. mc \in 0..L + 1 BY <1>1, <1>m
  <2>2. (L + 1) - mc <= MaxUnmatched + 1
    <3>1. L - c.match_cnt <= MaxUnmatched /\ MaxUnmatched \in Nat BY Numbers
    <3>2. CASE single BY <1>1, <1>m, <3>1, <3>2
    <3>3. CASE ~single BY <1>1, <1>m, <3>1, <3>3
    <3> QED BY <3>2, <3>3
  <2> QED BY <1>5, <1>7, <1>15, <2>1, <2>2 DEF Counted
<1>17. Ordered(d, B)
  <2>0. Ordered(c, B) BY <1>0, <1>10, OrderedGrows
  <2>1. ASSUME NEW j \in DOMAIN c.queue, j < z
        PROVE  /\ Ahead(B, c.queue[j], n)
               /\ single => Precedes(c.queue[j].slot, n.slot)
    <3>1. Matched(c.queue[j]) \/ (c.queue[j].frame_idx < i /\ ~Fits(c.queue[j], s, i))
      BY <1>1, <1>10, <2>1
    <3>2. Ahead(B, c.queue[j], n) BY <1>0, <1>2, <1>10, <3>1, AheadOfNew
    <3>3. ASSUME single PROVE Precedes(c.queue[j].slot, n.slot)
      <4>1. Matched(c.queue[j]) BY <1>1, <1>10, <1>11, <3>3
      <4>2. c.queue[j].slot[s] < i BY <1>10, <4>1, MatchedBeforeFresh
      <4> QED BY <1>2, <3>3, <4>2 DEF IsNew, Precedes, single
    <3> QED BY <3>2, <3>3
  <2>2. ASSUME NEW k \in DOMAIN c.queue, k >= z PROVE Ahead(B, n, c.queue[k])
    <3>1. ~Matched(c.queue[k]) BY <1>1, <1>10, <2>2
    <3>2. z \in DOMAIN c.queue /\ c.queue[z].frame_idx > i BY <1>1, <2>2
    <3>3. Stale(A, c.queue[k]) \/ c.queue[k].frame_idx > i
      <4>1. CASE k = z BY <3>2, <4>1
      <4>2. CASE k # z
        <5>1. z < k BY <1>1, <2>2, <4>2
        <5>2. Ahead(A, c.queue[z], c.queue[k]) BY <1>10, <3>1, <3>2, <5>1 DEF Ordered
        <5>3. c.queue[z].frame_idx \in Nat /\ c.queue[k].frame_idx \in Nat
          BY <1>10, <3>2, NodeIs
        <5> QED BY <1>0, <3>2, <5>2, <5>3 DEF Ahead
      <4> QED BY <4>1, <4>2
    <3> QED BY <1>0, <1>2, <1>10, <3>1, <3>3, NewAhead
  <2>3. ASSUME NEW k \in DOMAIN c.up
        PROVE  UpAhead(B, c.up[k], n) /\ (single => Precedes(c.up[k], n.slot))
    BY <1>0, <1>2, <1>10, UpAheadOfNew DEF single
  <2>4. ASSUME NEW j \in DOMAIN d.queue, NEW k \in DOMAIN d.queue, j < k
        PROVE  /\ ~Matched(d.queue[k]) => Ahead(B, d.queue[j], d.queue[k])
               /\ Matched(d.queue[j]) /\ Matched(d.queue[k])
                    => Precedes(d.queue[j].slot, d.queue[k].slot)
    <3>1. CASE j < z /\ k < z BY <1>9, <2>0, <2>4, <3>1 DEF Ordered
    <3>2. CASE j < z /\ k = z BY <1>4, <1>9, <2>1, <3>2
    <3>3. CASE j < z /\ k > z
      <4>1. j < k - 1 BY <1>8, <1>9, <3>3
      <4> QED BY <1>9, <2>0, <3>3, <4>1 DEF Ordered
    <3>4. CASE j = z
      <4>1. k > z BY <1>8, <2>4, <3>4
      <4>2. ~Matched(d.queue[k])
        <5>1. ~(k - 1 <= c.match_cnt) BY <1>1, <1>8, <1>9, <4>1
        <5> QED BY <1>9, <1>10, <4>1, <5>1
      <4> QED BY <1>9, <2>2, <3>4, <4>1, <4>2
    <3>5. CASE j > z
      <4>1. k > z /\ j - 1 < k - 1 BY <1>8, <2>4, <3>5
      <4> QED BY <1>9, <2>0, <3>5, <4>1 DEF Ordered
    <3> QED BY <1>8, <2>4, <3>1, <3>2, <3>3, <3>4, <3>5
  <2>5. ASSUME NEW j \in DOMAIN d.up, NEW k \in DOMAIN d.queue
        PROVE  IF Matched(d.queue[k]) THEN Precedes(d.up[j], d.queue[k].slot)
                                      ELSE UpAhead(B, d.up[j], d.queue[k])
    <3>0. d.up = c.up BY <1>7
    <3>1. CASE k < z BY <1>9, <2>0, <3>0, <3>1 DEF Ordered
    <3>2. CASE k = z BY <1>4, <1>9, <2>3, <3>0, <3>2
    <3>3. CASE k > z BY <1>9, <2>0, <3>0, <3>3 DEF Ordered
    <3> QED BY <1>8, <3>1, <3>2, <3>3
  <2>6. \A j, k \in DOMAIN d.up : j < k => Precedes(d.up[j], d.up[k]) BY <1>7, <2>0 DEF Ordered
  <2> QED BY <2>4, <2>5, <2>6 DEF Ordered
<1> QED BY <1>0, <1>7, <1>12, <1>13, <1>14, <1>16, <1>17 DEF Inv, Sound, d

\* Filling a node keeps the channel sound, and what is before it is ahead of it.
LEMMA Replaced ==
    ASSUME attr \in Attrs, NEW A, NEW c, Inv(c, A),
           NEW s \in Streams, NEW i \in Frames, Fresh(A, s, i),
           NEW pos \in DOMAIN c.queue, Fits(c.queue[pos], s, i), c.queue[pos].slot[s] = 0,
           \A k \in DOMAIN c.queue : k < pos => ~Fits(c.queue[k], s, i),
           NEW n \in SuperBufs, IsFilled(c.queue[pos], n, s, i),
           NEW d \in Chan, d.queue = [c.queue EXCEPT ![pos] = n], d.up = c.up, d.back = c.back
    PROVE  /\ Sound(d, A \cup {<<s, i>>}) /\ NodeOk(n) /\ (Exact(s) => n.frame_idx = i)
           /\ n.frame_idx <= i
           /\ \A k \in DOMAIN c.queue : k < pos => Ahead(A \cup {<<s, i>>}, c.queue[k], n)
<1> DEFINE B == A \cup {<<s, i>>}
           r == c.queue[pos]
<1>0. /\ i \in Nat /\ i # 0 /\ <<s, i>> \notin A
      /\ A \subseteq B /\ B \subseteq Streams \X Frames
  <2>1. i \in Nat /\ i # 0 BY DEF Frames, Fresh
  <2>2. <<s, i>> \notin A BY <2>1 DEF Fresh
  <2>3. A \subseteq Streams \X Frames BY DEF Inv, Sound
  <2> QED BY <2>1, <2>2, <2>3
<1>1. /\ c \in Chan /\ Sound(c, A) /\ Counted(c) /\ c.match_cnt \in Nat
      /\ Len(c.queue) \in Nat /\ DOMAIN c.queue = 1..Len(c.queue)
      /\ c.queue \in Seq(SuperBufs) /\ \A k \in DOMAIN c.queue : c.queue[k] \in SuperBufs
      /\ DOMAIN c.up = 1..Len(c.up) /\ \A k \in DOMAIN c.up : c.up[k] \in [Streams -> Frames]
  <2>1. c \in Chan BY DEF Inv, Sound
  <2> QED BY <2>1, ChanIs DEF Inv, Counted
<1>2. /\ Nodes(c) /\ Ups(c) /\ Ordered(c, A) /\ Placed(c, A)
      /\ \A k \in DOMAIN c.queue : /\ c.queue[k] \in SuperBufs /\ NodeOk(c.queue[k])
                                   /\ Known(A, c.queue[k].slot)
                                   /\ Matched(c.queue[k]) <=> k <= c.match_cnt
      /\ \A k \in DOMAIN c.up : /\ c.up[k] \in [Streams -> Frames] /\ SlotOk(c.up[k])
                                /\ Known(A, c.up[k])
  BY <1>1, InArrived DEF Sound, Nodes, Ups, Known, Counted
<1>3. /\ DOMAIN d.queue = DOMAIN c.queue /\ d.queue[pos] = n
      /\ \A k \in DOMAIN c.queue : k # pos => d.queue[k] = c.queue[k]
  BY <1>1
<1>4. r \in SuperBufs /\ NodeOk(r) /\ Known(A, r.slot) /\ ~Matched(r) /\ pos > c.match_cnt
  <2>1. ~Matched(r) BY DEF Fits
  <2> QED BY <1>1, <1>2, <2>1
<1>5. /\ NodeOk(n) /\ FramesOf(n.slot) = FramesOf(r.slot) \cup {<<s, i>>}
      /\ n.frame_idx <= i /\ (Exact(s) => n.frame_idx = i)
  BY <1>0, <1>4, FilledNode
<1>6. Placed(d, B)
  <2>1. ASSUME NEW f PROVE f \in FramesIn(d.queue) <=> f \in FramesIn(c.queue) \/ f = <<s, i>>
    <3>1. ASSUME f \in FramesIn(d.queue) PROVE f \in FramesIn(c.queue) \/ f = <<s, i>>
      <4>1. PICK k \in DOMAIN d.queue : f \in FramesOf(d.queue[k].slot) BY <3>1, QueueFrames
      <4>2. CASE k = pos
        <5>1. f \in FramesOf(r.slot) \/ f = <<s, i>> BY <1>3, <1>5, <4>1, <4>2
        <5> QED BY <5>1, QueueFrames
      <4>3. CASE k # pos BY <1>3, <4>1, <4>3, QueueFrames
      <4> QED BY <4>2, <4>3
    <3>2. ASSUME f \in FramesIn(c.queue) PROVE f \in FramesIn(d.queue)
      <4>1. PICK k \in DOMAIN c.queue : f \in FramesOf(c.queue[k].slot) BY <3>2, QueueFrames
      <4>2. f \in FramesOf(d.queue[k].slot) BY <1>3, <1>5, <4>1
      <4> QED BY <1>3, <4>1, <4>2, QueueFrames
    <3>3. <<s, i>> \in FramesIn(d.queue) BY <1>3, <1>5, QueueFrames
    <3> QED BY <3>1, <3>2, <3>3
  <2>2. UpIn(d) = UpIn(c) BY DEF UpIn
  <2>3. <<s, i>> \notin FramesIn(c.queue) /\ <<s, i>> \notin UpIn(c) /\ <<s, i>> \notin c.back
    BY <1>0, <1>2 DEF Placed
  <2>4. B = FramesIn(d.queue) \cup UpIn(d) \cup d.back BY <1>2, <2>1, <2>2 DEF Placed
  <2>5. (FramesIn(d.queue) \cup UpIn(d)) \cap d.back = {} BY <1>2, <2>1, <2>2, <2>3 DEF Placed
  <2>6. FramesIn(d.queue) \cap UpIn(d) = {} BY <1>2, <2>1, <2>2, <2>3 DEF Placed
  <2>7. \A k \in DOMAIN c.queue : <<s, i>> \notin FramesOf(c.queue[k].slot) BY <2>3, QueueFrames
  <2>8. ASSUME NEW j \in DOMAIN d.queue, NEW k \in DOMAIN d.queue, j # k
        PROVE  FramesOf(d.queue[j].slot) \cap FramesOf(d.queue[k].slot) = {}
    <3>1. FramesOf(c.queue[j].slot) \cap FramesOf(c.queue[k].slot) = {}
      BY <1>2, <1>3, <2>8 DEF Placed
    <3>2. CASE j = pos BY <1>3, <1>5, <2>7, <2>8, <3>1, <3>2
    <3>3. CASE k = pos BY <1>3, <1>5, <2>7, <2>8, <3>1, <3>3
    <3>4. CASE j # pos /\ k # pos BY <1>3, <3>1, <3>4
    <3> QED BY <3>2, <3>3, <3>4
  <2> QED BY <1>2, <2>4, <2>5, <2>6, <2>8 DEF Placed
<1>7. Nodes(d) BY <1>2, <1>3, <1>5 DEF Nodes
<1>8. Ups(d) BY <1>2 DEF Ups
<1>9. \A k \in DOMAIN c.queue : k < pos => Ahead(B, c.queue[k], n)
  <2> SUFFICES ASSUME NEW k \in DOMAIN c.queue, k < pos PROVE Ahead(B, c.queue[k], n) OBVIOUS
  <2>1. Ahead(A, c.queue[k], r) BY <1>2, <1>4 DEF Ordered
  <2> QED BY <1>0, <1>2, <1>4, <2>1, AheadOfFilled
<1>10. Ordered(d, B)
  <2>0. Ordered(c, B) BY <1>0, <1>2, OrderedGrows
  <2>1. ASSUME NEW k \in DOMAIN c.queue, k > pos
        PROVE  ~Matched(c.queue[k]) /\ Ahead(B, n, c.queue[k])
    <3>1. ~Matched(c.queue[k]) BY <1>1, <1>2, <1>4, <2>1
    <3>2. Ahead(A, r, c.queue[k]) BY <1>2, <2>1, <3>1 DEF Ordered
    <3> QED BY <1>0, <1>2, <1>4, <3>1, <3>2, FilledAhead
  <2>2. ASSUME NEW k \in DOMAIN c.up PROVE UpAhead(B, c.up[k], n)
    <3>1. UpAhead(A, c.up[k], r) BY <1>2, <1>4 DEF Ordered
    <3> QED BY <1>0, <1>2, <1>4, <3>1, UpAheadOfFilled
  <2>3. ASSUME NEW k \in DOMAIN c.queue, k < pos, Matched(n), Matched(c.queue[k])
        PROVE  Precedes(c.queue[k].slot, n.slot)
    <3>1. Ahead(B, c.queue[k], n) BY <1>9, <2>3
    <3>2. UpAhead(B, c.queue[k].slot, n) BY <1>2, <2>3, <3>1, MatchedAhead
    <3> QED BY <1>5, <2>3, <3>2, UpPrecedes
  <2>4. ASSUME NEW j \in DOMAIN d.queue, NEW k \in DOMAIN d.queue, j < k
        PROVE  /\ ~Matched(d.queue[k]) => Ahead(B, d.queue[j], d.queue[k])
               /\ Matched(d.queue[j]) /\ Matched(d.queue[k])
                    => Precedes(d.queue[j].slot, d.queue[k].slot)
    <3>1. CASE k = pos
      <4>1. j # pos /\ j < pos BY <1>1, <1>3, <2>4, <3>1
      <4> QED BY <1>3, <1>9, <2>3, <3>1, <4>1
    <3>2. CASE j = pos
      <4>1. k # pos /\ k > pos BY <1>1, <1>3, <2>4, <3>2
      <4> QED BY <1>3, <2>1, <3>2, <4>1
    <3>3. CASE j # pos /\ k # pos BY <1>3, <2>0, <2>4, <3>3 DEF Ordered
    <3> QED BY <3>1, <3>2, <3>3
  <2>5. ASSUME NEW j \in DOMAIN d.up, NEW k \in DOMAIN d.queue
        PROVE  IF Matched(d.queue[k]) THEN Precedes(d.up[j], d.queue[k].slot)
                                      ELSE UpAhead(B, d.up[j], d.queue[k])
    <3>1. CASE k = pos BY <1>3, <1>5, <2>2, <3>1, UpPrecedes
    <3>2. CASE k # pos BY <1>3, <2>0, <3>2 DEF Ordered
    <3> QED BY <3>1, <3>2
  <2>6. \A j, k \in DOMAIN d.up : j < k => Precedes(d.up[j], d.up[k]) BY <2>0 DEF Ordered
  <2> QED BY <2>4, <2>5, <2>6 DEF Ordered
<1> QED BY <1>0, <1>5, <1>6, <1>7, <1>8, <1>9, <1>10 DEF Sound

\* The loop that gives up older super buffers takes out the nodes from to - 1.
LEMMA OlderReleased ==
    ASSUME attr \in Attrs, NEW A, NEW c, Sound(c, A), NEW from \in Nat, NEW to \in Nat,
           1 <= from, from <= to, to <= Len(c.queue)
    PROVE  LET d == ReleaseOlder(c, from, to)
           IN  /\ Sound(d, A) /\ d.match_cnt = c.match_cnt
               /\ Len(d.queue) = Len(c.queue) - (to - from)
               /\ \A k \in 1..from - 1 : d.queue[k] = c.queue[k]
               /\ \A k \in from..Len(d.queue) : d.queue[k] = c.queue[k + (to - from)]
<1> DEFINE b == c.back \cup FramesIn(SubSeq(c.queue, from, to - 1))
           x == SubSeq(c.queue, 1, from - 1)
           y == SubSeq(c.queue, to, Len(c.queue))
           q == x \o y
           d == ReleaseOlder(c, from, to)
<1>1. /\ c \in Chan /\ Sound(c, A) /\ Len(c.queue) \in Nat /\ DOMAIN c.queue = 1..Len(c.queue)
      /\ c.queue \in Seq(SuperBufs)
  <2>1. c \in Chan BY DEF Sound
  <2> QED BY <2>1, ChanIs
<1>2. b = c.back \cup UNION {FramesOf(c.queue[k].slot) : k \in from..to - 1}
  <2>1. PICK z \in Int : z = to - 1 OBVIOUS
  <2>2. z >= 0 /\ z <= Len(c.queue) /\ from <= Len(c.queue) + 1 BY <1>1, <2>1
  <2>3. FramesIn(SubSeq(c.queue, from, z)) = UNION {FramesOf(c.queue[k].slot) : k \in from..z}
    BY <1>1, <2>2, GivenBack
  <2> QED BY <2>1, <2>3
<1>3. b \in SUBSET (Streams \X Frames)
  <2>1. c.back \in SUBSET (Streams \X Frames) BY <1>1 DEF Chan
  <2>2. \A k \in from..to - 1 : \A f \in FramesOf(c.queue[k].slot) : f \in Streams \X Frames
    <3>1. \A k \in from..to - 1 : k \in DOMAIN c.queue BY <1>1
    <3> QED BY <1>1, <3>1, QueueFrames DEF Sound, Placed
  <2> QED BY <1>2, <2>1, <2>2
<1>4. /\ q \in Seq(SuperBufs) /\ Len(q) = Len(c.queue) - (to - from)
      /\ \A k \in 1..from - 1 : q[k] = c.queue[k]
      /\ \A k \in from..Len(q) : q[k] = c.queue[k + (to - from)]
  <2>1. x \in Seq(SuperBufs) /\ Len(x) = from - 1 /\ \A k \in 1..from - 1 : x[k] = c.queue[k]
    BY <1>1
  <2>2. /\ y \in Seq(SuperBufs) /\ Len(y) = Len(c.queue) - to + 1
        /\ \A k \in 1..Len(c.queue) - to + 1 : y[k] = c.queue[to + k - 1]
    BY <1>1
  <2> HIDE DEF x, y
  <2>4. /\ q \in Seq(SuperBufs) /\ Len(q) = Len(x) + Len(y)
        /\ \A k \in 1..Len(x) : q[k] = x[k]
        /\ \A k \in 1..Len(y) : q[Len(x) + k] = y[k]
    <3>1. x \in Seq(SuperBufs) /\ y \in Seq(SuperBufs) BY <2>1, <2>2
    <3> QED BY <3>1
  <2> HIDE DEF q
  <2>5. Len(q) = Len(c.queue) - (to - from) BY <1>1, <2>1, <2>2, <2>4
  <2>6. ASSUME NEW k \in from..Len(q) PROVE q[k] = c.queue[k + (to - from)]
    <3> DEFINE j == k - (from - 1)
    <3>1. j \in 1..Len(y) /\ j \in 1..Len(c.queue) - to + 1 /\ Len(x) + j = k
          /\ to + j - 1 = k + (to - from)
      BY <1>1, <2>1, <2>2, <2>5
    <3> HIDE DEF j
    <3>2. q[Len(x) + j] = y[j] /\ y[j] = c.queue[to + j - 1] BY <2>2, <2>4, <3>1
    <3> QED BY <3>1, <3>2
  <2>7. \A k \in 1..from - 1 : q[k] = c.queue[k] BY <2>1, <2>4
  <2> QED BY <2>4, <2>5, <2>6, <2>7
<1>5. d = [c EXCEPT !.queue = q, !.back = b] BY <1>1 DEF ReleaseOlder, Qbuf, Chan
<1> HIDE DEF b, q, d
<1>6. /\ d \in Chan /\ d.queue = q /\ d.match_cnt = c.match_cnt /\ d.back = b /\ d.up = c.up
  <2>1. q \in Seq(SuperBufs) /\ c \in Chan BY <1>1, <1>4
  <2> QED BY <1>3, <1>5, <2>1 DEF Chan
<1>7. Sound(d, A)
  <2>1. to <= Len(c.queue) + 1 BY <1>1
  <2>2. /\ Len(d.queue) = Len(c.queue) - (to - from)
        /\ \A k \in 1..from - 1 : d.queue[k] = c.queue[k]
        /\ \A k \in from..Len(d.queue) : d.queue[k] = c.queue[k + (to - from)]
    BY <1>4, <1>6
  <2>3. d.back = c.back \cup UNION {FramesOf(c.queue[k].slot) : k \in from..to - 1}
    BY <1>2, <1>6
  <2> QED BY <1>6, <2>1, <2>2, <2>3, CutOut
<1> QED BY <1>4, <1>6, <1>7 DEF d

\* When node pos becomes matched, giving up the unmatched nodes before it makes
\* the matched ones a prefix again.
LEMMA Completed ==
    ASSUME attr \in Attrs, NEW A, NEW e, Sound(e, A), NEW m \in Nat, NEW pos \in Nat,
           m < pos, pos <= Len(e.queue), e.match_cnt = m + 1,
           Len(e.queue) - m <= MaxUnmatched + 1,
           \A k \in DOMAIN e.queue : Matched(e.queue[k]) <=> k <= m \/ k = pos,
           NEW last \in Nat, pos = m + 1 => last = 0, pos # m + 1 => last = m + 1
    PROVE  Inv(ReleaseOlder(e, last, pos), A)
<1>1. e \in Chan /\ Len(e.queue) \in Nat /\ DOMAIN e.queue = 1..Len(e.queue)
  <2>1. e \in Chan BY DEF Sound
  <2> QED BY <2>1, ChanIs
<1>2. CASE pos = m + 1
  <2>1. last = 0 BY <1>2
  <2>2. ReleaseOlder(e, last, pos) = e BY <2>1 DEF ReleaseOlder
  <2>3. \A k \in DOMAIN e.queue : Matched(e.queue[k]) <=> k <= e.match_cnt
    <3> SUFFICES ASSUME NEW k \in DOMAIN e.queue PROVE Matched(e.queue[k]) <=> k <= e.match_cnt
      OBVIOUS
    <3>1. k \in Nat BY <1>1
    <3>2. k <= e.match_cnt <=> k <= m \/ k = pos BY <1>2, <3>1
    <3> QED BY <3>2
  <2>4. e.match_cnt \in 0..Len(e.queue) BY <1>1, <1>2
  <2>5. Len(e.queue) - e.match_cnt <= MaxUnmatched + 1
    <3>1. MaxUnmatched \in Nat BY Numbers
    <3> QED BY <1>1, <3>1
  <2>6. Counted(e) BY <2>3, <2>4, <2>5 DEF Counted
  <2> QED BY <2>2, <2>6 DEF Inv
<1>3. CASE pos # m + 1
  <2>1. last = m + 1 /\ last <= pos /\ 1 <= last BY <1>3
  <2> DEFINE d == ReleaseOlder(e, last, pos)
             L == Len(d.queue)
  <2>2. /\ Sound(d, A) /\ d.match_cnt = e.match_cnt /\ L = Len(e.queue) - (pos - last)
        /\ \A k \in 1..last - 1 : d.queue[k] = e.queue[k]
        /\ \A k \in last..L : d.queue[k] = e.queue[k + (pos - last)]
    BY <2>1, OlderReleased
  <2>3. d \in Chan BY <2>2 DEF Sound
  <2>4. DOMAIN d.queue = 1..L /\ L \in Nat BY <2>3, ChanIs
  <2> HIDE DEF L, d
  <2>5. d.match_cnt = m + 1 BY <2>2
  <2>6. L = Len(e.queue) - (pos - (m + 1)) BY <2>1, <2>2
  <2>7. ASSUME NEW k \in DOMAIN d.queue PROVE Matched(d.queue[k]) <=> k <= d.match_cnt
    <3>1. k \in Nat /\ 1 <= k /\ k <= L BY <2>4
    <3>2. CASE k <= m
      <4>1. k \in 1..last - 1 /\ k \in DOMAIN e.queue BY <1>1, <2>1, <3>1, <3>2
      <4>2. d.queue[k] = e.queue[k] BY <2>2, <4>1
      <4>3. Matched(e.queue[k]) BY <3>2, <4>1
      <4>4. k <= d.match_cnt BY <2>5, <3>1, <3>2
      <4> QED BY <4>2, <4>3, <4>4
    <3>3. CASE ~(k <= m)
      <4> DEFINE j == k + (pos - last)
      <4>1. k \in last..L BY <2>1, <3>1, <3>3
      <4>2. d.queue[k] = e.queue[j] BY <2>2, <4>1
      <4>3. j \in Nat /\ j = k + pos - (m + 1) BY <2>1, <3>1
      <4> HIDE DEF j
      <4>4. j \in DOMAIN e.queue BY <1>1, <2>6, <3>1, <3>3, <4>3
      <4>5. ~(j <= m) BY <3>1, <3>3, <4>3
      <4>6. j = pos <=> k <= d.match_cnt BY <2>5, <3>1, <3>3, <4>3
      <4>7. Matched(e.queue[j]) <=> j = pos BY <4>4, <4>5
      <4> QED BY <4>2, <4>6, <4>7
    <3> QED BY <3>2, <3>3
  <2>8. d.match_cnt \in 0..L BY <1>1, <2>4, <2>5, <2>6
  <2>9. L - d.match_cnt <= MaxUnmatched + 1
    <3>1. MaxUnmatched \in Nat BY Numbers
    <3> QED BY <1>1, <2>5, <2>6, <3>1
  <2>10. Counted(d) BY <2>7, <2>8, <2>9 DEF Counted, L
  <2> QED BY <2>2, <2>10 DEF Inv, d
<1> QED BY <1>2, <1>3

\* A frame that fits a node fills it: the invariant holds after the release of
\* the older nodes that this may entail. last_buf is the first unmatched node
\* that is older, and all unmatched ones before a matched one are.
LEMMA Filled ==
    ASSUME attr \in Attrs, NEW A, NEW c, Inv(c, A),
           NEW s \in Streams, NEW i \in Frames, Fresh(A, s, i),
           NEW pos \in DOMAIN c.queue, Fits(c.queue[pos], s, i), c.queue[pos].slot[s] = 0,
           \A k \in DOMAIN c.queue : k < pos => ~Fits(c.queue[k], s, i),
           NEW last_buf \in Nat,
           last_buf # 0 => /\ last_buf \in DOMAIN c.queue /\ ~Matched(c.queue[last_buf])
                           /\ last_buf < pos,
           \A k \in DOMAIN c.queue : ~Matched(c.queue[k]) /\ k < pos /\ c.queue[k].frame_idx < i
              => last_buf # 0 /\ last_buf <= k
    PROVE  Inv(Fill(AdoptIndex(c, pos, i), s, i, pos, last_buf), A \cup {<<s, i>>})
<1> DEFINE B == A \cup {<<s, i>>}
           r == c.queue[pos]
           ra == IF r.unmatched_meta_idx = 0 THEN r
                 ELSE [r EXCEPT !.unmatched_meta_idx = 0, !.frame_idx = i]
           n == [ra EXCEPT !.slot[s] = i]
           L == Len(c.queue)
           m == c.match_cnt
           d == Fill(AdoptIndex(c, pos, i), s, i, pos, last_buf)
<1>1. /\ c \in Chan /\ Sound(c, A) /\ Counted(c) /\ m \in Nat /\ m <= L
      /\ L \in Nat /\ DOMAIN c.queue = 1..L
      /\ c.queue \in Seq(SuperBufs) /\ \A k \in DOMAIN c.queue : c.queue[k] \in SuperBufs
      /\ \A k \in DOMAIN c.queue : Matched(c.queue[k]) <=> k <= m
      /\ L - m <= MaxUnmatched + 1
  <2>1. c \in Chan BY DEF Inv, Sound
  <2> QED BY <2>1, ChanIs DEF Inv, Counted
<1>0. i \in Nat /\ i # 0 /\ i <= MaxFrame /\ 0 \in Frames BY Numbers DEF Frames, Fresh
<1>2. r \in SuperBufs /\ ~Matched(r) /\ pos > m /\ pos <= L /\ pos \in Nat
  <2>1. ~Matched(r) BY DEF Fits
  <2> QED BY <1>1, <2>1
<1>3. ra \in SuperBufs /\ ra.slot = r.slot
  <2>1. CASE r.unmatched_meta_idx = 0 BY <1>2, <2>1
  <2>2. CASE r.unmatched_meta_idx # 0
    <3>1. ra = [r EXCEPT !.unmatched_meta_idx = 0, !.frame_idx = i] BY <2>2
    <3> HIDE DEF ra, r
    <3> QED BY <1>0, <1>2, <3>1 DEF SuperBufs
  <2> QED BY <2>1, <2>2
<1>a. /\ ra.unmatched_meta_idx = 0
      /\ r.unmatched_meta_idx = 0 => ra.frame_idx = r.frame_idx
      /\ r.unmatched_meta_idx # 0 => ra.frame_idx = i
  <2>1. CASE r.unmatched_meta_idx = 0 BY <2>1
  <2>2. CASE r.unmatched_meta_idx # 0
    <3>1. ra = [r EXCEPT !.unmatched_meta_idx = 0, !.frame_idx = i] BY <2>2
    <3> HIDE DEF ra, r
    <3> QED BY <1>2, <2>2, <3>1 DEF SuperBufs
  <2> QED BY <2>1, <2>2
<1>4. AdoptIndex(c, pos, i) = [c EXCEPT !.queue = [c.queue EXCEPT ![pos] = ra]]
  <2>1. CASE r.unmatched_meta_idx = 0
    <3>1. [c.queue EXCEPT ![pos] = r] = c.queue BY <1>1
    <3>2. AdoptIndex(c, pos, i) = c BY <2>1 DEF AdoptIndex
    <3>3. ra = r BY <2>1
    <3>4. [c EXCEPT !.queue = c.queue] = c BY <1>1 DEF Chan
    <3> QED BY <3>1, <3>2, <3>3, <3>4
  <2>2. CASE r.unmatched_meta_idx # 0
    <3>1. AdoptIndex(c, pos, i) = [c EXCEPT !.queue[pos].unmatched_meta_idx = 0,
                                            !.queue[pos].frame_idx = i]
      BY <2>2 DEF AdoptIndex
    <3>2. ra = [r EXCEPT !.unmatched_meta_idx = 0, !.frame_idx = i] BY <2>2
    <3> QED BY <1>1, <3>1, <3>2, ZenonT(60) DEF Chan
  <2> QED BY <2>1, <2>2
<1> HIDE DEF ra
<1>5. ASSUME NEW e \in BOOLEAN
      PROVE  /\ [n EXCEPT !.expected_frame = e] \in SuperBufs
             /\ IsFilled(r, [n EXCEPT !.expected_frame = e], s, i)
             /\ Matched([n EXCEPT !.expected_frame = e]) <=> Matched(n)
  <2> DEFINE ne == [n EXCEPT !.expected_frame = e]
  <2>1. ne = [ra EXCEPT !.slot = [ra.slot EXCEPT ![s] = i], !.expected_frame = e]
    BY <1>3 DEF SuperBufs
  <2>2. [ra.slot EXCEPT ![s] = i] \in [Streams -> Frames] BY <1>3 DEF SuperBufs
  <2> DEFINE w == [ra.slot EXCEPT ![s] = i]
  <2>3. w[s] = i /\ \A t \in Streams : t # s => w[t] = r.slot[t] BY <1>3 DEF SuperBufs
  <2>4. n.slot = w BY <1>3 DEF SuperBufs
  <2> HIDE DEF w, ne, n
  <2>5. /\ ne \in SuperBufs /\ ne.slot = w /\ ne.unmatched_meta_idx = ra.unmatched_meta_idx
        /\ ne.frame_idx = ra.frame_idx
    BY <1>3, <2>1, <2>2 DEF SuperBufs, w
  <2>6. IsFilled(r, ne, s, i) BY <1>a, <2>3, <2>5 DEF IsFilled
  <2>7. Matched(ne) <=> Matched(n) BY <2>4, <2>5 DEF Matched
  <2> QED BY <2>5, <2>6, <2>7 DEF ne
<1>6. n \in SuperBufs /\ IsFilled(r, n, s, i)
  <2> DEFINE w == [ra.slot EXCEPT ![s] = i]
  <2>1. n = [ra EXCEPT !.slot = w] BY <1>3 DEF SuperBufs
  <2>2. w \in [Streams -> Frames] BY <1>3 DEF SuperBufs
  <2>3. w[s] = i /\ \A t \in Streams : t # s => w[t] = r.slot[t] BY <1>3 DEF SuperBufs
  <2> HIDE DEF w, n
  <2>4. /\ n \in SuperBufs /\ n.slot = w /\ n.unmatched_meta_idx = ra.unmatched_meta_idx
        /\ n.frame_idx = ra.frame_idx
    BY <1>3, <2>1, <2>2 DEF SuperBufs
  <2> QED BY <1>a, <2>3, <2>4 DEF IsFilled
<1> DEFINE cc == [c EXCEPT !.queue = [c.queue EXCEPT ![pos] = ra]]
<1>7. /\ cc.queue[pos] = ra
      /\ \A x : [cc EXCEPT !.queue[pos] = x] = [c EXCEPT !.queue = [c.queue EXCEPT ![pos] = x]]
  BY <1>1 DEF Chan
<1>8. ASSUME NEW x \in SuperBufs
      PROVE  /\ [c.queue EXCEPT ![pos] = x] \in Seq(SuperBufs)
             /\ Len([c.queue EXCEPT ![pos] = x]) = L
             /\ DOMAIN [c.queue EXCEPT ![pos] = x] = 1..L
             /\ [c.queue EXCEPT ![pos] = x][pos] = x
             /\ \A k \in 1..L : k # pos => [c.queue EXCEPT ![pos] = x][k] = c.queue[k]
  BY <1>1
<1> HIDE DEF n
<1>9. CASE Matched(n)
  <2> DEFINE x == [n EXCEPT !.expected_frame = FALSE]
             q == [c.queue EXCEPT ![pos] = x]
             e == [c EXCEPT !.queue = q, !.expected_frame_id = i + PostFrameSkip,
                            !.match_cnt = m + 1]
  <2>1. x \in SuperBufs /\ IsFilled(r, x, s, i) /\ Matched(x) BY <1>5, <1>9
  <2>2. d = ReleaseOlder(e, last_buf, pos)
    <3>1. d = ReleaseOlder([cc EXCEPT !.queue[pos] = x, !.expected_frame_id = i + PostFrameSkip,
                                      !.match_cnt = @ + 1], last_buf, pos)
      BY <1>4, <1>7, <1>9 DEF Fill, n
    <3>2. [cc EXCEPT !.queue[pos] = x, !.expected_frame_id = i + PostFrameSkip,
                     !.match_cnt = @ + 1] = e
      BY <1>1 DEF Chan
    <3> QED BY <3>1, <3>2
  <2> HIDE DEF x
  <2>3. /\ q \in Seq(SuperBufs) /\ Len(q) = L /\ DOMAIN q = 1..L /\ q[pos] = x
        /\ \A k \in 1..L : k # pos => q[k] = c.queue[k]
    BY <1>8, <2>1
  <2>q. q = [c.queue EXCEPT ![pos] = x] OBVIOUS
  <2> HIDE DEF q
  <2>4. PICK ex \in 0..ExpectedMax : ex = i + PostFrameSkip
    <3>1. i + PostFrameSkip \in 0..ExpectedMax BY <1>0, Numbers
    <3> QED BY <3>1
  <2>5. PICK mc \in Int : mc = m + 1 BY <1>1
  <2>6. /\ e \in Chan /\ e.queue = q /\ e.match_cnt = m + 1 /\ e.back = c.back /\ e.up = c.up
    <3>1. e = [c EXCEPT !.queue = q, !.expected_frame_id = ex, !.match_cnt = mc]
      BY <2>4, <2>5
    <3>2. q \in Seq(SuperBufs) /\ c \in Chan /\ ex \in 0..ExpectedMax /\ mc \in Int
      BY <1>1, <2>3, <2>4, <2>5
    <3> HIDE DEF e
    <3>3. e.queue = q /\ e.match_cnt = mc /\ e.back = c.back /\ e.up = c.up
      BY <3>1, <3>2 DEF Chan
    <3>4. e \in Chan BY <3>1, <3>2 DEF Chan
    <3> QED BY <2>5, <3>3, <3>4
  <2> HIDE DEF e, d
  <2>7. /\ Sound(e, B) /\ NodeOk(x) /\ x.frame_idx <= i
        /\ \A k \in DOMAIN c.queue : k < pos => Ahead(B, c.queue[k], x)
    <3>1. e.queue = [c.queue EXCEPT ![pos] = x] BY <2>6, <2>q
    <3>2. x \in SuperBufs /\ IsFilled(c.queue[pos], x, s, i) BY <2>1
    <3>3. e \in Chan /\ e.back = c.back /\ e.up = c.up BY <2>6
    <3>4. /\ Sound(e, A \cup {<<s, i>>}) /\ NodeOk(x) /\ (Exact(s) => x.frame_idx = i)
          /\ x.frame_idx <= i
          /\ \A k \in DOMAIN c.queue : k < pos => Ahead(A \cup {<<s, i>>}, c.queue[k], x)
      <4> HIDE DEF m, L, cc, r, B
      <4> QED BY <3>1, <3>2, <3>3, Replaced
    <3> QED BY <3>4
  \* Whatever is unmatched before the node is older than the frame.
  <2>8. \A k \in DOMAIN c.queue : ~Matched(c.queue[k]) /\ k < pos => c.queue[k].frame_idx < i
    <3> SUFFICES ASSUME NEW k \in DOMAIN c.queue, k < pos PROVE c.queue[k].frame_idx < i
      OBVIOUS
    <3>1. Ahead(B, c.queue[k], x) /\ ~Stale(B, x) BY <2>1, <2>7, MatchedNode
    <3>2. c.queue[k].frame_idx < x.frame_idx BY <3>1 DEF Ahead
    <3>3. c.queue[k].frame_idx \in Nat /\ x.frame_idx \in Nat BY <1>1, <2>1, NodeIs
    <3> QED BY <1>0, <2>7, <3>2, <3>3
  <2>9. \A k \in DOMAIN e.queue : Matched(e.queue[k]) <=> k <= m \/ k = pos
    <3> SUFFICES ASSUME NEW k \in 1..L PROVE Matched(q[k]) <=> k <= m \/ k = pos
      BY <2>3, <2>6
    <3>1. CASE k = pos BY <2>1, <2>3, <3>1
    <3>2. CASE k # pos BY <1>1, <2>3, <3>2
    <3> QED BY <3>1, <3>2
  <2>10. ASSUME pos = m + 1 PROVE last_buf = 0
    <3> SUFFICES ASSUME last_buf # 0 PROVE FALSE OBVIOUS
    <3>1. last_buf \in DOMAIN c.queue /\ ~Matched(c.queue[last_buf]) /\ last_buf < pos OBVIOUS
    <3>2. ~(last_buf <= m) BY <1>1, <3>1
    <3> QED BY <1>1, <2>10, <3>1, <3>2
  <2>11. ASSUME pos # m + 1 PROVE last_buf = m + 1
    <3>1. PICK k \in Nat : k = m + 1 BY <1>1
    <3>2. k \in DOMAIN c.queue /\ k < pos /\ ~(k <= m) BY <1>1, <1>2, <2>11, <3>1
    <3>3. ~Matched(c.queue[k]) BY <1>1, <3>2
    <3>4. last_buf # 0 /\ last_buf <= k BY <2>8, <3>2, <3>3
    <3>5. last_buf \in DOMAIN c.queue /\ ~Matched(c.queue[last_buf]) BY <3>4
    <3>6. ~(last_buf <= m) BY <1>1, <3>5
    <3> QED BY <1>1, <3>1, <3>4, <3>6
  <2>12. /\ pos \in Nat /\ m < pos /\ pos <= Len(e.queue) /\ e.match_cnt = m + 1
         /\ Len(e.queue) - m <= MaxUnmatched + 1 /\ m \in Nat
    BY <1>1, <1>2, <2>3, <2>6
  <2> HIDE DEF m
  <2>13. Sound(e, B) BY <2>7
  <2>14. Inv(ReleaseOlder(e, last_buf, pos), B)
    BY <2>9, <2>10, <2>11, <2>12, <2>13, Completed
  <2> QED BY <2>2, <2>14 DEF d
<1>10. CASE ~Matched(n)
  <2>1. PICK x \in SuperBufs, dv \in Frames :
          /\ d = [c EXCEPT !.queue = [c.queue EXCEPT ![pos] = x], !.diverted_frame_id = dv]
          /\ IsFilled(r, x, s, i) /\ ~Matched(x)
    <3>1. CASE cc.diverted_frame_id = i
      <4> DEFINE x == [n EXCEPT !.expected_frame = TRUE]
      <4>1. x \in SuperBufs /\ IsFilled(r, x, s, i) /\ ~Matched(x) BY <1>5, <1>10
      <4>2. d = [cc EXCEPT !.queue[pos] = x, !.diverted_frame_id = 0]
        BY <1>4, <1>7, <1>10, <3>1 DEF Fill, n
      <4> HIDE DEF x
      <4>3. d = [c EXCEPT !.queue = [c.queue EXCEPT ![pos] = x], !.diverted_frame_id = 0]
        BY <1>1, <4>2 DEF Chan
      <4> QED BY <1>0, <4>1, <4>3
    <3>2. CASE cc.diverted_frame_id # i
      <4>1. d = [cc EXCEPT !.queue[pos] = n] BY <1>4, <1>7, <1>10, <3>2 DEF Fill, n
      <4>2. d = [c EXCEPT !.queue = [c.queue EXCEPT ![pos] = n],
                          !.diverted_frame_id = c.diverted_frame_id]
        BY <1>1, <4>1 DEF Chan
      <4>3. c.diverted_frame_id \in Frames BY <1>1 DEF Chan
      <4> QED BY <1>6, <1>10, <4>2, <4>3
    <3> QED BY <3>1, <3>2
  <2> DEFINE q == [c.queue EXCEPT ![pos] = x]
  <2>2. /\ q \in Seq(SuperBufs) /\ Len(q) = L /\ DOMAIN q = 1..L /\ q[pos] = x
        /\ \A k \in 1..L : k # pos => q[k] = c.queue[k]
    BY <1>8
  <2>3. d = [c EXCEPT !.queue = q, !.diverted_frame_id = dv] BY <2>1
  <2>q. q = [c.queue EXCEPT ![pos] = x] OBVIOUS
  <2> HIDE DEF q, d
  <2>4. d \in Chan /\ d.queue = q /\ d.match_cnt = m /\ d.back = c.back /\ d.up = c.up
    <3>1. q \in Seq(SuperBufs) /\ c \in Chan BY <1>1, <2>2
    <3> QED BY <2>3, <3>1 DEF Chan
  <2>5. Sound(d, B)
    <3>1. d.queue = [c.queue EXCEPT ![pos] = x] BY <2>4, <2>q
    <3>2. IsFilled(c.queue[pos], x, s, i) BY <2>1
    <3>3. d \in Chan /\ d.back = c.back /\ d.up = c.up BY <2>4
    <3>4. Sound(d, A \cup {<<s, i>>})
      <4> HIDE DEF m, L, cc, r, B
      <4> QED BY <3>1, <3>2, <3>3, Replaced, ZenonT(60)
    <3> QED BY <3>4
  <2>6. \A k \in 1..L : Matched(q[k]) <=> k <= m
    <3> SUFFICES ASSUME NEW k \in 1..L PROVE Matched(q[k]) <=> k <= m OBVIOUS
    <3>1. ~Matched(x) BY <2>1
    <3>2. CASE k = pos BY <1>1, <1>2, <2>2, <3>1, <3>2
    <3>3. CASE k # pos BY <1>1, <2>2, <3>3
    <3> QED BY <3>2, <3>3
  <2>7. Counted(d)
    <3>1. m \in 0..L BY <1>1
    <3> QED BY <1>1, <2>2, <2>4, <2>6, <3>1 DEF Counted
  <2> QED BY <2>5, <2>7 DEF Inv, d
<1> QED BY <1>9, <1>10

-----------------------------------------------------------------------------
(* mm_channel_superbuf_comp_and_enqueue() *)

\* What MakeRoom leaves: a node v from last on is given up, or nothing.
HasRoom(A, c, d, last, ib, u, v) ==
    /\ Inv(d, A) /\ d.match_cnt = c.match_cnt
    /\ Len(d.queue) - d.match_cnt <= MaxUnmatched
    /\ u <= MaxUnmatched => d = c
    /\ u > MaxUnmatched =>
          /\ v \in Nat /\ last <= v /\ v <= Len(c.queue) /\ v # ib
          /\ Len(d.queue) = Len(c.queue) - 1
          /\ \A k \in 1..v - 1 : d.queue[k] = c.queue[k]
          /\ \A k \in v..Len(d.queue) : d.queue[k] = c.queue[k + 1]

\* The loop that gives up a node when there are too many unmatched ones.
LEMMA RoomMade ==
    ASSUME attr \in Attrs, NEW A, NEW c, Inv(c, A), NEW last \in Nat, NEW ib \in Nat, NEW u \in Nat,
           c.match_cnt + u = Len(c.queue),
           u > MaxUnmatched => last \in DOMAIN c.queue /\ c.match_cnt < last /\ last # ib
    PROVE  HasRoom(A, c, MakeRoom(c, u, last, ib), last, ib, u, Victim(c, last, ib))
<1>1. /\ c \in Chan /\ Counted(c) /\ Len(c.queue) \in Nat /\ DOMAIN c.queue = 1..Len(c.queue)
      /\ c.match_cnt \in Nat /\ c.match_cnt <= Len(c.queue)
      /\ Len(c.queue) - c.match_cnt <= MaxUnmatched + 1 /\ MaxUnmatched \in Nat
  <2>1. c \in Chan BY DEF Inv, Sound
  <2> QED BY <2>1, ChanIs, Numbers DEF Inv, Counted
<1>t. ASSUME NEW w \in Nat, c.match_cnt < w, w <= Len(c.queue)
      PROVE  LET e == Without(c, w)
             IN  /\ Inv(e, A) /\ e.match_cnt = c.match_cnt /\ Len(e.queue) = Len(c.queue) - 1
                 /\ \A k \in 1..w - 1 : e.queue[k] = c.queue[k]
                 /\ \A k \in w..Len(e.queue) : e.queue[k] = c.queue[k + 1]
  BY <1>t, TakenOut
<1> DEFINE d == MakeRoom(c, u, last, ib)
           v == Victim(c, last, ib)
<1>2. CASE u <= MaxUnmatched
  <2>1. d = c BY <1>2 DEF MakeRoom
  <2>2. ~(u > MaxUnmatched) BY <1>1, <1>2
  <2> HIDE DEF d, v
  <2>3. Len(d.queue) - d.match_cnt <= MaxUnmatched BY <1>1, <1>2, <2>1
  <2> QED BY <1>1, <2>1, <2>2, <2>3 DEF d, v, HasRoom
<1>3. CASE u > MaxUnmatched
  <2>1. last \in DOMAIN c.queue /\ c.match_cnt < last /\ last # ib BY <1>3
  <2>2. v \in Nat /\ last <= v /\ v <= Len(c.queue) /\ v # ib
    <3> DEFINE spare == {k \in last..Len(c.queue) : ~c.queue[k].expected_frame /\ k # ib}
    <3>1. CASE spare = {}
      <4>1. v = last BY <3>1 DEF Victim
      <4> QED BY <1>1, <2>1, <4>1
    <3>2. CASE spare # {}
      <4>1. v = Min(spare) BY <3>2 DEF Victim
      <4>2. \A k \in spare : k \in last..Len(c.queue) /\ k # ib OBVIOUS
      <4>3. spare \in SUBSET Nat BY <1>1
      <4> HIDE DEF spare, v
      <4>4. v \in spare BY <3>2, <4>1, <4>3, MinOf
      <4> QED BY <1>1, <2>1, <4>2, <4>4
    <3> QED BY <3>1, <3>2
  <2>3. d = Without(c, v)
    <3>1. ~(u <= MaxUnmatched) BY <1>1, <1>3
    <3> QED BY <3>1 DEF MakeRoom, Without
  <2> HIDE DEF v
  <2>4. c.match_cnt < v BY <1>1, <2>1, <2>2
  <2>5. /\ Inv(d, A) /\ d.match_cnt = c.match_cnt /\ Len(d.queue) = Len(c.queue) - 1
        /\ \A k \in 1..v - 1 : d.queue[k] = c.queue[k]
        /\ \A k \in v..Len(d.queue) : d.queue[k] = c.queue[k + 1]
    <3>1. v \in Nat /\ c.match_cnt < v /\ v <= Len(c.queue) BY <2>2, <2>4
    <3>2. LET e == Without(c, v)
          IN  /\ Inv(e, A) /\ e.match_cnt = c.match_cnt /\ Len(e.queue) = Len(c.queue) - 1
              /\ \A k \in 1..v - 1 : e.queue[k] = c.queue[k]
              /\ \A k \in v..Len(e.queue) : e.queue[k] = c.queue[k + 1]
      BY <3>1, <1>t
    <3> QED BY <2>3, <3>2
  <2> HIDE DEF d
  <2>6. Len(d.queue) - d.match_cnt <= MaxUnmatched BY <1>1, <2>5
  <2>7. ~(u <= MaxUnmatched) BY <1>1, <1>3
  <2> QED BY <2>2, <2>5, <2>6, <2>7 DEF d, v, HasRoom
<1> QED BY <1>1, <1>2, <1>3

\* A frame without a node gets a new one: room is made, and the place found
\* before that is corrected for the node taken out.
LEMMA Joined ==
    ASSUME attr \in Attrs, NEW A, NEW c, Inv(c, A),
           NEW s \in Streams, NEW i \in Frames, Fresh(A, s, i),
           NEW last \in Nat, NEW ib \in Nat, NEW u \in Nat, c.match_cnt + u = Len(c.queue),
           u > MaxUnmatched => last # 0,
           last # 0 => last \in DOMAIN c.queue /\ c.match_cnt < last /\ c.queue[last].frame_idx < i,
           ib # 0 => ib \in DOMAIN c.queue /\ c.match_cnt < ib /\ c.queue[ib].frame_idx > i,
           \A k \in DOMAIN c.queue :
              c.match_cnt < k /\ (ib # 0 => k < ib) => c.queue[k].frame_idx < i,
           \A k \in DOMAIN c.queue : ~Fits(c.queue[k], s, i)
    PROVE  LET d == MakeRoom(c, u, last, ib)
               moved == Len(d.queue) < Len(c.queue) /\ ib > Victim(c, last, ib)
           IN  /\ Inv(d, A)
               /\ Inv(Insert(d, s, i, IF moved THEN ib - 1 ELSE ib), A \cup {<<s, i>>})
<1> DEFINE d == MakeRoom(c, u, last, ib)
           v == Victim(c, last, ib)
           moved == Len(d.queue) < Len(c.queue) /\ ib > v
           nb == IF moved THEN ib - 1 ELSE ib
           L == Len(d.queue)
           m == c.match_cnt
<1>1. /\ c \in Chan /\ Len(c.queue) \in Nat /\ DOMAIN c.queue = 1..Len(c.queue)
      /\ m \in Nat /\ m <= Len(c.queue) /\ MaxUnmatched \in Nat
      /\ \A k \in DOMAIN c.queue : c.queue[k].frame_idx \in Nat
  <2>1. c \in Chan BY DEF Inv, Sound
  <2> QED BY <2>1, ChanIs, Numbers, NodeIs DEF Inv, Counted
<1>0. i \in Nat BY Numbers DEF Frames
<1>2. last # ib \/ last = 0
  <2> SUFFICES ASSUME last = ib, last # 0 PROVE FALSE OBVIOUS
  <2>1. c.queue[last].frame_idx < i /\ c.queue[last].frame_idx > i /\ last \in DOMAIN c.queue
    OBVIOUS
  <2>2. c.queue[last].frame_idx \in Nat BY <1>1, <2>1
  <2> QED BY <1>0, <2>1, <2>2
<1>3. /\ Inv(d, A) /\ d.match_cnt = m /\ L - m <= MaxUnmatched
      /\ u <= MaxUnmatched => d = c
      /\ u > MaxUnmatched =>
            /\ v \in Nat /\ last <= v /\ v <= Len(c.queue) /\ v # ib /\ last # 0 /\ m < v
            /\ L = Len(c.queue) - 1
            /\ \A k \in 1..v - 1 : d.queue[k] = c.queue[k]
            /\ \A k \in v..L : d.queue[k] = c.queue[k + 1]
  <2>1. u > MaxUnmatched => last # 0 /\ last \in DOMAIN c.queue /\ m < last /\ last # ib
    BY <1>2
  <2>2. /\ Inv(d, A) /\ d.match_cnt = m /\ L - d.match_cnt <= MaxUnmatched
        /\ u <= MaxUnmatched => d = c
        /\ u > MaxUnmatched =>
              /\ v \in Nat /\ last <= v /\ v <= Len(c.queue) /\ v # ib
              /\ L = Len(c.queue) - 1
              /\ \A k \in 1..v - 1 : d.queue[k] = c.queue[k]
              /\ \A k \in v..L : d.queue[k] = c.queue[k + 1]
    <3>1. u > MaxUnmatched => last \in DOMAIN c.queue /\ c.match_cnt < last /\ last # ib
      BY <2>1
    <3>2. HasRoom(A, c, MakeRoom(c, u, last, ib), last, ib, u, Victim(c, last, ib))
      BY <3>1, RoomMade
    <3> QED BY <3>2 DEF HasRoom
  <2> HIDE DEF d, v, L
  <2>3. u > MaxUnmatched => m < v BY <1>1, <2>1, <2>2
  <2> QED BY <2>1, <2>2, <2>3
<1>4. d \in Chan /\ L \in Nat /\ DOMAIN d.queue = 1..L
  <2>1. d \in Chan BY <1>3 DEF Inv, Sound
  <2> QED BY <2>1, ChanIs
<1>5. Inv(Insert(d, s, i, nb), A \cup {<<s, i>>})
  <2> HIDE DEF d, v
  \* The node of the old queue each node of the new one is.
  <2>1. \A k \in DOMAIN d.queue : \E j \in DOMAIN c.queue :
           /\ d.queue[k] = c.queue[j] /\ j \in Nat
           /\ j = IF u > MaxUnmatched /\ k >= v THEN k + 1 ELSE k
    <3> SUFFICES ASSUME NEW k \in DOMAIN d.queue
                 PROVE  \E j \in DOMAIN c.queue :
                           /\ d.queue[k] = c.queue[j] /\ j \in Nat
                           /\ j = IF u > MaxUnmatched /\ k >= v THEN k + 1 ELSE k
      OBVIOUS
    <3>0. k \in Nat /\ 1 <= k /\ k <= L BY <1>4
    <3> HIDE DEF L
    <3>1. CASE u <= MaxUnmatched
      <4>1. d = c /\ ~(u > MaxUnmatched) BY <1>1, <1>3, <3>1
      <4> QED BY <3>0, <4>1
    <3>2. CASE u > MaxUnmatched /\ k < v
      <4>1. k \in 1..v - 1 /\ v \in Nat BY <1>3, <3>0, <3>2
      <4>2. d.queue[k] = c.queue[k] BY <1>3, <3>2, <4>1
      <4>3. k \in DOMAIN c.queue BY <1>1, <1>3, <3>0, <3>2
      <4>4. ~(k >= v) BY <3>0, <3>2, <4>1
      <4> QED BY <3>0, <4>2, <4>3, <4>4
    <3>3. CASE u > MaxUnmatched /\ k >= v
      <4>1. k \in v..L /\ k + 1 \in Nat BY <1>3, <3>0, <3>3
      <4>2. d.queue[k] = c.queue[k + 1] BY <1>3, <3>3, <4>1
      <4>3. k + 1 \in DOMAIN c.queue BY <1>1, <1>3, <3>0, <3>3
      <4> QED BY <3>3, <4>1, <4>2, <4>3
    <3>4. u > MaxUnmatched => v \in Nat BY <1>3
    <3> QED BY <1>1, <3>0, <3>1, <3>2, <3>3, <3>4
  <2>2. /\ nb \in Nat
        /\ nb = 0 <=> ib = 0
        /\ nb # 0 => /\ m < nb /\ nb <= L
                     /\ nb = IF u > MaxUnmatched /\ ib > v THEN ib - 1 ELSE ib
    <3>1. CASE u <= MaxUnmatched
      <4>1. L = Len(c.queue) /\ ~(u > MaxUnmatched) BY <1>1, <1>3, <3>1
      <4>2. nb = ib BY <1>1, <4>1
      <4> QED BY <1>1, <4>1, <4>2
    <3>2. CASE u > MaxUnmatched
      <4> HIDE DEF L
      <4>1. v \in Nat /\ last <= v /\ v <= Len(c.queue) /\ v # ib /\ last # 0 /\ m < v
            /\ L = Len(c.queue) - 1
        BY <1>3, <3>2
      <4>2. moved <=> ib > v BY <1>1, <4>1 DEF L
      <4> HIDE DEF moved
      <4>3. CASE ib = 0 BY <4>1, <4>2, <4>3
      <4>4. CASE ib # 0
        <5>1. m < ib /\ ib <= Len(c.queue) BY <1>1, <4>4
        <5> QED BY <1>1, <3>2, <4>1, <4>2, <4>4, <5>1
      <4> QED BY <4>3, <4>4
    <3> QED BY <1>1, <3>1, <3>2
  <2> HIDE DEF nb, moved
  <2> DEFINE z == IF nb = 0 THEN L + 1 ELSE nb
  <2>3. /\ z \in Nat /\ m < z /\ z <= L + 1 /\ (nb = 0 => z = L + 1) /\ (nb # 0 => z = nb)
    BY <1>1, <1>3, <1>4, <2>2 DEF Inv, Counted
  <2>4. \A k \in DOMAIN d.queue : ~Fits(d.queue[k], s, i) BY <2>1
  <2>5. \A k \in DOMAIN d.queue : d.match_cnt < k /\ k < z => d.queue[k].frame_idx < i
    <3> SUFFICES ASSUME NEW k \in DOMAIN d.queue, m < k, k < z PROVE d.queue[k].frame_idx < i
      BY <1>3
    <3>1. PICK j \in DOMAIN c.queue : /\ d.queue[k] = c.queue[j] /\ j \in Nat
                                      /\ j = IF u > MaxUnmatched /\ k >= v THEN k + 1 ELSE k
      BY <2>1
    <3>2. k \in Nat /\ m < j BY <1>1, <1>4, <3>1
    <3>3. ASSUME ib # 0 PROVE j < ib
      <4>1. nb # 0 /\ z = nb /\ nb = IF u > MaxUnmatched /\ ib > v THEN ib - 1 ELSE ib
        BY <2>2, <2>3, <3>3
      <4> HIDE DEF z
      <4>2. CASE u > MaxUnmatched
        <5>1. v \in Nat /\ v # ib BY <1>3, <4>2
        <5> QED BY <3>1, <3>2, <4>1, <4>2, <5>1
      <4>3. CASE ~(u > MaxUnmatched) BY <3>1, <3>2, <4>1, <4>3
      <4> QED BY <4>2, <4>3
    <3>4. c.queue[j].frame_idx < i BY <3>1, <3>2, <3>3
    <3> QED BY <3>1, <3>4
  <2>6. ASSUME z <= L PROVE d.queue[z].frame_idx > i
    <3>1. nb # 0 /\ z = nb /\ ib # 0 BY <1>4, <2>2, <2>3, <2>6
    <3>2. nb = IF u > MaxUnmatched /\ ib > v THEN ib - 1 ELSE ib BY <2>2, <3>1
    <3>3. z \in DOMAIN d.queue BY <1>1, <1>4, <2>3, <2>6
    <3> HIDE DEF z
    <3>4. PICK j \in DOMAIN c.queue : /\ d.queue[z] = c.queue[j] /\ j \in Nat
                                      /\ j = IF u > MaxUnmatched /\ z >= v THEN z + 1 ELSE z
      BY <2>1, <3>3
    <3>5. j = ib
      <4>1. CASE u > MaxUnmatched
        <5>1. v \in Nat /\ v # ib BY <1>3, <4>1
        <5> QED BY <2>3, <3>1, <3>2, <3>4, <4>1, <5>1
      <4>2. CASE ~(u > MaxUnmatched) BY <2>3, <3>1, <3>2, <3>4, <4>2
      <4> QED BY <4>1, <4>2
    <3> QED BY <3>1, <3>4, <3>5
  <2>7. /\ Len(d.queue) - d.match_cnt <= MaxUnmatched
        /\ d.match_cnt < z /\ z <= Len(d.queue) + 1
        /\ (nb = 0 => z = Len(d.queue) + 1) /\ (nb # 0 => z = nb)
        /\ z <= Len(d.queue) => d.queue[z].frame_idx > i
        /\ Inv(d, A) /\ z \in Nat /\ nb \in Nat
    BY <1>3, <2>2, <2>3, <2>6
  <2> HIDE DEF z, L, m
  <2> QED BY <2>4, <2>5, <2>7, Inserted
<1> QED BY <1>3, <1>5

\* mm_channel_superbuf_comp_and_enqueue() keeps the invariant, in each of its
\* ways: the frame goes back, fills a node or gets a new one. The code gives a
\* frame back whose slot is taken; that never happens.
LEMMA Enqueued ==
    ASSUME attr \in Attrs, NEW A, NEW c, Inv(c, A),
           NEW s \in Streams, NEW i \in Frames, \A x \in Frames : x >= i => <<s, x>> \notin A,
           NEW nomem
    PROVE  Inv(CompAndEnqueue(c, s, i, nomem), A \cup {<<s, i>>})
<1> DEFINE q == c.queue
           frame == {<<s, i>>}
           pos == First({k \in DOMAIN q : Fits(q[k], s, i)})
           scanned == {k \in DOMAIN q : ~Matched(q[k]) /\ (pos # 0 => k < pos)}
           last_buf == First({k \in scanned : q[k].frame_idx < i})
           insert_before == First({k \in scanned : q[k].frame_idx > i})
           unmatched == Cardinality(scanned)
           discarded ==
               \/ i = 0
               \/ i < c.expected_frame_id /\ ~Validated(c, i)
               \/ pos = 0 /\ unmatched > MaxUnmatched /\ last_buf = 0
           room == MakeRoom(c, unmatched, last_buf, insert_before)
           moved == Len(room.queue) < Len(q) /\ insert_before > Victim(c, last_buf, insert_before)
           before == IF moved THEN insert_before - 1 ELSE insert_before
           filled == Fill(AdoptIndex(c, pos, i), s, i, pos, last_buf)
           L == Len(c.queue)
           m == c.match_cnt
<1>1. /\ c \in Chan /\ Sound(c, A) /\ Counted(c) /\ m \in Nat /\ m <= L
      /\ L \in Nat /\ DOMAIN q = 1..L
      /\ \A k \in DOMAIN q : q[k] \in SuperBufs /\ NodeOk(q[k])
      /\ \A k \in DOMAIN q : Matched(q[k]) <=> k <= m
  <2>1. c \in Chan BY DEF Inv, Sound
  <2> QED BY <2>1, ChanIs DEF Inv, Counted, Sound, Nodes
<1>0. i \in Nat /\ <<s, i>> \notin A /\ <<s, i>> \in Streams \X Frames
      /\ \A k \in DOMAIN q : q[k].frame_idx \in Nat
  <2>1. i \in Nat BY Numbers DEF Frames
  <2> QED BY <1>1, <2>1, NodeIs
<1>2. CompAndEnqueue(c, s, i, nomem) =
        IF discarded THEN Qbuf(c, frame)
        ELSE IF pos # 0
        THEN IF q[pos].slot[s] # 0 THEN Qbuf(AdoptIndex(c, pos, i), frame) ELSE filled
        ELSE IF nomem THEN Qbuf(room, frame) ELSE Insert(room, s, i, before)
  BY DEF CompAndEnqueue
<1>3. i # 0 => Fresh(A, s, i) BY DEF Fresh
<1>4. /\ pos \in Nat
      /\ pos # 0 => pos \in DOMAIN q /\ Fits(q[pos], s, i)
      /\ \A k \in DOMAIN q : Fits(q[k], s, i) => pos # 0 /\ pos <= k
  <2> DEFINE S == {k \in DOMAIN q : Fits(q[k], s, i)}
  <2>1. S \in SUBSET (1..L) BY <1>1
  <2>2. \A k : k \in S <=> k \in DOMAIN q /\ Fits(q[k], s, i) OBVIOUS
  <2> HIDE DEF S, q
  <2>3. (S = {} => First(S) = 0) /\ (S # {} => First(S) \in S /\ \A y \in S : First(S) <= y)
    BY <1>1, <2>1, FirstOf
  <2>4. \A k \in S : k \in Nat /\ k # 0 BY <1>1, <2>1
  <2>5. pos = First(S) BY DEF S
  <2> HIDE DEF pos
  <2> QED BY <2>2, <2>3, <2>4, <2>5
<1> HIDE DEF pos
<1>5. /\ last_buf \in Nat
      /\ last_buf # 0 => last_buf \in scanned /\ q[last_buf].frame_idx < i
      /\ \A k \in scanned : q[k].frame_idx < i => last_buf # 0 /\ last_buf <= k
  <2> DEFINE S == {k \in scanned : q[k].frame_idx < i}
  <2>1. S \in SUBSET (1..L) BY <1>1
  <2>2. \A k : k \in S <=> k \in scanned /\ q[k].frame_idx < i OBVIOUS
  <2>5. last_buf = First(S) OBVIOUS
  <2> HIDE DEF S, q, scanned, last_buf
  <2>3. (S = {} => First(S) = 0) /\ (S # {} => First(S) \in S /\ \A y \in S : First(S) <= y)
    BY <1>1, <2>1, FirstOf
  <2>4. \A k \in S : k \in Nat /\ k # 0 BY <1>1, <2>1
  <2> QED BY <2>2, <2>3, <2>4, <2>5
<1>6. /\ insert_before \in Nat
      /\ insert_before # 0 => insert_before \in scanned /\ q[insert_before].frame_idx > i
      /\ \A k \in scanned : q[k].frame_idx > i => insert_before # 0 /\ insert_before <= k
  <2> DEFINE S == {k \in scanned : q[k].frame_idx > i}
  <2>1. S \in SUBSET (1..L) BY <1>1
  <2>2. \A k : k \in S <=> k \in scanned /\ q[k].frame_idx > i OBVIOUS
  <2>5. insert_before = First(S) OBVIOUS
  <2> HIDE DEF S, q, scanned, insert_before
  <2>3. (S = {} => First(S) = 0) /\ (S # {} => First(S) \in S /\ \A y \in S : First(S) <= y)
    BY <1>1, <2>1, FirstOf
  <2>4. \A k \in S : k \in Nat /\ k # 0 BY <1>1, <2>1
  <2> QED BY <2>2, <2>3, <2>4, <2>5
<1> HIDE DEF last_buf, insert_before
<1>7. CASE discarded
  <2>1. Inv(Qbuf(c, {<<s, i>>}), A \cup {<<s, i>>}) BY <1>0, GivenBackAtOnce
  <2> QED BY <1>2, <1>7, <2>1
<1>8. CASE ~discarded /\ pos # 0
  <2>0. Fresh(A, s, i) /\ i # 0 BY <1>3, <1>8
  <2>1. pos \in DOMAIN q /\ Fits(q[pos], s, i) BY <1>4, <1>8
  <2>2. q[pos].slot[s] = 0
    <3> SUFFICES ASSUME q[pos].slot[s] # 0 PROVE FALSE OBVIOUS
    <3>1. q[pos].frame_idx = i BY <2>1 DEF Fits
    <3>2. <<s, q[pos].slot[s]>> \in A BY <1>1, <2>1, InArrived
    <3>3. q[pos] \in SuperBufs /\ NodeOk(q[pos]) BY <1>1, <2>1
    <3> HIDE DEF q
    <3>4. q[pos].slot[s] \in Frames /\ q[pos].slot[s] \in Nat BY <3>3, NodeIs
    <3>5. q[pos].slot[s] >= i
      <4>1. CASE Exact(s) BY <1>0, <3>1, <3>3, <3>4, <4>1 DEF NodeOk
      <4>2. CASE ~Exact(s) BY <1>0, <3>1, <3>3, <3>4, <4>2 DEF NodeOk, Exact
      <4> QED BY <4>1, <4>2
    <3> QED BY <3>2, <3>4, <3>5
  <2>3. Inv(filled, A \cup {<<s, i>>})
    <3>1. \A k \in DOMAIN c.queue : k < pos => ~Fits(c.queue[k], s, i)
      <4> SUFFICES ASSUME NEW k \in DOMAIN c.queue, k < pos, Fits(c.queue[k], s, i) PROVE FALSE
        OBVIOUS
      <4>1. pos <= k /\ pos \in Nat /\ k \in Nat BY <1>1, <1>4
      <4> QED BY <4>1
    <3>2. last_buf # 0 => /\ last_buf \in DOMAIN c.queue /\ ~Matched(c.queue[last_buf])
                          /\ last_buf < pos
      BY <1>5, <1>8
    <3>3. \A k \in DOMAIN c.queue : ~Matched(c.queue[k]) /\ k < pos /\ c.queue[k].frame_idx < i
             => last_buf # 0 /\ last_buf <= k
      BY <1>5
    <3>4. pos \in DOMAIN c.queue /\ Fits(c.queue[pos], s, i) /\ c.queue[pos].slot[s] = 0
          /\ last_buf \in Nat
      BY <1>5, <2>1, <2>2
    <3> HIDE DEF q, scanned, unmatched, discarded, L, m
    <3> QED BY <2>0, <3>1, <3>2, <3>3, <3>4, Filled
  <2> QED BY <1>2, <1>8, <2>2, <2>3
<1>9. CASE ~discarded /\ pos = 0
  <2>0. Fresh(A, s, i) /\ i # 0 /\ ~(unmatched > MaxUnmatched /\ last_buf = 0) BY <1>3, <1>9
  <2>1. scanned = {k \in DOMAIN q : ~Matched(q[k])} BY <1>9
  <2>2. \A k : k \in scanned <=> k \in DOMAIN q /\ m < k
    <3> SUFFICES ASSUME NEW k PROVE k \in scanned <=> k \in DOMAIN q /\ m < k OBVIOUS
    <3>1. k \in scanned <=> k \in DOMAIN q /\ ~(k <= m) BY <1>1, <2>1
    <3>2. k \in DOMAIN q => k \in Nat BY <1>1
    <3> QED BY <1>1, <3>1, <3>2
  <2>3. unmatched = L - m BY <1>1, <2>1, ReadyIs
  <2> HIDE DEF scanned, unmatched
  <2>4. unmatched \in Nat /\ c.match_cnt + unmatched = Len(c.queue) BY <1>1, <2>3
  <2>5. \A k \in DOMAIN c.queue : ~Fits(c.queue[k], s, i) BY <1>4, <1>9
  <2>6. ASSUME NEW k \in DOMAIN c.queue, m < k, insert_before # 0 => k < insert_before
        PROVE  c.queue[k].frame_idx < i
    <3>1. k \in scanned /\ k \in Nat BY <1>1, <2>2, <2>6
    <3>2. ~(c.queue[k].frame_idx > i)
      <4> SUFFICES ASSUME c.queue[k].frame_idx > i PROVE FALSE OBVIOUS
      <4>1. insert_before # 0 /\ insert_before <= k BY <1>6, <3>1
      <4> QED BY <1>6, <2>6, <3>1, <4>1
    <3>3. c.queue[k].frame_idx # i
      <4>1. ~Matched(c.queue[k]) BY <2>1, <3>1
      <4> QED BY <2>5, <4>1 DEF Fits
    <3> QED BY <1>0, <3>2, <3>3
  <2>7. /\ unmatched > MaxUnmatched => last_buf # 0
        /\ last_buf # 0 => /\ last_buf \in DOMAIN c.queue /\ c.match_cnt < last_buf
                           /\ c.queue[last_buf].frame_idx < i
        /\ insert_before # 0 => /\ insert_before \in DOMAIN c.queue
                                /\ c.match_cnt < insert_before
                                /\ c.queue[insert_before].frame_idx > i
    BY <1>5, <1>6, <2>0, <2>2
  <2>8. \A k \in DOMAIN c.queue :
          c.match_cnt < k /\ (insert_before # 0 => k < insert_before) => c.queue[k].frame_idx < i
    BY <2>6
  <2>9. Inv(room, A) /\ Inv(Insert(room, s, i, before), A \cup {<<s, i>>})
    <3>1. last_buf \in Nat /\ insert_before \in Nat BY <1>5, <1>6
    <3> HIDE DEF L, m, discarded
    <3> QED BY <2>0, <2>4, <2>5, <2>7, <2>8, <3>1, Joined
  <2> HIDE DEF room, before, moved
  <2>10. Inv(Qbuf(room, {<<s, i>>}), A \cup {<<s, i>>}) BY <1>0, <2>9, GivenBackAtOnce
  <2> QED BY <1>2, <1>9, <2>9, <2>10
<1> QED BY <1>7, <1>8, <1>9

-----------------------------------------------------------------------------
(* The steps *)

\* The expectation and the number of requests have no part in the invariant.
LEMMA Retuned ==
    ASSUME NEW A, NEW c, Inv(c, A), NEW d \in Chan,
           d.queue = c.queue, d.match_cnt = c.match_cnt, d.back = c.back, d.up = c.up
    PROVE  Inv(d, A)
<1>1. UpIn(d) = UpIn(c) BY DEF UpIn
<1>2. Placed(d, A) BY <1>1 DEF Inv, Sound, Placed
<1>3. Nodes(d) /\ Ups(d) BY DEF Inv, Sound, Nodes, Ups
<1>4. Ordered(d, A) BY DEF Inv, Sound, Ordered
<1>5. Counted(d) BY DEF Inv, Counted
<1> QED BY <1>2, <1>3, <1>4, <1>5 DEF Inv, Sound

\* A frame with the overflow and the dispatch that follow.
LEMMA Taken ==
    ASSUME attr \in Attrs, NEW A, NEW c, Inv(c, A), NEW s \in Streams, NEW i \in Frames,
           \A x \in Frames : x >= i => <<s, x>> \notin A, NEW nomem
    PROVE  /\ Inv(Finish(CompAndEnqueue(c, s, i, nomem)), A \cup {<<s, i>>})
           /\ Watered(Finish(CompAndEnqueue(c, s, i, nomem)))
<1>1. Inv(CompAndEnqueue(c, s, i, nomem), A \cup {<<s, i>>}) BY Enqueued
<1> QED BY <1>1, Finished DEF Watered

\* The next frame of a stream is newer than all before it.
LEMMA NewFrame ==
    ASSUME attr \in Attrs, NEW s, NEW i \in Frames, NextFrame(s, i)
    PROVE  /\ \A x \in Frames : x >= i => <<s, x>> \notin arrived
           /\ arrived' = arrived \cup {<<s, i>>}
<1>1. \A x \in Frames : x >= i => x \in i..MaxFrame BY Numbers DEF Frames
<1> QED BY <1>1 DEF NextFrame

\* Every command of the channel's thread keeps the invariant.
LEMMA StepKeeps ==
    ASSUME IInv, Next
    PROVE  attr' = attr /\ Inv(ch', arrived') /\ Watered(ch')
<1>0. attr' = attr /\ attr \in Attrs /\ Inv(ch, arrived) /\ ch \in Chan
  BY DEF IInv, Next, Inv, Sound
<1>1. ASSUME NEW s \in Streams, NEW i \in Frames, StreamBuf(s, i)
      PROVE  Inv(ch', arrived') /\ Watered(ch')
  <2>1. PICK nomem : ch' = Finish(CompAndEnqueue(ch, s, i, nomem))
    BY <1>1 DEF StreamBuf, Handle
  <2>2. /\ \A x \in Frames : x >= i => <<s, x>> \notin arrived
        /\ arrived' = arrived \cup {<<s, i>>}
    BY <1>0, <1>1, NewFrame DEF StreamBuf
  <2>3. /\ Inv(Finish(CompAndEnqueue(ch, s, i, nomem)), arrived \cup {<<s, i>>})
        /\ Watered(Finish(CompAndEnqueue(ch, s, i, nomem)))
    BY <1>0, <2>2, Taken
  <2> QED BY <2>1, <2>2, <2>3
<1>2. ASSUME NEW i \in Frames, NewsFrame(i), NEW c, Inv(c, arrived),
             ch' = Finish(CompAndEnqueue(c, Meta, i, FALSE))
      PROVE  Inv(ch', arrived') /\ Watered(ch')
  <2>1. Meta \in Streams BY <1>0, Numbers
  <2>2. /\ \A x \in Frames : x >= i => <<Meta, x>> \notin arrived
        /\ arrived' = arrived \cup {<<Meta, i>>}
    BY <1>0, <1>2, NewFrame DEF NewsFrame
  <2>3. /\ Inv(Finish(CompAndEnqueue(c, Meta, i, FALSE)), arrived \cup {<<Meta, i>>})
        /\ Watered(Finish(CompAndEnqueue(c, Meta, i, FALSE)))
    BY <1>0, <1>2, <2>1, <2>2, Taken
  <2> QED BY <1>2, <2>2, <2>3
<1>3. 0 \in Frames /\ ExpectedMax \in Nat /\ \A x \in Frames : x \in 0..ExpectedMax
  BY <1>0, Numbers DEF Frames
<1>4. ASSUME NEW i \in Frames, NEW frame_id \in Frames, DivertMeta(i, frame_id)
      PROVE  Inv(ch', arrived') /\ Watered(ch')
  <2>1. PICK f \in Frames : f = IF frame_id >= i THEN frame_id ELSE 0 BY <1>3
  <2>2. PICK c : c = [ch EXCEPT !.diverted_frame_id = f] OBVIOUS
  <2>3. c \in Chan /\ c.queue = ch.queue /\ c.match_cnt = ch.match_cnt
        /\ c.back = ch.back /\ c.up = ch.up
    BY <1>0, <2>2 DEF Chan
  <2>4. Inv(c, arrived) BY <1>0, <2>3, Retuned
  <2>5. NewsFrame(i) /\ ch' = Finish(CompAndEnqueue(c, Meta, i, FALSE))
    BY <1>4, <2>1, <2>2 DEF DivertMeta, Handle
  <2> QED BY <1>2, <2>4, <2>5
<1>5. ASSUME NEW i \in Frames, NEW min \in Frames, GoodFrameMeta(i, min)
      PROVE  Inv(ch', arrived') /\ Watered(ch')
  <2>2. PICK c : c = [ch EXCEPT !.expected_frame_id = min, !.good_frame_id = min] OBVIOUS
  <2>3. c \in Chan /\ c.queue = ch.queue /\ c.match_cnt = ch.match_cnt
        /\ c.back = ch.back /\ c.up = ch.up
    BY <1>0, <1>3, <2>2 DEF Chan
  <2>4. Inv(c, arrived) BY <1>0, <2>3, Retuned
  <2>5. NewsFrame(i) /\ ch' = Finish(CompAndEnqueue(c, Meta, i, FALSE))
    BY <1>5, <2>2 DEF GoodFrameMeta, Handle
  <2> QED BY <1>2, <2>4, <2>5
<1>6. ASSUME NEW i \in Frames, FutureFrameMeta(i)
      PROVE  Inv(ch', arrived') /\ Watered(ch')
  <2>1. PICK e \in 0..ExpectedMax : e = ch.expected_frame_id + FutureWait
    <3>1. ch.expected_frame_id \in Nat BY <1>0, <1>3 DEF Chan
    <3>2. ch.expected_frame_id <= MaxFrame BY <1>6 DEF FutureFrameMeta
    <3>3. MaxFrame \in Nat /\ FutureWait \in Nat /\ MaxFrame + FutureWait <= ExpectedMax
      BY <1>0, Numbers
    <3>4. ch.expected_frame_id + FutureWait \in 0..ExpectedMax BY <1>3, <3>1, <3>2, <3>3
    <3> QED BY <3>4
  <2>2. PICK c : c = [ch EXCEPT !.expected_frame_id = e] OBVIOUS
  <2>3. c \in Chan /\ c.queue = ch.queue /\ c.match_cnt = ch.match_cnt
        /\ c.back = ch.back /\ c.up = ch.up
    BY <1>0, <2>2 DEF Chan
  <2>4. Inv(c, arrived) BY <1>0, <2>3, Retuned
  <2>5. Inv(Flush(c), arrived) BY <1>0, <2>4, Flushed
  <2>6. NewsFrame(i) /\ ch' = Finish(CompAndEnqueue(Flush(c), Meta, i, FALSE))
    BY <1>6, <2>1, <2>2 DEF FutureFrameMeta, Handle
  <2> QED BY <1>2, <2>5, <2>6
<1>7. ASSUME NEW n \in 0..(IF Continuous THEN 0 ELSE MaxRequest), RequestSuperBuf(n)
      PROVE  Inv(ch', arrived') /\ Watered(ch')
  <2>1. n \in 0..MaxRequest BY <1>0, Numbers
  <2>2. PICK c : c = [ch EXCEPT !.pending_cnt = n] OBVIOUS
  <2>3. c \in Chan /\ c.queue = ch.queue /\ c.match_cnt = ch.match_cnt
        /\ c.back = ch.back /\ c.up = ch.up
    BY <1>0, <2>1, <2>2 DEF Chan
  <2>4. Inv(c, arrived) BY <1>0, <2>3, Retuned
  <2>5. Inv(Skip(c), arrived)
    <3>1. LookBack \in Nat BY <1>0, Numbers
    <3>2. Inv(DropAbove(c, LookBack), arrived) BY <1>0, <2>4, <3>1, Dropped
    <3> QED BY <2>4, <3>2 DEF Skip
  <2>6. Inv(Finish(Skip(c)), arrived) /\ Watered(Finish(Skip(c)))
    BY <1>0, <2>5, Finished DEF Watered
  <2>7. arrived' = arrived /\ ch' = Finish(Skip(c)) BY <1>7, <2>2 DEF RequestSuperBuf, Handle
  <2> QED BY <2>6, <2>7
<1>8. ASSUME NEW i \in FlushFrames, FlushSuperBufQueue(i)
      PROVE  Inv(ch', arrived') /\ Watered(ch')
  <2>1. i \in 0..ExpectedMax BY <1>3, SuperbufQueueAssumption DEF Frames
  <2>2. PICK c : c = [ch EXCEPT !.expected_frame_id = i] OBVIOUS
  <2>3. c \in Chan /\ c.queue = ch.queue /\ c.match_cnt = ch.match_cnt
        /\ c.back = ch.back /\ c.up = ch.up
    BY <1>0, <2>1, <2>2 DEF Chan
  <2>4. Inv(c, arrived) BY <1>0, <2>3, Retuned
  <2>5. Inv(Flush(c), arrived) /\ Flush(c).match_cnt = 0 BY <1>0, <2>4, Flushed
  <2>6. Watered(Flush(c)) BY <1>0, <2>5, Numbers DEF Watered
  <2>7. arrived' = arrived /\ ch' = Flush(c) BY <1>8, <2>2 DEF FlushSuperBufQueue, Handle
  <2> QED BY <2>5, <2>6, <2>7
<1> QED BY <1>0, <1>1, <1>4, <1>5, <1>6, <1>7, <1>8 DEF Next

\* The empty channel satisfies the invariant.
LEMMA Begun == Init => IInv
<1> SUFFICES ASSUME Init PROVE IInv OBVIOUS
<1>1. attr \in Attrs /\ arrived = {} BY DEF Init
<1>2. /\ ch.queue = <<>> /\ ch.up = <<>> /\ ch.back = {} /\ ch.match_cnt = 0 /\ ch \in Chan
  <2>1. 0 \in Frames /\ 0 \in 0..ExpectedMax /\ 0 \in 0..MaxRequest /\ 0 \in Int
    BY <1>1, Numbers DEF Frames
  <2>2. <<>> \in Seq(SuperBufs) /\ <<>> \in Seq([Streams -> Frames]) OBVIOUS
  <2>3. {} \in SUBSET (Streams \X Frames) /\ FALSE \in {FALSE} OBVIOUS
  <2>4. PICK z : z = 0 OBVIOUS
  <2>5. ch = [queue |-> <<>>, expected_frame_id |-> z, good_frame_id |-> z,
              diverted_frame_id |-> z, match_cnt |-> z, pending_cnt |-> z,
              back |-> {}, up |-> <<>>, spinning |-> FALSE]
    BY <2>4 DEF Init
  <2>6. ch \in Chan BY <2>1, <2>2, <2>3, <2>4, <2>5 DEF Chan
  <2> QED BY <2>4, <2>5, <2>6
<1>3. DOMAIN ch.queue = {} /\ DOMAIN ch.up = {} /\ Len(ch.queue) = 0 BY <1>2
<1>4. Placed(ch, arrived)
  <2>1. FramesIn(ch.queue) = {} /\ UpIn(ch) = {} BY <1>3, QueueFrames, UpFrames
  <2> QED BY <1>1, <1>2, <1>3, <2>1 DEF Placed
<1>5. Nodes(ch) /\ Ups(ch) /\ Ordered(ch, arrived) BY <1>3 DEF Nodes, Ups, Ordered
<1>6. Counted(ch)
  <2>1. Len(ch.queue) - ch.match_cnt <= MaxUnmatched + 1 BY <1>1, <1>2, <1>3, Numbers
  <2> QED BY <1>2, <1>3, <2>1 DEF Counted
<1>7. Watered(ch) BY <1>1, <1>2, Numbers DEF Watered
<1> QED BY <1>1, <1>2, <1>4, <1>5, <1>6, <1>7 DEF IInv, Inv, Sound

\* The invariant is inductive.
LEMMA Inductive == IInv /\ [Next]_vars => IInv'
<1> SUFFICES ASSUME IInv, [Next]_vars PROVE IInv' OBVIOUS
<1>1. attr' = attr /\ Inv(ch', arrived') /\ Watered(ch')
  <2>1. CASE Next BY <2>1, StepKeeps
  <2>2. CASE UNCHANGED vars BY <2>2 DEF vars, IInv
  <2> QED BY <2>1, <2>2
<1>2. attr \in Attrs BY DEF IInv
\* The invariant speaks of the bundle, which no step changes.
<1>3. Streams' = Streams /\ (LowPriority' <=> LowPriority) BY <1>1 DEF Streams, LowPriority
<1>4. (ch \in Chan)'
  <2>1. Chan' = Chan BY <1>1 DEF Chan, SuperBufs, Streams, ExpectedMax, PostFrameSkip
  <2> QED BY <1>1, <2>1 DEF Inv, Sound
<1>5. (arrived \subseteq Streams \X Frames)' BY <1>1, <1>3 DEF Inv, Sound
<1>6. Placed(ch, arrived)'
  <2>1. Placed(ch', arrived') BY <1>1 DEF Inv, Sound
  <2> QED BY <1>3, <2>1 DEF Placed, UpIn, FramesIn, FramesOf
<1>8. Nodes(ch)' /\ Ups(ch)'
  <2>1. Nodes(ch') /\ Ups(ch') BY <1>1 DEF Inv, Sound
  <2> QED BY <1>3, <2>1 DEF Nodes, Ups, NodeOk, SlotOk, Exact
<1>9. Ordered(ch, arrived)'
  <2>1. Ordered(ch', arrived') BY <1>1 DEF Inv, Sound
  <2> QED BY <1>3, <2>1 DEF Ordered, Ahead, UpAhead, Precedes, Stale, Exact, Matched
<1>10. Counted(ch)' /\ Watered(ch)'
  <2>1. Counted(ch') /\ Watered(ch') BY <1>1 DEF Inv
  <2>2. MaxUnmatched' = MaxUnmatched /\ WaterMark' = WaterMark /\ (Continuous' <=> Continuous)
    BY <1>1 DEF MaxUnmatched, WaterMark, Continuous
  <2> QED BY <1>3, <2>1, <2>2 DEF Counted, Watered, Matched
<1> QED BY <1>1, <1>2, <1>4, <1>5, <1>6, <1>8, <1>9, <1>10 DEF IInv, Inv, Sound

-----------------------------------------------------------------------------
(* The theorems *)

\* The invariant holds whatever the bundle and however many frames come.
THEOREM Invariance == Spec => []IInv
BY Begun, Inductive, PTL DEF Spec

\* The invariant says where the frames are.
LEMMA OnePlace ==
    ASSUME IInv PROVE FrameInOnePlace
<1> DEFINE slots == [k \in DOMAIN ch.queue |-> ch.queue[k].slot]
           bufs == slots \o ch.up
           T == [Streams -> Frames]
           L == Len(ch.queue)
<1>1. /\ ch \in Chan /\ Placed(ch, arrived)
      /\ ch.queue \in Seq(SuperBufs) /\ L \in Nat /\ DOMAIN ch.queue = 1..L
      /\ \A k \in DOMAIN ch.queue : ch.queue[k] \in SuperBufs
      /\ ch.up \in Seq(T) /\ Len(ch.up) \in Nat /\ DOMAIN ch.up = 1..Len(ch.up)
  <2>1. ch \in Chan BY DEF IInv, Inv, Sound
  <2> QED BY <2>1, ChanIs DEF IInv, Inv, Sound
<1>2. FramesUp = UpIn(ch) BY DEF FramesUp, UpIn
<1>3. slots \in Seq(T) /\ Len(slots) = L /\ \A k \in 1..L : slots[k] = ch.queue[k].slot
  <2>1. \A k \in 1..L : ch.queue[k].slot \in T BY <1>1 DEF SuperBufs
  <2>2. slots \in [1..L -> T] BY <1>1, <2>1
  <2>3. slots \in Seq(T) BY <1>1, <2>2
  <2>4. Len(slots) = L BY <1>1, <2>2, <2>3
  <2> QED BY <1>1, <2>3, <2>4
<1> HIDE DEF slots, T
<1>4. /\ bufs \in Seq(T) /\ Len(bufs) = L + Len(ch.up)
      /\ \A k \in 1..L : bufs[k] = slots[k]
      /\ \A k \in 1..Len(ch.up) : bufs[L + k] = ch.up[k]
  <2>1. slots \in Seq(T) /\ ch.up \in Seq(T) BY <1>1, <1>3
  <2>2. /\ bufs \in Seq(T) /\ Len(bufs) = Len(slots) + Len(ch.up)
        /\ \A k \in 1..Len(slots) : bufs[k] = slots[k]
        /\ \A k \in 1..Len(ch.up) : bufs[Len(slots) + k] = ch.up[k]
    BY <2>1
  <2> QED BY <1>3, <2>2
<1> HIDE DEF bufs
<1>5. DOMAIN bufs = 1..L + Len(ch.up) BY <1>4
<1>6. ASSUME NEW k \in DOMAIN bufs
      PROVE  \/ k \in DOMAIN ch.queue /\ bufs[k] = ch.queue[k].slot
             \/ \E p \in DOMAIN ch.up : k = L + p /\ bufs[k] = ch.up[p]
  <2>1. CASE k <= L
    <3>1. k \in 1..L BY <1>1, <1>5, <2>1
    <3> QED BY <1>1, <1>3, <1>4, <3>1
  <2>2. CASE ~(k <= L)
    <3>0. PICK u \in Nat : u = Len(ch.up) BY <1>1
    <3> HIDE DEF L
    <3>4. k \in Nat /\ k > L /\ k <= L + u /\ L \in Nat BY <1>1, <1>5, <2>2, <3>0
    <3>1. PICK p \in Int : p = k - L BY <3>4
    <3>5. p \in Nat /\ 1 <= p /\ p <= u /\ k = L + p BY <3>1, <3>4
    <3>2. p \in 1..Len(ch.up) /\ k = L + p BY <3>0, <3>5
    <3>3. bufs[k] = ch.up[p] BY <1>4, <3>2
    <3> QED BY <1>1, <3>2, <3>3
  <2> QED BY <2>1, <2>2
<1>7. ASSUME NEW j \in DOMAIN bufs, NEW k \in DOMAIN bufs, j # k
      PROVE  FramesOf(bufs[j]) \cap FramesOf(bufs[k]) = {}
  <2>0. /\ \A a \in DOMAIN ch.queue, b \in DOMAIN ch.up :
             FramesOf(ch.queue[a].slot) \cap FramesOf(ch.up[b]) = {}
        /\ \A a, b \in DOMAIN ch.queue :
             a # b => FramesOf(ch.queue[a].slot) \cap FramesOf(ch.queue[b].slot) = {}
        /\ \A a, b \in DOMAIN ch.up : a # b => FramesOf(ch.up[a]) \cap FramesOf(ch.up[b]) = {}
    <3>1. FramesIn(ch.queue) \cap UpIn(ch) = {} BY <1>1 DEF Placed
    <3>2. ASSUME NEW a \in DOMAIN ch.queue, NEW b \in DOMAIN ch.up
          PROVE  FramesOf(ch.queue[a].slot) \cap FramesOf(ch.up[b]) = {}
      <4>1. FramesOf(ch.queue[a].slot) \subseteq FramesIn(ch.queue) BY QueueFrames
      <4>2. FramesOf(ch.up[b]) \subseteq UpIn(ch) BY UpFrames
      <4> QED BY <3>1, <4>1, <4>2
    <3> QED BY <1>1, <3>2 DEF Placed
  <2>1. CASE j \in DOMAIN ch.queue /\ bufs[j] = ch.queue[j].slot
    <3>1. CASE k \in DOMAIN ch.queue /\ bufs[k] = ch.queue[k].slot BY <1>7, <2>0, <2>1, <3>1
    <3>2. CASE \E p \in DOMAIN ch.up : k = L + p /\ bufs[k] = ch.up[p] BY <2>0, <2>1, <3>2
    <3> QED BY <1>6, <3>1, <3>2
  <2>2. CASE \E p \in DOMAIN ch.up : j = L + p /\ bufs[j] = ch.up[p]
    <3>0. PICK b \in DOMAIN ch.up : j = L + b /\ bufs[j] = ch.up[b] BY <2>2
    <3>1. CASE k \in DOMAIN ch.queue /\ bufs[k] = ch.queue[k].slot BY <2>0, <3>0, <3>1
    <3>2. CASE \E p \in DOMAIN ch.up : k = L + p /\ bufs[k] = ch.up[p]
      <4>1. PICK p \in DOMAIN ch.up : k = L + p /\ bufs[k] = ch.up[p] BY <3>2
      <4>2. p # b BY <1>7, <3>0, <4>1
      <4>3. FramesOf(ch.up[b]) \cap FramesOf(ch.up[p]) = {} BY <2>0, <4>2
      <4> QED BY <3>0, <4>1, <4>3
    <3> QED BY <1>6, <3>1, <3>2
  <2> QED BY <1>6, <2>1, <2>2
<1> QED BY <1>1, <1>2, <1>7 DEF FrameInOnePlace, Placed, bufs, slots

\* No frame of a bundled stream is lost, and none is used twice: it is in one
\* node of the queue, went up in one super buffer or went back to its stream.
THEOREM OneFrameOnePlace == Spec => []FrameInOnePlace
BY Invariance, OnePlace, PTL

\* The invariant bounds the queue.
LEMMA Bounded ==
    ASSUME IInv PROVE QueueBounded
<1>1. /\ ch \in Chan /\ Counted(ch) /\ attr \in Attrs /\ Watered(ch)
      /\ arrived \subseteq Streams \X Frames
  BY DEF IInv, Inv, Sound
<1>2. TypeOK BY <1>1 DEF TypeOK, Chan, Counted, ExpectedMax
<1>3. MatchedFirst BY <1>1, ReadyIs DEF MatchedFirst, Chan
<1>4. UnmatchedBounded BY <1>1, ReadyIs DEF UnmatchedBounded, Counted
<1>5. WithinWaterMark BY <1>1 DEF WithinWaterMark, Watered
<1> QED BY <1>2, <1>3, <1>4, <1>5 DEF QueueBounded

\* The queue stays within its bounds: match_cnt is the number of matched super
\* buffers and these stand first, so that the overflow loops end; at most one
\* unmatched super buffer is too many; after each command at most water_mark
\* matched ones wait.
THEOREM Bounds == Spec => []QueueBounded
BY Invariance, Bounded, PTL

\* The invariant gives the agreement and the order of what went up.
LEMMA Right ==
    ASSUME IInv PROVE RightBundles
<1>1. Ups(ch) /\ Ordered(ch, arrived) /\ attr \in Attrs BY DEF IInv, Inv, Sound
<1>2. BundleAgrees
  <2> SUFFICES ASSUME NEW k \in DOMAIN ch.up,
                      NEW s \in IF LowPriority THEN Streams \ {Meta} ELSE Streams,
                      NEW t \in IF LowPriority THEN Streams \ {Meta} ELSE Streams
               PROVE  ch.up[k][s] = ch.up[k][t]
    BY DEF BundleAgrees
  <2>1. Exact(s) /\ Exact(t) /\ s \in Streams /\ t \in Streams BY DEF Exact
  <2> QED BY <1>1, <2>1 DEF Ups, SlotOk
<1>3. DeliveredInOrder BY <1>1 DEF DeliveredInOrder, Ordered, Precedes
<1> QED BY <1>2, <1>3 DEF RightBundles

\* What goes up to the HAL belongs together, by frame index, and goes up in the
\* order of the frames of every stream.
THEOREM Bundles == Spec => []RightBundles
BY Invariance, Right, PTL

=============================================================================
