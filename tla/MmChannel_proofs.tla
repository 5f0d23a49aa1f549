--------------------------- MODULE MmChannel_proofs ---------------------------
(***************************************************************************)
(* Start and stop of a channel, for any streams, own and linked, with any  *)
(* finite number of buffers, and any number of sessions and of starts that *)
(* fail: a stopped channel is quiet, no frame is in two places, metadata   *)
(* runs while another stream does, and STOP loses no frame of a linked     *)
(* stream.                                                                 *)
(*                                                                         *)
(* The argument follows the caller. Its place in s_objs says which streams *)
(* have been started or stopped (OrderInv, StreamInv); its place in START  *)
(* or STOP which threads run (ThreadInv) and where no stream is linked any *)
(* more (CallerInv). From there on nothing comes in, so the flush of STOP, *)
(* the last command but EXIT and one at a time, leaves both queues empty   *)
(* (CmdInv), and EXIT is behind the last super buffer (CbInv). WhoseInv is *)
(* why nothing is lost: until STOP is through, every frame with the        *)
(* threads or the HAL is of a stream that streams[] still has. Frames move *)
(* between their places but are neither made nor dropped (OnceInv, by      *)
(* ServedOnce, HandedOnce and NotifiedOnce for the three that move them).  *)
(***************************************************************************)
EXTENDS MmChannel, FiniteSetTheorems, FunctionTheorems, SequenceTheorems, TLAPS

-----------------------------------------------------------------------------
(* The inductive invariant *)

\* Where the caller is: in START and on its error path, in STOP, in a flush.
UndoPcs == {"undo link", "undo flushed", "undo", "undo joinCmd", "undo joinCb"}
StoppedPcs == {"idle", "link", "start"} \cup UndoPcs
RestPcs == {"exit", "joinCmd", "joinCb", "put"}
ActivePcs == {"idle", "flush", "stop", "unlink", "flushed"} \cup RestPcs
FlushPcs == {"flush", "flushed", "undo flushed"}
\* Where it has joined the command thread.
JoinedPcs == {"joinCb", "put", "undo joinCb"}

StreamStates == {"CFG", "BUFFED", "REG", "ACTIVE"}
Commands ==
    [type : {"DATA"}, frame : Frames] \cup [type : {"REQUEST"}, count : Nat]
      \cup [type : {"CONFIG"}, mode : BOOLEAN]
      \cup [type : {"FLUSH"}, of : Streams \cup {DEFAULT}] \cup [type : {"EXIT"}]

\* Types: as TypeOK of the model, and of every field.
TypeInv ==
    /\ state \in {"STOPPED", "ACTIVE"} /\ pc \in StoppedPcs \cup ActivePcs
    /\ at \in 1..(Len(Slots) + 1) /\ failed \in 0..Len(Slots) /\ sessions \in 0..MaxSessions
    /\ order \in Seq(Streams)
    /\ Own \subseteq slots /\ slots \subseteq Streams /\ isLinked \subseteq slots \cap Linked
    /\ stream \in [Own -> StreamStates]
    /\ cmdThread \in BOOLEAN /\ cbThread \in BOOLEAN /\ continuous \in BOOLEAN
    /\ cmdQueue \in Seq(Commands) /\ cbQueue \in Seq(SUBSET Frames)
    /\ superq \subseteq Frames /\ app \subseteq SUBSET Frames
    /\ kernel \subseteq Frames /\ lost \subseteq Frames
    /\ syncSem \in 0..1 /\ pending \in Nat

\* While a loop over the streams is under way s_objs has every own stream, each once,
\* with the metadata stream first (START) or last (STOP).
OrderInv ==
    /\ pc \in {"link", "start", "stop"} \cup UndoPcs =>
         Len(order) <= Len(Slots) /\ IsInjective(order) /\ Own \subseteq Range(order)
    /\ pc \in {"link", "start"} => order[1] = Meta
    /\ pc = "stop" => order[Len(order)] = Meta
    /\ pc = "link" => at = 1
    /\ pc \in {"start", "stop"} => at <= Len(order) + 1
    /\ pc \in UndoPcs => failed \in 1..Len(order)
    /\ pc = "undo" => at <= failed + 1

\* What the caller is at in which state, and from where on no stream is linked.
CallerInv ==
    /\ state = "ACTIVE" => pc \in ActivePcs
    /\ state = "STOPPED" => pc \in StoppedPcs
    /\ pc \in {"undo", "undo joinCmd", "undo joinCb"} => slots \cap Linked = {}
    /\ pc \in {"flushed"} \cup RestPcs \/ Calls("STOPPED") => isLinked = {}

\* The states of the own streams follow the caller's place in s_objs.
StreamInv ==
    /\ Calls("STOPPED") \/ pc \in {"link", "undo joinCmd", "undo joinCb"} =>
         \A s \in Own : stream[s] = "CFG"
    /\ Calls("ACTIVE") \/ pc = "flush" => \A s \in Own : stream[s] = "ACTIVE"
    /\ pc \in {"unlink", "flushed"} \cup RestPcs => \A s \in Own : stream[s] = "BUFFED"
    /\ pc = "start" =>
         \A i \in 1..Len(order) : order[i] \in Own =>
           stream[order[i]] = IF i < at THEN "ACTIVE" ELSE "CFG"
    /\ pc = "stop" =>
         \A i \in 1..Len(order) : order[i] \in Own =>
           stream[order[i]] = IF i < at THEN "BUFFED" ELSE "ACTIVE"
    /\ pc \in UndoPcs =>
         \A i \in 1..Len(order) : order[i] \in Own /\ failed < i => stream[order[i]] = "CFG"
    /\ pc = "undo" =>
         \A i \in 1..Len(order) : order[i] \in Own /\ i < at => stream[order[i]] = "CFG"

\* The two threads run from START until they are joined.
ThreadInv ==
    /\ cmdThread => pc \notin JoinedPcs /\ ~Calls("STOPPED")
    /\ ~cmdThread => pc \in JoinedPcs \cup {"joinCmd", "undo joinCmd"} \/ Calls("STOPPED")
    /\ cbThread => pc # "put" /\ ~Calls("STOPPED")
    /\ ~cbThread => pc \in JoinedPcs \/ Calls("STOPPED")

\* A FLUSH is queued only for a caller who waits for it, one at a time; that of STOP
\* is the last command but EXIT, and what it leaves is an empty queue.
CmdInv ==
    /\ ~cmdThread => cmdQueue = <<>>
    /\ syncSem = 1 => pc \in FlushPcs
    /\ \A i \in 1..Len(cmdQueue) : cmdQueue[i].type = "FLUSH" =>
         /\ pc \in FlushPcs /\ syncSem = 0
         /\ state = "ACTIVE" => cmdQueue[i].of = DEFAULT
         /\ pc = "flushed" => i = Len(cmdQueue)
         /\ \A k \in 1..Len(cmdQueue) : cmdQueue[k].type = "FLUSH" => k = i
    /\ \A i \in 1..Len(cmdQueue) : cmdQueue[i].type = "EXIT" =>
         i = Len(cmdQueue) /\ pc \in {"joinCmd", "undo joinCmd"}
    /\ pc = "flushed" /\ syncSem = 1 => cmdQueue = <<>> /\ superq = {}
    /\ pc = "exit" => cmdQueue = <<>>
    /\ pc = "joinCmd" => \A i \in 1..Len(cmdQueue) : cmdQueue[i].type = "EXIT"
    /\ pc \in RestPcs \/ Calls("STOPPED") => superq = {}

\* EXIT is the last entry of the callback thread's queue; the HAL has nothing while
\* the channel stops.
CbInv ==
    /\ ~cbThread => cbQueue = <<>>
    /\ \A i \in 1..Len(cbQueue) : cbQueue[i] = {} =>
         i = Len(cbQueue) /\ pc \in {"joinCb", "undo joinCb"}
    /\ pc \in StopPlaces => app = {}

\* A frame is in one place, and there once.
OnceInv ==
    /\ FrameInOnePlace
    /\ \A i, k \in 1..Len(cmdQueue) :
         cmdQueue[i].type = "DATA" /\ cmdQueue[k] = cmdQueue[i] => k = i
    /\ \A i, k \in 1..Len(cbQueue) : cbQueue[i] \cap cbQueue[k] # {} => k = i
    /\ \A a, b \in app : a \cap b # {} => a = b

\* The frames with the threads and the HAL.
Out == Handled \cup UNION app

\* While the channel starts they are of streams that run, and until it has stopped of
\* streams that are in streams[], to which they can go back.
WhoseInv ==
    /\ pc \in {"link", "start"} => \A f \in Out : f[1] \in Own => stream[f[1]] = "ACTIVE"
    /\ pc \in {"link", "start"} \/ state = "ACTIVE" => \A f \in Out : f[1] \in slots

IInv ==
    /\ TypeInv /\ OrderInv /\ CallerInv /\ StreamInv /\ ThreadInv
    /\ CmdInv /\ CbInv /\ OnceInv /\ WhoseInv

-----------------------------------------------------------------------------
(* The streams in order *)

\* The places that are taken can be counted off in their order, and they are finitely
\* many: what InSlots chooses is there.
LEMMA Enumerated ==
    ASSUME NEW n \in Nat, NEW kept \in SUBSET (1..n)
    PROVE  /\ Cardinality(kept) \in Nat
           /\ \E f \in [1..Cardinality(kept) -> kept] :
                \A i, k \in 1..Cardinality(kept) : i < k => f[i] < f[k]
<1>. DEFINE K == Cardinality(kept)
            upto(p) == {q \in kept : q <= p}
            rank == [p \in kept |-> Cardinality(upto(p))]
<1>1. IsFiniteSet(kept) /\ K \in Nat
  <2>1. IsFiniteSet(1..n)
    BY FS_Interval
  <2>. QED BY <2>1, FS_Subset, FS_CardinalityType
<1>2. ASSUME NEW p \in kept
      PROVE  IsFiniteSet(upto(p)) /\ Cardinality(upto(p)) \in 1..K
  <2>1. upto(p) \in SUBSET kept /\ p \in upto(p)
    OBVIOUS
  <2>2. IsFiniteSet(upto(p)) /\ Cardinality(upto(p)) <= K
    BY <1>1, <2>1, FS_Subset
  <2>3. Cardinality(upto(p)) \in Nat /\ Cardinality(upto(p)) # 0
    BY <2>1, <2>2, FS_CardinalityType, FS_EmptySet
  <2>. HIDE DEF upto
  <2>. QED BY <1>1, <2>2, <2>3
<1>3. ASSUME NEW p \in kept, NEW q \in kept, p < q
      PROVE  rank[p] < rank[q]
  <2>1. upto(p) \in SUBSET upto(q) /\ q \in upto(q) /\ q \notin upto(p)
    <3>1. p \in Nat /\ q \in Nat /\ kept \subseteq Nat
      OBVIOUS
    <3>2. \A r \in kept : r <= p => r <= q
      BY <1>3, <3>1
    <3>3. q <= q /\ ~(q <= p)
      BY <1>3, <3>1
    <3>. QED BY <3>2, <3>3
  <2>2. IsFiniteSet(upto(q)) /\ Cardinality(upto(q)) \in Nat /\ Cardinality(upto(p)) \in Nat
    BY <1>1, <1>2
  <2>3. Cardinality(upto(p)) <= Cardinality(upto(q)) /\ Cardinality(upto(p)) # Cardinality(upto(q))
    BY <2>1, <2>2, FS_Subset
  <2>4. rank[p] = Cardinality(upto(p)) /\ rank[q] = Cardinality(upto(q))
    OBVIOUS
  <2>. HIDE DEF upto, rank
  <2>. QED BY <2>2, <2>3, <2>4
<1>4. rank \in [kept -> 1..K]
  BY <1>2
<1>. HIDE DEF rank
<1>5. rank \in Injection(kept, 1..K)
  <2>1. ASSUME NEW p \in kept, NEW q \in kept, rank[p] = rank[q]
        PROVE  p = q
    <3>1. rank[p] \in 1..K /\ rank[q] \in 1..K
      BY <1>4
    <3>2. ~(rank[p] < rank[q]) /\ ~(rank[q] < rank[p])
      BY <1>1, <2>1, <3>1
    <3>3. ~(p < q) /\ ~(q < p)
      BY <1>3, <3>2
    <3>. QED BY <3>3
  <2>. QED BY <1>4, <2>1, Fun_IsInj
<1>6. \A i \in 1..K : \E p \in kept : rank[p] = i
  <2>1. IsFiniteSet(1..K) /\ Cardinality(1..K) = K
    BY <1>1, FS_Interval
  <2>2. rank \in Surjection(kept, 1..K)
    BY <1>5, <2>1, FS_Injection
  <2>. QED BY <2>2, Fun_SurjectionProperties
<1>. DEFINE f == [i \in 1..K |-> CHOOSE p \in kept : rank[p] = i]
<1>7. \A i \in 1..K : f[i] \in kept /\ rank[f[i]] = i
  BY <1>6
<1>8. f \in [1..K -> kept]
  BY <1>7
<1>. HIDE DEF f
<1>9. ASSUME NEW i \in 1..K, NEW k \in 1..K, i < k
      PROVE  f[i] < f[k]
  <2>1. f[i] \in 1..n /\ f[k] \in 1..n /\ f[i] \in kept /\ f[k] \in kept
    BY <1>7
  <2>2. CASE f[k] < f[i]
    <3>1. rank[f[k]] < rank[f[i]]
      BY <1>3, <2>1, <2>2
    <3>2. k < i
      BY <1>7, <3>1
    <3>. QED BY <1>1, <1>9, <3>2
  <2>3. CASE f[k] = f[i]
    <3>1. k = i
      BY <1>7, <2>3
    <3>. QED BY <1>1, <1>9, <3>1
  <2>. QED BY <2>1, <2>2, <2>3
<1>. QED BY <1>1, <1>8, <1>9


\* s_objs has the streams of streams[], each once.
LEMMA InSlotsOrder ==
    ASSUME ChannelConstants, slots \subseteq Streams
    PROVE  /\ InSlots \in Seq(Streams) /\ Len(InSlots) <= Len(Slots)
           /\ IsInjective(InSlots) /\ Range(InSlots) = slots
<1>. DEFINE taken == {p \in 1..Len(Slots) : Slots[p] \in slots}
            K == Cardinality(taken)
            Rises(f) == \A i, k \in 1..K : i < k => f[i] < f[k]
            place == CHOOSE f \in [1..K -> taken] : Rises(f)
<1>1. /\ Len(Slots) \in Nat /\ taken \in SUBSET (1..Len(Slots)) /\ DOMAIN Slots = 1..Len(Slots)
      /\ \A p \in 1..Len(Slots) : Slots[p] \in Streams
      /\ \A p, q \in 1..Len(Slots) : Slots[p] = Slots[q] => p = q
      /\ \A s \in Streams : \E p \in 1..Len(Slots) : Slots[p] = s
  BY DEF ChannelConstants, IsInjective, Streams, Range
<1>2. K \in Nat /\ \E f \in [1..K -> taken] : Rises(f)
  BY <1>1, Enumerated
<1>3. InSlots = [i \in 1..K |-> Slots[place[i]]]
  BY DEF InSlots
<1>4. \A p \in taken : p \in 1..Len(Slots) /\ Slots[p] \in slots
  OBVIOUS
<1>5. \A s \in slots : \E p \in taken : Slots[p] = s
  BY <1>1
<1>6. IsFiniteSet(taken) /\ K <= Len(Slots)
  <2>1. IsFiniteSet(1..Len(Slots)) /\ Cardinality(1..Len(Slots)) = Len(Slots)
    <3>1. Len(Slots) \in Int /\ 1 \in Int /\ Len(Slots) \in Nat
      BY <1>1
    <3>2. /\ IsFiniteSet(1..Len(Slots))
          /\ Cardinality(1..Len(Slots)) = IF 1 > Len(Slots) THEN 0 ELSE Len(Slots) - 1 + 1
      BY ONLY <3>1, FS_Interval
    <3>. QED BY <3>1, <3>2
  <2>2. IsFiniteSet(taken) /\ Cardinality(taken) <= Cardinality(1..Len(Slots))
    BY <1>1, <2>1, FS_Subset
  <2>. HIDE DEF taken
  <2>. QED BY <2>1, <2>2
<1>. HIDE DEF Rises
<1>7. place \in [1..K -> taken] /\ Rises(place)
  <2>. HIDE DEF K
  <2>. QED BY <1>2
<1>. HIDE DEF place, taken
<1>8. \A i, k \in 1..K : place[i] = place[k] => i = k
  <2>. SUFFICES ASSUME NEW i \in 1..K, NEW k \in 1..K, place[i] = place[k]
                PROVE  i = k
    OBVIOUS
  <2>1. place[i] \in 1..Len(Slots) /\ place[k] \in 1..Len(Slots)
    BY <1>4, <1>7
  <2>2. ~(place[i] < place[k]) /\ ~(place[k] < place[i])
    BY <1>1, <2>1
  <2>3. ~(i < k) /\ ~(k < i)
    BY <1>7, <2>2 DEF Rises
  <2>. QED BY <1>2, <2>3
<1>9. place \in Injection(1..K, taken)
  BY <1>7, <1>8, Fun_IsInj
<1>10. \A p \in taken : \E i \in 1..K : place[i] = p
  <2>1. IsFiniteSet(1..K) /\ Cardinality(1..K) = K
    BY <1>2, FS_Interval
  <2>2. place \in Surjection(1..K, taken)
    BY <1>6, <1>9, <2>1, FS_Injection
  <2>3. \A p \in taken : \E i \in 1..K : place[i] = p
    BY <2>2, Zenon DEF Surjection
  <2>. QED BY <2>3
<1>11. \A i \in 1..K : place[i] \in 1..Len(Slots) /\ Slots[place[i]] \in slots
  BY <1>4, <1>7
<1>. HIDE DEF K
<1>12. InSlots \in Seq(Streams) /\ Len(InSlots) = K /\ DOMAIN InSlots = 1..K
  BY <1>2, <1>3, <1>11
<1>13. \A i \in 1..K : InSlots[i] = Slots[place[i]]
  BY <1>3
<1>14. IsInjective(InSlots)
  <2>1. ASSUME NEW i \in 1..K, NEW k \in 1..K, InSlots[i] = InSlots[k]
        PROVE  i = k
    <3>1. Slots[place[i]] = Slots[place[k]]
      BY <1>13, <2>1
    <3>2. place[i] \in 1..Len(Slots) /\ place[k] \in 1..Len(Slots)
      BY <1>11
    <3>3. place[i] = place[k]
      BY <1>1, <3>1, <3>2
    <3>. QED BY <1>8, <3>3
  <2>2. DOMAIN InSlots = 1..K
    BY <1>12
  <2>. QED BY ONLY <2>1, <2>2 DEF IsInjective
<1>15. Range(InSlots) = slots
  <2>1. \A s \in slots : \E i \in 1..K : InSlots[i] = s
    BY <1>5, <1>10, <1>13
  <2>2. \A i \in 1..K : InSlots[i] \in slots
    BY <1>11, <1>13
  <2>3. Range(InSlots) = {InSlots[i] : i \in 1..K}
    BY <1>12 DEF Range
  <2>. QED BY <2>1, <2>2, <2>3
<1>. QED BY <1>6, <1>12, <1>14, <1>15

\* Two streams change places: each is still there once.
LEMMA SwapKeeps ==
    ASSUME NEW seq \in Seq(Streams), NEW i \in 1..Len(seq), NEW j \in 1..Len(seq),
           IsInjective(seq)
    PROVE  /\ Swap(seq, i, j) \in Seq(Streams) /\ Len(Swap(seq, i, j)) = Len(seq)
           /\ IsInjective(Swap(seq, i, j)) /\ Range(seq) \subseteq Range(Swap(seq, i, j))
           /\ Swap(seq, i, j)[i] = seq[j] /\ Swap(seq, i, j)[j] = seq[i]
<1>. DEFINE new == Swap(seq, i, j)
<1>1. /\ DOMAIN seq = 1..Len(seq) /\ Len(seq) \in Nat
      /\ \A k \in 1..Len(seq) : seq[k] \in Streams
      /\ \A k, l \in 1..Len(seq) : seq[k] = seq[l] => k = l
  BY DEF IsInjective
<1>2. new \in Seq(Streams) /\ Len(new) = Len(seq) /\ DOMAIN new = 1..Len(seq)
  BY <1>1 DEF Swap
<1>3. \A k \in 1..Len(seq) :
        new[k] = IF k = j THEN seq[i] ELSE IF k = i THEN seq[j] ELSE seq[k]
  BY <1>1 DEF Swap
<1>. HIDE DEF new
<1>4. IsInjective(new)
  BY <1>1, <1>2, <1>3 DEF IsInjective
<1>5. \A k \in 1..Len(seq) : \E l \in 1..Len(seq) : new[l] = seq[k]
  BY <1>3
<1>6. Range(seq) \subseteq Range(new)
  <2>1. Range(seq) = {seq[k] : k \in 1..Len(seq)} /\ Range(new) = {new[k] : k \in 1..Len(seq)}
    BY <1>1, <1>2 DEF Range
  <2>. QED BY <1>5, <2>1
<1>. QED BY <1>2, <1>3, <1>4, <1>6 DEF new

\* START takes the metadata stream first, STOP takes it last, and both every stream
\* once.
LEMMA Orders ==
    ASSUME ChannelConstants, slots \subseteq Streams, Own \subseteq slots
    PROVE  /\ \A o \in {StartOrder, StopOrder} :
                /\ o \in Seq(Streams) /\ Len(o) <= Len(Slots) /\ 1 <= Len(o)
                /\ IsInjective(o) /\ Own \subseteq Range(o)
           /\ StartOrder[1] = Meta /\ StopOrder[Len(StopOrder)] = Meta
<1>1. /\ InSlots \in Seq(Streams) /\ Len(InSlots) <= Len(Slots)
      /\ IsInjective(InSlots) /\ Range(InSlots) = slots
  BY InSlotsOrder
<1>2. DOMAIN InSlots = 1..Len(InSlots) /\ Len(InSlots) \in Nat /\ Len(Slots) \in Nat
  BY <1>1 DEF ChannelConstants
<1>3. PlaceOfMeta \in 1..Len(InSlots) /\ InSlots[PlaceOfMeta] = Meta
  <2>1. Meta \in Range(InSlots)
    BY <1>1 DEF ChannelConstants
  <2>2. \E i \in 1..Len(InSlots) : InSlots[i] = Meta
    BY <1>2, <2>1 DEF Range
  <2>. QED BY <1>2, <2>2 DEF PlaceOfMeta
<1>4. 1 \in 1..Len(InSlots) /\ Len(InSlots) \in 1..Len(InSlots)
  BY <1>2, <1>3
<1>5. /\ StartOrder \in Seq(Streams) /\ Len(StartOrder) = Len(InSlots) /\ IsInjective(StartOrder)
      /\ Range(InSlots) \subseteq Range(StartOrder) /\ StartOrder[1] = Meta
  BY <1>1, <1>3, <1>4, SwapKeeps DEF StartOrder
<1>6. /\ StopOrder \in Seq(Streams) /\ Len(StopOrder) = Len(InSlots) /\ IsInjective(StopOrder)
      /\ Range(InSlots) \subseteq Range(StopOrder) /\ StopOrder[Len(InSlots)] = Meta
  BY <1>1, <1>3, <1>4, SwapKeeps DEF StopOrder
<1>. QED BY <1>1, <1>2, <1>4, <1>5, <1>6

-----------------------------------------------------------------------------
(* Frames and queues *)

\* A frame is of the stream it names, and a stream is the channel's own or linked.
LEMMA FrameFacts ==
    /\ \A s \in Streams : \A f \in FramesOf(s) : f \in Frames /\ f[1] = s
    /\ \A f \in Frames : f[1] \in Streams /\ f \in FramesOf(f[1])
    /\ \A s \in Streams : s \in Own <=> s \notin Linked
BY DEF FramesOf, Frames, Own

\* A command with a frame is one of a frame of the channel.
LEMMA DataCommand ==
    /\ \A f \in Frames : /\ [type |-> "DATA", frame |-> f] \in Commands
                         /\ [type |-> "DATA", frame |-> f].type = "DATA"
                         /\ [type |-> "DATA", frame |-> f].frame = f
    /\ \A c \in Commands : c.type = "DATA" =>
         c.frame \in Frames /\ c = [type |-> "DATA", frame |-> c.frame]
    /\ \A c \in Commands : c.type = "REQUEST" => c.count \in Nat
    /\ \A c \in Commands : c.type = "CONFIG" => c.mode \in BOOLEAN
BY DEF Commands

\* Taking a command from the queue.
LEMMA CmdTail ==
    ASSUME TypeInv, OnceInv, cmdQueue # <<>>, cmdQueue' = Tail(cmdQueue)
    PROVE  /\ cmdQueue' \in Seq(Commands) /\ Len(cmdQueue) \in Nat \ {0}
           /\ Len(cmdQueue') = Len(cmdQueue) - 1
           /\ \A i \in 1..Len(cmdQueue') :
                i + 1 \in 1..Len(cmdQueue) /\ cmdQueue'[i] = cmdQueue[i + 1]
           /\ Head(cmdQueue) = cmdQueue[1] /\ Head(cmdQueue) \in Commands
           /\ InCmdQueue' \subseteq InCmdQueue
           /\ Head(cmdQueue).type = "DATA" =>
                Head(cmdQueue).frame \in InCmdQueue \ InCmdQueue'
<1>1. /\ cmdQueue \in Seq(Commands) /\ Len(cmdQueue) \in Nat \ {0}
      /\ DOMAIN cmdQueue = 1..Len(cmdQueue)
      /\ \A i \in 1..Len(cmdQueue) : cmdQueue[i] \in Commands
  BY DEF TypeInv
<1>2. /\ cmdQueue' \in Seq(Commands) /\ Len(cmdQueue') = Len(cmdQueue) - 1
      /\ DOMAIN cmdQueue' = 1..Len(cmdQueue')
      /\ \A i \in 1..Len(cmdQueue') :
           i + 1 \in 1..Len(cmdQueue) /\ cmdQueue'[i] = cmdQueue[i + 1]
      /\ Head(cmdQueue) = cmdQueue[1]
  BY <1>1
<1>3. InCmdQueue' \subseteq InCmdQueue
  BY <1>1, <1>2 DEF InCmdQueue
<1>4. ASSUME Head(cmdQueue).type = "DATA"
      PROVE  Head(cmdQueue).frame \in InCmdQueue \ InCmdQueue'
  <2>1. 1 \in 1..Len(cmdQueue)
    BY <1>1
  <2>2. Head(cmdQueue).frame \in InCmdQueue
    BY <1>1, <1>2, <1>4, <2>1 DEF InCmdQueue
  <2>3. ASSUME NEW i \in 1..Len(cmdQueue'), cmdQueue'[i].type = "DATA",
               cmdQueue'[i].frame = Head(cmdQueue).frame
        PROVE  FALSE
    <3>1. /\ i + 1 \in 1..Len(cmdQueue) /\ cmdQueue[i + 1].type = "DATA"
          /\ cmdQueue[i + 1].frame = cmdQueue[1].frame /\ cmdQueue[1].type = "DATA"
      BY <1>2, <1>4, <2>3
    <3>2. cmdQueue[i + 1] = cmdQueue[1]
      BY <1>1, <2>1, <3>1, DataCommand
    <3>3. i + 1 = 1
      BY <2>1, <3>1, <3>2 DEF OnceInv
    <3>. QED BY <1>1, <1>2, <2>3, <3>3
  <2>4. Head(cmdQueue).frame \notin InCmdQueue'
    BY <1>2, <2>3 DEF InCmdQueue
  <2>. QED BY <2>2, <2>4
<1>. QED BY <1>1, <1>2, <1>3, <1>4

\* Sending one.
LEMMA CmdAppend ==
    ASSUME TypeInv, NEW c \in Commands, cmdQueue' = Append(cmdQueue, c)
    PROVE  /\ cmdQueue' \in Seq(Commands) /\ Len(cmdQueue) \in Nat
           /\ Len(cmdQueue') = Len(cmdQueue) + 1
           /\ \A i \in 1..Len(cmdQueue) : cmdQueue'[i] = cmdQueue[i]
           /\ cmdQueue'[Len(cmdQueue) + 1] = c
           /\ c.type # "DATA" => InCmdQueue' = InCmdQueue
           /\ c.type = "DATA" => InCmdQueue' = InCmdQueue \cup {c.frame}
<1>1. /\ cmdQueue \in Seq(Commands) /\ Len(cmdQueue) \in Nat
      /\ DOMAIN cmdQueue = 1..Len(cmdQueue)
  BY DEF TypeInv
<1>2. /\ cmdQueue' \in Seq(Commands) /\ Len(cmdQueue') = Len(cmdQueue) + 1
      /\ DOMAIN cmdQueue' = 1..(Len(cmdQueue) + 1)
      /\ \A i \in 1..Len(cmdQueue) : cmdQueue'[i] = cmdQueue[i]
      /\ cmdQueue'[Len(cmdQueue) + 1] = c
  BY <1>1
<1>3. /\ \A i \in 1..(Len(cmdQueue) + 1) : i \in 1..Len(cmdQueue) \/ i = Len(cmdQueue) + 1
      /\ \A i \in 1..Len(cmdQueue) : i \in 1..(Len(cmdQueue) + 1)
      /\ Len(cmdQueue) + 1 \in 1..(Len(cmdQueue) + 1)
  BY <1>1
<1>4. InCmdQueue = {cmdQueue[i].frame : i \in {j \in 1..Len(cmdQueue) : cmdQueue[j].type = "DATA"}}
  BY <1>1 DEF InCmdQueue
<1>5. InCmdQueue' = {cmdQueue'[i].frame :
                       i \in {j \in 1..(Len(cmdQueue) + 1) : cmdQueue'[j].type = "DATA"}}
  BY <1>2 DEF InCmdQueue
<1>6. c.type # "DATA" => InCmdQueue' = InCmdQueue
  BY <1>2, <1>3, <1>4, <1>5
<1>7. c.type = "DATA" => InCmdQueue' = InCmdQueue \cup {c.frame}
  BY <1>2, <1>3, <1>4, <1>5
<1>. QED BY <1>1, <1>2, <1>6, <1>7

\* The same for the callback thread's queue of super buffers.
LEMMA CbTail ==
    ASSUME TypeInv, OnceInv, cbQueue # <<>>, cbQueue' = Tail(cbQueue)
    PROVE  /\ cbQueue' \in Seq(SUBSET Frames) /\ Len(cbQueue) \in Nat \ {0}
           /\ Len(cbQueue') = Len(cbQueue) - 1
           /\ \A i \in 1..Len(cbQueue') :
                i + 1 \in 1..Len(cbQueue) /\ cbQueue'[i] = cbQueue[i + 1]
           /\ Head(cbQueue) = cbQueue[1] /\ Head(cbQueue) \subseteq Frames
           /\ InCbQueue' \subseteq InCbQueue /\ Head(cbQueue) \subseteq InCbQueue
           /\ Head(cbQueue) \cap InCbQueue' = {}
<1>1. /\ cbQueue \in Seq(SUBSET Frames) /\ Len(cbQueue) \in Nat \ {0}
      /\ DOMAIN cbQueue = 1..Len(cbQueue)
      /\ \A i \in 1..Len(cbQueue) : cbQueue[i] \subseteq Frames
  BY DEF TypeInv
<1>2. /\ cbQueue' \in Seq(SUBSET Frames) /\ Len(cbQueue') = Len(cbQueue) - 1
      /\ DOMAIN cbQueue' = 1..Len(cbQueue')
      /\ \A i \in 1..Len(cbQueue') :
           i + 1 \in 1..Len(cbQueue) /\ cbQueue'[i] = cbQueue[i + 1]
      /\ Head(cbQueue) = cbQueue[1]
  BY <1>1
<1>3. 1 \in 1..Len(cbQueue)
  BY <1>1
<1>4. /\ \A f : f \in InCbQueue <=> \E i \in 1..Len(cbQueue) : f \in cbQueue[i]
      /\ \A f : f \in InCbQueue' <=> \E i \in 1..Len(cbQueue') : f \in cbQueue'[i]
  BY <1>1, <1>2 DEF InCbQueue, Range
<1>5. InCbQueue' \subseteq InCbQueue /\ Head(cbQueue) \subseteq InCbQueue
  BY <1>2, <1>3, <1>4
<1>6. ASSUME NEW f \in Head(cbQueue), f \in InCbQueue'
      PROVE  FALSE
  <2>1. PICK i \in 1..Len(cbQueue') : f \in cbQueue'[i]
    BY <1>4, <1>6
  <2>2. i + 1 \in 1..Len(cbQueue) /\ f \in cbQueue[1] /\ f \in cbQueue[i + 1]
    BY <1>2, <1>6, <2>1
  <2>3. i + 1 = 1
    BY <1>3, <2>2 DEF OnceInv
  <2>. QED BY <1>1, <1>2, <2>3
<1>. QED BY <1>1, <1>2, <1>3, <1>5, <1>6

\* Handing one up.
LEMMA CbAppend ==
    ASSUME TypeInv, NEW b \in SUBSET Frames, cbQueue' = Append(cbQueue, b)
    PROVE  /\ cbQueue' \in Seq(SUBSET Frames) /\ Len(cbQueue) \in Nat
           /\ Len(cbQueue') = Len(cbQueue) + 1
           /\ \A i \in 1..Len(cbQueue) : cbQueue'[i] = cbQueue[i]
           /\ cbQueue'[Len(cbQueue) + 1] = b
           /\ InCbQueue' = InCbQueue \cup b
<1>1. /\ cbQueue \in Seq(SUBSET Frames) /\ Len(cbQueue) \in Nat
      /\ DOMAIN cbQueue = 1..Len(cbQueue)
  BY DEF TypeInv
<1>2. /\ cbQueue' \in Seq(SUBSET Frames) /\ Len(cbQueue') = Len(cbQueue) + 1
      /\ DOMAIN cbQueue' = 1..(Len(cbQueue) + 1)
      /\ \A i \in 1..Len(cbQueue) : cbQueue'[i] = cbQueue[i]
      /\ cbQueue'[Len(cbQueue) + 1] = b
  BY <1>1
<1>3. /\ \A i \in 1..(Len(cbQueue) + 1) : i \in 1..Len(cbQueue) \/ i = Len(cbQueue) + 1
      /\ \A i \in 1..Len(cbQueue) : i \in 1..(Len(cbQueue) + 1)
      /\ Len(cbQueue) + 1 \in 1..(Len(cbQueue) + 1)
  BY <1>1
<1>4. /\ \A f : f \in InCbQueue <=> \E i \in 1..Len(cbQueue) : f \in cbQueue[i]
      /\ \A f : f \in InCbQueue' <=> \E i \in 1..(Len(cbQueue) + 1) : f \in cbQueue'[i]
  BY <1>1, <1>2 DEF InCbQueue, Range
<1>5. \A f : f \in InCbQueue' <=> f \in InCbQueue \/ f \in b
  BY <1>2, <1>3, <1>4
<1>. QED BY <1>1, <1>2, <1>5

\* A frame in a queue is one of the channel's.
LEMMA QueuedFrames ==
    ASSUME TypeInv
    PROVE  InCmdQueue \subseteq Frames /\ InCbQueue \subseteq Frames /\ UNION app \subseteq Frames
<1>1. InCmdQueue \subseteq Frames
  BY DataCommand DEF TypeInv, InCmdQueue
<1>2. InCbQueue \subseteq Frames
  BY DEF TypeInv, InCbQueue, Range
<1>. QED BY <1>1, <1>2 DEF TypeInv

\* A queue of no length is empty.
LEMMA EmptyQueue ==
    ASSUME NEW S, NEW q \in Seq(S), Len(q) = 0
    PROVE  q = <<>>
OBVIOUS

\* An empty queue has no place.
LEMMA NoPlace ==
    Len(<<>>) = 0 /\ ~(\E i \in 1..Len(<<>>) : TRUE)
OBVIOUS

-----------------------------------------------------------------------------
(* What the command thread does with a frame *)

\* A super buffer has a frame of the metadata stream at least.
LEMMA BundleFacts ==
    ASSUME ChannelConstants, Own \subseteq slots, NEW F, NEW b \in Bundles(F)
    PROVE  b \subseteq F /\ b # {}
<1>1. b \subseteq F /\ \A s \in slots : Cardinality({f \in b : f[1] = s}) = 1
  BY DEF Bundles
<1>2. Cardinality({f \in b : f[1] = Meta}) = 1
  BY <1>1 DEF ChannelConstants
<1>3. ASSUME b = {}
      PROVE  FALSE
  <2>1. {f \in b : f[1] = Meta} = {}
    BY <1>3
  <2>2. Cardinality({f \in b : f[1] = Meta}) = 0
    BY <2>1, FS_EmptySet
  <2>. QED BY <1>2, <2>2
<1>. QED BY <1>1, <1>3

\* The frames back go back to their streams, the frames b go up.
Moved(F, back, b) ==
    /\ back \subseteq F /\ b \subseteq F \ back
    /\ superq' \subseteq (F \ back) \ b
    /\ kernel' \subseteq kernel \cup back
    /\ cbQueue' = IF b = {} THEN cbQueue ELSE Append(cbQueue, b)

\* The matching of frames moves frames, it neither makes nor drops one, and what is lost
\* are frames of linked streams that are not in streams[] any more.
LEMMA SettleMoves ==
    ASSUME ChannelConstants, Own \subseteq slots, NEW F, NEW n \in Nat, NEW mode, Settle(F, n, mode)
    PROVE  /\ \E back \in SUBSET F, b \in SUBSET F :
                Moved(F, back, b) /\ lost' = lost \cup {f \in back : f[1] \in Linked \ slots}
           /\ pending' \in Nat
<1>1. PICK back \in {{}} \cup {{f} : f \in F} :
        /\ Qbuf(back)
        /\ \/ superq' = F \ back /\ pending' = n /\ UNCHANGED cbQueue
           \/ /\ mode \/ n > 0
              /\ \E b \in Bundles(F \ back) :
                   superq' = (F \ back) \ b /\ cbQueue' = Append(cbQueue, b)
              /\ pending' = IF mode THEN n ELSE n - 1
  BY DEF Settle
<1>2. back \in SUBSET F
  OBVIOUS
<1>3. /\ lost' = lost \cup {f \in back : f[1] \in Linked \ slots}
      /\ kernel' \subseteq kernel \cup back
  BY <1>1 DEF Qbuf
<1>4. pending' \in Nat
  BY <1>1
<1>5. CASE superq' = F \ back /\ UNCHANGED cbQueue
  <2>1. Moved(F, back, {})
    BY <1>2, <1>3, <1>5 DEF Moved
  <2>. QED BY <1>2, <1>3, <1>4, <2>1
<1>6. CASE \E b \in Bundles(F \ back) : superq' = (F \ back) \ b /\ cbQueue' = Append(cbQueue, b)
  <2>1. PICK b \in Bundles(F \ back) : superq' = (F \ back) \ b /\ cbQueue' = Append(cbQueue, b)
    BY <1>6
  <2>2. b \subseteq F \ back /\ b # {}
    BY BundleFacts
  <2>3. Moved(F, back, b)
    BY <1>2, <1>3, <2>1, <2>2 DEF Moved
  <2>. QED BY <1>2, <1>3, <1>4, <2>2, <2>3
<1>. QED BY <1>1, <1>5, <1>6

\* The frame of a command, if it has one.
Carried(c) == IF c.type = "DATA" THEN {c.frame} ELSE {}

\* A command is served: its frame joins the super buffer queue, and frames leave that
\* for their streams and for the callback thread.
LEMMA ServedOnce ==
    ASSUME TypeInv, OnceInv, cmdQueue # <<>>, cmdQueue' = Tail(cmdQueue), app' = app,
           NEW F, F = superq \cup Carried(Head(cmdQueue)), NEW back, NEW b, Moved(F, back, b)
    PROVE  OnceInv' /\ Out' \subseteq Out /\ F \subseteq Out
<1>. DEFINE c == Head(cmdQueue)
<1>1. /\ Len(cmdQueue) \in Nat \ {0} /\ Len(cmdQueue') = Len(cmdQueue) - 1
      /\ \A i \in 1..Len(cmdQueue') :
           i + 1 \in 1..Len(cmdQueue) /\ cmdQueue'[i] = cmdQueue[i + 1]
  BY CmdTail
<1>2. InCmdQueue' \subseteq InCmdQueue /\ Carried(c) \subseteq InCmdQueue \ InCmdQueue'
  BY CmdTail DEF Carried
<1>. HIDE DEF c
<1>3. F = superq \cup Carried(c)
  BY DEF c
<1>4. /\ kernel \cap (InCmdQueue \cup superq \cup InCbQueue \cup UNION app) = {}
      /\ InCmdQueue \cap (superq \cup InCbQueue \cup UNION app) = {}
      /\ superq \cap (InCbQueue \cup UNION app) = {} /\ InCbQueue \cap UNION app = {}
  BY DEF OnceInv, FrameInOnePlace, Handled
<1>5. F \subseteq Out /\ F \cap InCmdQueue' = {} /\ F \cap InCbQueue = {} /\ F \cap UNION app = {}
      /\ F \cap kernel = {}
  BY <1>2, <1>3, <1>4 DEF Out, Handled
<1>6. /\ back \subseteq F /\ b \subseteq F \ back /\ superq' \subseteq (F \ back) \ b
      /\ kernel' \subseteq kernel \cup back
  BY DEF Moved
<1>7. /\ InCbQueue' \subseteq InCbQueue \cup b
      /\ \A i, k \in 1..Len(cbQueue') : cbQueue'[i] \cap cbQueue'[k] # {} => k = i
  <2>1. CASE b = {}
    <3>1. cbQueue' = cbQueue
      BY <2>1 DEF Moved
    <3>. QED BY <3>1 DEF InCbQueue, OnceInv
  <2>2. CASE b # {}
    <3>1. cbQueue' = Append(cbQueue, b)
      BY <2>2 DEF Moved
    <3>2. b \in SUBSET Frames
      BY <1>5, <1>6, QueuedFrames DEF Out, Handled, TypeInv
    <3>3. /\ Len(cbQueue) \in Nat /\ Len(cbQueue') = Len(cbQueue) + 1
          /\ \A i \in 1..Len(cbQueue) : cbQueue'[i] = cbQueue[i]
          /\ cbQueue'[Len(cbQueue) + 1] = b /\ InCbQueue' = InCbQueue \cup b
      BY <3>1, <3>2, CbAppend
    <3>4. \A i \in 1..Len(cbQueue) : cbQueue[i] \subseteq InCbQueue
      BY DEF InCbQueue, Range, TypeInv
    <3>5. \A i \in 1..Len(cbQueue) : cbQueue'[i] \cap b = {}
      BY <1>5, <1>6, <3>3, <3>4
    <3>6. \A i, k \in 1..Len(cbQueue) : cbQueue'[i] \cap cbQueue'[k] # {} => k = i
      BY <3>3 DEF OnceInv
    <3>7. \A i \in 1..Len(cbQueue') : i \in 1..Len(cbQueue) \/ i = Len(cbQueue) + 1
      BY <3>3
    <3>. QED BY <3>3, <3>5, <3>6, <3>7
  <2>. QED BY <2>1, <2>2
<1>8. FrameInOnePlace'
  <2>1. kernel' \cap (InCmdQueue' \cup superq' \cup InCbQueue' \cup UNION app') = {}
    BY <1>2, <1>4, <1>5, <1>6, <1>7
  <2>2. InCmdQueue' \cap (superq' \cup InCbQueue' \cup UNION app') = {}
    BY <1>2, <1>4, <1>5, <1>6, <1>7
  <2>3. superq' \cap (InCbQueue' \cup UNION app') = {} /\ InCbQueue' \cap UNION app' = {}
    BY <1>4, <1>5, <1>6, <1>7
  <2>. QED BY <2>1, <2>2, <2>3 DEF FrameInOnePlace, Handled
<1>9. \A i, k \in 1..Len(cmdQueue') :
        cmdQueue'[i].type = "DATA" /\ cmdQueue'[k] = cmdQueue'[i] => k = i
  <2>. SUFFICES ASSUME NEW i \in 1..Len(cmdQueue'), NEW k \in 1..Len(cmdQueue'),
                       cmdQueue'[i].type = "DATA", cmdQueue'[k] = cmdQueue'[i]
                PROVE  k = i
    OBVIOUS
  <2>1. /\ i + 1 \in 1..Len(cmdQueue) /\ k + 1 \in 1..Len(cmdQueue)
        /\ cmdQueue[i + 1].type = "DATA" /\ cmdQueue[k + 1] = cmdQueue[i + 1]
    BY <1>1
  <2>2. k + 1 = i + 1
    BY <2>1 DEF OnceInv
  <2>. QED BY <1>1, <2>2
<1>10. Out' \subseteq Out
  BY <1>2, <1>5, <1>6, <1>7 DEF Out, Handled
<1>. QED BY <1>5, <1>7, <1>8, <1>9, <1>10 DEF OnceInv

\* What each command does.
LEMMA ProcMoves ==
    ASSUME ChannelConstants, TypeInv, ProcData \/ ProcRequest \/ ProcConfig \/ ProcFlush
    PROVE  LET F == superq \cup Carried(Head(cmdQueue))
           IN  /\ cmdThread /\ cmdQueue # <<>> /\ cmdQueue' = Tail(cmdQueue)
               /\ \E back, b : /\ Moved(F, back, b)
                               /\ ~ProcFlush =>
                                    lost' = lost \cup {f \in back : f[1] \in Linked \ slots}
               /\ lost' \subseteq lost \cup F
               /\ pending' \in Nat /\ continuous' \in BOOLEAN
               /\ UNCHANGED <<caller, stream, isLinked, app, cmdThread, cbThread>>
               /\ ~ProcFlush => syncSem' = syncSem
<1>. DEFINE F == superq \cup Carried(Head(cmdQueue))
<1>1. Own \subseteq slots /\ pending \in Nat /\ continuous \in BOOLEAN
  BY DEF TypeInv
<1>2. CASE ProcData
  <2>1. F = superq \cup {Head(cmdQueue).frame}
    BY <1>2 DEF ProcData, CmdIs, Carried
  <2>2. Settle(F, pending, continuous)
    BY <1>2, <2>1 DEF ProcData
  <2>3. /\ \E back \in SUBSET F, b \in SUBSET F :
             Moved(F, back, b) /\ lost' = lost \cup {f \in back : f[1] \in Linked \ slots}
        /\ pending' \in Nat
    BY <1>1, <2>2, SettleMoves
  <2>4. /\ cmdThread /\ cmdQueue # <<>> /\ cmdQueue' = Tail(cmdQueue)
        /\ UNCHANGED <<caller, stream, isLinked, app, cmdThread, cbThread, syncSem, continuous>>
    BY <1>2 DEF ProcData, CmdIs
  <2>. QED BY <1>1, <2>3, <2>4
<1>3. CASE ProcRequest
  <2>1. F = superq
    BY <1>3 DEF ProcRequest, CmdIs, Carried
  <2>2. Settle(F, Head(cmdQueue).count, continuous) /\ Head(cmdQueue).count \in Nat
    <3>1. Head(cmdQueue) \in Commands /\ Head(cmdQueue).type = "REQUEST"
      BY <1>3 DEF ProcRequest, CmdIs, TypeInv
    <3>. QED BY <1>3, <2>1, <3>1, DataCommand DEF ProcRequest
  <2>3. /\ \E back \in SUBSET F, b \in SUBSET F :
             Moved(F, back, b) /\ lost' = lost \cup {f \in back : f[1] \in Linked \ slots}
        /\ pending' \in Nat
    BY <1>1, <2>2, SettleMoves
  <2>4. /\ cmdThread /\ cmdQueue # <<>> /\ cmdQueue' = Tail(cmdQueue)
        /\ UNCHANGED <<caller, stream, isLinked, app, cmdThread, cbThread, syncSem, continuous>>
    BY <1>3 DEF ProcRequest, CmdIs
  <2>. QED BY <1>1, <2>3, <2>4
<1>4. CASE ProcConfig
  <2>1. F = superq
    BY <1>4 DEF ProcConfig, CmdIs, Carried
  <2>2. Settle(F, pending, continuous') /\ continuous' \in BOOLEAN
    <3>1. Head(cmdQueue) \in Commands /\ Head(cmdQueue).type = "CONFIG"
      BY <1>4 DEF ProcConfig, CmdIs, TypeInv
    <3>. QED BY <1>4, <2>1, <3>1, DataCommand DEF ProcConfig
  <2>3. /\ \E back \in SUBSET F, b \in SUBSET F :
             Moved(F, back, b) /\ lost' = lost \cup {f \in back : f[1] \in Linked \ slots}
        /\ pending' \in Nat
    BY <1>1, <2>2, SettleMoves
  <2>4. /\ cmdThread /\ cmdQueue # <<>> /\ cmdQueue' = Tail(cmdQueue)
        /\ UNCHANGED <<caller, stream, isLinked, app, cmdThread, cbThread, syncSem>>
    BY <1>4 DEF ProcConfig, CmdIs
  <2>. QED BY <2>2, <2>3, <2>4
<1>5. CASE ProcFlush
  <2>1. F = superq
    BY <1>5 DEF ProcFlush, CmdIs, Carried
  <2>2. /\ kernel' \subseteq kernel \cup superq /\ superq' = {} /\ cbQueue' = cbQueue
        /\ lost' \subseteq lost \cup superq
    BY <1>5 DEF ProcFlush
  <2>3. Moved(F, superq, {})
    BY <2>1, <2>2 DEF Moved
  <2>4. /\ cmdThread /\ cmdQueue # <<>> /\ cmdQueue' = Tail(cmdQueue)
        /\ UNCHANGED <<caller, stream, isLinked, app, cmdThread, cbThread, pending, continuous>>
    BY <1>5 DEF ProcFlush, CmdIs
  <2>. QED BY <1>1, <1>5, <2>1, <2>2, <2>3, <2>4
<1>. QED BY <1>2, <1>3, <1>4, <1>5

\* Frames that a step of the HAL or of its thread gives back leave their place.
LEMMA HandedOnce ==
    ASSUME TypeInv, OnceInv, cmdQueue' = cmdQueue, superq' = superq,
           DispatchSuperBuf \/ CbExit \/ GiveBack
    PROVE  OnceInv' /\ Out' \subseteq Out
<1>1. /\ kernel \cap (InCmdQueue \cup superq \cup InCbQueue \cup UNION app) = {}
      /\ InCmdQueue \cap (superq \cup InCbQueue \cup UNION app) = {}
      /\ superq \cap (InCbQueue \cup UNION app) = {} /\ InCbQueue \cap UNION app = {}
  BY DEF OnceInv, FrameInOnePlace, Handled
<1>2. InCmdQueue' = InCmdQueue
  BY DEF InCmdQueue
<1>3. \A i, k \in 1..Len(cmdQueue') :
        cmdQueue'[i].type = "DATA" /\ cmdQueue'[k] = cmdQueue'[i] => k = i
  BY DEF OnceInv
<1>4. CASE GiveBack
  <2>1. PICK b \in app : Qbuf(b) /\ app' = app \ {b}
    BY <1>4 DEF GiveBack
  <2>2. cbQueue' = cbQueue /\ InCbQueue' = InCbQueue
    BY <1>4 DEF GiveBack, InCbQueue
  <2>3. kernel' \subseteq kernel \cup b /\ UNION app' \subseteq UNION app
    BY <2>1 DEF Qbuf
  <2>4. b \cap UNION app' = {}
    BY <2>1 DEF OnceInv
  <2>5. FrameInOnePlace'
    <3>1. b \subseteq UNION app
      BY <2>1
    <3>2. kernel' \cap (InCmdQueue' \cup superq' \cup InCbQueue' \cup UNION app') = {}
      BY <1>1, <1>2, <2>2, <2>3, <2>4, <3>1
    <3>3. /\ InCmdQueue' \cap (superq' \cup InCbQueue' \cup UNION app') = {}
          /\ superq' \cap (InCbQueue' \cup UNION app') = {} /\ InCbQueue' \cap UNION app' = {}
      BY <1>1, <1>2, <2>2, <2>3
    <3>. QED BY <3>2, <3>3 DEF FrameInOnePlace, Handled
  <2>6. \A a, c \in app' : a \cap c # {} => a = c
    BY <2>1 DEF OnceInv
  <2>7. \A i, k \in 1..Len(cbQueue') : cbQueue'[i] \cap cbQueue'[k] # {} => k = i
    BY <2>2 DEF OnceInv
  <2>8. Out' \subseteq Out
    BY <1>2, <2>2, <2>3 DEF Out, Handled
  <2>. QED BY <1>3, <2>5, <2>6, <2>7, <2>8 DEF OnceInv
<1>5. CASE DispatchSuperBuf \/ CbExit
  <2>1. cbQueue # <<>> /\ cbQueue' = Tail(cbQueue)
    BY <1>5 DEF DispatchSuperBuf, CbExit
  <2>. DEFINE h == Head(cbQueue)
  <2>2. /\ Len(cbQueue) \in Nat \ {0} /\ Len(cbQueue') = Len(cbQueue) - 1
        /\ \A i \in 1..Len(cbQueue') :
             i + 1 \in 1..Len(cbQueue) /\ cbQueue'[i] = cbQueue[i + 1]
        /\ InCbQueue' \subseteq InCbQueue /\ h \subseteq InCbQueue /\ h \cap InCbQueue' = {}
    BY <2>1, CbTail
  <2>3. \/ kernel' \subseteq kernel \cup h /\ app' = app
        \/ app' = app \cup {h} /\ kernel' = kernel
    BY <1>5 DEF DispatchSuperBuf, CbExit, Qbuf
  <2>. HIDE DEF h
  <2>4. UNION app' \subseteq h \cup UNION app
    BY <2>3
  <2>5. FrameInOnePlace'
    <3>1. kernel' \cap (InCmdQueue' \cup superq' \cup InCbQueue' \cup UNION app') = {}
      <4>1. CASE kernel' \subseteq kernel \cup h /\ app' = app
        BY <1>1, <1>2, <2>2, <4>1
      <4>2. CASE app' = app \cup {h} /\ kernel' = kernel
        BY <1>1, <1>2, <2>2, <2>4, <4>2
      <4>. QED BY <2>3, <4>1, <4>2
    <3>2. /\ InCmdQueue' \cap (superq' \cup InCbQueue' \cup UNION app') = {}
          /\ superq' \cap (InCbQueue' \cup UNION app') = {} /\ InCbQueue' \cap UNION app' = {}
      BY <1>1, <1>2, <2>2, <2>4
    <3>. QED BY <3>1, <3>2 DEF FrameInOnePlace, Handled
  <2>6. \A a, c \in app' : a \cap c # {} => a = c
    <3>1. \A a \in app : a \cap h = {}
      BY <1>1, <2>2
    <3>2. \A a, c \in app : a \cap c # {} => a = c
      BY DEF OnceInv
    <3>. QED BY <2>3, <3>1, <3>2
  <2>7. ASSUME NEW i \in 1..Len(cbQueue'), NEW k \in 1..Len(cbQueue'),
               cbQueue'[i] \cap cbQueue'[k] # {}
        PROVE  k = i
    <3>1. i + 1 \in 1..Len(cbQueue) /\ k + 1 \in 1..Len(cbQueue)
          /\ cbQueue[i + 1] \cap cbQueue[k + 1] # {}
      BY <2>2, <2>7
    <3>2. k + 1 = i + 1
      BY <3>1 DEF OnceInv
    <3>. QED BY <2>2, <3>2
  <2>8. Out' \subseteq Out
    BY <1>2, <2>2, <2>4 DEF Out, Handled
  <2>. QED BY <1>3, <2>5, <2>6, <2>7, <2>8 DEF OnceInv
<1>. QED BY <1>4, <1>5

\* A frame that a reader hands to the channel leaves the kernel.
LEMMA NotifiedOnce ==
    ASSUME TypeInv, OnceInv, NEW f \in kernel, kernel' = kernel \ {f},
           Send([type |-> "DATA", frame |-> f]), UNCHANGED <<superq, cbQueue, app>>
    PROVE  OnceInv' /\ Out' = Out \cup {f}
<1>. DEFINE c == [type |-> "DATA", frame |-> f]
<1>1. c \in Commands /\ c.type = "DATA" /\ c.frame = f
  BY DataCommand DEF TypeInv
<1>2. cmdQueue' = Append(cmdQueue, c)
  BY DEF Send
<1>. HIDE DEF c
<1>3. /\ Len(cmdQueue) \in Nat /\ Len(cmdQueue') = Len(cmdQueue) + 1
      /\ \A i \in 1..Len(cmdQueue) : cmdQueue'[i] = cmdQueue[i]
      /\ cmdQueue'[Len(cmdQueue) + 1] = c /\ InCmdQueue' = InCmdQueue \cup {f}
  BY <1>1, <1>2, CmdAppend
<1>4. InCbQueue' = InCbQueue
  BY DEF InCbQueue
<1>5. f \notin InCmdQueue \cup superq \cup InCbQueue \cup UNION app
  BY DEF OnceInv, FrameInOnePlace, Handled
<1>6. FrameInOnePlace'
  BY <1>3, <1>4, <1>5 DEF OnceInv, FrameInOnePlace, Handled
<1>7. \A i \in 1..Len(cmdQueue) : cmdQueue[i].type = "DATA" => cmdQueue[i].frame \in InCmdQueue
  BY DEF InCmdQueue, TypeInv
<1>8. \A i \in 1..Len(cmdQueue) : cmdQueue'[i] # c
  BY <1>1, <1>3, <1>5, <1>7
<1>9. \A i, k \in 1..Len(cmdQueue) :
        cmdQueue'[i].type = "DATA" /\ cmdQueue'[k] = cmdQueue'[i] => k = i
  BY <1>3 DEF OnceInv
<1>10. \A i \in 1..Len(cmdQueue') : i \in 1..Len(cmdQueue) \/ i = Len(cmdQueue) + 1
  BY <1>3
<1>11. \A i, k \in 1..Len(cmdQueue') :
        cmdQueue'[i].type = "DATA" /\ cmdQueue'[k] = cmdQueue'[i] => k = i
  BY <1>3, <1>8, <1>9, <1>10
<1>. QED BY <1>3, <1>4, <1>6, <1>11 DEF OnceInv, Out, Handled

-----------------------------------------------------------------------------
(* Steps of the readers, the threads and the HAL *)

\* What is said of the caller alone.
LEMMA CallerKept ==
    ASSUME OrderInv, CallerInv, StreamInv, UNCHANGED <<caller, stream, isLinked>>
    PROVE  OrderInv' /\ CallerInv' /\ StreamInv'
<1>. USE DEF caller
<1>1. OrderInv'
  BY DEF OrderInv
<1>2. CallerInv'
  BY DEF CallerInv, Calls
<1>3. StreamInv'
  BY DEF StreamInv, Calls
<1>. QED BY <1>1, <1>2, <1>3

\* Frames that leave a place of the channel stay those of streams that run.
LEMMA WhoseKept ==
    ASSUME WhoseInv, Out' \subseteq Out, UNCHANGED <<state, pc, slots, stream>>
    PROVE  WhoseInv'
BY DEF WhoseInv

\* A frame comes in only from a stream that runs or is linked, and not when the
\* channel is about to empty its queues for good.
LEMMA NotifyStep ==
    ASSUME ChannelConstants, IInv, NotifyChannel \/ NotifyLinked
    PROVE  IInv'
<1>. USE DEF IInv
<1>1. PICK f \in kernel :
        /\ (f[1] \in Own /\ stream[f[1]] = "ACTIVE") \/ f[1] \in isLinked
        /\ kernel' = kernel \ {f} /\ Send([type |-> "DATA", frame |-> f])
  BY DEF NotifyChannel, NotifyLinked
<1>2. UNCHANGED <<caller, stream, isLinked, superq, cbQueue, app, threads, lost>>
  BY DEF NotifyChannel, NotifyLinked
<1>3. UNCHANGED <<state, pc, at, failed, order, slots, sessions>>
  BY <1>2 DEF caller
<1>4. UNCHANGED <<cmdThread, cbThread, syncSem, pending, continuous>>
  BY <1>2 DEF threads
<1>. DEFINE c == [type |-> "DATA", frame |-> f]
<1>5. c \in Commands /\ c.type = "DATA" /\ c.frame = f /\ f \in Frames
  BY DataCommand DEF TypeInv
<1>6. cmdQueue' = Append(cmdQueue, c)
  BY <1>1 DEF Send
<1>. HIDE DEF c
<1>7. /\ Len(cmdQueue) \in Nat /\ Len(cmdQueue') = Len(cmdQueue) + 1
      /\ cmdQueue' \in Seq(Commands)
      /\ \A i \in 1..Len(cmdQueue) : cmdQueue'[i] = cmdQueue[i]
      /\ cmdQueue'[Len(cmdQueue) + 1] = c
  BY <1>5, <1>6, CmdAppend
<1>8. OnceInv' /\ Out' = Out \cup {f}
  BY <1>1, <1>2, NotifiedOnce
<1>9. TypeInv'
  BY <1>1, <1>2, <1>3, <1>4, <1>7 DEF TypeInv
<1>10. OrderInv' /\ CallerInv' /\ StreamInv'
  BY <1>2, CallerKept
<1>11. pc \notin {"flushed"} \cup RestPcs \cup {"undo joinCmd", "undo joinCb"} /\ ~Calls("STOPPED")
  <2>1. CASE f[1] \in Own /\ stream[f[1]] = "ACTIVE"
    BY <2>1 DEF StreamInv
  <2>2. CASE f[1] \in isLinked
    BY <2>2 DEF CallerInv, TypeInv
  <2>. QED BY <1>1, <2>1, <2>2
<1>12. ThreadInv'
  BY <1>3, <1>4 DEF ThreadInv, Calls
<1>13. cmdThread
  BY <1>11 DEF ThreadInv, JoinedPcs, RestPcs
<1>14. CmdInv'
  <2>1. ~(cmdThread' = FALSE) /\ ~Calls("STOPPED")' /\ pc' \notin RestPcs \cup {"flushed"}
    BY <1>3, <1>4, <1>11, <1>13 DEF Calls
  <2>2. syncSem' = 1 => pc' \in FlushPcs
    BY <1>3, <1>4 DEF CmdInv
  <2>3. \A i \in 1..Len(cmdQueue') : cmdQueue'[i].type = "FLUSH" =>
          i \in 1..Len(cmdQueue) /\ cmdQueue[i].type = "FLUSH" /\ cmdQueue'[i] = cmdQueue[i]
    BY <1>5, <1>7
  <2>4. \A i \in 1..Len(cmdQueue') : cmdQueue'[i].type = "EXIT" =>
          i \in 1..Len(cmdQueue) /\ cmdQueue[i].type = "EXIT"
    BY <1>5, <1>7
  <2>5. \A i \in 1..Len(cmdQueue) : cmdQueue[i].type # "EXIT"
    <3>1. pc \notin {"joinCmd", "undo joinCmd"}
      BY <1>11 DEF RestPcs
    <3>. QED BY <3>1 DEF CmdInv
  <2>6. ASSUME NEW i \in 1..Len(cmdQueue'), cmdQueue'[i].type = "FLUSH"
        PROVE  /\ pc' \in FlushPcs /\ syncSem' = 0
               /\ state' = "ACTIVE" => cmdQueue'[i].of = DEFAULT
               /\ \A k \in 1..Len(cmdQueue') : cmdQueue'[k].type = "FLUSH" => k = i
    <3>1. /\ pc \in FlushPcs /\ syncSem = 0
          /\ state = "ACTIVE" => cmdQueue[i].of = DEFAULT
          /\ \A k \in 1..Len(cmdQueue) : cmdQueue[k].type = "FLUSH" => k = i
      BY <2>3, <2>6 DEF CmdInv
    <3>. QED BY <1>3, <1>4, <2>3, <2>6, <3>1
  <2>7. pc' \notin {"flushed", "exit", "joinCmd"} /\ pc' \notin RestPcs
    BY <2>1 DEF RestPcs
  <2>8. \A i \in 1..Len(cmdQueue') : cmdQueue'[i].type # "EXIT"
    BY <2>4, <2>5
  <2>. QED BY <1>4, <1>13, <2>1, <2>2, <2>6, <2>7, <2>8 DEF CmdInv
<1>15. CbInv'
  BY <1>2, <1>3, <1>4 DEF CbInv
<1>16. WhoseInv'
  <2>1. f[1] \in Own => stream[f[1]] = "ACTIVE"
    BY <1>1 DEF TypeInv, Own
  <2>2. f[1] \in slots
    BY <1>1 DEF TypeInv
  <2>. QED BY <1>2, <1>3, <1>8, <2>1, <2>2 DEF WhoseInv
<1>. QED BY <1>8, <1>9, <1>10, <1>12, <1>14, <1>15, <1>16

\* The command thread serves a command: what it answers is the one FLUSH there is, and
\* the FLUSH of STOP leaves nothing.
LEMMA ProcStep ==
    ASSUME ChannelConstants, IInv, ProcData \/ ProcRequest \/ ProcConfig \/ ProcFlush
    PROVE  IInv'
<1>. USE DEF IInv
<1>. DEFINE F == superq \cup Carried(Head(cmdQueue))
<1>1. /\ cmdThread /\ cmdQueue # <<>> /\ cmdQueue' = Tail(cmdQueue)
      /\ \E back, b : Moved(F, back, b)
      /\ lost' \subseteq lost \cup F
      /\ pending' \in Nat /\ continuous' \in BOOLEAN
      /\ UNCHANGED <<caller, stream, isLinked, app, cmdThread, cbThread>>
      /\ ~ProcFlush => syncSem' = syncSem
  BY ProcMoves
<1>2. PICK back, b : Moved(F, back, b)
  BY <1>1
<1>3. OnceInv' /\ Out' \subseteq Out /\ F \subseteq Out
  BY <1>1, <1>2, ServedOnce
<1>. HIDE DEF F
<1>4. UNCHANGED <<state, pc, at, failed, order, slots, sessions>>
  BY <1>1 DEF caller
<1>5. /\ cmdQueue' \in Seq(Commands) /\ Len(cmdQueue) \in Nat \ {0}
      /\ Len(cmdQueue') = Len(cmdQueue) - 1
      /\ \A i \in 1..Len(cmdQueue') :
           i + 1 \in 1..Len(cmdQueue) /\ cmdQueue'[i] = cmdQueue[i + 1]
      /\ Head(cmdQueue) = cmdQueue[1]
  BY <1>1, CmdTail
<1>6. Out \subseteq Frames
  BY QueuedFrames DEF Out, Handled, TypeInv
<1>7. pc \notin {"exit", "joinCmd", "joinCb", "put", "undo joinCb"} /\ ~Calls("STOPPED")
  <2>1. pc \notin {"joinCb", "put", "undo joinCb"} /\ ~Calls("STOPPED")
    BY <1>1 DEF ThreadInv, JoinedPcs
  <2>2. pc # "exit"
    BY <1>1 DEF CmdInv
  <2>3. cmdQueue[1].type # "EXIT"
    BY <1>5 DEF ProcData, ProcRequest, ProcConfig, ProcFlush, CmdIs
  <2>4. pc # "joinCmd"
    <3>1. 1 \in 1..Len(cmdQueue)
      BY <1>5
    <3>. QED BY <2>3, <3>1 DEF CmdInv
  <2>. QED BY <2>1, <2>2, <2>4
<1>8. ProcFlush => /\ cmdQueue[1].type = "FLUSH" /\ superq' = {} /\ syncSem' = syncSem + 1
                   /\ pc \in FlushPcs /\ syncSem = 0 /\ (pc = "flushed" => Len(cmdQueue) = 1)
                   /\ \A k \in 1..Len(cmdQueue) : cmdQueue[k].type = "FLUSH" => k = 1
  <2>1. 1 \in 1..Len(cmdQueue)
    BY <1>5
  <2>2. ProcFlush => cmdQueue[1].type = "FLUSH" /\ superq' = {} /\ syncSem' = syncSem + 1
    BY <1>5 DEF ProcFlush, CmdIs
  <2>. QED BY <2>1, <2>2 DEF CmdInv
<1>9. cbThread /\ \A i \in 1..Len(cbQueue) : cbQueue[i] # {}
  BY <1>7 DEF ThreadInv, CbInv, JoinedPcs
<1>10. /\ cbQueue' \in Seq(SUBSET Frames)
       /\ \A i \in 1..Len(cbQueue') : cbQueue'[i] # {}
  <2>1. CASE b = {}
    <3>1. cbQueue' = cbQueue
      BY <1>2, <2>1 DEF Moved
    <3>. QED BY <1>9, <3>1 DEF TypeInv
  <2>2. CASE b # {}
    <3>1. cbQueue' = Append(cbQueue, b) /\ b \in SUBSET Frames
      BY <1>2, <1>3, <1>6, <2>2 DEF Moved
    <3>2. /\ cbQueue' \in Seq(SUBSET Frames) /\ Len(cbQueue) \in Nat
          /\ Len(cbQueue') = Len(cbQueue) + 1
          /\ \A i \in 1..Len(cbQueue) : cbQueue'[i] = cbQueue[i]
          /\ cbQueue'[Len(cbQueue) + 1] = b
      BY <3>1, CbAppend
    <3>3. \A i \in 1..Len(cbQueue') : i \in 1..Len(cbQueue) \/ i = Len(cbQueue) + 1
      BY <3>2
    <3>. QED BY <1>9, <2>2, <3>2, <3>3
  <2>. QED BY <2>1, <2>2
<1>11. TypeInv'
  <2>1. superq' \subseteq Frames /\ kernel' \subseteq Frames /\ lost' \subseteq Frames
    BY <1>1, <1>2, <1>3, <1>6 DEF Moved, TypeInv
  <2>2. syncSem' \in 0..1
    BY <1>1, <1>8 DEF TypeInv
  <2>3. UNCHANGED <<stream, isLinked, app, cmdThread, cbThread>>
    BY <1>1
  <2>. QED BY <1>1, <1>4, <1>5, <1>10, <2>1, <2>2, <2>3 DEF TypeInv
<1>12. OrderInv' /\ CallerInv' /\ StreamInv'
  BY <1>1, CallerKept
<1>13. ThreadInv'
  BY <1>1, <1>4 DEF ThreadInv, Calls
<1>14. CmdInv'
  <2>1. cmdThread' /\ ~Calls("STOPPED")' /\ pc' \notin {"exit", "joinCmd"} /\ pc' \notin RestPcs
    BY <1>1, <1>4, <1>7 DEF Calls, RestPcs
  <2>2. syncSem' = 1 => pc' \in FlushPcs
    BY <1>1, <1>4, <1>8 DEF CmdInv
  <2>3. ASSUME NEW i \in 1..Len(cmdQueue'), cmdQueue'[i].type = "FLUSH"
        PROVE  /\ pc' \in FlushPcs /\ syncSem' = 0
               /\ state' = "ACTIVE" => cmdQueue'[i].of = DEFAULT
               /\ pc' = "flushed" => i = Len(cmdQueue')
               /\ \A k \in 1..Len(cmdQueue') : cmdQueue'[k].type = "FLUSH" => k = i
    <3>1. i + 1 \in 1..Len(cmdQueue) /\ cmdQueue[i + 1].type = "FLUSH"
          /\ cmdQueue'[i] = cmdQueue[i + 1] /\ i \in Nat
      BY <1>5, <2>3
    <3>2. /\ pc \in FlushPcs /\ syncSem = 0
          /\ state = "ACTIVE" => cmdQueue[i + 1].of = DEFAULT
          /\ pc = "flushed" => i + 1 = Len(cmdQueue)
          /\ \A k \in 1..Len(cmdQueue) : cmdQueue[k].type = "FLUSH" => k = i + 1
      BY <3>1 DEF CmdInv
    <3>3. ~ProcFlush
      <4>1. i + 1 # 1
        BY <2>3, <3>1
      <4>. QED BY <1>8, <3>1, <4>1
    <3>4. syncSem' = 0
      BY <1>1, <3>2, <3>3
    <3>5. \A k \in 1..Len(cmdQueue') : cmdQueue'[k].type = "FLUSH" => k = i
      <4>. SUFFICES ASSUME NEW k \in 1..Len(cmdQueue'), cmdQueue'[k].type = "FLUSH"
                    PROVE  k = i
        OBVIOUS
      <4>1. k + 1 \in 1..Len(cmdQueue) /\ cmdQueue[k + 1].type = "FLUSH"
        BY <1>5
      <4>2. k + 1 = i + 1
        BY <3>2, <4>1
      <4>. QED BY <1>5, <3>1, <4>2
    <3>6. pc = "flushed" => i = Len(cmdQueue')
      BY <1>5, <3>1, <3>2
    <3>. QED BY <1>4, <3>1, <3>2, <3>4, <3>5, <3>6
  <2>4. ASSUME NEW i \in 1..Len(cmdQueue'), cmdQueue'[i].type = "EXIT"
        PROVE  i = Len(cmdQueue') /\ pc' \in {"joinCmd", "undo joinCmd"}
    <3>1. i + 1 \in 1..Len(cmdQueue) /\ cmdQueue[i + 1].type = "EXIT"
      BY <1>5, <2>4
    <3>2. i + 1 = Len(cmdQueue) /\ pc \in {"joinCmd", "undo joinCmd"}
      BY <3>1 DEF CmdInv
    <3>3. i = Len(cmdQueue')
      <4>1. i + 1 = Len(cmdQueue)
        BY <3>2
      <4>2. i \in Int
        BY <2>4
      <4>3. Len(cmdQueue') = Len(cmdQueue) - 1 /\ Len(cmdQueue) \in Int
        BY <1>5
      <4>. QED BY <4>1, <4>2, <4>3
    <3>. QED BY <1>4, <3>2, <3>3
  <2>5. ASSUME pc' = "flushed", syncSem' = 1
        PROVE  cmdQueue' = <<>> /\ superq' = {}
    <3>1. ProcFlush
      BY <1>1, <1>4, <2>5 DEF CmdInv
    <3>2. superq' = {} /\ Len(cmdQueue) = 1
      BY <1>4, <1>8, <2>5, <3>1
    <3>3. Len(cmdQueue') = 0
      BY <1>5, <3>2
    <3>. QED BY <1>5, <3>2, <3>3, EmptyQueue
  <2>. QED BY <2>1, <2>2, <2>3, <2>4, <2>5 DEF CmdInv
<1>15. CbInv'
  BY <1>1, <1>4, <1>9, <1>10 DEF CbInv
<1>16. WhoseInv'
  BY <1>1, <1>3, <1>4, WhoseKept
<1>. QED BY <1>3, <1>11, <1>12, <1>13, <1>14, <1>15, <1>16

\* The command thread exits behind its last command.
LEMMA ProcExitStep ==
    ASSUME ChannelConstants, IInv, ProcExit
    PROVE  IInv'
<1>. USE DEF IInv
<1>1. /\ cmdThread /\ cmdQueue # <<>> /\ Head(cmdQueue).type = "EXIT" /\ cmdQueue' = Tail(cmdQueue)
      /\ cmdThread' = FALSE
  BY DEF ProcExit, CmdIs
<1>2. UNCHANGED <<caller, stream, isLinked, superq, cbQueue, app, cbThread, syncSem, pending,
                  continuous, kernel, lost>>
  BY DEF ProcExit
<1>3. UNCHANGED <<state, pc, at, failed, order, slots, sessions>>
  BY <1>2 DEF caller
<1>4. /\ cmdQueue' \in Seq(Commands) /\ Len(cmdQueue) \in Nat \ {0}
      /\ Len(cmdQueue') = Len(cmdQueue) - 1
      /\ Head(cmdQueue) = cmdQueue[1] /\ InCmdQueue' \subseteq InCmdQueue
  BY <1>1, CmdTail
<1>5. 1 = Len(cmdQueue) /\ pc \in {"joinCmd", "undo joinCmd"}
  <2>1. 1 \in 1..Len(cmdQueue) /\ cmdQueue[1].type = "EXIT"
    BY <1>1, <1>4
  <2>. QED BY <2>1 DEF CmdInv
<1>6. cmdQueue' = <<>> /\ Len(cmdQueue') = 0 /\ 1..Len(cmdQueue') = {}
  <2>1. Len(cmdQueue) = 1 /\ Len(cmdQueue') = Len(cmdQueue) - 1
    BY <1>4, <1>5
  <2>2. Len(cmdQueue') = 0
    BY <2>1
  <2>3. cmdQueue' = <<>>
    BY <1>4, <2>2, EmptyQueue
  <2>. QED BY <2>2, <2>3
<1>7. TypeInv'
  BY <1>1, <1>2, <1>3, <1>4 DEF TypeInv
<1>8. OrderInv' /\ CallerInv' /\ StreamInv'
  BY <1>2, CallerKept
<1>9. ThreadInv'
  BY <1>1, <1>2, <1>3, <1>5 DEF ThreadInv, Calls
<1>10. CmdInv'
  BY <1>2, <1>3, <1>6 DEF CmdInv, Calls
<1>11. CbInv'
  BY <1>2, <1>3 DEF CbInv
<1>12. InCbQueue' = InCbQueue
  BY <1>2 DEF InCbQueue
<1>13. OnceInv'
  <2>1. FrameInOnePlace'
    BY <1>2, <1>4, <1>12 DEF OnceInv, FrameInOnePlace, Handled
  <2>. QED BY <1>2, <1>6, <2>1 DEF OnceInv
<1>14. Out' \subseteq Out
  BY <1>2, <1>4, <1>12 DEF Out, Handled
<1>15. WhoseInv'
  BY <1>2, <1>3, <1>14, WhoseKept
<1>. QED BY <1>7, <1>8, <1>9, <1>10, <1>11, <1>13, <1>15

\* The callback thread and the HAL.
LEMMA HandStep ==
    ASSUME ChannelConstants, IInv, DispatchSuperBuf \/ CbExit \/ GiveBack
    PROVE  IInv'
<1>. USE DEF IInv
<1>1. UNCHANGED <<caller, stream, isLinked, cmdQueue, superq, cmdThread, syncSem, pending,
                  continuous>>
  BY DEF DispatchSuperBuf, CbExit, GiveBack, threads
<1>2. UNCHANGED <<state, pc, at, failed, order, slots, sessions>>
  BY <1>1 DEF caller
<1>3. OnceInv' /\ Out' \subseteq Out
  BY <1>1, HandedOnce
<1>4. \/ GiveBack /\ cbQueue' = cbQueue
      \/ cbThread /\ cbQueue # <<>> /\ cbQueue' = Tail(cbQueue)
  BY DEF GiveBack, DispatchSuperBuf, CbExit
<1>5. /\ cbQueue' \in Seq(SUBSET Frames) /\ Len(cbQueue) \in Nat
      /\ \/ cbQueue' = cbQueue
         \/ /\ Len(cbQueue') = Len(cbQueue) - 1 /\ Len(cbQueue) # 0
            /\ Head(cbQueue) = cbQueue[1] /\ Head(cbQueue) \subseteq Frames
            /\ \A i \in 1..Len(cbQueue') :
                 i + 1 \in 1..Len(cbQueue) /\ cbQueue'[i] = cbQueue[i + 1]
  <2>1. CASE cbQueue' = cbQueue
    BY <2>1 DEF TypeInv
  <2>2. CASE cbThread /\ cbQueue # <<>> /\ cbQueue' = Tail(cbQueue)
    BY <2>2, CbTail
  <2>. QED BY <1>4, <2>1, <2>2
<1>6. \/ cbThread' = cbThread
      \/ CbExit /\ cbThread' = FALSE
  BY DEF GiveBack, DispatchSuperBuf, CbExit, threads
<1>7. ASSUME CbExit
      PROVE  cbQueue' = <<>> /\ pc \in {"joinCb", "undo joinCb"}
  <2>1. cbQueue # <<>> /\ Head(cbQueue) = {} /\ cbQueue' = Tail(cbQueue)
    BY <1>7 DEF CbExit
  <2>2. /\ Len(cbQueue) \in Nat \ {0} /\ Head(cbQueue) = cbQueue[1]
        /\ Len(cbQueue') = Len(cbQueue) - 1
    BY <2>1, CbTail
  <2>3. 1 = Len(cbQueue) /\ pc \in {"joinCb", "undo joinCb"}
    <3>1. 1 \in 1..Len(cbQueue) /\ cbQueue[1] = {}
      BY <2>1, <2>2
    <3>. QED BY <3>1 DEF CbInv
  <2>4. Len(cbQueue') = 0
    <3>1. Len(cbQueue) = 1 /\ Len(cbQueue') = Len(cbQueue) - 1
      BY <2>2, <2>3
    <3>. QED BY <3>1
  <2>. QED BY <1>5, <2>3, <2>4, EmptyQueue
<1>8. /\ app' \subseteq SUBSET Frames /\ kernel' \subseteq Frames /\ lost' \subseteq Frames
      /\ pc \in StopPlaces => app' \subseteq app
  <2>1. CASE GiveBack
    BY <2>1 DEF GiveBack, Qbuf, TypeInv
  <2>2. CASE CbExit
    BY <2>2 DEF CbExit, TypeInv
  <2>3. CASE DispatchSuperBuf
    <3>1. Head(cbQueue) \subseteq Frames
      <4>1. cbQueue # <<>> /\ cbQueue' = Tail(cbQueue)
        BY <2>3 DEF DispatchSuperBuf
      <4>. QED BY <4>1, CbTail
    <3>2. \/ Qbuf(Head(cbQueue)) /\ app' = app
          \/ pc \notin StopPlaces /\ app' = app \cup {Head(cbQueue)} /\ UNCHANGED <<kernel, lost>>
      BY <2>3 DEF DispatchSuperBuf
    <3>. QED BY <3>1, <3>2 DEF Qbuf, TypeInv
  <2>. QED BY <2>1, <2>2, <2>3
<1>9. TypeInv'
  BY <1>1, <1>2, <1>5, <1>6, <1>8 DEF TypeInv
<1>10. OrderInv' /\ CallerInv' /\ StreamInv'
  BY <1>1, CallerKept
<1>11. ThreadInv'
  <2>1. CASE cbThread' = cbThread
    BY <1>1, <1>2, <2>1 DEF ThreadInv, Calls
  <2>2. CASE CbExit /\ cbThread' = FALSE
    <3>1. ~cmdThread /\ pc' \in JoinedPcs
      BY <1>2, <1>7, <2>2 DEF ThreadInv, JoinedPcs
    <3>. QED BY <1>1, <1>2, <2>2, <3>1 DEF ThreadInv, Calls
  <2>. QED BY <1>6, <2>1, <2>2
<1>12. CmdInv'
  BY <1>1, <1>2 DEF CmdInv, Calls
<1>13. CbInv'
  <2>1. ~cbThread' => cbQueue' = <<>>
    BY <1>4, <1>6, <1>7 DEF CbInv, GiveBack, threads
  <2>2. ASSUME NEW i \in 1..Len(cbQueue'), cbQueue'[i] = {}
        PROVE  i = Len(cbQueue') /\ pc' \in {"joinCb", "undo joinCb"}
    <3>1. CASE cbQueue' = cbQueue
      BY <1>2, <2>2, <3>1 DEF CbInv
    <3>2. CASE /\ Len(cbQueue') = Len(cbQueue) - 1 /\ Len(cbQueue) # 0
               /\ \A k \in 1..Len(cbQueue') :
                    k + 1 \in 1..Len(cbQueue) /\ cbQueue'[k] = cbQueue[k + 1]
      <4>1. i + 1 \in 1..Len(cbQueue) /\ cbQueue[i + 1] = {}
        BY <2>2, <3>2
      <4>2. i + 1 = Len(cbQueue) /\ pc \in {"joinCb", "undo joinCb"}
        BY <4>1 DEF CbInv
      <4>3. Len(cbQueue') = Len(cbQueue) - 1 /\ i \in Int
        BY <2>2, <3>2
      <4>4. i = Len(cbQueue')
        <5>1. i + 1 = Len(cbQueue)
          BY <4>2
        <5>2. Len(cbQueue) \in Int
          BY <1>5
        <5>. QED BY <4>3, <5>1, <5>2
      <4>. QED BY <1>2, <4>2, <4>4
    <3>. QED BY <1>5, <3>1, <3>2
  <2>3. pc' \in StopPlaces => app' = {}
    BY <1>2, <1>8 DEF CbInv
  <2>. QED BY <2>1, <2>2, <2>3 DEF CbInv
<1>14. WhoseInv'
  BY <1>1, <1>2, <1>3, WhoseKept
<1>. QED BY <1>3, <1>9, <1>10, <1>11, <1>12, <1>13, <1>14

-----------------------------------------------------------------------------
(* Steps of the caller *)

\* A step that leaves the queues alone, and adds nothing to what the streams have.
LEMMA QueuesKept ==
    ASSUME OnceInv, UNCHANGED <<cmdQueue, superq, cbQueue, app>>, kernel' \subseteq kernel
    PROVE  OnceInv' /\ Out' = Out
<1>1. InCmdQueue' = InCmdQueue /\ InCbQueue' = InCbQueue
  BY DEF InCmdQueue, InCbQueue
<1>2. FrameInOnePlace'
  BY <1>1 DEF OnceInv, FrameInOnePlace, Handled
<1>. QED BY <1>1, <1>2 DEF OnceInv, Out, Handled

\* One that sends a command without a frame.
LEMMA SendKept ==
    ASSUME TypeInv, OnceInv, NEW c \in Commands, c.type # "DATA", Send(c),
           UNCHANGED <<superq, cbQueue, app, kernel>>
    PROVE  /\ OnceInv' /\ Out' = Out
           /\ cmdQueue' \in Seq(Commands) /\ Len(cmdQueue) \in Nat
           /\ Len(cmdQueue') = Len(cmdQueue) + 1
           /\ \A i \in 1..Len(cmdQueue') :
                \/ i \in 1..Len(cmdQueue) /\ cmdQueue'[i] = cmdQueue[i]
                \/ i = Len(cmdQueue') /\ cmdQueue'[i] = c
<1>1. cmdQueue' = Append(cmdQueue, c)
  BY DEF Send
<1>2. /\ cmdQueue' \in Seq(Commands) /\ Len(cmdQueue) \in Nat
      /\ Len(cmdQueue') = Len(cmdQueue) + 1
      /\ \A i \in 1..Len(cmdQueue) : cmdQueue'[i] = cmdQueue[i]
      /\ cmdQueue'[Len(cmdQueue) + 1] = c /\ InCmdQueue' = InCmdQueue
  BY <1>1, CmdAppend
<1>3. InCbQueue' = InCbQueue
  BY DEF InCbQueue
<1>4. \A i \in 1..Len(cmdQueue') :
        \/ i \in 1..Len(cmdQueue) /\ cmdQueue'[i] = cmdQueue[i]
        \/ i = Len(cmdQueue') /\ cmdQueue'[i] = c
  <2>1. \A i \in 1..Len(cmdQueue') : i \in 1..Len(cmdQueue) \/ i = Len(cmdQueue) + 1
    BY <1>2
  <2>. QED BY <1>2, <2>1
<1>5. FrameInOnePlace'
  BY <1>2, <1>3 DEF OnceInv, FrameInOnePlace, Handled
<1>6. ASSUME NEW i \in 1..Len(cmdQueue'), NEW k \in 1..Len(cmdQueue'),
             cmdQueue'[i].type = "DATA", cmdQueue'[k] = cmdQueue'[i]
      PROVE  k = i
  <2>1. i \in 1..Len(cmdQueue) /\ cmdQueue'[i] = cmdQueue[i]
    BY <1>4, <1>6
  <2>2. k \in 1..Len(cmdQueue) /\ cmdQueue'[k] = cmdQueue[k]
    BY <1>4, <1>6
  <2>. QED BY <1>6, <2>1, <2>2 DEF OnceInv
<1>. QED BY <1>2, <1>3, <1>4, <1>5, <1>6 DEF OnceInv, Out, Handled

\* The commands without a frame.
LEMMA PlainCommands ==
    /\ \A of \in Streams \cup {DEFAULT} :
         Flush(of) \in Commands /\ Flush(of).type = "FLUSH" /\ Flush(of).of = of
    /\ [type |-> "EXIT"] \in Commands /\ [type |-> "EXIT"].type = "EXIT"
    /\ \A n \in Nat : /\ [type |-> "REQUEST", count |-> n] \in Commands
                      /\ [type |-> "REQUEST", count |-> n].type = "REQUEST"
    /\ \A m \in BOOLEAN : /\ [type |-> "CONFIG", mode |-> m] \in Commands
                          /\ [type |-> "CONFIG", mode |-> m].type = "CONFIG"
BY DEF Commands, Flush

\* Where the loops over the streams are.
LEMMA LoopFacts ==
    ASSUME ChannelConstants, TypeInv, OrderInv, pc \in {"link", "start", "stop"} \cup UndoPcs
    PROVE  /\ Len(order) \in Nat /\ Len(Slots) \in Nat /\ Len(order) <= Len(Slots)
           /\ at \in Nat \ {0} /\ failed \in Nat
           /\ \A i \in 1..Len(order) : order[i] \in Streams
           /\ \A i, k \in 1..Len(order) : order[i] = order[k] => i = k
           /\ \A s \in Own : \E i \in 1..Len(order) : order[i] = s
<1>1. order \in Seq(Streams) /\ DOMAIN order = 1..Len(order)
  BY DEF TypeInv
<1>2. Len(order) <= Len(Slots) /\ IsInjective(order) /\ Own \subseteq Range(order)
  BY DEF OrderInv
<1>3. Len(order) \in Nat /\ \A i \in 1..Len(order) : order[i] \in Streams
  BY <1>1
<1>4. Len(Slots) \in Nat
  BY DEF ChannelConstants
<1>5. at \in Nat \ {0} /\ failed \in Nat
  BY <1>4 DEF TypeInv
<1>6. \A i, k \in 1..Len(order) : order[i] = order[k] => i = k
  BY <1>1, <1>2 DEF IsInjective
<1>7. \A s \in Own : \E i \in 1..Len(order) : order[i] = s
  BY <1>1, <1>2 DEF Range
<1>. QED BY <1>2, <1>3, <1>4, <1>5, <1>6, <1>7

\* One turn of a loop sets the state of one stream.
LEMMA TurnFacts ==
    ASSUME ChannelConstants, TypeInv, OrderInv, pc \in {"start", "stop"} \cup UndoPcs,
           at <= Len(order), order[at] \in Own,
           NEW x \in StreamStates, stream' = [stream EXCEPT ![order[at]] = x]
    PROVE  /\ stream' \in [Own -> StreamStates]
           /\ at \in 1..Len(order) /\ at \in 1..Len(Slots) /\ at + 1 \in 1..(Len(Slots) + 1)
           /\ at + 1 <= Len(order) + 1
           /\ \A i \in 1..Len(order) : order[i] \in Own =>
                stream'[order[i]] = IF i = at THEN x ELSE stream[order[i]]
           /\ \A i \in 1..Len(order) : i < at + 1 <=> i < at \/ i = at
           /\ \A i \in 1..Len(order) : at < i => i # at
<1>1. /\ Len(order) \in Nat /\ Len(Slots) \in Nat /\ Len(order) <= Len(Slots)
      /\ at \in Nat \ {0} /\ at <= Len(order)
  BY LoopFacts
<1>2. \A i, k \in 1..Len(order) : order[i] = order[k] => i = k
  BY LoopFacts
<1>3. /\ at \in 1..Len(order) /\ at \in 1..Len(Slots) /\ at + 1 \in 1..(Len(Slots) + 1)
      /\ at + 1 <= Len(order) + 1
      /\ \A i \in 1..Len(order) : i < at + 1 <=> i < at \/ i = at
      /\ \A i \in 1..Len(order) : at < i => i # at
  BY <1>1
<1>4. stream \in [Own -> StreamStates]
  BY DEF TypeInv
<1>5. /\ stream' \in [Own -> StreamStates]
      /\ \A i \in 1..Len(order) : order[i] \in Own =>
           stream'[order[i]] = IF i = at THEN x ELSE stream[order[i]]
  BY <1>2, <1>3, <1>4
<1>. QED BY <1>3, <1>5

\* When a flush is acknowledged none is queued any more.
LEMMA Acknowledged ==
    ASSUME TypeInv, CmdInv, syncSem > 0
    PROVE  syncSem = 1 /\ syncSem - 1 = 0 /\ \A i \in 1..Len(cmdQueue) : cmdQueue[i].type # "FLUSH"
<1>1. syncSem \in 0..1
  BY DEF TypeInv
<1>2. syncSem = 1 /\ syncSem - 1 = 0
  BY <1>1
<1>3. ASSUME NEW i \in 1..Len(cmdQueue), cmdQueue[i].type = "FLUSH"
      PROVE  FALSE
  <2>1. syncSem = 0
    BY <1>3 DEF CmdInv
  <2>. QED BY <1>2, <2>1
<1>. QED BY <1>2, <1>3

\* A stream of another channel is added to streams[] of a stopped channel.
LEMMA LinkStreamStep ==
    ASSUME ChannelConstants, IInv, LinkStream
    PROVE  IInv'
<1>. USE DEF IInv
<1>1. /\ state = "STOPPED" /\ pc = "idle"
      /\ \E s \in Linked \ slots : slots' = slots \cup {s}
  BY DEF LinkStream, Calls
<1>2. UNCHANGED <<state, pc, at, failed, order, sessions, stream, isLinked, cmdQueue, superq,
                  cbQueue, app, cmdThread, cbThread, syncSem, pending, continuous, kernel, lost>>
  BY DEF LinkStream, caller, queues, threads
<1>3. TypeInv'
  BY <1>1, <1>2 DEF TypeInv, StoppedPcs, ActivePcs, UndoPcs, RestPcs, StreamStates
<1>4. OrderInv'
  BY <1>1, <1>2 DEF OrderInv, UndoPcs
<1>5. CallerInv'
  BY <1>1, <1>2 DEF CallerInv, StoppedPcs, ActivePcs, UndoPcs, RestPcs, Calls
<1>6. StreamInv'
  BY <1>1, <1>2 DEF StreamInv, UndoPcs, RestPcs, Calls
<1>7. ThreadInv'
  BY <1>1, <1>2 DEF ThreadInv, JoinedPcs, Calls
<1>8. CmdInv'
  BY <1>1, <1>2 DEF CmdInv, FlushPcs, RestPcs, Calls
<1>9. CbInv'
  BY <1>1, <1>2 DEF CbInv, StopPlaces
<1>10. OnceInv' /\ Out' = Out
  BY <1>1, <1>2, QueuesKept
<1>11. WhoseInv'
  BY <1>1, <1>2, <1>10 DEF WhoseInv
<1>. QED BY <1>3, <1>4, <1>5, <1>6, <1>7, <1>8, <1>9, <1>10, <1>11

\* It is taken out again.
LEMMA DelStreamStep ==
    ASSUME ChannelConstants, IInv, DelStream
    PROVE  IInv'
<1>. USE DEF IInv
<1>1. /\ state = "STOPPED" /\ pc = "idle"
      /\ \E s \in slots \cap Linked : slots' = slots \ {s} /\ isLinked' = isLinked \ {s}
  BY DEF DelStream, Calls
<1>2. UNCHANGED <<state, pc, at, failed, order, sessions, stream, cmdQueue, superq, cbQueue, app,
                  cmdThread, cbThread, syncSem, pending, continuous, kernel, lost>>
  BY DEF DelStream, caller, queues, threads
<1>3. TypeInv'
  <2>1. Own \subseteq slots' /\ slots' \subseteq Streams /\ isLinked' \subseteq slots' \cap Linked
    BY <1>1, <1>2 DEF TypeInv, Own
  <2>. QED BY <1>1, <1>2, <2>1 DEF TypeInv, StoppedPcs, ActivePcs, UndoPcs, RestPcs
<1>4. OrderInv'
  BY <1>1, <1>2 DEF OrderInv, UndoPcs
<1>5. CallerInv'
  BY <1>1, <1>2 DEF CallerInv, StoppedPcs, ActivePcs, UndoPcs, RestPcs, Calls
<1>6. StreamInv'
  BY <1>1, <1>2 DEF StreamInv, UndoPcs, RestPcs, Calls
<1>7. ThreadInv'
  BY <1>1, <1>2 DEF ThreadInv, JoinedPcs, Calls
<1>8. CmdInv'
  BY <1>1, <1>2 DEF CmdInv, FlushPcs, RestPcs, Calls
<1>9. CbInv'
  BY <1>1, <1>2 DEF CbInv, StopPlaces
<1>10. OnceInv' /\ Out' = Out
  BY <1>1, <1>2, QueuesKept
<1>11. WhoseInv'
  BY <1>1, <1>2, <1>10 DEF WhoseInv
<1>. QED BY <1>3, <1>4, <1>5, <1>6, <1>7, <1>8, <1>9, <1>10, <1>11

\* A linked stream hands frames to the channel from here, before any own stream runs.
LEMMA StartLinkStep ==
    ASSUME ChannelConstants, IInv, StartLink
    PROVE  IInv'
<1>. USE DEF IInv
<1>1. /\ pc = "link"
      /\ \E s \in slots \cap Linked : isLinked' = isLinked \cup {s}
  BY DEF StartLink
<1>2. UNCHANGED <<state, pc, at, failed, order, slots, sessions, stream, cmdQueue, superq,
                  cbQueue, app, cmdThread, cbThread, syncSem, pending, continuous, kernel, lost>>
  BY DEF StartLink, caller, queues, threads
<1>3. TypeInv'
  BY <1>1, <1>2 DEF TypeInv, StoppedPcs, ActivePcs, UndoPcs, RestPcs, StreamStates
<1>4. OrderInv'
  BY <1>1, <1>2 DEF OrderInv, UndoPcs
<1>5. CallerInv'
  BY <1>1, <1>2 DEF CallerInv, StoppedPcs, ActivePcs, UndoPcs, RestPcs, Calls
<1>6. StreamInv'
  BY <1>1, <1>2 DEF StreamInv, UndoPcs, RestPcs, Calls
<1>7. ThreadInv'
  BY <1>1, <1>2 DEF ThreadInv, JoinedPcs, Calls
<1>8. CmdInv'
  BY <1>1, <1>2 DEF CmdInv, FlushPcs, RestPcs, Calls
<1>9. CbInv'
  BY <1>1, <1>2 DEF CbInv, StopPlaces
<1>10. OnceInv' /\ Out' = Out
  BY <1>1, <1>2, QueuesKept
<1>11. WhoseInv'
  BY <1>1, <1>2, <1>10 DEF WhoseInv
<1>. QED BY <1>3, <1>4, <1>5, <1>6, <1>7, <1>8, <1>9, <1>10, <1>11

\* All are linked: the own streams come next, none of which has been started.
LEMMA StartLinkedStep ==
    ASSUME ChannelConstants, IInv, StartLinked
    PROVE  IInv'
<1>. USE DEF IInv
<1>1. /\ pc = "link" /\ pc' = "start"
  BY DEF StartLinked
<1>2. UNCHANGED <<state, at, failed, order, slots, sessions, stream, isLinked, cmdQueue, superq,
                  cbQueue, app, cmdThread, cbThread, syncSem, pending, continuous, kernel, lost>>
  BY DEF StartLinked, caller, queues, threads
<1>3. TypeInv'
  BY <1>1, <1>2 DEF TypeInv, StoppedPcs, ActivePcs, UndoPcs, RestPcs, StreamStates
<1>4. OrderInv'
  BY <1>1, <1>2 DEF OrderInv, UndoPcs
<1>5. CallerInv'
  BY <1>1, <1>2 DEF CallerInv, StoppedPcs, ActivePcs, UndoPcs, RestPcs, Calls
<1>6. StreamInv'
  <2>1. at = 1 /\ \A s \in Own : stream[s] = "CFG"
    BY <1>1 DEF OrderInv, StreamInv
  <2>2. \A i \in 1..Len(order') : order'[i] \in Own =>
          stream'[order'[i]] = IF i < at' THEN "ACTIVE" ELSE "CFG"
    BY <1>2, <2>1
  <2>. QED BY <1>1, <1>2, <2>2 DEF StreamInv, UndoPcs, RestPcs, Calls
<1>7. ThreadInv'
  BY <1>1, <1>2 DEF ThreadInv, JoinedPcs, Calls
<1>8. CmdInv'
  BY <1>1, <1>2 DEF CmdInv, FlushPcs, RestPcs, Calls
<1>9. CbInv'
  BY <1>1, <1>2 DEF CbInv, StopPlaces
<1>10. OnceInv' /\ Out' = Out
  BY <1>1, <1>2, QueuesKept
<1>11. WhoseInv'
  BY <1>1, <1>2, <1>10 DEF WhoseInv
<1>. QED BY <1>3, <1>4, <1>5, <1>6, <1>7, <1>8, <1>9, <1>10, <1>11

\* The next own stream runs, the metadata stream first.
LEMMA StartStreamStep ==
    ASSUME ChannelConstants, IInv, StartStream
    PROVE  IInv'
<1>. USE DEF IInv
<1>1. /\ pc = "start" /\ at <= Len(order) /\ order[at] \in Own
      /\ stream' = [stream EXCEPT ![order[at]] = "ACTIVE"]
      /\ kernel' = kernel \cup FramesOf(order[at])
      /\ at' = at + 1
  BY DEF StartStream, Here
<1>2. UNCHANGED <<state, pc, failed, order, slots, sessions, isLinked, cmdQueue, superq, cbQueue,
                  app, cmdThread, cbThread, syncSem, pending, continuous, lost>>
  BY DEF StartStream, caller, queues, threads
<1>12. /\ stream' \in [Own -> StreamStates]
       /\ at \in 1..Len(order) /\ at \in 1..Len(Slots) /\ at + 1 \in 1..(Len(Slots) + 1)
       /\ at + 1 <= Len(order) + 1
       /\ \A i \in 1..Len(order) : order[i] \in Own =>
            stream'[order[i]] = IF i = at THEN "ACTIVE" ELSE stream[order[i]]
       /\ \A i \in 1..Len(order) : i < at + 1 <=> i < at \/ i = at
       /\ \A i \in 1..Len(order) : at < i => i # at
  <2>1. "ACTIVE" \in StreamStates
    BY DEF StreamStates
  <2>. QED BY <1>1, <2>1, TurnFacts
<1>13. FramesOf(order[at]) \subseteq Frames
  BY <1>1, FrameFacts DEF Own
<1>14. FramesOf(order[at]) \cap Out = {}
  <2>1. stream[order[at]] = "CFG"
    <3>1. ~(at < at)
      BY LoopFacts, <1>1
    <3>. QED BY <1>1, <1>12, <3>1 DEF StreamInv
  <2>2. \A f \in FramesOf(order[at]) : f[1] = order[at]
    BY <1>1, FrameFacts DEF Own
  <2>. QED BY <1>1, <2>1, <2>2 DEF WhoseInv
<1>3. TypeInv'
  <2>1. at + 1 \in 1..(Len(Slots) + 1) /\ stream' \in [Own -> StreamStates]
    BY <1>12
  <2>2. kernel' \subseteq Frames
    BY <1>1, <1>13 DEF TypeInv
  <2>. QED BY <1>1, <1>2, <2>1, <2>2 DEF TypeInv
<1>4. OrderInv'
  <2>1. at' <= Len(order') + 1
    BY <1>1, <1>2, <1>12
  <2>. QED BY <1>1, <1>2, <2>1 DEF OrderInv, UndoPcs
<1>5. CallerInv'
  BY <1>1, <1>2 DEF CallerInv, StoppedPcs, ActivePcs, UndoPcs, RestPcs, Calls
<1>6. StreamInv'
  <2>1. \A i \in 1..Len(order') : order'[i] \in Own =>
          stream'[order'[i]] = IF i < at' THEN "ACTIVE" ELSE "CFG"
    <3>1. \A i \in 1..Len(order) : order[i] \in Own =>
            stream[order[i]] = IF i < at THEN "ACTIVE" ELSE "CFG"
      BY <1>1 DEF StreamInv
    <3>. QED BY <1>1, <1>2, <1>12, <3>1
  <2>. QED BY <1>1, <1>2, <2>1 DEF StreamInv, UndoPcs, RestPcs, Calls
<1>7. ThreadInv'
  BY <1>1, <1>2 DEF ThreadInv, JoinedPcs, Calls
<1>8. CmdInv'
  BY <1>1, <1>2 DEF CmdInv, FlushPcs, RestPcs, Calls
<1>9. CbInv'
  BY <1>1, <1>2 DEF CbInv, StopPlaces
<1>10. OnceInv' /\ Out' = Out
  <2>1. InCmdQueue' = InCmdQueue /\ InCbQueue' = InCbQueue
    BY <1>2 DEF InCmdQueue, InCbQueue
  <2>2. Out' = Out
    BY <1>2, <2>1 DEF Out, Handled
  <2>3. kernel' \cap Out' = {}
    BY <1>1, <1>14, <2>2 DEF OnceInv, FrameInOnePlace, Out
  <2>4. FrameInOnePlace'
    BY <1>2, <2>1, <2>3 DEF OnceInv, FrameInOnePlace, Out, Handled
  <2>. QED BY <1>2, <2>2, <2>4 DEF OnceInv
<1>11. WhoseInv'
  <2>1. stream' \in [Own -> StreamStates] /\ stream \in [Own -> StreamStates]
    BY <1>12 DEF TypeInv
  <2>2. \A s \in Own : stream[s] = "ACTIVE" => stream'[s] = "ACTIVE"
    BY <1>1, <2>1
  <2>3. \A f \in Out : f[1] \in slots /\ (f[1] \in Own => stream[f[1]] = "ACTIVE")
    BY <1>1 DEF WhoseInv
  <2>. QED BY <1>1, <1>2, <1>10, <2>2, <2>3 DEF WhoseInv
<1>. QED BY <1>3, <1>4, <1>5, <1>6, <1>7, <1>8, <1>9, <1>10, <1>11

\* A linked stream is passed over: no own stream has this place.
LEMMA PassOverStep ==
    ASSUME ChannelConstants, IInv, PassOver
    PROVE  IInv'
<1>. USE DEF IInv
<1>1. /\ order[at] \in Linked /\ at' = at + 1
      /\ (pc \in {"start", "stop"} /\ at <= Len(order)) \/ (pc = "undo" /\ at <= failed)
  BY DEF PassOver
<1>2. UNCHANGED <<state, pc, failed, order, slots, sessions, stream, isLinked, cmdQueue, superq,
                  cbQueue, app, cmdThread, cbThread, syncSem, pending, continuous, kernel, lost>>
  BY DEF PassOver, caller, queues, threads
<1>12. /\ at + 1 \in 1..(Len(Slots) + 1)
       /\ pc \in {"start", "stop"} => at + 1 <= Len(order) + 1
       /\ pc = "undo" => at + 1 <= failed + 1
       /\ at \in 1..Len(order)
       /\ \A i \in 1..Len(order) : i < at + 1 <=> i < at \/ i = at
  <2>1. Len(order) \in Nat /\ Len(Slots) \in Nat /\ Len(order) <= Len(Slots)
        /\ at \in Nat \ {0} /\ failed \in Nat
    BY <1>1, LoopFacts DEF UndoPcs
  <2>2. CASE at <= Len(order) /\ pc \in {"start", "stop"}
    <3>1. /\ at + 1 \in 1..(Len(Slots) + 1) /\ at + 1 <= Len(order) + 1 /\ at \in 1..Len(order)
          /\ \A i \in 1..Len(order) : i < at + 1 <=> i < at \/ i = at
      <4>1. at <= Len(order)
        BY <2>2
      <4>. QED BY <2>1, <4>1
    <3>. QED BY <2>2, <3>1
  <2>3. CASE at <= failed /\ pc = "undo"
    <3>1. failed \in 1..Len(order)
      BY <2>3 DEF OrderInv, UndoPcs
    <3>2. /\ at + 1 \in 1..(Len(Slots) + 1) /\ at + 1 <= failed + 1 /\ at \in 1..Len(order)
          /\ \A i \in 1..Len(order) : i < at + 1 <=> i < at \/ i = at
      <4>1. at <= failed
        BY <2>3
      <4>. QED BY <2>1, <3>1, <4>1
    <3>. QED BY <2>3, <3>2
  <2>. QED BY <1>1, <2>2, <2>3
<1>13. order[at] \notin Own
  BY <1>1 DEF Own
<1>3. TypeInv'
  BY <1>1, <1>2, <1>12 DEF TypeInv
<1>4. OrderInv'
  <2>1. pc' \in {"start", "stop"} => at' <= Len(order') + 1
    BY <1>1, <1>2, <1>12
  <2>2. pc' = "undo" => at' <= failed' + 1
    BY <1>1, <1>2, <1>12
  <2>. QED BY <1>1, <1>2, <2>1, <2>2 DEF OrderInv, UndoPcs
<1>5. CallerInv'
  BY <1>1, <1>2 DEF CallerInv, StoppedPcs, ActivePcs, UndoPcs, RestPcs, Calls
<1>6. StreamInv'
  <2>1. \A i \in 1..Len(order) : order[i] \in Own => (i < at + 1 <=> i < at)
    BY <1>12, <1>13
  <2>2. pc' = "start" =>
          \A i \in 1..Len(order') : order'[i] \in Own =>
            stream'[order'[i]] = IF i < at' THEN "ACTIVE" ELSE "CFG"
    BY <1>1, <1>2, <2>1 DEF StreamInv
  <2>3. pc' = "stop" =>
          \A i \in 1..Len(order') : order'[i] \in Own =>
            stream'[order'[i]] = IF i < at' THEN "BUFFED" ELSE "ACTIVE"
    BY <1>1, <1>2, <2>1 DEF StreamInv
  <2>4. pc' = "undo" =>
          \A i \in 1..Len(order') : order'[i] \in Own /\ i < at' => stream'[order'[i]] = "CFG"
    BY <1>1, <1>2, <2>1 DEF StreamInv
  <2>5. pc' \in UndoPcs =>
          \A i \in 1..Len(order') : order'[i] \in Own /\ failed' < i => stream'[order'[i]] = "CFG"
    BY <1>1, <1>2 DEF StreamInv
  <2>. QED BY <1>1, <1>2, <2>2, <2>3, <2>4, <2>5 DEF StreamInv, UndoPcs, RestPcs, Calls
<1>7. ThreadInv'
  BY <1>1, <1>2 DEF ThreadInv, JoinedPcs, Calls
<1>8. CmdInv'
  BY <1>1, <1>2 DEF CmdInv, FlushPcs, RestPcs, Calls
<1>9. CbInv'
  BY <1>1, <1>2 DEF CbInv, StopPlaces
<1>10. OnceInv' /\ Out' = Out
  BY <1>1, <1>2, QueuesKept
<1>11. WhoseInv'
  BY <1>1, <1>2, <1>10 DEF WhoseInv
<1>. QED BY <1>3, <1>4, <1>5, <1>6, <1>7, <1>8, <1>9, <1>10, <1>11

\* The end of the loop: every own stream has been started.
LEMMA StartedStep ==
    ASSUME ChannelConstants, IInv, Started
    PROVE  IInv'
<1>. USE DEF IInv
<1>1. /\ pc = "start" /\ at > Len(order) /\ pc' = "idle" /\ state' = "ACTIVE"
  BY DEF Started
<1>2. UNCHANGED <<at, failed, order, slots, sessions, stream, isLinked, cmdQueue, superq, cbQueue,
                  app, cmdThread, cbThread, syncSem, pending, continuous, kernel, lost>>
  BY DEF Started, caller, queues, threads
<1>3. TypeInv'
  BY <1>1, <1>2 DEF TypeInv, StoppedPcs, ActivePcs, UndoPcs, RestPcs, StreamStates
<1>4. OrderInv'
  BY <1>1, <1>2 DEF OrderInv, UndoPcs
<1>5. CallerInv'
  BY <1>1, <1>2 DEF CallerInv, StoppedPcs, ActivePcs, UndoPcs, RestPcs, Calls
<1>6. StreamInv'
  <2>1. ASSUME NEW s \in Own
        PROVE  stream'[s] = "ACTIVE"
    <3>1. Len(order) \in Nat /\ at \in Nat /\ \E i \in 1..Len(order) : order[i] = s
      BY <1>1, LoopFacts
    <3>2. PICK i \in 1..Len(order) : order[i] = s
      BY <3>1
    <3>3. i < at
      BY <1>1, <3>1
    <3>. QED BY <1>1, <1>2, <3>2, <3>3 DEF StreamInv
  <2>. QED BY <1>1, <1>2, <2>1 DEF StreamInv, UndoPcs, RestPcs, Calls
<1>7. ThreadInv'
  BY <1>1, <1>2 DEF ThreadInv, JoinedPcs, Calls
<1>8. CmdInv'
  BY <1>1, <1>2 DEF CmdInv, FlushPcs, RestPcs, Calls
<1>9. CbInv'
  BY <1>1, <1>2 DEF CbInv, StopPlaces
<1>10. OnceInv' /\ Out' = Out
  BY <1>1, <1>2, QueuesKept
<1>11. WhoseInv'
  BY <1>1, <1>2, <1>10 DEF WhoseInv
<1>. QED BY <1>3, <1>4, <1>5, <1>6, <1>7, <1>8, <1>9, <1>10, <1>11

\* One of them fails; those behind it have not been started.
LEMMA StartFailsStep ==
    ASSUME ChannelConstants, IInv, StartFails
    PROVE  IInv'
<1>. USE DEF IInv
<1>1. /\ pc = "start" /\ at <= Len(order) /\ order[at] \in Own
      /\ \E got \in {"CFG", "BUFFED", "REG"} : stream' = [stream EXCEPT ![order[at]] = got]
      /\ failed' = at /\ pc' = "undo link"
  BY DEF StartFails, Here
<1>2. UNCHANGED <<state, at, order, slots, sessions, isLinked, cmdQueue, superq, cbQueue, app,
                  cmdThread, cbThread, syncSem, pending, continuous, kernel, lost>>
  BY DEF StartFails, caller, queues, threads
<1>12. PICK got \in {"CFG", "BUFFED", "REG"} : stream' = [stream EXCEPT ![order[at]] = got]
  BY <1>1
<1>13. /\ stream' \in [Own -> StreamStates]
       /\ at \in 1..Len(order) /\ at \in 1..Len(Slots)
       /\ \A i \in 1..Len(order) : order[i] \in Own =>
            stream'[order[i]] = IF i = at THEN got ELSE stream[order[i]]
       /\ \A i \in 1..Len(order) : at < i => i # at
  <2>1. got \in StreamStates
    BY DEF StreamStates
  <2>. QED BY <1>1, <1>12, <2>1, TurnFacts
<1>3. TypeInv'
  <2>1. at \in 0..Len(Slots)
    BY <1>13
  <2>2. failed' \in 0..Len(Slots) /\ stream' \in [Own -> StreamStates]
    BY <1>1, <1>13, <2>1
  <2>. QED BY <1>1, <1>2, <2>2 DEF TypeInv, StoppedPcs, UndoPcs
<1>4. OrderInv'
  <2>1. failed' \in 1..Len(order')
    BY <1>1, <1>2, <1>13
  <2>. QED BY <1>1, <1>2, <2>1 DEF OrderInv, UndoPcs
<1>5. CallerInv'
  BY <1>1, <1>2 DEF CallerInv, StoppedPcs, ActivePcs, UndoPcs, RestPcs, Calls
<1>6. StreamInv'
  <2>1. \A i \in 1..Len(order') : order'[i] \in Own /\ failed' < i => stream'[order'[i]] = "CFG"
    <3>. SUFFICES ASSUME NEW i \in 1..Len(order), order[i] \in Own, at < i
                  PROVE  stream'[order[i]] = "CFG"
      BY <1>1, <1>2
    <3>1. stream[order[i]] = IF i < at THEN "ACTIVE" ELSE "CFG"
      BY <1>1 DEF StreamInv
    <3>2. ~(i < at) /\ i # at
      BY <1>13
    <3>. QED BY <1>13, <3>1, <3>2
  <2>. QED BY <1>1, <1>2, <2>1 DEF StreamInv, UndoPcs, RestPcs, Calls
<1>7. ThreadInv'
  BY <1>1, <1>2 DEF ThreadInv, JoinedPcs, Calls
<1>8. CmdInv'
  BY <1>1, <1>2 DEF CmdInv, FlushPcs, RestPcs, Calls
<1>9. CbInv'
  BY <1>1, <1>2 DEF CbInv, StopPlaces
<1>10. OnceInv' /\ Out' = Out
  BY <1>1, <1>2, QueuesKept
<1>11. WhoseInv'
  BY <1>1, <1>2, <1>10 DEF WhoseInv
<1>. QED BY <1>3, <1>4, <1>5, <1>6, <1>7, <1>8, <1>9, <1>10, <1>11

\* The linked stream's slot is cleared when its flush has been acknowledged.
LEMMA UndoLinkFlushedStep ==
    ASSUME ChannelConstants, IInv, UndoLinkFlushed
    PROVE  IInv'
<1>. USE DEF IInv
<1>1. /\ pc = "undo flushed" /\ syncSem > 0 /\ syncSem' = syncSem - 1
      /\ \E s \in (slots \cap Linked) \ isLinked : slots' = slots \ {s}
      /\ pc' = "undo link"
  BY DEF UndoLinkFlushed
<1>2. UNCHANGED <<state, at, failed, order, sessions, stream, isLinked, cmdQueue, superq, cbQueue,
                  app, cmdThread, cbThread, pending, continuous, kernel, lost>>
  BY DEF UndoLinkFlushed, caller, queues, threads
<1>3. TypeInv'
  <2>1. Own \subseteq slots' /\ slots' \subseteq Streams /\ isLinked' \subseteq slots' \cap Linked
    BY <1>1, <1>2 DEF TypeInv, Own
  <2>2. syncSem' \in 0..1
    <3>1. syncSem' = 0
      BY <1>1, Acknowledged
    <3>. QED BY <3>1
  <2>. QED BY <1>1, <1>2, <2>1, <2>2 DEF TypeInv, StoppedPcs, ActivePcs, UndoPcs, RestPcs
<1>4. OrderInv'
  BY <1>1, <1>2 DEF OrderInv, UndoPcs
<1>5. CallerInv'
  BY <1>1, <1>2 DEF CallerInv, StoppedPcs, ActivePcs, UndoPcs, RestPcs, Calls
<1>6. StreamInv'
  BY <1>1, <1>2 DEF StreamInv, UndoPcs, RestPcs, Calls
<1>7. ThreadInv'
  BY <1>1, <1>2 DEF ThreadInv, JoinedPcs, Calls
<1>8. CmdInv'
  <2>1. syncSem' = 0 /\ \A i \in 1..Len(cmdQueue) : cmdQueue[i].type # "FLUSH"
    BY <1>1, Acknowledged
  <2>2. ~Calls("STOPPED")' /\ pc' \notin RestPcs \cup {"flushed", "exit", "joinCmd"}
    BY <1>1 DEF Calls, RestPcs
  <2>3. syncSem' # 1
    BY <2>1
  <2>4. \A i \in 1..Len(cmdQueue) : cmdQueue[i].type = "EXIT" =>
          i = Len(cmdQueue) /\ pc \in {"joinCmd", "undo joinCmd"}
    BY DEF CmdInv
  <2>5. \A i \in 1..Len(cmdQueue) : cmdQueue[i].type # "EXIT"
    BY <1>1, <2>4
  <2>6. ~cmdThread' => cmdQueue' = <<>>
    BY <1>2 DEF CmdInv
  <2>. QED BY <1>2, <2>1, <2>2, <2>3, <2>5, <2>6 DEF CmdInv
<1>9. CbInv'
  BY <1>1, <1>2 DEF CbInv, StopPlaces
<1>10. OnceInv' /\ Out' = Out
  BY <1>1, <1>2, QueuesKept
<1>11. WhoseInv'
  BY <1>1, <1>2, <1>10 DEF WhoseInv, CallerInv, ActivePcs, RestPcs
<1>. QED BY <1>3, <1>4, <1>5, <1>6, <1>7, <1>8, <1>9, <1>10, <1>11

\* No linked stream is left: the own ones are taken back.
LEMMA UndoLinkedStep ==
    ASSUME ChannelConstants, IInv, UndoLinked
    PROVE  IInv'
<1>. USE DEF IInv
<1>1. /\ pc = "undo link" /\ slots \cap Linked = {} /\ pc' = "undo" /\ at' = 1
  BY DEF UndoLinked
<1>2. UNCHANGED <<state, failed, order, slots, sessions, stream, isLinked, cmdQueue, superq,
                  cbQueue, app, cmdThread, cbThread, syncSem, pending, continuous, kernel, lost>>
  BY DEF UndoLinked, caller, queues, threads
<1>3. TypeInv'
  <2>1. 1 \in 1..(Len(Slots) + 1)
    BY DEF ChannelConstants
  <2>. QED BY <1>1, <1>2, <2>1 DEF TypeInv, StoppedPcs, UndoPcs
<1>4. OrderInv'
  <2>1. at' <= failed' + 1
    <3>1. failed \in Nat
      BY <1>1, LoopFacts DEF UndoPcs
    <3>2. 1 <= failed + 1
      BY <3>1
    <3>. QED BY <1>1, <1>2, <3>2
  <2>. QED BY <1>1, <1>2, <2>1 DEF OrderInv, UndoPcs
<1>5. CallerInv'
  BY <1>1, <1>2 DEF CallerInv, StoppedPcs, ActivePcs, UndoPcs, RestPcs, Calls
<1>6. StreamInv'
  <2>1. \A i \in 1..Len(order') : ~(i < at')
    <3>1. at' = 1
      BY <1>1
    <3>. QED BY <3>1
  <2>2. \A i \in 1..Len(order') : order'[i] \in Own /\ failed' < i => stream'[order'[i]] = "CFG"
    BY <1>1, <1>2 DEF StreamInv, UndoPcs
  <2>. QED BY <1>1, <1>2, <2>1, <2>2 DEF StreamInv, UndoPcs, RestPcs, Calls
<1>7. ThreadInv'
  BY <1>1, <1>2 DEF ThreadInv, JoinedPcs, Calls
<1>8. CmdInv'
  BY <1>1, <1>2 DEF CmdInv, FlushPcs, RestPcs, Calls
<1>9. CbInv'
  BY <1>1, <1>2 DEF CbInv, StopPlaces
<1>10. OnceInv' /\ Out' = Out
  BY <1>1, <1>2, QueuesKept
<1>11. WhoseInv'
  BY <1>1, <1>2, <1>10 DEF WhoseInv
<1>. QED BY <1>3, <1>4, <1>5, <1>6, <1>7, <1>8, <1>9, <1>10, <1>11

\* One is, up to the one that failed.
LEMMA UndoStreamStep ==
    ASSUME ChannelConstants, IInv, UndoStream
    PROVE  IInv'
<1>. USE DEF IInv
<1>1. /\ pc = "undo" /\ at <= failed /\ order[at] \in Own
      /\ stream' = [stream EXCEPT ![order[at]] = "CFG"] /\ kernel' = kernel \ FramesOf(order[at])
      /\ at' = at + 1
  BY DEF UndoStream, Here
<1>2. UNCHANGED <<state, pc, failed, order, slots, sessions, isLinked, cmdQueue, superq, cbQueue,
                  app, cmdThread, cbThread, syncSem, pending, continuous, lost>>
  BY DEF UndoStream, caller, queues, threads
<1>12. /\ stream' \in [Own -> StreamStates]
       /\ at \in 1..Len(order) /\ at \in 1..Len(Slots) /\ at + 1 \in 1..(Len(Slots) + 1)
       /\ at + 1 <= Len(order) + 1
       /\ \A i \in 1..Len(order) : order[i] \in Own =>
            stream'[order[i]] = IF i = at THEN "CFG" ELSE stream[order[i]]
       /\ \A i \in 1..Len(order) : i < at + 1 <=> i < at \/ i = at
       /\ \A i \in 1..Len(order) : at < i => i # at
  <2>1. at <= Len(order)
    <3>1. Len(order) \in Nat /\ at \in Nat /\ failed \in 1..Len(order) /\ at <= failed
      BY <1>1, LoopFacts DEF OrderInv, UndoPcs
    <3>. QED BY <3>1
  <2>2. "CFG" \in StreamStates
    BY DEF StreamStates
  <2>3. pc \in {"start", "stop"} \cup UndoPcs
    BY <1>1 DEF UndoPcs
  <2>. QED BY <1>1, <2>1, <2>2, <2>3, TurnFacts
<1>13. FramesOf(order[at]) \subseteq Frames
  BY <1>1, FrameFacts DEF Own
<1>3. TypeInv'
  <2>1. at + 1 \in 1..(Len(Slots) + 1) /\ stream' \in [Own -> StreamStates]
    BY <1>12
  <2>2. kernel' \subseteq Frames
    BY <1>1, <1>13 DEF TypeInv
  <2>. QED BY <1>1, <1>2, <2>1, <2>2 DEF TypeInv
<1>4. OrderInv'
  <2>1. at' <= failed' + 1
    <3>1. at \in Nat \ {0} /\ failed \in Nat /\ at <= failed
      BY <1>1, LoopFacts DEF UndoPcs
    <3>2. at + 1 <= failed + 1
      BY <3>1
    <3>. QED BY <1>1, <1>2, <3>2
  <2>. QED BY <1>1, <1>2, <2>1 DEF OrderInv, UndoPcs
<1>5. CallerInv'
  BY <1>1, <1>2 DEF CallerInv, StoppedPcs, ActivePcs, UndoPcs, RestPcs, Calls
<1>6. StreamInv'
  <2>1. \A i \in 1..Len(order') : order'[i] \in Own /\ failed' < i => stream'[order'[i]] = "CFG"
    BY <1>1, <1>2, <1>12 DEF StreamInv, UndoPcs
  <2>2. \A i \in 1..Len(order') : order'[i] \in Own /\ i < at' => stream'[order'[i]] = "CFG"
    BY <1>1, <1>2, <1>12 DEF StreamInv
  <2>. QED BY <1>1, <1>2, <2>1, <2>2 DEF StreamInv, UndoPcs, RestPcs, Calls
<1>7. ThreadInv'
  BY <1>1, <1>2 DEF ThreadInv, JoinedPcs, Calls
<1>8. CmdInv'
  BY <1>1, <1>2 DEF CmdInv, FlushPcs, RestPcs, Calls
<1>9. CbInv'
  BY <1>1, <1>2 DEF CbInv, StopPlaces
<1>10. OnceInv' /\ Out' = Out
  BY <1>1, <1>2, QueuesKept
<1>11. WhoseInv'
  BY <1>1, <1>2, <1>10 DEF WhoseInv
<1>. QED BY <1>3, <1>4, <1>5, <1>6, <1>7, <1>8, <1>9, <1>10, <1>11

\* STOP takes the metadata stream last.
LEMMA StopStep ==
    ASSUME ChannelConstants, IInv, Stop
    PROVE  IInv'
<1>. USE DEF IInv
<1>1. /\ state = "ACTIVE" /\ pc = "idle" /\ app = {}
      /\ pc' = "stop" /\ at' = 1 /\ order' = StopOrder
  BY DEF Stop, Calls
<1>2. UNCHANGED <<state, failed, slots, sessions, stream, isLinked, cmdQueue, superq, cbQueue,
                  app, cmdThread, cbThread, syncSem, pending, continuous, kernel, lost>>
  BY DEF Stop, caller, queues, threads
<1>12. /\ order' \in Seq(Streams) /\ Len(order') <= Len(Slots) /\ 1 <= Len(order')
       /\ IsInjective(order') /\ Own \subseteq Range(order') /\ order'[Len(order')] = Meta
  BY <1>1, Orders DEF TypeInv
<1>3. TypeInv'
  <2>1. 1 \in 1..(Len(Slots) + 1)
    BY DEF ChannelConstants
  <2>. QED BY <1>1, <1>2, <1>12, <2>1 DEF TypeInv, ActivePcs
<1>4. OrderInv'
  <2>1. at' <= Len(order') + 1
    BY <1>1, <1>12
  <2>. QED BY <1>1, <1>2, <1>12, <2>1 DEF OrderInv, UndoPcs
<1>5. CallerInv'
  BY <1>1, <1>2 DEF CallerInv, StoppedPcs, ActivePcs, UndoPcs, RestPcs, Calls
<1>6. StreamInv'
  <2>1. \A s \in Own : stream[s] = "ACTIVE"
    BY <1>1 DEF StreamInv, Calls
  <2>2. \A i \in 1..Len(order') : ~(i < at')
    BY <1>1
  <2>. QED BY <1>1, <1>2, <2>1, <2>2 DEF StreamInv, UndoPcs, RestPcs, Calls
<1>7. ThreadInv'
  BY <1>1, <1>2 DEF ThreadInv, JoinedPcs, Calls
<1>8. CmdInv'
  BY <1>1, <1>2 DEF CmdInv, FlushPcs, RestPcs, Calls
<1>9. CbInv'
  BY <1>1, <1>2 DEF CbInv, StopPlaces
<1>10. OnceInv' /\ Out' = Out
  BY <1>1, <1>2, QueuesKept
<1>11. WhoseInv'
  BY <1>1, <1>2, <1>10 DEF WhoseInv
<1>. QED BY <1>3, <1>4, <1>5, <1>6, <1>7, <1>8, <1>9, <1>10, <1>11

\* The next own stream is stopped.
LEMMA StopStreamStep ==
    ASSUME ChannelConstants, IInv, StopStream
    PROVE  IInv'
<1>. USE DEF IInv
<1>1. /\ pc = "stop" /\ at <= Len(order) /\ order[at] \in Own
      /\ stream' = [stream EXCEPT ![order[at]] = "BUFFED"] /\ kernel' = kernel \ FramesOf(order[at])
      /\ at' = at + 1
  BY DEF StopStream, Here
<1>2. UNCHANGED <<state, pc, failed, order, slots, sessions, isLinked, cmdQueue, superq, cbQueue,
                  app, cmdThread, cbThread, syncSem, pending, continuous, lost>>
  BY DEF StopStream, caller, queues, threads
<1>12. /\ stream' \in [Own -> StreamStates]
       /\ at \in 1..Len(order) /\ at \in 1..Len(Slots) /\ at + 1 \in 1..(Len(Slots) + 1)
       /\ at + 1 <= Len(order) + 1
       /\ \A i \in 1..Len(order) : order[i] \in Own =>
            stream'[order[i]] = IF i = at THEN "BUFFED" ELSE stream[order[i]]
       /\ \A i \in 1..Len(order) : i < at + 1 <=> i < at \/ i = at
       /\ \A i \in 1..Len(order) : at < i => i # at
  <2>1. "BUFFED" \in StreamStates
    BY DEF StreamStates
  <2>. QED BY <1>1, <2>1, TurnFacts
<1>13. FramesOf(order[at]) \subseteq Frames
  BY <1>1, FrameFacts DEF Own
<1>3. TypeInv'
  <2>1. at + 1 \in 1..(Len(Slots) + 1) /\ stream' \in [Own -> StreamStates]
    BY <1>12
  <2>2. kernel' \subseteq Frames
    BY <1>1, <1>13 DEF TypeInv
  <2>. QED BY <1>1, <1>2, <2>1, <2>2 DEF TypeInv
<1>4. OrderInv'
  <2>1. at' <= Len(order') + 1
    BY <1>1, <1>2, <1>12
  <2>. QED BY <1>1, <1>2, <2>1 DEF OrderInv, UndoPcs
<1>5. CallerInv'
  BY <1>1, <1>2 DEF CallerInv, StoppedPcs, ActivePcs, UndoPcs, RestPcs, Calls
<1>6. StreamInv'
  <2>1. \A i \in 1..Len(order') : order'[i] \in Own =>
          stream'[order'[i]] = IF i < at' THEN "BUFFED" ELSE "ACTIVE"
    <3>1. \A i \in 1..Len(order) : order[i] \in Own =>
            stream[order[i]] = IF i < at THEN "BUFFED" ELSE "ACTIVE"
      BY <1>1 DEF StreamInv
    <3>. QED BY <1>1, <1>2, <1>12, <3>1
  <2>. QED BY <1>1, <1>2, <2>1 DEF StreamInv, UndoPcs, RestPcs, Calls
<1>7. ThreadInv'
  BY <1>1, <1>2 DEF ThreadInv, JoinedPcs, Calls
<1>8. CmdInv'
  BY <1>1, <1>2 DEF CmdInv, FlushPcs, RestPcs, Calls
<1>9. CbInv'
  BY <1>1, <1>2 DEF CbInv, StopPlaces
<1>10. OnceInv' /\ Out' = Out
  BY <1>1, <1>2, QueuesKept
<1>11. WhoseInv'
  BY <1>1, <1>2, <1>10 DEF WhoseInv
<1>. QED BY <1>3, <1>4, <1>5, <1>6, <1>7, <1>8, <1>9, <1>10, <1>11

\* The end of the loop: none runs any more.
LEMMA StopStreamsStep ==
    ASSUME ChannelConstants, IInv, StopStreams
    PROVE  IInv'
<1>. USE DEF IInv
<1>1. /\ pc = "stop" /\ at > Len(order) /\ pc' = "unlink"
  BY DEF StopStreams
<1>2. UNCHANGED <<state, at, failed, order, slots, sessions, stream, isLinked, cmdQueue, superq,
                  cbQueue, app, cmdThread, cbThread, syncSem, pending, continuous, kernel, lost>>
  BY DEF StopStreams, caller, queues, threads
<1>3. TypeInv'
  BY <1>1, <1>2 DEF TypeInv, StoppedPcs, ActivePcs, UndoPcs, RestPcs, StreamStates
<1>4. OrderInv'
  BY <1>1, <1>2 DEF OrderInv, UndoPcs
<1>5. CallerInv'
  BY <1>1, <1>2 DEF CallerInv, StoppedPcs, ActivePcs, UndoPcs, RestPcs, Calls
<1>6. StreamInv'
  <2>1. ASSUME NEW s \in Own
        PROVE  stream'[s] = "BUFFED"
    <3>1. Len(order) \in Nat /\ at \in Nat /\ \E i \in 1..Len(order) : order[i] = s
      BY <1>1, LoopFacts
    <3>2. PICK i \in 1..Len(order) : order[i] = s
      BY <3>1
    <3>3. i < at
      BY <1>1, <3>1
    <3>. QED BY <1>1, <1>2, <3>2, <3>3 DEF StreamInv
  <2>. QED BY <1>1, <1>2, <2>1 DEF StreamInv, UndoPcs, RestPcs, Calls
<1>7. ThreadInv'
  BY <1>1, <1>2 DEF ThreadInv, JoinedPcs, Calls
<1>8. CmdInv'
  BY <1>1, <1>2 DEF CmdInv, FlushPcs, RestPcs, Calls
<1>9. CbInv'
  BY <1>1, <1>2 DEF CbInv, StopPlaces
<1>10. OnceInv' /\ Out' = Out
  BY <1>1, <1>2, QueuesKept
<1>11. WhoseInv'
  BY <1>1, <1>2, <1>10 DEF WhoseInv
<1>. QED BY <1>3, <1>4, <1>5, <1>6, <1>7, <1>8, <1>9, <1>10, <1>11

\* A linked stream hands no more frames to the channel.
LEMMA StopUnlinkStep ==
    ASSUME ChannelConstants, IInv, StopUnlink
    PROVE  IInv'
<1>. USE DEF IInv
<1>1. /\ pc = "unlink" /\ \E s \in isLinked : isLinked' = isLinked \ {s}
  BY DEF StopUnlink
<1>2. UNCHANGED <<state, pc, at, failed, order, slots, sessions, stream, cmdQueue, superq,
                  cbQueue, app, cmdThread, cbThread, syncSem, pending, continuous, kernel, lost>>
  BY DEF StopUnlink, caller, queues, threads
<1>3. TypeInv'
  BY <1>1, <1>2 DEF TypeInv, StoppedPcs, ActivePcs, UndoPcs, RestPcs, StreamStates
<1>4. OrderInv'
  BY <1>1, <1>2 DEF OrderInv, UndoPcs
<1>5. CallerInv'
  BY <1>1, <1>2 DEF CallerInv, StoppedPcs, ActivePcs, UndoPcs, RestPcs, Calls
<1>6. StreamInv'
  BY <1>1, <1>2 DEF StreamInv, UndoPcs, RestPcs, Calls
<1>7. ThreadInv'
  BY <1>1, <1>2 DEF ThreadInv, JoinedPcs, Calls
<1>8. CmdInv'
  BY <1>1, <1>2 DEF CmdInv, FlushPcs, RestPcs, Calls
<1>9. CbInv'
  BY <1>1, <1>2 DEF CbInv, StopPlaces
<1>10. OnceInv' /\ Out' = Out
  BY <1>1, <1>2, QueuesKept
<1>11. WhoseInv'
  BY <1>1, <1>2, <1>10 DEF WhoseInv
<1>. QED BY <1>3, <1>4, <1>5, <1>6, <1>7, <1>8, <1>9, <1>10, <1>11

\* The flush of STOP is acknowledged: nothing came behind it, the queues are empty.
LEMMA StopFlushedStep ==
    ASSUME ChannelConstants, IInv, StopFlushed
    PROVE  IInv'
<1>. USE DEF IInv
<1>1. /\ pc = "flushed" /\ syncSem > 0 /\ syncSem' = syncSem - 1 /\ pc' = "exit"
  BY DEF StopFlushed
<1>2. UNCHANGED <<state, at, failed, order, slots, sessions, stream, isLinked, cmdQueue, superq,
                  cbQueue, app, cmdThread, cbThread, pending, continuous, kernel, lost>>
  BY DEF StopFlushed, caller, queues, threads
<1>3. TypeInv'
  BY <1>1, <1>2 DEF TypeInv, StoppedPcs, ActivePcs, UndoPcs, RestPcs, StreamStates
<1>4. OrderInv'
  BY <1>1, <1>2 DEF OrderInv, UndoPcs
<1>5. CallerInv'
  BY <1>1, <1>2 DEF CallerInv, StoppedPcs, ActivePcs, UndoPcs, RestPcs, Calls
<1>6. StreamInv'
  BY <1>1, <1>2 DEF StreamInv, UndoPcs, RestPcs, Calls
<1>7. ThreadInv'
  BY <1>1, <1>2 DEF ThreadInv, JoinedPcs, Calls
<1>8. CmdInv'
  <2>1. syncSem = 1 /\ syncSem' = 0
    BY <1>1, Acknowledged
  <2>2. \A i \in 1..Len(cmdQueue) : cmdQueue[i].type # "FLUSH"
    BY <1>1, Acknowledged
  <2>3. cmdQueue = <<>> /\ superq = {}
    BY <1>1, <2>1 DEF CmdInv
  <2>. QED BY <1>1, <1>2, <2>1, <2>3, NoPlace DEF CmdInv, FlushPcs, RestPcs, Calls
<1>9. CbInv'
  BY <1>1, <1>2 DEF CbInv, StopPlaces
<1>10. OnceInv' /\ Out' = Out
  BY <1>1, <1>2, QueuesKept
<1>11. WhoseInv'
  BY <1>1, <1>2, <1>10 DEF WhoseInv
<1>. QED BY <1>3, <1>4, <1>5, <1>6, <1>7, <1>8, <1>9, <1>10, <1>11

\* That of a client is.
LEMMA FlushAckedStep ==
    ASSUME ChannelConstants, IInv, FlushAcked
    PROVE  IInv'
<1>. USE DEF IInv
<1>1. /\ pc = "flush" /\ syncSem > 0 /\ syncSem' = syncSem - 1 /\ pc' = "idle"
  BY DEF FlushAcked
<1>2. UNCHANGED <<state, at, failed, order, slots, sessions, stream, isLinked, cmdQueue, superq,
                  cbQueue, app, cmdThread, cbThread, pending, continuous, kernel, lost>>
  BY DEF FlushAcked, caller, queues, threads
<1>12. state = "ACTIVE"
  BY <1>1 DEF TypeInv, CallerInv, StoppedPcs, UndoPcs
<1>3. TypeInv'
  BY <1>1, <1>2 DEF TypeInv, StoppedPcs, ActivePcs, UndoPcs, RestPcs, StreamStates
<1>4. OrderInv'
  BY <1>1, <1>2 DEF OrderInv, UndoPcs
<1>5. CallerInv'
  BY <1>1, <1>2 DEF CallerInv, StoppedPcs, ActivePcs, UndoPcs, RestPcs, Calls
<1>6. StreamInv'
  BY <1>1, <1>2, <1>12 DEF StreamInv, UndoPcs, RestPcs, Calls
<1>7. ThreadInv'
  BY <1>1, <1>2, <1>12 DEF ThreadInv, JoinedPcs, Calls
<1>8. CmdInv'
  <2>1. syncSem = 1 /\ syncSem' = 0
    BY <1>1, Acknowledged
  <2>2. \A i \in 1..Len(cmdQueue) : cmdQueue[i].type # "FLUSH"
    BY <1>1, Acknowledged
  <2>. QED BY <1>1, <1>2, <1>12, <2>1, <2>2 DEF CmdInv, FlushPcs, RestPcs, Calls
<1>9. CbInv'
  BY <1>1, <1>2 DEF CbInv, StopPlaces
<1>10. OnceInv' /\ Out' = Out
  BY <1>1, <1>2, QueuesKept
<1>11. WhoseInv'
  BY <1>1, <1>2, <1>10 DEF WhoseInv
<1>. QED BY <1>3, <1>4, <1>5, <1>6, <1>7, <1>8, <1>9, <1>10, <1>11

\* The last step of STOP: the buffers are freed and the linked streams forgotten.
LEMMA StopPutStep ==
    ASSUME ChannelConstants, IInv, StopPut
    PROVE  IInv'
<1>. USE DEF IInv
<1>1. /\ pc = "put" /\ stream' = [s \in Own |-> "CFG"] /\ slots' = slots \ Linked
      /\ pc' = "idle" /\ state' = "STOPPED"
  BY DEF StopPut
<1>2. UNCHANGED <<at, failed, order, sessions, isLinked, cmdQueue, superq, cbQueue, app,
                  cmdThread, cbThread, syncSem, pending, continuous, kernel, lost>>
  BY DEF StopPut, caller, queues, threads
<1>3. TypeInv'
  <2>1. Own \subseteq slots' /\ slots' \subseteq Streams /\ isLinked' \subseteq slots' \cap Linked
    BY <1>1, <1>2 DEF TypeInv, Own, CallerInv, RestPcs
  <2>2. stream' \in [Own -> StreamStates]
    BY <1>1 DEF StreamStates
  <2>. QED BY <1>1, <1>2, <2>1, <2>2 DEF TypeInv, StoppedPcs, ActivePcs, UndoPcs, RestPcs
<1>4. OrderInv'
  BY <1>1, <1>2 DEF OrderInv, UndoPcs
<1>5. CallerInv'
  BY <1>1, <1>2 DEF CallerInv, StoppedPcs, ActivePcs, UndoPcs, RestPcs, Calls
<1>6. StreamInv'
  BY <1>1, <1>2 DEF StreamInv, UndoPcs, RestPcs, Calls
<1>7. ThreadInv'
  BY <1>1, <1>2 DEF ThreadInv, JoinedPcs, Calls
<1>8. CmdInv'
  BY <1>1, <1>2 DEF CmdInv, FlushPcs, RestPcs, Calls
<1>9. CbInv'
  BY <1>1, <1>2 DEF CbInv, StopPlaces
<1>10. OnceInv' /\ Out' = Out
  BY <1>1, <1>2, QueuesKept
<1>11. WhoseInv'
  BY <1>1, <1>2, <1>10 DEF WhoseInv
<1>. QED BY <1>3, <1>4, <1>5, <1>6, <1>7, <1>8, <1>9, <1>10, <1>11

\* START begins with empty queues, and the HAL has nothing of the session before.
LEMMA StartStep ==
    ASSUME ChannelConstants, IInv, Start
    PROVE  IInv'
<1>. USE DEF IInv
<1>1. /\ state = "STOPPED" /\ pc = "idle" /\ sessions < MaxSessions /\ sessions' = sessions + 1
      /\ cmdThread' = TRUE /\ cbThread' = TRUE
      /\ cmdQueue' = <<>> /\ cbQueue' = <<>> /\ syncSem' = 0 /\ superq' = {} /\ app = {}
      /\ pc' = "link" /\ at' = 1 /\ order' = StartOrder
  BY DEF Start, Calls
<1>2. UNCHANGED <<state, failed, slots, stream, isLinked, app, pending, continuous, kernel, lost>>
  BY DEF Start
<1>3. /\ order' \in Seq(Streams) /\ Len(order') <= Len(Slots) /\ 1 <= Len(order')
      /\ IsInjective(order') /\ Own \subseteq Range(order') /\ order'[1] = Meta
  BY <1>1, Orders DEF TypeInv
<1>4. Len(cmdQueue') = 0 /\ Len(cbQueue') = 0 /\ 1..Len(cmdQueue') = {} /\ 1..Len(cbQueue') = {}
  <2>1. Len(cmdQueue') = 0 /\ Len(cbQueue') = 0
    BY <1>1
  <2>. QED BY <2>1
<1>5. TypeInv'
  <2>1. 1 \in 1..(Len(Slots) + 1) /\ 0 \in 0..1
    BY DEF ChannelConstants
  <2>2. sessions' \in 0..MaxSessions
    BY <1>1 DEF TypeInv, ChannelConstants
  <2>3. cmdQueue' \in Seq(Commands) /\ cbQueue' \in Seq(SUBSET Frames)
    BY <1>1
  <2>. QED BY <1>1, <1>2, <1>3, <2>1, <2>2, <2>3 DEF TypeInv, StoppedPcs
<1>6. OrderInv'
  BY <1>1, <1>2, <1>3 DEF OrderInv, UndoPcs
<1>7. CallerInv'
  BY <1>1, <1>2 DEF CallerInv, StoppedPcs, RestPcs, Calls
<1>8. StreamInv'
  <2>1. \A s \in Own : stream[s] = "CFG"
    BY <1>1 DEF StreamInv, Calls
  <2>. QED BY <1>1, <1>2, <2>1 DEF StreamInv, UndoPcs, RestPcs, Calls
<1>9. ThreadInv'
  BY <1>1 DEF ThreadInv, JoinedPcs, Calls
<1>10. CmdInv'
  BY <1>1, <1>4 DEF CmdInv
<1>11. CbInv'
  BY <1>1, <1>2, <1>4 DEF CbInv
<1>12. InCmdQueue' = {} /\ InCbQueue' = {} /\ Out' = {}
  <2>1. InCmdQueue' = {} /\ InCbQueue' = {}
    BY <1>1 DEF InCmdQueue, InCbQueue, Range
  <2>. QED BY <1>1, <1>2, <2>1 DEF Out, Handled
<1>13. OnceInv'
  BY <1>1, <1>2, <1>4, <1>12 DEF OnceInv, FrameInOnePlace, Out
<1>14. WhoseInv'
  BY <1>12 DEF WhoseInv
<1>. QED BY <1>5, <1>6, <1>7, <1>8, <1>9, <1>10, <1>11, <1>13, <1>14

\* A step that sends a command leaves the frames where they are.
LEMMA SendStep ==
    ASSUME IInv, NEW c \in Commands, c.type # "DATA", Send(c),
           UNCHANGED <<superq, cbQueue, app, kernel, slots, stream, state>>,
           pc' \in {"link", "start"} => pc \in {"link", "start"},
           pc' \in StopPlaces => pc \in StopPlaces \/ app = {}, cbThread' = cbThread,
           pc \in {"joinCb", "undo joinCb"} => pc' = pc
    PROVE  OnceInv' /\ WhoseInv' /\ CbInv'
<1>. USE DEF IInv
<1>1. OnceInv' /\ Out' = Out
  BY SendKept
<1>2. WhoseInv'
  BY <1>1 DEF WhoseInv
<1>3. CbInv'
  <2>1. \A i \in 1..Len(cbQueue) : cbQueue[i] = {} =>
          i = Len(cbQueue) /\ pc \in {"joinCb", "undo joinCb"}
    BY DEF CbInv
  <2>2. \A i \in 1..Len(cbQueue') : cbQueue'[i] = {} =>
          i = Len(cbQueue') /\ pc' \in {"joinCb", "undo joinCb"}
    BY <2>1
  <2>3. pc' \in StopPlaces => app' = {}
    BY DEF CbInv
  <2>4. ~cbThread' => cbQueue' = <<>>
    BY DEF CbInv
  <2>. QED BY <2>2, <2>3, <2>4 DEF CbInv
<1>. QED BY <1>1, <1>2, <1>3

\* A FLUSH is sent when there is none, by a caller who then waits for it.
LEMMA FlushSent ==
    ASSUME ChannelConstants, IInv, NEW of \in Streams \cup {DEFAULT}, Send(Flush(of)),
           cmdThread, pc \notin FlushPcs \cup RestPcs \cup {"undo joinCmd"},
           pc' \in FlushPcs, state' = "ACTIVE" => of = DEFAULT,
           syncSem' = syncSem, cmdThread' = cmdThread, superq' = superq
    PROVE  CmdInv'
<1>. USE DEF IInv
<1>. DEFINE c == Flush(of)
<1>1. c \in Commands /\ c.type = "FLUSH" /\ c.of = of
  BY PlainCommands
<1>2. /\ Len(cmdQueue) \in Nat /\ Len(cmdQueue') = Len(cmdQueue) + 1
      /\ \A i \in 1..Len(cmdQueue') :
           \/ i \in 1..Len(cmdQueue) /\ cmdQueue'[i] = cmdQueue[i]
           \/ i = Len(cmdQueue') /\ cmdQueue'[i] = c
  <2>1. cmdQueue' = Append(cmdQueue, c)
    BY DEF Send
  <2>. HIDE DEF c
  <2>2. /\ Len(cmdQueue) \in Nat /\ Len(cmdQueue') = Len(cmdQueue) + 1
        /\ \A i \in 1..Len(cmdQueue) : cmdQueue'[i] = cmdQueue[i]
        /\ cmdQueue'[Len(cmdQueue) + 1] = c
    BY <1>1, <2>1, CmdAppend
  <2>3. Len(cmdQueue) \in Nat /\ Len(cmdQueue') = Len(cmdQueue) + 1
    BY <2>2
  <2>4. \A i \in 1..Len(cmdQueue') : i \in 1..Len(cmdQueue) \/ i = Len(cmdQueue) + 1
    BY ONLY <2>3
  <2>. QED BY <2>2, <2>4
<1>. HIDE DEF c
<1>3. syncSem = 0
  <2>1. syncSem \in 0..1
    BY DEF TypeInv
  <2>2. syncSem # 1
    <3>1. pc \notin FlushPcs
      OBVIOUS
    <3>. QED BY <3>1 DEF CmdInv
  <2>. QED BY ONLY <2>1, <2>2
<1>4. \A i \in 1..Len(cmdQueue) : cmdQueue[i].type # "FLUSH"
  BY DEF CmdInv
<1>5. \A i \in 1..Len(cmdQueue) : cmdQueue[i].type # "EXIT"
  <2>1. pc \notin {"joinCmd", "undo joinCmd"}
    BY DEF RestPcs
  <2>. QED BY <2>1 DEF CmdInv
<1>6. \A i \in 1..Len(cmdQueue') : cmdQueue'[i].type = "FLUSH" =>
        i = Len(cmdQueue') /\ cmdQueue'[i].of = of
  BY <1>1, <1>2, <1>4
<1>7. \A i \in 1..Len(cmdQueue') : cmdQueue'[i].type # "EXIT"
  BY <1>1, <1>2, <1>5
<1>8. pc' \notin RestPcs \cup {"exit", "joinCmd", "idle"}
  BY DEF FlushPcs, RestPcs
<1>9. syncSem' # 1 /\ syncSem' = 0
  <2>1. syncSem' = 0
    BY <1>3
  <2>. QED BY ONLY <2>1
<1>10. \A i \in 1..Len(cmdQueue') : cmdQueue'[i].type = "FLUSH" =>
         /\ pc' \in FlushPcs /\ syncSem' = 0
         /\ state' = "ACTIVE" => cmdQueue'[i].of = DEFAULT
         /\ pc' = "flushed" => i = Len(cmdQueue')
         /\ \A k \in 1..Len(cmdQueue') : cmdQueue'[k].type = "FLUSH" => k = i
  BY <1>6, <1>9
<1>. QED BY <1>7, <1>8, <1>9, <1>10 DEF CmdInv, Calls

\* The flush by the type of the stream that failed, on the error path of START.
LEMMA UndoLinkStep ==
    ASSUME ChannelConstants, IInv, UndoLink
    PROVE  IInv'
<1>. USE DEF IInv
<1>1. /\ pc = "undo link" /\ \E s \in slots \cap Linked : isLinked' = isLinked \ {s}
      /\ Send(Flush(order[failed])) /\ pc' = "undo flushed"
  BY DEF UndoLink
<1>2. UNCHANGED <<state, at, failed, order, slots, sessions, stream, superq, cbQueue, app,
                  cmdThread, cbThread, syncSem, pending, continuous, kernel, lost>>
  BY DEF UndoLink, threads
<1>3. order[failed] \in Streams
  BY <1>1, LoopFacts DEF OrderInv, UndoPcs
<1>4. /\ Flush(order[failed]) \in Commands /\ Flush(order[failed]).type # "DATA"
      /\ cmdQueue' \in Seq(Commands)
  <2>1. Flush(order[failed]) \in Commands /\ Flush(order[failed]).type = "FLUSH"
    BY <1>3, PlainCommands
  <2>. QED BY <1>1, <1>2, <2>1, SendKept
<1>5. state = "STOPPED" /\ cmdThread
  BY <1>1 DEF TypeInv, CallerInv, ActivePcs, RestPcs, ThreadInv, JoinedPcs, Calls
<1>6. TypeInv'
  BY <1>1, <1>2, <1>4 DEF TypeInv, StoppedPcs, UndoPcs
<1>7. OrderInv'
  BY <1>1, <1>2 DEF OrderInv, UndoPcs
<1>8. CallerInv'
  BY <1>1, <1>2, <1>5 DEF CallerInv, StoppedPcs, UndoPcs, RestPcs, Calls
<1>9. StreamInv'
  BY <1>1, <1>2 DEF StreamInv, UndoPcs, RestPcs, Calls
<1>10. ThreadInv'
  BY <1>1, <1>2 DEF ThreadInv, JoinedPcs, Calls
<1>11. CmdInv'
  BY <1>1, <1>2, <1>3, <1>5, FlushSent DEF FlushPcs, RestPcs
<1>12. OnceInv' /\ WhoseInv' /\ CbInv'
  BY <1>1, <1>2, <1>4, SendStep DEF StopPlaces
<1>. QED BY <1>6, <1>7, <1>8, <1>9, <1>10, <1>11, <1>12

\* The flush of STOP, and that of a client.
LEMMA FlushStep ==
    ASSUME ChannelConstants, IInv, StopFlush \/ FlushSuperBufQueue
    PROVE  IInv'
<1>. USE DEF IInv
<1>1. /\ \/ pc = "unlink" /\ isLinked = {} /\ pc' = "flushed"
         \/ state = "ACTIVE" /\ pc = "idle" /\ pc' = "flush"
      /\ Send(Flush(DEFAULT))
  BY DEF StopFlush, FlushSuperBufQueue, Calls
<1>2. UNCHANGED <<state, at, failed, order, slots, sessions, stream, isLinked, superq, cbQueue,
                  app, cmdThread, cbThread, syncSem, pending, continuous, kernel, lost>>
  BY DEF StopFlush, FlushSuperBufQueue, threads
<1>3. /\ Flush(DEFAULT) \in Commands /\ Flush(DEFAULT).type # "DATA"
      /\ cmdQueue' \in Seq(Commands)
  <2>1. Flush(DEFAULT) \in Commands /\ Flush(DEFAULT).type = "FLUSH"
    BY PlainCommands
  <2>. QED BY <1>1, <1>2, <2>1, SendKept
<1>4. state = "ACTIVE" /\ cmdThread
  BY <1>1 DEF TypeInv, CallerInv, StoppedPcs, UndoPcs, ThreadInv, JoinedPcs, Calls
<1>5. TypeInv'
  BY <1>1, <1>2, <1>3 DEF TypeInv, ActivePcs
<1>6. OrderInv'
  BY <1>1, <1>2 DEF OrderInv, UndoPcs
<1>7. CallerInv'
  BY <1>1, <1>2, <1>4 DEF CallerInv, ActivePcs, RestPcs, Calls
<1>8. StreamInv'
  BY <1>1, <1>2, <1>4 DEF StreamInv, UndoPcs, RestPcs, Calls
<1>9. ThreadInv'
  BY <1>1, <1>2, <1>4 DEF ThreadInv, JoinedPcs, Calls
<1>10. CmdInv'
  BY <1>1, <1>2, <1>4, FlushSent DEF FlushPcs, RestPcs
<1>11. OnceInv' /\ WhoseInv' /\ CbInv'
  BY <1>1, <1>2, <1>3, SendStep DEF StopPlaces
<1>. QED BY <1>5, <1>6, <1>7, <1>8, <1>9, <1>10, <1>11

\* Requests wait only in a channel that runs.
LEMMA RequestStep ==
    ASSUME ChannelConstants, IInv, RequestSuperBuf \/ ConfigNotifyMode
    PROVE  IInv'
<1>. USE DEF IInv
<1>1. PICK c \in Commands : c.type \in {"REQUEST", "CONFIG"} /\ Send(c)
  <2>1. CASE RequestSuperBuf
    <3>1. PICK n \in 0..1 : Send([type |-> "REQUEST", count |-> n])
      BY <2>1 DEF RequestSuperBuf
    <3>. QED BY <3>1, PlainCommands
  <2>2. CASE ConfigNotifyMode
    <3>1. PICK m \in BOOLEAN : m = ~continuous
      BY Zenon
    <3>2. Send([type |-> "CONFIG", mode |-> m])
      BY <2>2, <3>1, Zenon DEF ConfigNotifyMode
    <3>. QED BY <3>2, PlainCommands
  <2>. QED BY <2>1, <2>2
<1>2. /\ state = "ACTIVE" /\ pc = "idle"
      /\ UNCHANGED <<caller, stream, isLinked, superq, cbQueue, app, threads, kernel, lost>>
  BY DEF RequestSuperBuf, ConfigNotifyMode, Calls
<1>3. UNCHANGED <<state, pc, at, failed, order, slots, sessions, cmdThread, cbThread, syncSem,
                  pending, continuous>>
  BY <1>2 DEF caller, threads
<1>4. /\ cmdQueue' \in Seq(Commands) /\ Len(cmdQueue) \in Nat
      /\ Len(cmdQueue') = Len(cmdQueue) + 1
      /\ \A i \in 1..Len(cmdQueue') :
           \/ i \in 1..Len(cmdQueue) /\ cmdQueue'[i] = cmdQueue[i]
           \/ i = Len(cmdQueue') /\ cmdQueue'[i] = c
  BY <1>1, <1>2, SendKept
<1>5. TypeInv'
  BY <1>2, <1>3, <1>4 DEF TypeInv
<1>6. OrderInv' /\ CallerInv' /\ StreamInv'
  BY <1>2, CallerKept
<1>7. ThreadInv'
  BY <1>3 DEF ThreadInv, Calls
<1>8. CmdInv'
  <2>1. \A i \in 1..Len(cmdQueue) : cmdQueue[i].type \notin {"FLUSH", "EXIT"}
    BY <1>2 DEF CmdInv, FlushPcs
  <2>2. \A i \in 1..Len(cmdQueue') : cmdQueue'[i].type \notin {"FLUSH", "EXIT"}
    BY <1>1, <1>4, <2>1
  <2>3. cmdThread /\ pc \notin FlushPcs \cup RestPcs /\ ~Calls("STOPPED")
    BY <1>2 DEF ThreadInv, JoinedPcs, Calls, FlushPcs, RestPcs
  <2>. QED BY <1>2, <1>3, <2>2, <2>3 DEF CmdInv, Calls
<1>9. OnceInv' /\ WhoseInv' /\ CbInv'
  BY <1>1, <1>2, <1>3, SendStep
<1>. QED BY <1>5, <1>6, <1>7, <1>8, <1>9

\* EXIT is the last command.
LEMMA ExitStep ==
    ASSUME ChannelConstants, IInv, Exit
    PROVE  IInv'
<1>. USE DEF IInv
<1>1. /\ \/ pc = "exit" /\ pc' = "joinCmd"
         \/ pc = "undo" /\ at > failed /\ pc' = "undo joinCmd"
      /\ Send([type |-> "EXIT"])
  BY DEF Exit
<1>2. UNCHANGED <<state, at, failed, order, slots, sessions, stream, isLinked, superq, cbQueue,
                  app, cmdThread, cbThread, syncSem, pending, continuous, kernel, lost>>
  BY DEF Exit, threads
<1>. DEFINE c == [type |-> "EXIT"]
<1>3. c \in Commands /\ c.type = "EXIT"
  BY PlainCommands
<1>4. Send(c)
  BY <1>1
<1>. HIDE DEF c
<1>5. /\ cmdQueue' \in Seq(Commands) /\ Len(cmdQueue) \in Nat
      /\ Len(cmdQueue') = Len(cmdQueue) + 1
      /\ \A i \in 1..Len(cmdQueue') :
           \/ i \in 1..Len(cmdQueue) /\ cmdQueue'[i] = cmdQueue[i]
           \/ i = Len(cmdQueue') /\ cmdQueue'[i] = c
  BY <1>2, <1>3, <1>4, SendKept
<1>6. TypeInv'
  BY <1>1, <1>2, <1>5 DEF TypeInv, StoppedPcs, ActivePcs, UndoPcs, RestPcs
<1>7. OrderInv'
  BY <1>1, <1>2 DEF OrderInv, UndoPcs
<1>8. CallerInv'
  BY <1>1, <1>2 DEF CallerInv, StoppedPcs, ActivePcs, UndoPcs, RestPcs, Calls
<1>9. StreamInv'
  <2>1. CASE pc = "exit" /\ pc' = "joinCmd"
    BY <1>2, <2>1 DEF StreamInv, UndoPcs, RestPcs, Calls
  <2>2. CASE pc = "undo" /\ at > failed /\ pc' = "undo joinCmd"
    <3>1. ASSUME NEW s \in Own
          PROVE  stream[s] = "CFG"
      <4>1. /\ Len(order) \in Nat /\ at \in Nat /\ failed \in Nat
            /\ \E i \in 1..Len(order) : order[i] = s
        BY <2>2, LoopFacts DEF UndoPcs
      <4>2. PICK i \in 1..Len(order) : order[i] = s
        BY <4>1
      <4>3. i < at \/ failed < i
        <5>1. at > failed
          BY <2>2
        <5>. QED BY <4>1, <5>1
      <4>4. /\ \A k \in 1..Len(order) : order[k] \in Own /\ failed < k => stream[order[k]] = "CFG"
            /\ \A k \in 1..Len(order) : order[k] \in Own /\ k < at => stream[order[k]] = "CFG"
        BY <2>2 DEF StreamInv, UndoPcs
      <4>. QED BY <4>2, <4>3, <4>4
    <3>2. \A i \in 1..Len(order) : order[i] \in Own => stream[order[i]] = "CFG"
      BY <3>1
    <3>. QED BY <1>2, <2>2, <3>1, <3>2 DEF StreamInv, UndoPcs, RestPcs, Calls
  <2>. QED BY <1>1, <2>1, <2>2
<1>10. ThreadInv'
  BY <1>1, <1>2 DEF ThreadInv, JoinedPcs, Calls
<1>11. CmdInv'
  <2>1. cmdThread /\ ~Calls("STOPPED")' /\ pc' \notin {"flushed", "exit"}
    BY <1>1 DEF ThreadInv, JoinedPcs, Calls
  <2>2. syncSem # 1 /\ \A i \in 1..Len(cmdQueue) : cmdQueue[i].type \notin {"FLUSH", "EXIT"}
    <3>1. pc \notin FlushPcs \cup {"joinCmd", "undo joinCmd"}
      BY <1>1 DEF FlushPcs
    <3>. QED BY <3>1 DEF CmdInv
  <2>3. \A i \in 1..Len(cmdQueue') : cmdQueue'[i].type # "FLUSH"
    BY <1>3, <1>5, <2>2
  <2>4. \A i \in 1..Len(cmdQueue') : cmdQueue'[i].type = "EXIT" => i = Len(cmdQueue')
    BY <1>3, <1>5, <2>2
  <2>5. pc' \in {"joinCmd", "undo joinCmd"}
    BY <1>1
  <2>6. pc' = "joinCmd" => superq' = {} /\ \A i \in 1..Len(cmdQueue') : cmdQueue'[i].type = "EXIT"
    <3>. SUFFICES ASSUME pc = "exit"
                  PROVE  superq' = {} /\ \A i \in 1..Len(cmdQueue') : cmdQueue'[i].type = "EXIT"
      BY <1>1
    <3>1. cmdQueue = <<>> /\ superq = {}
      BY DEF CmdInv, RestPcs
    <3>2. \A i \in 1..Len(cmdQueue') : cmdQueue'[i] = c
      BY <1>5, <3>1, NoPlace
    <3>. QED BY <1>2, <1>3, <3>1, <3>2
  <2>7. pc' \in RestPcs => pc' = "joinCmd"
    BY <2>5 DEF RestPcs
  <2>. QED BY <1>2, <2>1, <2>2, <2>3, <2>4, <2>5, <2>6, <2>7 DEF CmdInv
<1>12. OnceInv' /\ WhoseInv' /\ CbInv'
  <2>1. c.type # "DATA"
    BY <1>3
  <2>. QED BY <1>1, <1>2, <1>3, <1>4, <2>1, SendStep DEF StopPlaces
<1>. QED BY <1>6, <1>7, <1>8, <1>9, <1>10, <1>11, <1>12

\* The command thread has gone: the callback thread is asked to, after what it has.
LEMMA JoinCmdStep ==
    ASSUME ChannelConstants, IInv, JoinCmd
    PROVE  IInv'
<1>. USE DEF IInv
<1>1. /\ ~cmdThread
      /\ \/ pc = "joinCmd" /\ pc' = "joinCb"
         \/ pc = "undo joinCmd" /\ pc' = "undo joinCb"
      /\ cbQueue' = Append(cbQueue, {})
  BY DEF JoinCmd
<1>2. UNCHANGED <<state, at, failed, order, slots, sessions, stream, isLinked, cmdQueue, superq,
                  app, cmdThread, cbThread, syncSem, pending, continuous, kernel, lost>>
  BY DEF JoinCmd, threads
<1>3. /\ cbQueue' \in Seq(SUBSET Frames) /\ Len(cbQueue) \in Nat
      /\ Len(cbQueue') = Len(cbQueue) + 1
      /\ \A i \in 1..Len(cbQueue) : cbQueue'[i] = cbQueue[i]
      /\ cbQueue'[Len(cbQueue) + 1] = {} /\ InCbQueue' = InCbQueue
  <2>1. PICK b \in SUBSET Frames : b = {}
    OBVIOUS
  <2>2. cbQueue' = Append(cbQueue, b)
    BY <1>1, <2>1
  <2>3. /\ cbQueue' \in Seq(SUBSET Frames) /\ Len(cbQueue) \in Nat
        /\ Len(cbQueue') = Len(cbQueue) + 1
        /\ \A i \in 1..Len(cbQueue) : cbQueue'[i] = cbQueue[i]
        /\ cbQueue'[Len(cbQueue) + 1] = b /\ InCbQueue' = InCbQueue \cup b
    BY <2>2, CbAppend
  <2>. QED BY <2>1, <2>3
<1>4. \A i \in 1..Len(cbQueue') :
        \/ i \in 1..Len(cbQueue) /\ cbQueue'[i] = cbQueue[i]
        \/ i = Len(cbQueue') /\ cbQueue'[i] = {}
  <2>1. Len(cbQueue) \in Nat /\ Len(cbQueue') = Len(cbQueue) + 1
    BY <1>3
  <2>2. \A i \in 1..Len(cbQueue') : i \in 1..Len(cbQueue) \/ i = Len(cbQueue) + 1
    BY ONLY <2>1
  <2>. QED BY <1>3, <2>2
<1>5. TypeInv'
  BY <1>1, <1>2, <1>3 DEF TypeInv, StoppedPcs, ActivePcs, UndoPcs, RestPcs
<1>6. OrderInv'
  BY <1>1, <1>2 DEF OrderInv, UndoPcs
<1>7. CallerInv'
  BY <1>1, <1>2 DEF CallerInv, StoppedPcs, ActivePcs, UndoPcs, RestPcs, Calls
<1>8. StreamInv'
  BY <1>1, <1>2 DEF StreamInv, UndoPcs, RestPcs, Calls
<1>9. ThreadInv'
  <2>1. cbThread
    BY <1>1 DEF ThreadInv, JoinedPcs, Calls
  <2>. QED BY <1>1, <1>2, <2>1 DEF ThreadInv, JoinedPcs, Calls
<1>10. CmdInv'
  <2>1. cmdQueue = <<>> /\ syncSem # 1
    BY <1>1 DEF CmdInv, FlushPcs
  <2>2. 1..Len(cmdQueue') = {}
    <3>1. Len(cmdQueue') = 0
      BY <1>2, <2>1
    <3>. QED BY ONLY <3>1
  <2>3. pc' \in RestPcs \/ Calls("STOPPED")' => superq' = {}
    BY <1>1, <1>2 DEF CmdInv, RestPcs, Calls
  <2>. QED BY <1>1, <1>2, <2>1, <2>2, <2>3 DEF CmdInv
<1>11. CbInv'
  <2>1. cbThread
    BY <1>1 DEF ThreadInv, JoinedPcs, Calls
  <2>2. \A i \in 1..Len(cbQueue) : cbQueue[i] # {}
    <3>1. pc \notin {"joinCb", "undo joinCb"}
      BY <1>1
    <3>. QED BY <3>1 DEF CbInv
  <2>3. \A i \in 1..Len(cbQueue') : cbQueue'[i] = {} => i = Len(cbQueue')
    BY <1>4, <2>2
  <2>4. pc' \in StopPlaces => app' = {}
    BY <1>1, <1>2 DEF CbInv, StopPlaces
  <2>. QED BY <1>1, <1>2, <2>1, <2>3, <2>4 DEF CbInv
<1>12. OnceInv' /\ Out' = Out
  <2>1. InCmdQueue' = InCmdQueue
    BY <1>2 DEF InCmdQueue
  <2>2. FrameInOnePlace' /\ Out' = Out
    BY <1>2, <1>3, <2>1 DEF OnceInv, FrameInOnePlace, Out, Handled
  <2>3. ASSUME NEW i \in 1..Len(cbQueue'), NEW k \in 1..Len(cbQueue'),
               cbQueue'[i] \cap cbQueue'[k] # {}
        PROVE  k = i
    <3>1. i \in 1..Len(cbQueue) /\ cbQueue'[i] = cbQueue[i]
      BY <1>4, <2>3
    <3>2. k \in 1..Len(cbQueue) /\ cbQueue'[k] = cbQueue[k]
      BY <1>4, <2>3
    <3>. QED BY <2>3, <3>1, <3>2 DEF OnceInv
  <2>. QED BY <1>2, <2>2, <2>3 DEF OnceInv
<1>13. WhoseInv'
  BY <1>1, <1>2, <1>12 DEF WhoseInv, CallerInv
<1>. QED BY <1>5, <1>6, <1>7, <1>8, <1>9, <1>10, <1>11, <1>12, <1>13

\* The super buffer queue is freed when both threads have gone: after a STOP there is
\* nothing in it, after a failed START what is in it is lost.
LEMMA JoinCbStep ==
    ASSUME ChannelConstants, IInv, JoinCb \/ UndoJoinCb
    PROVE  IInv'
<1>. USE DEF IInv
<1>1. /\ ~cbThread
      /\ \/ pc = "joinCb" /\ pc' = "put" /\ continuous' = continuous
         \/ pc = "undo joinCb" /\ pc' = "idle" /\ continuous' = FALSE
      /\ superq' = {} /\ lost' = lost \cup {f \in superq : f[1] \in Linked}
  BY DEF JoinCb, UndoJoinCb, threads
<1>2. UNCHANGED <<state, at, failed, order, slots, sessions, stream, isLinked, cmdQueue, cbQueue,
                  app, cmdThread, cbThread, syncSem, pending, kernel>>
  BY DEF JoinCb, UndoJoinCb, threads
<1>3. ~cmdThread /\ cmdQueue = <<>> /\ cbQueue = <<>>
  <2>1. ~cmdThread
    BY <1>1 DEF ThreadInv, JoinedPcs
  <2>. QED BY <1>1, <2>1 DEF CmdInv, CbInv
<1>4. pc' = "idle" => state' = "STOPPED"
  BY <1>1, <1>2 DEF TypeInv, CallerInv, ActivePcs, RestPcs
<1>5. pc' = "put" => state' = "ACTIVE"
  BY <1>1, <1>2 DEF TypeInv, CallerInv, StoppedPcs, UndoPcs
<1>6. TypeInv'
  <2>1. pc' \in StoppedPcs \cup ActivePcs
    BY <1>1 DEF StoppedPcs, ActivePcs, RestPcs
  <2>2. lost' \subseteq Frames /\ superq' \subseteq Frames
    BY <1>1 DEF TypeInv
  <2>3. continuous' \in BOOLEAN
    BY <1>1 DEF TypeInv
  <2>. QED BY <1>2, <2>1, <2>2, <2>3 DEF TypeInv
<1>7. OrderInv'
  BY <1>1, <1>2 DEF OrderInv, UndoPcs
<1>8. CallerInv'
  <2>1. isLinked = {}
    <3>1. CASE pc = "joinCb"
      BY <3>1 DEF CallerInv, RestPcs
    <3>2. CASE pc = "undo joinCb"
      BY <3>2 DEF CallerInv, TypeInv
    <3>. QED BY <1>1, <3>1, <3>2
  <2>. QED BY <1>1, <1>2, <1>4, <1>5, <2>1
           DEF CallerInv, StoppedPcs, ActivePcs, UndoPcs, RestPcs, Calls
<1>9. StreamInv'
  BY <1>1, <1>2, <1>4 DEF StreamInv, UndoPcs, RestPcs, Calls
<1>10. ThreadInv'
  BY <1>1, <1>2, <1>3, <1>4 DEF ThreadInv, JoinedPcs, Calls
<1>11. CmdInv'
  <2>1. syncSem # 1
    BY <1>1 DEF CmdInv, FlushPcs
  <2>2. 1..Len(cmdQueue') = {}
    <3>1. Len(cmdQueue') = 0
      BY <1>2, <1>3
    <3>. QED BY ONLY <3>1
  <2>. QED BY <1>1, <1>2, <1>3, <2>1, <2>2 DEF CmdInv
<1>12. CbInv'
  <2>1. 1..Len(cbQueue') = {}
    <3>1. Len(cbQueue') = 0
      BY <1>2, <1>3
    <3>. QED BY ONLY <3>1
  <2>2. pc' \in StopPlaces => app' = {}
    BY <1>1, <1>2 DEF CbInv, StopPlaces
  <2>. QED BY <1>1, <1>2, <1>3, <2>1, <2>2 DEF CbInv
<1>13. OnceInv' /\ Out' \subseteq Out
  <2>1. InCmdQueue' = InCmdQueue /\ InCbQueue' = InCbQueue
    BY <1>2 DEF InCmdQueue, InCbQueue
  <2>. QED BY <1>1, <1>2, <2>1 DEF OnceInv, FrameInOnePlace, Out, Handled
<1>14. WhoseInv'
  BY <1>1, <1>2, <1>4, <1>13 DEF WhoseInv
<1>. QED BY <1>6, <1>7, <1>8, <1>9, <1>10, <1>11, <1>12, <1>13, <1>14

-----------------------------------------------------------------------------
(* Every step *)

\* A channel that was just added is as the invariant says.
LEMMA InitInv ==
    ASSUME ChannelConstants, Init
    PROVE  IInv
<1>1. /\ state = "STOPPED" /\ pc = "idle" /\ at = 1 /\ failed = 0 /\ order = <<>>
      /\ slots = Own /\ isLinked = {} /\ stream = [s \in Own |-> "CFG"]
      /\ cmdThread = FALSE /\ cbThread = FALSE
      /\ cmdQueue = <<>> /\ syncSem = 0 /\ superq = {} /\ cbQueue = <<>> /\ app = {}
      /\ pending = 0 /\ continuous \in BOOLEAN /\ lost = {} /\ sessions = 0
  BY DEF Init
<1>2. Len(cmdQueue) = 0 /\ Len(cbQueue) = 0 /\ 1..Len(cmdQueue) = {} /\ 1..Len(cbQueue) = {}
  <2>1. Len(cmdQueue) = 0 /\ Len(cbQueue) = 0
    BY <1>1
  <2>. QED BY <2>1
<1>3. TypeInv
  <2>1. 1 \in 1..(Len(Slots) + 1) /\ 0 \in 0..Len(Slots) /\ 0 \in 0..1 /\ 0 \in 0..MaxSessions
    BY DEF ChannelConstants
  <2>2. Own \subseteq Streams
    BY DEF Own
  <2>3. stream \in [Own -> StreamStates]
    BY <1>1 DEF StreamStates
  <2>4. kernel \subseteq Frames
    BY DEF Init, Frames, ChannelConstants
  <2>5. pc \in StoppedPcs /\ order \in Seq(Streams)
    BY <1>1 DEF StoppedPcs
  <2>6. cmdQueue \in Seq(Commands) /\ cbQueue \in Seq(SUBSET Frames) /\ pending \in Nat
    BY <1>1
  <2>. QED BY <1>1, <2>1, <2>2, <2>3, <2>4, <2>5, <2>6 DEF TypeInv
<1>4. OrderInv
  BY <1>1 DEF OrderInv, UndoPcs
<1>5. CallerInv
  BY <1>1 DEF CallerInv, StoppedPcs, RestPcs, Calls
<1>6. StreamInv
  BY <1>1 DEF StreamInv, UndoPcs, RestPcs, Calls
<1>7. ThreadInv
  BY <1>1 DEF ThreadInv, JoinedPcs, Calls
<1>8. CmdInv
  BY <1>1, <1>2 DEF CmdInv
<1>9. CbInv
  BY <1>1, <1>2 DEF CbInv
<1>10. Handled = {} /\ Out = {}
  <2>1. InCmdQueue = {} /\ InCbQueue = {}
    BY <1>1 DEF InCmdQueue, InCbQueue, Range
  <2>. QED BY <1>1, <2>1 DEF Out, Handled
<1>11. OnceInv
  BY <1>1, <1>2, <1>10 DEF OnceInv, FrameInOnePlace, Out, Handled
<1>12. WhoseInv
  BY <1>10 DEF WhoseInv
<1>. QED BY <1>3, <1>4, <1>5, <1>6, <1>7, <1>8, <1>9, <1>11, <1>12 DEF IInv

\* A step that changes nothing.
LEMMA StutterStep ==
    ASSUME IInv, UNCHANGED vars
    PROVE  IInv'
<1>. USE DEF IInv
<1>1. UNCHANGED <<caller, stream, isLinked, cmdQueue, superq, cbQueue, app, threads, kernel, lost>>
  BY DEF vars, queues
<1>2. UNCHANGED <<state, pc, at, failed, order, slots, sessions, cmdThread, cbThread, syncSem,
                  pending, continuous>>
  BY <1>1 DEF caller, threads
<1>3. TypeInv'
  BY <1>1, <1>2 DEF TypeInv
<1>4. OrderInv' /\ CallerInv' /\ StreamInv'
  BY <1>1, CallerKept
<1>5. ThreadInv' /\ CmdInv' /\ CbInv'
  BY <1>1, <1>2 DEF ThreadInv, CmdInv, CbInv, Calls
<1>6. OnceInv' /\ Out' = Out
  BY <1>1, QueuesKept
<1>7. WhoseInv'
  BY <1>1, <1>2, <1>6 DEF WhoseInv
<1>. QED BY <1>3, <1>4, <1>5, <1>6, <1>7

\* Every step keeps the invariant.
LEMMA NextInv ==
    ASSUME ChannelConstants, IInv, [Next]_vars
    PROVE  IInv'
<1>1. CASE LinkStream \/ DelStream
  BY <1>1, LinkStreamStep, DelStreamStep
<1>2. CASE Start \/ Stop
  BY <1>2, StartStep, StopStep
<1>3. CASE RequestSuperBuf \/ ConfigNotifyMode
  BY <1>3, RequestStep
<1>4. CASE FlushSuperBufQueue \/ StopFlush
  BY <1>4, FlushStep
<1>5. CASE StartLink \/ StartLinked \/ StartStream \/ PassOver \/ Started \/ StartFails
  BY <1>5, StartLinkStep, StartLinkedStep, StartStreamStep, PassOverStep, StartedStep,
     StartFailsStep
<1>6. CASE UndoLink \/ UndoLinkFlushed \/ UndoLinked \/ UndoStream
  BY <1>6, UndoLinkStep, UndoLinkFlushedStep, UndoLinkedStep, UndoStreamStep
<1>7. CASE StopStream \/ StopStreams \/ StopUnlink \/ StopFlushed \/ StopPut \/ FlushAcked
  BY <1>7, StopStreamStep, StopStreamsStep, StopUnlinkStep, StopFlushedStep, StopPutStep,
     FlushAckedStep
<1>8. CASE Exit \/ JoinCmd \/ JoinCb \/ UndoJoinCb
  BY <1>8, ExitStep, JoinCmdStep, JoinCbStep
<1>9. CASE NotifyChannel \/ NotifyLinked
  BY <1>9, NotifyStep
<1>10. CASE CmdThread
  BY <1>10, ProcStep, ProcExitStep DEF CmdThread
<1>11. CASE CbThread \/ GiveBack
  BY <1>11, HandStep DEF CbThread
<1>12. CASE UNCHANGED vars
  BY <1>12, StutterStep
<1>. QED BY <1>1, <1>2, <1>3, <1>4, <1>5, <1>6, <1>7, <1>8, <1>9, <1>10, <1>11, <1>12
         DEF Next, CallStep

\* THE INVARIANT OF START AND STOP: whatever streams the channel has, linked or its
\* own, and however often it is started, stopped and fails to start while frames come
\* in and super buffers go up.
THEOREM Inductive == Spec => []IInv
<1>1. Init => IInv
  BY InitInv, ChannelConstants
<1>2. IInv /\ [Next]_vars => IInv'
  BY NextInv, ChannelConstants
<1>. QED BY <1>1, <1>2, PTL DEF Spec

-----------------------------------------------------------------------------
(* What START and STOP promise *)

\* The metadata stream runs while another stream of the channel does.
LEMMA MetaRuns ==
    ASSUME ChannelConstants, IInv
    PROVE  MetaWheneverStreaming
<1>. USE DEF IInv
<1>. SUFFICES ASSUME NEW s \in Own, stream[s] = "ACTIVE", pc \notin UndoPcs
              PROVE  stream[Meta] = "ACTIVE"
  BY DEF MetaWheneverStreaming, Undoing, UndoPcs
<1>1. Meta \in Own
  BY DEF ChannelConstants
<1>2. CASE pc = "idle" /\ state = "STOPPED"
  BY <1>2 DEF StreamInv, Calls
<1>3. CASE (pc = "idle" /\ state = "ACTIVE") \/ pc = "flush"
  BY <1>1, <1>3 DEF StreamInv, Calls
<1>4. CASE pc = "link"
  BY <1>4 DEF StreamInv
<1>5. CASE pc \in {"unlink", "flushed"} \cup RestPcs
  BY <1>5 DEF StreamInv
<1>6. CASE pc \in {"start", "stop"}
  <2>1. /\ Len(order) \in Nat /\ at \in Nat
        /\ \E i \in 1..Len(order) : order[i] = s
    BY <1>6, LoopFacts
  <2>2. PICK i \in 1..Len(order) : order[i] = s
    BY <2>1
  <2>3. CASE pc = "start"
    <3>1. order[1] = Meta /\ \A k \in 1..Len(order) : order[k] \in Own =>
            stream[order[k]] = IF k < at THEN "ACTIVE" ELSE "CFG"
      BY <2>3 DEF OrderInv, StreamInv
    <3>2. i < at
      BY <2>2, <3>1
    <3>3. 1 \in 1..Len(order) /\ 1 < at
      <4>1. i \in 1..Len(order) /\ i < at /\ Len(order) \in Nat /\ at \in Nat
        BY <2>1, <3>2
      <4>. QED BY ONLY <4>1
    <3>. QED BY <1>1, <3>1, <3>3
  <2>4. CASE pc = "stop"
    <3>1. order[Len(order)] = Meta /\ \A k \in 1..Len(order) : order[k] \in Own =>
            stream[order[k]] = IF k < at THEN "BUFFED" ELSE "ACTIVE"
      BY <2>4 DEF OrderInv, StreamInv
    <3>2. ~(i < at)
      BY <2>2, <3>1
    <3>3. Len(order) \in 1..Len(order) /\ ~(Len(order) < at)
      <4>1. i \in 1..Len(order) /\ ~(i < at) /\ Len(order) \in Nat /\ at \in Nat
        BY <2>1, <3>2
      <4>. QED BY ONLY <4>1
    <3>. QED BY <1>1, <3>1, <3>3
  <2>. QED BY <1>6, <2>3, <2>4
<1>7. pc \in {"idle", "flush", "link", "start", "stop"} \cup {"unlink", "flushed"} \cup RestPcs
  BY DEF TypeInv, StoppedPcs, ActivePcs
<1>8. state \in {"STOPPED", "ACTIVE"}
  BY DEF TypeInv
<1>. QED BY <1>2, <1>3, <1>4, <1>5, <1>6, <1>7, <1>8

\* What the invariant says of a channel at rest and of its threads.
LEMMA InvClean ==
    ASSUME ChannelConstants, IInv
    PROVE  StartStopClean
<1>. USE DEF IInv
<1>1. TypeOK
  <2>1. Handled \cup kernel \cup lost \cup UNION app \subseteq Frames
    BY QueuedFrames DEF TypeInv, Handled
  <2>2. Range(order) \subseteq Streams
    BY DEF TypeInv, Range
  <2>. QED BY <2>1, <2>2 DEF TypeOK, TypeInv, StreamStates
<1>2. FrameInOnePlace
  BY DEF OnceInv
<1>3. MetaWheneverStreaming
  BY MetaRuns
<1>4. NothingForDeadThread
  BY DEF NothingForDeadThread, CmdInv
<1>5. ASSUME ~cmdThread, ~cbThread
      PROVE  InCmdQueue = {} /\ InCbQueue = {} /\ cmdQueue = <<>> /\ cbQueue = <<>>
  <2>1. cmdQueue = <<>> /\ cbQueue = <<>>
    BY <1>5 DEF CmdInv, CbInv
  <2>. QED BY <2>1 DEF InCmdQueue, InCbQueue, Range
<1>6. StoppedIsQuiet
  <2>. SUFFICES ASSUME Calls("STOPPED")
                PROVE  /\ \A s \in Own : stream[s] = "CFG"
                       /\ ~cmdThread /\ ~cbThread /\ isLinked = {}
                       /\ Handled = {} /\ cmdQueue = <<>> /\ cbQueue = <<>>
    BY DEF StoppedIsQuiet
  <2>1. ~cmdThread /\ ~cbThread
    BY DEF ThreadInv
  <2>2. isLinked = {} /\ superq = {} /\ \A s \in Own : stream[s] = "CFG"
    BY DEF CallerInv, CmdInv, StreamInv
  <2>. QED BY <1>5, <2>1, <2>2 DEF Handled
<1>7. FreedAtRest
  <2>. SUFFICES ASSUME pc = "put"
                PROVE  Handled \cup UNION app = {}
    BY DEF FreedAtRest
  <2>1. ~cmdThread /\ ~cbThread
    BY DEF ThreadInv, JoinedPcs
  <2>2. superq = {} /\ app = {}
    BY DEF CmdInv, CbInv, RestPcs, StopPlaces
  <2>. QED BY <1>5, <2>1, <2>2 DEF Handled
<1>. QED BY <1>1, <1>2, <1>3, <1>4, <1>6, <1>7 DEF StartStopClean

\* START AND STOP ARE CLEAN: metadata runs while others do, a stopped channel is quiet,
\* nothing is queued for a thread that is gone, buffers are freed when nobody has one,
\* and no frame is in two places.
THEOREM StartAndStopClean == Spec => []StartStopClean
<1>1. IInv => StartStopClean
  BY InvClean, ChannelConstants
<1>. QED BY <1>1, Inductive, PTL

\* What the threads and the HAL give back while the channel runs is of streams that
\* are in streams[].
LEMMA BackToSlots ==
    ASSUME IInv, state = "ACTIVE", NEW frames, Qbuf(frames), frames \subseteq Out
    PROVE  lost' = lost
BY DEF Qbuf, IInv, WhoseInv

\* A running channel loses no frame of a linked stream.
LEMMA NoneLost ==
    ASSUME ChannelConstants, IInv, [Next]_vars, state = "ACTIVE"
    PROVE  lost' = lost
<1>. USE DEF IInv
<1>1. CASE ProcData \/ ProcRequest \/ ProcConfig
  <2>. DEFINE F == superq \cup Carried(Head(cmdQueue))
  <2>1. /\ cmdQueue # <<>> /\ cmdQueue' = Tail(cmdQueue) /\ app' = app
        /\ \E back, b : /\ Moved(F, back, b)
                        /\ ~ProcFlush => lost' = lost \cup {f \in back : f[1] \in Linked \ slots}
    BY <1>1, ProcMoves
  <2>2. ~ProcFlush
    BY <1>1 DEF ProcFlush, ProcData, ProcRequest, ProcConfig, CmdIs
  <2>3. PICK back, b : /\ Moved(F, back, b)
                       /\ lost' = lost \cup {f \in back : f[1] \in Linked \ slots}
    BY <2>1, <2>2
  <2>4. F \subseteq Out
    BY <2>1, <2>3, ServedOnce
  <2>5. back \subseteq F
    BY <2>3 DEF Moved
  <2>6. \A f \in back : f[1] \in slots
    BY <2>4, <2>5 DEF WhoseInv
  <2>. QED BY <2>3, <2>6
<1>2. CASE ProcFlush
  <2>1. /\ cmdQueue # <<>> /\ Head(cmdQueue).type = "FLUSH"
        /\ LET back == {f \in superq : Head(cmdQueue).of \in {DEFAULT, f[1]}}
           IN  lost' = lost \cup {f \in superq \ back : f[1] \in Linked}
                            \cup {f \in back : f[1] \in Linked \ slots}
    BY <1>2 DEF ProcFlush, CmdIs
  <2>2. Head(cmdQueue) = cmdQueue[1] /\ 1 \in 1..Len(cmdQueue)
    BY <2>1 DEF TypeInv
  <2>3. Head(cmdQueue).of = DEFAULT
    BY <2>1, <2>2 DEF CmdInv
  <2>4. \A f \in superq : f[1] \in slots
    BY DEF WhoseInv, Out, Handled
  <2>. QED BY <2>1, <2>3, <2>4
<1>3. CASE DispatchSuperBuf
  <2>1. Head(cbQueue) \subseteq Out
    <3>1. cbQueue # <<>> /\ cbQueue' = Tail(cbQueue)
      BY <1>3 DEF DispatchSuperBuf
    <3>2. Head(cbQueue) \subseteq InCbQueue
      BY <3>1, CbTail
    <3>. QED BY <3>2 DEF Out, Handled
  <2>. QED BY <1>3, <2>1, BackToSlots DEF DispatchSuperBuf
<1>4. CASE GiveBack
  <2>1. PICK b \in app : Qbuf(b)
    BY <1>4 DEF GiveBack
  <2>2. b \subseteq Out
    BY DEF Out
  <2>. QED BY <2>1, <2>2, BackToSlots
<1>5. CASE JoinCb \/ UndoJoinCb
  <2>1. pc = "joinCb"
    BY <1>5 DEF JoinCb, UndoJoinCb, CallerInv, ActivePcs, RestPcs
  <2>2. superq = {}
    BY <2>1 DEF CmdInv, RestPcs
  <2>. QED BY <1>5, <2>1, <2>2 DEF JoinCb, UndoJoinCb
<1>6. CASE LinkStream \/ DelStream \/ Start \/ Stop \/ RequestSuperBuf \/ ConfigNotifyMode
           \/ FlushSuperBufQueue
  BY <1>6 DEF LinkStream, DelStream, Start, Stop, RequestSuperBuf, ConfigNotifyMode,
              FlushSuperBufQueue
<1>7. CASE StartLink \/ StartLinked \/ StartStream \/ PassOver \/ Started \/ StartFails
           \/ UndoLink \/ UndoLinkFlushed \/ UndoLinked \/ UndoStream
  BY <1>7 DEF StartLink, StartLinked, StartStream, PassOver, Started, StartFails, UndoLink,
              UndoLinkFlushed, UndoLinked, UndoStream
<1>8. CASE StopStream \/ StopStreams \/ StopUnlink \/ StopFlush \/ StopFlushed \/ Exit \/ JoinCmd
           \/ StopPut \/ FlushAcked
  BY <1>8 DEF StopStream, StopStreams, StopUnlink, StopFlush, StopFlushed, Exit, JoinCmd,
              StopPut, FlushAcked
<1>9. CASE NotifyChannel \/ NotifyLinked \/ ProcExit \/ CbExit
  BY <1>9 DEF NotifyChannel, NotifyLinked, ProcExit, CbExit
<1>10. CASE UNCHANGED vars
  BY <1>10 DEF vars
<1>. QED BY <1>1, <1>2, <1>3, <1>4, <1>5, <1>6, <1>7, <1>8, <1>9, <1>10
         DEF Next, CallStep, CmdThread, CbThread

\* STOP LOSES NO FRAME: while the channel runs and while it stops, every frame of a
\* linked stream that the channel lets go of goes back to that stream's own channel.
THEOREM StopGivesBack == Spec => StopLosesNothing
<1>1. IInv /\ [Next]_vars => [state = "ACTIVE" => lost' = lost]_vars
  BY NoneLost, ChannelConstants
<1>. QED BY <1>1, Inductive, PTL DEF Spec, StopLosesNothing
=============================================================================
