-------------------------- MODULE MmStream_proofs --------------------------
(***************************************************************************)
(* Where the buffers of a stream are, for every set of buffers and of      *)
(* users and any number of sessions: buf_refcnt is the number of           *)
(* references that are out, the kernel owns its buffers alone, and the     *)
(* count of queued buffers and what depends on it fit.                     *)
(*                                                                         *)
(* The three hold each other up.  That the reader finds no reference to    *)
(* the buffer it dequeues needs the kernel's ownership; that a buffer goes *)
(* back to the kernel only when nobody has it needs the exact count; that  *)
(* the count fits its eight bits needs a bound on the references still to  *)
(* be taken (BudgetInv).                                                   *)
(*                                                                         *)
(* Everything assumes HasCb, a callback of the stream itself.  The         *)
(* reference of a linked channel is counted after the bundle's was handed  *)
(* out (NotifyLinked), and only the callback's own reference, posted last, *)
(* keeps the buffer from the kernel until then.  The HAL links only the    *)
(* metadata and the preview stream, which have callbacks.                  *)
(***************************************************************************)
EXTENDS MmStream, FiniteSetTheorems, TLAPS

\* The reference counters are in force.
Counted == state \in {"REG", "ACTIVE"}

\* The steps of START and STOP that each state of the stream allows, and what
\* follows for the driver and the command thread.
ControlInv ==
    /\ state = "CFG" => cpc = "idle"
    /\ state = "BUFFED" => cpc \in {"reg", "idle"}
    /\ state = "REG" => cpc \in {"idle", "unreg"}
    /\ state = "ACTIVE" => cpc \notin {"reg", "unreg"}
    /\ streaming => state = "ACTIVE" /\ cpc \in {"idle", "del", "barrier", "off"}
    /\ state = "ACTIVE" /\ cpc = "idle" => streaming
    /\ cmd_active <=> state = "ACTIVE"
    /\ Counted => requested

\* The reader has a buffer exactly while it works on one, and so has a caller.
HandsInv ==
    /\ rbuf = NoBuf <=> rpc \in {"poll", "dqbuf"}
    /\ \A t \in Callers : at[t] = NoBuf <=> pc[t] = "idle"
    /\ IsFiniteSet({t \in Callers : pc[t] # "idle"})

CallersIdle == \A t \in Callers : pc[t] = "idle"

\* Nobody works on the stream: nothing can happen to its buffers.
Still == rpc = "poll" /\ held = {} /\ CallersIdle

\* When the stream is about to start no caller is left from the last session, and
\* without counters the kernel has buffers only while nobody works on them.
RestInv ==
    /\ state = "CFG" \/ (state = "BUFFED" /\ cpc = "reg") \/ (state = "REG" /\ cpc = "idle")
         => CallersIdle
    /\ state = "REG" /\ cpc = "idle" => rpc = "poll"
    /\ state = "BUFFED" /\ cpc = "reg" => Still /\ \A b \in Bufs : leaked[b] = 0
    /\ ~Counted => Still \/ (~requested /\ kernel = {})

Returning(b) == {t \in Callers : pc[t] \in {"check", "dec"} /\ at[t] = b}

Queued(b) == \E i \in DOMAIN cmd_queue : cmd_queue[i] = b

\* On its way to the kernel: counted down to zero, and not there yet.
OnItsWay(t, b) == at[t] = b /\ pc[t] \in {"qcount", "ioctl", "fail"}

\* A buffer without references is in one place only.
PlaceInv ==
    Counted => \A b \in Bufs :
        /\ b \in kernel => buf_refcnt[b] = 0 /\ rbuf # b
        /\ rbuf = b /\ rpc \in {"count", "account"} => buf_refcnt[b] = 0
        /\ \A t \in Callers : OnItsWay(t, b) =>
             /\ buf_refcnt[b] = 0 /\ b \notin kernel /\ rbuf # b
             /\ \A u \in Callers : OnItsWay(u, b) => u = t

\* What is handed out for one purpose is not out for it already.
PurposeInv ==
    Counted =>
        /\ rpc = "chan" => <<rbuf, "bundle">> \notin held
        /\ rpc \in {"chan", "link"} => <<rbuf, "link">> \notin held
        /\ rpc \in {"chan", "link", "post"} => <<rbuf, "app">> \notin held /\ ~Queued(rbuf)
        /\ \A b \in Bufs : Queued(b) => <<b, "app">> \notin held
        /\ \A i, j \in DOMAIN cmd_queue : cmd_queue[i] = cmd_queue[j] => i = j

\* The references that are out, and those still to be taken: never near 256.
ToTake(b) ==
    One(rbuf = b /\ rpc \in {"chan", "link"}) + One(rbuf = b /\ rpc \in {"chan", "link", "post"})
    + One(Queued(b))
BudgetInv == Counted => \A b \in Bufs : buf_refcnt[b] + ToTake(b) <= 4

\* References that users have, or that nobody has any more.
Out(b) ==
    One(<<b, "bundle">> \in held) + One(<<b, "link">> \in held) + One(<<b, "app">> \in held)
    + leaked[b]

References(b) == Out(b) + One(Queued(b)) + ToHandOut(b) + BeingReturned(b)

\* buf_refcnt is exact, in terms that are easier to follow than cardinalities.
ExactInv == Counted => \A b \in Bufs : buf_refcnt[b] = References(b)

\* Callers between the count and the ioctl, or its failure.
Queueing == {t \in Callers : pc[t] \in {"ioctl", "fail"}}

\* queued_buffer_count is exact from the registration of the buffers on until
\* STREAMOFF takes them away.
Counting == streaming \/ cpc = "streamon" \/ (state = "REG" /\ cpc = "idle")
CountInv ==
    Counting =>
        /\ queued_buffer_count = Cardinality(kernel) + One(rpc = "count")
                                 + Cardinality(Queueing)
        /\ queued_buffer_count > 0 => entry \/ cpc \in {"del", "barrier", "off"}

\* A stopped command thread has nothing left to do.
DispatchInv == ~cmd_active => cmd_queue = <<>> /\ pc[Worker] = "idle"

IInv ==
    /\ TypeOK /\ ControlInv /\ HandsInv /\ RestInv /\ PlaceInv /\ PurposeInv
    /\ BudgetInv /\ ExactInv /\ CountInv /\ DispatchInv
-----------------------------------------------------------------------------
(* Lemmas about the operators *)

\* AddRef within eight bits is addition.
LEMMA AddRefAdds ==
  ASSUME TypeOK, NEW b \in Bufs, NEW n \in Int, AddRef(b, n)
  PROVE  /\ buf_refcnt' \in [Bufs -> 0..255]
         /\ buf_refcnt[b] + n \in 0..255 => \A c \in Bufs :
              buf_refcnt'[c] = IF c = b THEN buf_refcnt[b] + n ELSE buf_refcnt[c]
<1>1. buf_refcnt[b] \in 0..255 /\ buf_refcnt \in [Bufs -> 0..255]
  BY DEF TypeOK
<1>2. PICK sum \in Int : sum = buf_refcnt[b] + n
  BY <1>1
<1>3. buf_refcnt' = [buf_refcnt EXCEPT ![b] = sum % 256]
  BY <1>2 DEF AddRef
<1>4. sum % 256 \in 0..255 /\ (sum \in 0..255 => sum % 256 = sum)
  OBVIOUS
<1> QED
  BY <1>1, <1>2, <1>3, <1>4

\* A finite set with one element more, or one less.
LEMMA OneMore ==
  ASSUME NEW S, IsFiniteSet(S), NEW x, x \notin S
  PROVE  IsFiniteSet(S \cup {x}) /\ Cardinality(S \cup {x}) = Cardinality(S) + 1
  BY FS_AddElement

LEMMA OneLess ==
  ASSUME NEW S, IsFiniteSet(S), NEW x \in S
  PROVE  IsFiniteSet(S \ {x}) /\ Cardinality(S \ {x}) = Cardinality(S) - 1
  BY FS_RemoveElement

\* The callers at work are finitely many, so that they can be counted.
LEMMA CallersCount ==
  ASSUME HandsInv
  PROVE  /\ IsFiniteSet(Queueing) /\ Cardinality(Queueing) \in Nat
         /\ \A b : IsFiniteSet(Returning(b)) /\ BeingReturned(b) = Cardinality(Returning(b))
                   /\ BeingReturned(b) \in Nat
         /\ \A b : Returning(b) # {} => BeingReturned(b) > 0
<1> DEFINE Busy == {t \in Callers : pc[t] # "idle"}
<1>1. IsFiniteSet(Busy)
  BY DEF HandsInv
<1>2. Queueing \in SUBSET Busy
  BY DEF Queueing
<1>3. ASSUME NEW b PROVE Returning(b) \in SUBSET Busy
  BY DEF Returning
<1>4. IsFiniteSet(Queueing)
  BY <1>1, <1>2, FS_Subset
<1>5. ASSUME NEW b PROVE IsFiniteSet(Returning(b))
  BY <1>1, <1>3, FS_Subset
<1>6. \A b : BeingReturned(b) = Cardinality(Returning(b))
  BY DEF BeingReturned, Returning
<1>7. ASSUME NEW b, Returning(b) # {} PROVE Cardinality(Returning(b)) # 0
  BY <1>5, <1>7, FS_EmptySet
<1> QED
  BY <1>4, <1>5, <1>6, <1>7, FS_CardinalityType

LEMMA CallersStayFinite ==
  ASSUME HandsInv, TypeOK, NEW t \in Callers, NEW l, pc' = [pc EXCEPT ![t] = l]
  PROVE  IsFiniteSet({c \in Callers : pc'[c] # "idle"})
<1> DEFINE Busy == {c \in Callers : pc[c] # "idle"}
<1>1. IsFiniteSet(Busy \cup {t})
  BY FS_AddElement DEF HandsInv
<1>2. {c \in Callers : pc'[c] # "idle"} \in SUBSET (Busy \cup {t})
  BY DEF TypeOK
<1> QED
  BY <1>1, <1>2, FS_Subset

\* The references in users' hands, one for each purpose.
LEMMA HeldCount ==
  ASSUME TypeOK, NEW b \in Bufs
  PROVE  Cardinality({h \in held : h[1] = b})
           = One(<<b, "bundle">> \in held) + One(<<b, "link">> \in held)
             + One(<<b, "app">> \in held)
<1> DEFINE For(kind) == IF <<b, kind>> \in held THEN {<<b, kind>>} ELSE {}
           S1 == For("bundle")
           S2 == S1 \cup For("link")
           S3 == S2 \cup For("app")
<1>1. {h \in held : h[1] = b} = S3
  <2>1. ASSUME NEW h \in held, h[1] = b PROVE \E kind \in Kinds : h = <<b, kind>>
    BY <2>1 DEF TypeOK
  <2> QED
    BY <2>1 DEF Kinds
<1>2. IsFiniteSet(S1) /\ Cardinality(S1) = One(<<b, "bundle">> \in held)
  BY FS_EmptySet, FS_Singleton DEF One
<1>3. IsFiniteSet(S2) /\ Cardinality(S2) = Cardinality(S1) + One(<<b, "link">> \in held)
  <2>1. CASE <<b, "link">> \in held
    <3>1. S2 = S1 \cup {<<b, "link">>} /\ <<b, "link">> \notin S1
      BY <2>1
    <3> QED
      BY <2>1, <3>1, <1>2, OneMore DEF One
  <2>2. CASE <<b, "link">> \notin held
    <3>1. S2 = S1
      BY <2>2
    <3> QED
      BY <2>2, <3>1, <1>2, FS_CardinalityType DEF One
  <2> QED
    BY <2>1, <2>2
<1>4. IsFiniteSet(S3) /\ Cardinality(S3) = Cardinality(S2) + One(<<b, "app">> \in held)
  <2>1. CASE <<b, "app">> \in held
    <3>1. S3 = S2 \cup {<<b, "app">>} /\ <<b, "app">> \notin S2
      BY <2>1
    <3> QED
      BY <2>1, <3>1, <1>3, OneMore DEF One
  <2>2. CASE <<b, "app">> \notin held
    <3>1. S3 = S2
      BY <2>2
    <3> QED
      BY <2>2, <3>1, <1>3, FS_CardinalityType DEF One
  <2> QED
    BY <2>1, <2>2
<1> QED
  BY <1>1, <1>2, <1>3, <1>4

\* A buffer waits for the command thread once at most.
LEMMA QueuedCount ==
  ASSUME TypeOK, \A i, j \in DOMAIN cmd_queue : cmd_queue[i] = cmd_queue[j] => i = j, NEW b
  PROVE  Cardinality({i \in DOMAIN cmd_queue : cmd_queue[i] = b}) = One(Queued(b))
<1>1. CASE Queued(b)
  <2>1. PICK i \in DOMAIN cmd_queue : cmd_queue[i] = b
    BY <1>1 DEF Queued
  <2>2. {j \in DOMAIN cmd_queue : cmd_queue[j] = b} = {i}
    BY <2>1
  <2> QED
    BY <1>1, <2>2, FS_Singleton DEF One
<1>2. CASE ~Queued(b)
  <2>1. {j \in DOMAIN cmd_queue : cmd_queue[j] = b} = {}
    BY <1>2 DEF Queued
  <2> QED
    BY <1>2, <2>1, FS_EmptySet DEF One
<1> QED
  BY <1>1, <1>2

LEMMA Enqueued ==
  ASSUME cmd_queue \in Seq(Bufs), NEW b \in Bufs, cmd_queue' = Append(cmd_queue, b),
         \A i, j \in DOMAIN cmd_queue : cmd_queue[i] = cmd_queue[j] => i = j, ~Queued(b)
  PROVE  /\ cmd_queue' \in Seq(Bufs)
         /\ \A c : Queued(c)' <=> Queued(c) \/ c = b
         /\ \A i, j \in DOMAIN cmd_queue' : cmd_queue'[i] = cmd_queue'[j] => i = j
<1>1. /\ cmd_queue' \in Seq(Bufs) /\ Len(cmd_queue) \in Nat
      /\ DOMAIN cmd_queue = 1..Len(cmd_queue) /\ DOMAIN cmd_queue' = 1..Len(cmd_queue) + 1
      /\ cmd_queue'[Len(cmd_queue) + 1] = b
      /\ \A i \in 1..Len(cmd_queue) : cmd_queue'[i] = cmd_queue[i]
  OBVIOUS
<1> QED
  BY <1>1 DEF Queued

LEMMA Dequeued ==
  ASSUME cmd_queue \in Seq(Bufs), cmd_queue # <<>>, cmd_queue' = Tail(cmd_queue),
         \A i, j \in DOMAIN cmd_queue : cmd_queue[i] = cmd_queue[j] => i = j
  PROVE  /\ cmd_queue' \in Seq(Bufs) /\ Head(cmd_queue) \in Bufs /\ Queued(Head(cmd_queue))
         /\ \A c : Queued(c)' <=> Queued(c) /\ c # Head(cmd_queue)
         /\ \A i, j \in DOMAIN cmd_queue' : cmd_queue'[i] = cmd_queue'[j] => i = j
<1>1. /\ cmd_queue' \in Seq(Bufs) /\ Len(cmd_queue) \in Nat /\ Len(cmd_queue) > 0
      /\ DOMAIN cmd_queue = 1..Len(cmd_queue) /\ DOMAIN cmd_queue' = 1..Len(cmd_queue) - 1
      /\ Head(cmd_queue) = cmd_queue[1] /\ Head(cmd_queue) \in Bufs
      /\ \A i \in 1..Len(cmd_queue) - 1 : cmd_queue'[i] = cmd_queue[i + 1]
  OBVIOUS
<1>2. ASSUME NEW c PROVE Queued(c)' <=> Queued(c) /\ c # Head(cmd_queue)
  <2>1. Queued(c) /\ c # Head(cmd_queue) => Queued(c)'
    <3> SUFFICES ASSUME NEW i \in DOMAIN cmd_queue, cmd_queue[i] = c, i # 1
                 PROVE  Queued(c)'
      BY <1>1 DEF Queued
    <3>1. i - 1 \in DOMAIN cmd_queue' /\ cmd_queue'[i - 1] = c
      BY <1>1
    <3> QED
      BY <3>1 DEF Queued
  <2>2. Queued(c)' => Queued(c) /\ c # Head(cmd_queue)
    <3> SUFFICES ASSUME NEW i \in DOMAIN cmd_queue', cmd_queue'[i] = c
                 PROVE  Queued(c) /\ c # Head(cmd_queue)
      BY DEF Queued
    <3>1. i + 1 \in DOMAIN cmd_queue /\ cmd_queue[i + 1] = c /\ i + 1 # 1
      BY <1>1
    <3> QED
      BY <1>1, <3>1 DEF Queued
  <2> QED
    BY <2>1, <2>2
<1>3. ASSUME NEW i \in DOMAIN cmd_queue', NEW j \in DOMAIN cmd_queue',
             cmd_queue'[i] = cmd_queue'[j]
      PROVE  i = j
  <2>1. i + 1 \in DOMAIN cmd_queue /\ j + 1 \in DOMAIN cmd_queue
        /\ cmd_queue[i + 1] = cmd_queue[j + 1]
    BY <1>1, <1>3
  <2> QED
    BY <1>1, <2>1
<1> QED
  BY <1>1, <1>2, <1>3 DEF Queued


\* A caller begins to give a reference back, and is done giving it back.
LEMMA ReturnBegins ==
  ASSUME TypeOK, HandsInv, NEW t \in Callers, pc[t] = "idle", NEW b \in Bufs,
         pc' = [pc EXCEPT ![t] = "check"], at' = [at EXCEPT ![t] = b]
  PROVE  \A c \in Bufs : BeingReturned(c)' = BeingReturned(c) + One(c = b)
<1> TAKE c \in Bufs
<1>1. IsFiniteSet(Returning(c)) /\ BeingReturned(c) = Cardinality(Returning(c))
      /\ BeingReturned(c) \in Nat /\ BeingReturned(c)' = Cardinality(Returning(c)')
  BY CallersCount DEF BeingReturned, Returning
<1>2. CASE c = b
  <2>1. t \notin Returning(c) /\ Returning(c)' = Returning(c) \cup {t}
    BY <1>2 DEF Returning, TypeOK
  <2> QED
    BY <1>1, <1>2, <2>1, OneMore DEF One
<1>3. CASE c # b
  <2>1. Returning(c)' = Returning(c)
    BY <1>3 DEF Returning, TypeOK
  <2> QED
    BY <1>1, <1>3, <2>1 DEF One
<1> QED
  BY <1>2, <1>3

LEMMA ReturnEnds ==
  ASSUME TypeOK, HandsInv, NEW t \in Callers, pc[t] \in {"check", "dec"},
         NEW l, l \notin {"check", "dec"}, pc' = [pc EXCEPT ![t] = l],
         at' = at \/ at' = [at EXCEPT ![t] = NoBuf]
  PROVE  \A c \in Bufs : BeingReturned(c)' = BeingReturned(c) - One(c = at[t])
<1> TAKE c \in Bufs
<1>1. IsFiniteSet(Returning(c)) /\ BeingReturned(c) = Cardinality(Returning(c))
      /\ BeingReturned(c) \in Nat /\ BeingReturned(c)' = Cardinality(Returning(c)')
  BY CallersCount DEF BeingReturned, Returning
<1>2. CASE c = at[t]
  <2>1. t \in Returning(c) /\ Returning(c)' = Returning(c) \ {t}
    BY <1>2 DEF Returning, TypeOK
  <2> QED
    BY <1>1, <1>2, <2>1, OneLess DEF One
<1>3. CASE c # at[t]
  <2>1. Returning(c)' = Returning(c)
    BY <1>3 DEF Returning, TypeOK
  <2> QED
    BY <1>1, <1>3, <2>1 DEF One
<1> QED
  BY <1>2, <1>3

\* Every other step of a caller leaves the references that come back alone.
LEMMA ReturnGoesOn ==
  ASSUME TypeOK, NEW t \in Callers, NEW l, pc' = [pc EXCEPT ![t] = l],
         \/ pc[t] \notin {"check", "dec"} /\ l \notin {"check", "dec"}
            /\ (at' = at \/ at' = [at EXCEPT ![t] = NoBuf])
         \/ pc[t] \in {"check", "dec"} /\ l \in {"check", "dec"} /\ at' = at
  PROVE  \A c \in Bufs : BeingReturned(c)' = BeingReturned(c)
<1> TAKE c \in Bufs
<1>1. \A u \in Callers : u # t => pc'[u] = pc[u] /\ at'[u] = at[u]
  BY DEF TypeOK
<1>2. /\ pc'[t] \in {"check", "dec"} <=> pc[t] \in {"check", "dec"}
      /\ pc[t] \in {"check", "dec"} => at'[t] = at[t]
  <2>1. pc'[t] = l
    BY DEF TypeOK
  <2> QED
    BY <2>1
<1>3. ASSUME NEW u \in Callers
      PROVE  u \in Returning(c)' <=> u \in Returning(c)
  <2>1. CASE u = t
    BY <1>2, <2>1 DEF Returning
  <2>2. CASE u # t
    BY <1>1, <2>2 DEF Returning
  <2> QED
    BY <2>1, <2>2
<1>4. Returning(c)' = Returning(c)
  BY <1>3 DEF Returning
<1> QED
  BY <1>4 DEF BeingReturned, Returning

\* The same for the callers between the count and the ioctl.
LEMMA QueueingSteps ==
  ASSUME TypeOK, HandsInv, NEW t \in Callers, NEW l, pc' = [pc EXCEPT ![t] = l]
  PROVE  /\ l \in {"ioctl", "fail"} /\ pc[t] \notin {"ioctl", "fail"}
              => Cardinality(Queueing') = Cardinality(Queueing) + 1
         /\ l \notin {"ioctl", "fail"} /\ pc[t] \in {"ioctl", "fail"}
              => Cardinality(Queueing') = Cardinality(Queueing) - 1
<1>1. IsFiniteSet(Queueing)
  BY CallersCount
<1>2. ASSUME l \in {"ioctl", "fail"}, pc[t] \notin {"ioctl", "fail"}
      PROVE  Cardinality(Queueing') = Cardinality(Queueing) + 1
  <2>1. t \notin Queueing /\ Queueing' = Queueing \cup {t}
    BY <1>2 DEF Queueing, TypeOK
  <2> QED
    BY <1>1, <2>1, OneMore
<1>3. ASSUME l \notin {"ioctl", "fail"}, pc[t] \in {"ioctl", "fail"}
      PROVE  Cardinality(Queueing') = Cardinality(Queueing) - 1
  <2>1. t \in Queueing /\ Queueing' = Queueing \ {t}
    BY <1>3 DEF Queueing, TypeOK
  <2> QED
    BY <1>1, <2>1, OneLess
<1> QED
  BY <1>2, <1>3

\* A step that touches neither references nor the reader nor a caller keeps all that is
\* said of them, whatever it does to the driver.
LEMMA ReferencesUntouched ==
  ASSUME IInv, UNCHANGED <<buf_refcnt, held, leaked, cmd_queue, reader, callers>>,
         kernel' \in SUBSET kernel, Counted' => Counted
  PROVE  HandsInv' /\ PlaceInv' /\ PurposeInv' /\ BudgetInv' /\ ExactInv'
<1> USE DEF reader, callers
<1>1. HandsInv'
  BY DEF IInv, HandsInv
<1>2. PlaceInv'
  BY DEF IInv, PlaceInv, OnItsWay
<1>3. PurposeInv'
  BY DEF IInv, PurposeInv, Queued
<1>4. BudgetInv'
  BY DEF IInv, BudgetInv, ToTake, Queued
<1>5. ASSUME NEW b PROVE References(b)' = References(b)
  BY DEF References, Out, Queued, ToHandOut, BeingReturned
<1>6. ExactInv'
  BY <1>5 DEF IInv, ExactInv
<1> QED
  BY <1>1, <1>2, <1>3, <1>4, <1>6

\* The terms of References() are natural numbers ...
LEMMA ReferenceTerms ==
  ASSUME TypeOK, HandsInv, NEW b \in Bufs
  PROVE  /\ Out(b) \in Nat /\ ToHandOut(b) \in 0..2 /\ BeingReturned(b) \in Nat
         /\ buf_refcnt[b] \in 0..255 /\ One(Queued(b)) \in 0..1
<1>1. Out(b) \in Nat /\ ToHandOut(b) \in 0..2
  BY DEF TypeOK, Out, ToHandOut, One
<1>2. buf_refcnt[b] \in 0..255 /\ One(Queued(b)) \in 0..1
  BY DEF TypeOK, One
<1> QED
  BY <1>1, <1>2, CallersCount

\* ... so that nobody has or is about to have a buffer without references.
LEMMA NoReferences ==
  ASSUME IInv, Counted, NEW b \in Bufs, buf_refcnt[b] = 0
  PROVE  /\ \A kind \in Kinds : <<b, kind>> \notin held
         /\ leaked[b] = 0 /\ ~Queued(b) /\ ToHandOut(b) = 0 /\ Returning(b) = {}
<1>1. Out(b) = 0 /\ One(Queued(b)) = 0 /\ ToHandOut(b) = 0 /\ BeingReturned(b) = 0
  BY ReferenceTerms DEF IInv, ExactInv, References
<1>2. /\ <<b, "bundle">> \notin held /\ <<b, "link">> \notin held /\ <<b, "app">> \notin held
      /\ leaked[b] = 0 /\ ~Queued(b)
  BY <1>1 DEF IInv, TypeOK, Out, One
<1>3. Returning(b) = {}
  BY <1>1, CallersCount DEF IInv
<1> QED
  BY <1>1, <1>2, <1>3 DEF Kinds

\* One reference more is out, with a user or lost; or one less, given back.
LEMMA HandedOut ==
  ASSUME TypeOK, NEW b \in Bufs, NEW kind \in Kinds, <<b, kind>> \notin held,
         held' = held \cup {<<b, kind>>} /\ leaked' = leaked
  PROVE  \A c \in Bufs : Out(c)' = Out(c) + One(c = b)
<1> TAKE c \in Bufs
<1>1. \A k : <<c, k>> \in held' <=> <<c, k>> \in held \/ (c = b /\ k = kind)
  OBVIOUS
<1>2. leaked'[c] = leaked[c] /\ leaked[c] \in Nat
  BY DEF TypeOK
<1>3. kind = "bundle" \/ kind = "link" \/ kind = "app"
  BY DEF Kinds
<1> QED
  BY <1>1, <1>2, <1>3 DEF Out, One

LEMMA Lost ==
  ASSUME TypeOK, NEW b \in Bufs,
         held' = held /\ leaked' = [leaked EXCEPT ![b] = leaked[b] + 1]
  PROVE  /\ leaked' \in [Bufs -> Nat]
         /\ \A c \in Bufs : Out(c)' = Out(c) + One(c = b)
  BY DEF TypeOK, Out, One

LEMMA GivenBack ==
  ASSUME TypeOK, NEW b \in Bufs, NEW kind \in Kinds, <<b, kind>> \in held,
         held' = held \ {<<b, kind>>} /\ leaked' = leaked
  PROVE  \A c \in Bufs : Out(c)' = Out(c) - One(c = b)
<1> TAKE c \in Bufs
<1>1. \A k : <<c, k>> \in held' <=> <<c, k>> \in held /\ ~(c = b /\ k = kind)
  OBVIOUS
<1>2. leaked'[c] = leaked[c] /\ leaked[c] \in Nat
  BY DEF TypeOK
<1>3. kind = "bundle" \/ kind = "link" \/ kind = "app"
  BY DEF Kinds
<1> QED
  BY <1>1, <1>2, <1>3 DEF Out, One
-----------------------------------------------------------------------------
(* The steps of the control thread *)

LEMMA ControlStep ==
  ASSUME HasCb, IInv,
         \/ GetBuf \/ RegBuf \/ RegBufFail \/ Start \/ StreamOn \/ StreamOnFail
         \/ Stop \/ Stopping \/ UnregBuf \/ PutBuf \/ Unlink
  PROVE  IInv'
<1> USE DEF control, cmd, driver, counts, reader, callers, Counted
<1>0. TypeOK /\ ControlInv /\ HandsInv /\ RestInv /\ CountInv /\ DispatchInv
  BY DEF IInv
<1>1. CASE GetBuf
  <2>1. TypeOK' /\ ControlInv' /\ DispatchInv'
    <3>1. sessions' \in 0..MaxSessions /\ is_linked' \in BOOLEAN
      BY <1>0, <1>1, MmStreamAssumption DEF GetBuf, TypeOK
    <3> QED
      BY <1>0, <1>1, <3>1 DEF GetBuf, TypeOK, ControlInv, DispatchInv
  <2>2. RestInv'
    BY <1>0, <1>1 DEF GetBuf, Undisturbed, RestInv, Still, CallersIdle, ControlInv
  <2>3. HandsInv' /\ PlaceInv' /\ PurposeInv' /\ BudgetInv' /\ ExactInv'
    BY <1>1, ReferencesUntouched DEF GetBuf
  <2>4. CountInv'
    BY <1>0, <1>1 DEF GetBuf, ControlInv, CountInv, Counting
  <2> QED
    BY <2>1, <2>2, <2>3, <2>4 DEF IInv
<1>2. CASE RegBuf
  \* Nobody has a buffer: each is either in the kernel or with the upper layer.
  <2>1. PICK initial \in SUBSET Bufs :
          /\ kernel' = initial /\ queued_buffer_count' = Cardinality(initial)
          /\ entry' = (entry \/ initial # {})
          /\ buf_refcnt' = [b \in Bufs |-> One(b \notin initial)]
          /\ in_kernel' = [b \in Bufs |-> b \in initial]
          /\ held' = (Bufs \ initial) \X {"app"}
    BY <1>2 DEF RegBuf
  <2>2. /\ rpc = "poll" /\ rbuf = NoBuf /\ cmd_queue = <<>>
        /\ (\A b \in Bufs : leaked[b] = 0) /\ (\A t \in Callers : pc[t] = "idle" /\ at[t] = NoBuf)
    BY <1>0, <1>2 DEF RegBuf, RestInv, Still, CallersIdle, ControlInv, HandsInv, DispatchInv
  <2>3. UNCHANGED <<rpc, rbuf, cmd_queue, leaked, pc, at>> /\ NoBuf \notin Bufs
        /\ \A b : ~Queued(b)'
    BY <1>2, <2>2, MmStreamAssumption DEF RegBuf, Queued
  <2>4. IsFiniteSet(initial) /\ Cardinality(initial) \in Nat
        /\ (Cardinality(initial) > 0 => initial # {})
    BY FS_Subset, FS_CardinalityType, FS_EmptySet, MmStreamAssumption
  <2>5. TypeOK'
    <3>1. \A b \in Bufs : One(b \notin initial) \in 0..255
      BY DEF One
    <3>2. held' \in SUBSET (Bufs \X Kinds)
      BY <2>1 DEF Kinds
    <3> QED
      BY <1>0, <1>2, <2>1, <2>4, <3>1, <3>2 DEF RegBuf, TypeOK
  <2>6. ControlInv' /\ HandsInv' /\ DispatchInv'
    BY <1>0, <1>2, <2>3 DEF RegBuf, ControlInv, HandsInv, DispatchInv
  <2>7. RestInv'
    BY <1>0, <1>2, <2>2, <2>3 DEF RegBuf, RestInv, CallersIdle
  <2>8. PlaceInv'
    BY <2>1, <2>2, <2>3 DEF PlaceInv, OnItsWay, One
  <2>9. PurposeInv'
    BY <2>2, <2>3 DEF PurposeInv, Queued
  <2>10. BudgetInv'
    BY <2>1, <2>2, <2>3 DEF BudgetInv, ToTake, One
  <2>11. ASSUME NEW b \in Bufs PROVE buf_refcnt'[b] = References(b)'
    <3>1. BeingReturned(b)' = 0
      <4>1. {t \in Callers : pc'[t] \in {"check", "dec"} /\ at'[t] = b} = {}
        BY <2>2, <2>3
      <4> QED
        BY <4>1, FS_EmptySet DEF BeingReturned
    <3>2. ToHandOut(b)' = 0 /\ leaked'[b] = 0 /\ ~Queued(b)'
      BY <2>2, <2>3 DEF ToHandOut
    <3>3. /\ <<b, "bundle">> \notin held' /\ <<b, "link">> \notin held'
          /\ <<b, "app">> \in held' <=> b \notin initial
      BY <2>1
    <3> QED
      BY <2>1, <3>1, <3>2, <3>3 DEF References, Out, One
  <2>12. CountInv'
    <3>1. Queueing' = {}
      BY <2>2, <2>3 DEF Queueing
    <3>2. Cardinality(Queueing') = 0 /\ Cardinality(kernel') = Cardinality(initial)
      BY <2>1, <3>1, FS_EmptySet
    <3>3. entry' <=> entry \/ initial # {}
      BY <2>1
    <3> QED
      BY <2>1, <2>2, <2>3, <2>4, <3>2, <3>3 DEF CountInv, One
  <2> QED
    BY <2>5, <2>6, <2>7, <2>8, <2>9, <2>10, <2>11, <2>12 DEF IInv, ExactInv
<1>3. CASE RegBufFail
  <2>1. ~Counted'
    BY <1>3 DEF RegBufFail
  <2>2. PICK before \in SUBSET Bufs, initial \in SUBSET Bufs :
          /\ kernel' = initial /\ queued_buffer_count' = Cardinality(initial)
          /\ entry' \in {initial # {}, entry \/ initial # {}}
          /\ buf_refcnt' = [b \in Bufs |-> IF b \in before THEN One(b \notin initial)
                                                        ELSE buf_refcnt[b]]
          /\ in_kernel' = [b \in Bufs |-> IF b \in before THEN b \in initial
                                                       ELSE in_kernel[b]]
    BY <1>3 DEF RegBufFail
  <2>3. TypeOK'
    <3>1. Cardinality(initial) \in Int
      BY FS_Subset, FS_CardinalityType, MmStreamAssumption
    <3>2. entry' \in BOOLEAN
      BY <1>0, <2>2 DEF TypeOK
    <3>3. buf_refcnt' \in [Bufs -> 0..255]
      BY <1>0, <2>2 DEF TypeOK, One
    <3>4. in_kernel' \in [Bufs -> BOOLEAN]
      <4>1. ASSUME NEW b \in Bufs
            PROVE  (IF b \in before THEN b \in initial ELSE in_kernel[b]) \in BOOLEAN
        <5>1. in_kernel[b] \in BOOLEAN
          BY <1>0 DEF TypeOK
        <5>2. (b \in initial) \in BOOLEAN
          OBVIOUS
        <5> QED
          BY <5>1, <5>2, Zenon
      <4> QED
        BY <2>2, <4>1
    <3> QED
      BY <1>0, <1>3, <2>2, <3>1, <3>2, <3>3, <3>4 DEF RegBufFail, TypeOK
  <2>4. ControlInv' /\ HandsInv' /\ DispatchInv'
    BY <1>0, <1>3 DEF RegBufFail, ControlInv, HandsInv, DispatchInv
  <2>5. RestInv'
    BY <1>0, <1>3 DEF RegBufFail, RestInv, Still, CallersIdle
  <2>6. CountInv'
    BY <1>0, <1>3 DEF RegBufFail, ControlInv, CountInv, Counting
  <2> QED
    BY <2>1, <2>3, <2>4, <2>5, <2>6
       DEF IInv, PlaceInv, PurposeInv, BudgetInv, ExactInv
<1>4. CASE Start \/ StreamOn \/ StreamOnFail \/ Stop \/ DelPollFd \/ DelPollFdReturn
           \/ StreamOff \/ CmdLock \/ CmdRelease
  \* The counters stay in force; the driver only gives buffers back.
  <2>1. TypeOK'
    <3> USE DEF TypeOK
    <3>1. CASE Start
      BY <1>0, <3>1, MmStreamAssumption DEF Start
    <3>2. CASE StreamOn
      BY <1>0, <3>2 DEF StreamOn
    <3>3. CASE StreamOnFail
      BY <1>0, <3>3 DEF StreamOnFail
    <3>4. CASE Stop
      BY <1>0, <3>4 DEF Stop
    <3>5. CASE DelPollFd
      BY <1>0, <3>5 DEF DelPollFd
    <3>6. CASE DelPollFdReturn
      BY <1>0, <3>6 DEF DelPollFdReturn
    <3>7. CASE StreamOff
      BY <1>0, <3>7 DEF StreamOff
    <3>8. CASE CmdLock
      BY <1>0, <3>8 DEF CmdLock
    <3>9. CASE CmdRelease
      BY <1>0, <3>9 DEF CmdRelease
    <3> QED
      BY <1>4, <3>1, <3>2, <3>3, <3>4, <3>5, <3>6, <3>7, <3>8, <3>9
  <2>2. ControlInv'
    <3> USE DEF ControlInv
    <3>1. CASE Start
      BY <1>0, <3>1 DEF Start
    <3>2. CASE StreamOn
      BY <1>0, <3>2 DEF StreamOn, TypeOK
    <3>3. CASE StreamOnFail \/ Stop \/ DelPollFd \/ DelPollFdReturn \/ StreamOff \/ CmdLock
      BY <1>0, <3>3 DEF TypeOK, StreamOnFail, Stop, DelPollFd, DelPollFdReturn, StreamOff,
            CmdLock
    <3>4. CASE CmdRelease
      BY <1>0, <3>4 DEF CmdRelease, TypeOK
    <3> QED
      BY <1>4, <3>1, <3>2, <3>3, <3>4
  <2>3. RestInv'
    BY <1>0, <1>4 DEF TypeOK, ControlInv, RestInv, Still, CallersIdle, Start, StreamOn,
          StreamOnFail, Stop, DelPollFd, DelPollFdReturn, StreamOff, CmdLock, CmdRelease
  <2>4. HandsInv' /\ PlaceInv' /\ PurposeInv' /\ BudgetInv' /\ ExactInv'
    <3>1. UNCHANGED <<buf_refcnt, held, leaked, cmd_queue, reader, callers>>
          /\ kernel' \in SUBSET kernel
      BY <1>0, <1>4 DEF TypeOK, Start, StreamOn, StreamOnFail, Stop, DelPollFd,
            DelPollFdReturn, StreamOff, CmdLock, CmdRelease
    <3>2. Counted
      BY <1>0, <1>4 DEF TypeOK, ControlInv, Start, StreamOn, StreamOnFail, Stop, DelPollFd,
            DelPollFdReturn, StreamOff, CmdLock, CmdRelease
    <3> QED
      BY <3>1, <3>2, ReferencesUntouched
  <2>5. CountInv'
    BY <1>0, <1>4 DEF TypeOK, ControlInv, CountInv, Counting, Queueing, Start, StreamOn,
          StreamOnFail, Stop, DelPollFd, DelPollFdReturn, StreamOff, CmdLock, CmdRelease
  <2>6. DispatchInv'
    BY <1>0, <1>4 DEF DispatchInv, Start, StreamOn, StreamOnFail, Stop, DelPollFd,
          DelPollFdReturn, StreamOff, CmdLock, CmdRelease
  <2> QED
    BY <2>1, <2>2, <2>3, <2>4, <2>5, <2>6 DEF IInv
<1>5. CASE UnregBuf
  <2>1. ~Counted'
    BY <1>5 DEF UnregBuf
  <2>2. TypeOK'
    <3>1. buf_refcnt' \in [Bufs -> 0..255] /\ in_kernel' \in [Bufs -> BOOLEAN]
      BY <1>5 DEF UnregBuf
    <3> QED
      BY <1>0, <1>5, <3>1 DEF UnregBuf, TypeOK
  <2>3. ControlInv' /\ HandsInv' /\ DispatchInv'
    BY <1>0, <1>5 DEF UnregBuf, ControlInv, HandsInv, DispatchInv
  <2>4. RestInv'
    BY <1>0, <1>5 DEF UnregBuf, ControlInv, RestInv, Still, CallersIdle
  <2>5. CountInv'
    BY <1>0, <1>5 DEF UnregBuf, ControlInv, CountInv, Counting
  <2> QED
    BY <2>1, <2>2, <2>3, <2>4, <2>5
       DEF IInv, PlaceInv, PurposeInv, BudgetInv, ExactInv
<1>6. CASE PutBuf
  <2>1. ~Counted'
    BY <1>6 DEF PutBuf
  <2>2. TypeOK'
    BY <1>0, <1>6 DEF PutBuf, TypeOK
  <2>3. ControlInv' /\ HandsInv' /\ DispatchInv'
    BY <1>0, <1>6 DEF PutBuf, ControlInv, HandsInv, DispatchInv
  <2>4. RestInv'
    BY <1>0, <1>6 DEF PutBuf, ControlInv, RestInv, Still, CallersIdle
  <2>5. CountInv'
    BY <1>0, <1>6 DEF PutBuf, ControlInv, CountInv, Counting
  <2> QED
    BY <2>1, <2>2, <2>3, <2>4, <2>5
       DEF IInv, PlaceInv, PurposeInv, BudgetInv, ExactInv
<1>7. CASE Unlink
  <2>1. TypeOK' /\ ControlInv' /\ DispatchInv'
    BY <1>0, <1>7 DEF Unlink, TypeOK, ControlInv, DispatchInv
  <2>2. RestInv' /\ CountInv'
    BY <1>0, <1>7 DEF Unlink, RestInv, Still, CallersIdle, CountInv, Counting, Queueing
  <2>3. HandsInv' /\ PlaceInv' /\ PurposeInv' /\ BudgetInv' /\ ExactInv'
    BY <1>7, ReferencesUntouched DEF Unlink
  <2> QED
    BY <2>1, <2>2, <2>3 DEF IInv
<1> QED
  BY <1>1, <1>2, <1>3, <1>4, <1>5, <1>6, <1>7 DEF Stopping
-----------------------------------------------------------------------------
(* The steps of the reader *)

\* A step of the reader before it accounts for its buffer moves no reference.
LEMMA NothingHandedOut ==
  ASSUME IInv, UNCHANGED <<state, buf_refcnt, held, leaked, cmd_queue, callers>>,
         \A b \in Bufs : ToHandOut(b) = 0 /\ ToHandOut(b)' = 0
  PROVE  ExactInv'
<1> USE DEF callers
<1>1. ASSUME NEW b \in Bufs PROVE References(b)' = References(b)
  BY DEF References, Out, BeingReturned, Queued
<1> QED
  BY <1>1 DEF IInv, ExactInv, Counted

LEMMA ReaderStep ==
  ASSUME HasCb, IInv, DataNotify \/ Reader
  PROVE  IInv'
<1> USE DEF control, cmd, driver, counts, callers, Counted
<1>0. TypeOK /\ ControlInv /\ HandsInv /\ RestInv /\ PlaceInv /\ PurposeInv /\ BudgetInv
      /\ ExactInv /\ CountInv /\ DispatchInv
  BY DEF IInv
<1>1. NoBuf \notin Bufs /\ (rbuf \in Bufs <=> rpc \notin {"poll", "dqbuf"})
  BY <1>0, MmStreamAssumption DEF TypeOK, HandsInv
<1>2. CASE DataNotify \/ DqbufFail
  <2>1. TypeOK' /\ HandsInv'
    <3>1. CASE DataNotify
      BY <1>0, <3>1 DEF DataNotify, TypeOK, HandsInv
    <3>2. CASE DqbufFail
      BY <1>0, <3>2 DEF DqbufFail, TypeOK, HandsInv
    <3> QED
      BY <1>2, <3>1, <3>2
  <2>2. ControlInv' /\ RestInv' /\ DispatchInv'
    BY <1>0, <1>2 DEF DispatchInv, DataNotify, DqbufFail, ControlInv, RestInv, Still, CallersIdle
  <2>3. PlaceInv' /\ PurposeInv'
    BY <1>0, <1>1, <1>2 DEF DataNotify, DqbufFail, PlaceInv, OnItsWay, PurposeInv, Queued
  <2>4. BudgetInv'
    BY <1>0, <1>1, <1>2 DEF DataNotify, DqbufFail, BudgetInv, ToTake, Queued
  <2>5. ExactInv'
    <3>1. \A b : ToHandOut(b) = 0 /\ ToHandOut(b)' = 0
      BY <1>0, <1>1, <1>2 DEF DataNotify, DqbufFail, ToHandOut
    <3> QED
      BY <1>0, <1>2, <3>1, NothingHandedOut DEF DataNotify, DqbufFail
  <2>6. CountInv'
    BY <1>0, <1>2 DEF DataNotify, DqbufFail, CountInv, Counting, Queueing
  <2> QED
    BY <2>1, <2>2, <2>3, <2>4, <2>5, <2>6 DEF IInv
<1>3. CASE \E b \in Bufs : Dqbuf(b)
  <2>1. PICK b \in Bufs : Dqbuf(b)
    BY <1>3
  <2>2. TypeOK' /\ ControlInv' /\ HandsInv' /\ RestInv' /\ DispatchInv'
    BY <1>0, <1>1, <2>1
       DEF Dqbuf, TypeOK, ControlInv, HandsInv, RestInv, Still, CallersIdle, DispatchInv
  \* What the kernel had nobody refers to.
  <2>3. Counted /\ rbuf = NoBuf
    BY <1>0, <2>1 DEF Dqbuf, ControlInv, HandsInv
  <2>3a. buf_refcnt[b] = 0 /\ \A t \in Callers : ~OnItsWay(t, b)
    BY <1>0, <2>1, <2>3 DEF Dqbuf, PlaceInv
  <2>4. PlaceInv'
    BY <1>0, <2>1, <2>3, <2>3a DEF Dqbuf, PlaceInv, OnItsWay
  <2>5. PurposeInv' /\ BudgetInv'
    BY <1>0, <1>1, <2>1 DEF Dqbuf, PurposeInv, BudgetInv, ToTake, Queued
  <2>6. ExactInv'
    <3>1. \A c : ToHandOut(c) = 0 /\ ToHandOut(c)' = 0
      BY <1>0, <1>1, <2>1 DEF Dqbuf, ToHandOut
    <3> QED
      BY <1>0, <2>1, <3>1, NothingHandedOut DEF Dqbuf
  <2>7. CountInv'
    <3>1. IsFiniteSet(kernel) /\ kernel' = kernel \ {b} /\ b \in kernel
      BY <1>0, <2>1, MmStreamAssumption, FS_Subset DEF TypeOK, Dqbuf
    <3>2. Cardinality(kernel') = Cardinality(kernel) - 1 /\ Cardinality(kernel) \in Nat
      BY <3>1, OneLess, FS_CardinalityType
    <3>3. Queueing' = Queueing /\ Cardinality(Queueing) \in Nat
      BY <1>0, <2>1, CallersCount DEF Dqbuf, Queueing
    <3> QED
      BY <1>0, <2>1, <3>2, <3>3 DEF Dqbuf, CountInv, Counting, One, TypeOK
  <2> QED
    BY <2>2, <2>4, <2>5, <2>6, <2>7 DEF IInv
<1>4. CASE ReadCount
  <2>1. TypeOK' /\ ControlInv' /\ HandsInv' /\ DispatchInv'
    <3>1. entry' \in BOOLEAN /\ queued_buffer_count' \in Int
      BY <1>0, <1>4 DEF ReadCount, TypeOK
    <3> QED
      BY <1>0, <1>1, <1>4, <3>1 DEF ReadCount, TypeOK, ControlInv, HandsInv, DispatchInv
  <2>2. RestInv'
    BY <1>0, <1>4 DEF ReadCount, RestInv, Still, CallersIdle
  <2>3. PlaceInv' /\ PurposeInv' /\ BudgetInv'
    BY <1>0, <1>1, <1>4
       DEF ReadCount, PlaceInv, OnItsWay, PurposeInv, BudgetInv, ToTake, Queued
  <2>4. ExactInv'
    <3>1. \A b \in Bufs : ToHandOut(b) = 0 /\ ToHandOut(b)' = 0
      BY <1>0, <1>1, <1>4 DEF ReadCount, ToHandOut
    <3> QED
      BY <1>0, <1>4, <3>1, NothingHandedOut DEF ReadCount
  <2>5. CountInv'
    <3>1. Cardinality(kernel) \in Nat
      BY <1>0, MmStreamAssumption, FS_Subset, FS_CardinalityType DEF TypeOK
    <3>2. Queueing' = Queueing /\ Cardinality(Queueing) \in Nat
      BY <1>0, <1>4, CallersCount DEF ReadCount, Queueing
    <3>3. queued_buffer_count' > 0 /\ entry => entry'
      <4>1. entry' = (entry /\ queued_buffer_count' # 0) /\ queued_buffer_count' \in Int
        BY <1>4, <2>1 DEF ReadCount, TypeOK
      <4>2. queued_buffer_count' > 0 => queued_buffer_count' # 0
        BY <4>1
      <4> QED
        BY <4>1, <4>2, Zenon
    <3> QED
      BY <1>0, <1>4, <3>1, <3>2, <3>3 DEF ReadCount, CountInv, Counting, One, TypeOK
  <2> QED
    BY <2>1, <2>2, <2>3, <2>4, <2>5 DEF IInv
<1>5. CASE Account
  <2>1. PICK b \in Bufs, n \in 1..2 :
          /\ b = rbuf /\ n = One(IsBundled) + One(HasCb)
          /\ AddRef(b, n)
    <3>1. rbuf \in Bufs /\ One(IsBundled) + One(HasCb) \in 1..2
      BY <1>1, <1>5 DEF Account, One
    <3> QED
      BY <1>5, <3>1 DEF Account, AddRef
  <2>1a. AddRef(b, n)
    BY <2>1
  <2>2. TypeOK'
    <3>1. in_kernel' \in [Bufs -> BOOLEAN]
      BY <1>0, <1>5 DEF Account, TypeOK
    <3>2. buf_refcnt' \in [Bufs -> 0..255]
      BY <1>0, <2>1a, AddRefAdds
    <3> QED
      BY <1>0, <1>5, <3>1, <3>2 DEF Account, TypeOK
  <2>3. ControlInv' /\ HandsInv' /\ RestInv' /\ DispatchInv'
    BY <1>0, <1>1, <1>5
       DEF Account, ControlInv, HandsInv, RestInv, Still, CallersIdle, DispatchInv
  <2>4. CountInv'
    BY <1>0, <1>5 DEF Account, CountInv, Counting, Queueing, One
  <2>5. ASSUME Counted PROVE PlaceInv' /\ PurposeInv' /\ BudgetInv' /\ ExactInv'
    \* Nobody refers to the buffer yet.
    <3>1. buf_refcnt[b] = 0 /\ b \notin kernel /\ \A t \in Callers : ~OnItsWay(t, b)
      BY <1>0, <1>5, <2>1, <2>5 DEF Account, PlaceInv
    <3>2. /\ \A kind \in Kinds : <<b, kind>> \notin held
          /\ leaked[b] = 0 /\ ~Queued(b) /\ Returning(b) = {}
      BY <2>5, <3>1, NoReferences
    <3>3. \A c \in Bufs : buf_refcnt'[c] = IF c = b THEN n ELSE buf_refcnt[c]
      <4>1. buf_refcnt[b] + n \in 0..255 /\ buf_refcnt[b] + n = n
        BY <3>1
      <4> QED
        BY <1>0, <2>1a, <4>1, AddRefAdds
    <3>4. PlaceInv'
      <4>1. UNCHANGED <<state, kernel, rbuf, pc, at>> /\ rpc' = "chan" /\ rbuf = b
        BY <1>5, <2>1 DEF Account
      <4> QED
        BY <1>0, <3>1, <3>3, <4>1 DEF PlaceInv, OnItsWay
    <3>5. PurposeInv'
      BY <1>0, <1>5, <2>1, <2>5, <3>2 DEF Account, PurposeInv, Queued, Kinds
    <3>6. BudgetInv'
      BY <1>0, <1>5, <2>1, <2>5, <3>2, <3>3 DEF Account, BudgetInv, ToTake, Queued, One, TypeOK
    <3>7. ASSUME NEW c \in Bufs PROVE buf_refcnt'[c] = References(c)'
      <4>1. BeingReturned(c)' = BeingReturned(c) /\ (Queued(c)' <=> Queued(c)) /\ Out(c)' = Out(c)
        BY <1>5 DEF Account, BeingReturned, Queued, Out
      <4>2. ToHandOut(c) = 0 /\ ToHandOut(c)' = IF c = b THEN n ELSE 0
        BY <1>0, <1>5, <2>1 DEF Account, ToHandOut
      <4>3. buf_refcnt[c] = References(c)
        BY <1>0, <2>5 DEF ExactInv
      <4> QED
        BY <1>0, <3>1, <3>3, <4>1, <4>2, <4>3, ReferenceTerms DEF References, One
    <3> QED
      BY <3>4, <3>5, <3>6, <3>7 DEF ExactInv
  <2> QED
    BY <1>5, <2>2, <2>3, <2>4, <2>5
       DEF Account, IInv, PlaceInv, PurposeInv, BudgetInv, ExactInv
<1>6. CASE NotifyChannel
  <2>1. PICK b \in Bufs : b = rbuf
    BY <1>1, <1>6 DEF NotifyChannel
  <2>2. \/ IsBundled /\ held' = held \cup {<<b, "bundle">>} /\ leaked' = leaked
        \/ IsBundled /\ held' = held /\ leaked' = [leaked EXCEPT ![b] = leaked[b] + 1]
        \/ ~IsBundled /\ held' = held /\ leaked' = leaked
    BY <1>6, <2>1 DEF NotifyChannel, HandOut
  <2>3. TypeOK'
    <3>1. held' \in SUBSET (Bufs \X Kinds)
      BY <1>0, <2>2 DEF TypeOK, Kinds
    <3>2. leaked' \in [Bufs -> Nat]
      <4>1. leaked \in [Bufs -> Nat]
        BY <1>0 DEF TypeOK
      <4> QED
        BY <1>0, <2>2, <4>1, Lost
    <3> QED
      BY <1>0, <1>6, <3>1, <3>2 DEF NotifyChannel, TypeOK
  <2>4. ControlInv' /\ HandsInv' /\ RestInv' /\ DispatchInv'
    BY <1>0, <1>1, <1>6
       DEF NotifyChannel, ControlInv, HandsInv, RestInv, Still, CallersIdle, DispatchInv
  <2>5. CountInv'
    BY <1>0, <1>6 DEF NotifyChannel, CountInv, Counting, Queueing, One
  <2>6. PlaceInv'
    BY <1>0, <1>6 DEF NotifyChannel, PlaceInv, OnItsWay
  <2>7. BudgetInv'
    <3>1. \A c \in Bufs : ToTake(c)' = ToTake(c)
      BY <1>6 DEF NotifyChannel, ToTake, Queued
    <3> QED
      BY <1>0, <1>6, <3>1 DEF NotifyChannel, BudgetInv
  <2>8. PurposeInv'
    BY <1>0, <1>6, <2>1, <2>2 DEF NotifyChannel, PurposeInv, Queued
  <2>9. ASSUME Counted, NEW c \in Bufs PROVE buf_refcnt'[c] = References(c)'
    <3>1. BeingReturned(c)' = BeingReturned(c) /\ (Queued(c)' <=> Queued(c))
          /\ buf_refcnt' = buf_refcnt
      BY <1>6 DEF NotifyChannel, BeingReturned, Queued
    <3>2. ToHandOut(c)' = ToHandOut(c) - One(IsBundled /\ c = b)
      BY <1>6, <2>1 DEF NotifyChannel, ToHandOut, One
    <3>3. Out(c)' = Out(c) + One(IsBundled /\ c = b)
      <4>1. <<b, "bundle">> \notin held /\ "bundle" \in Kinds /\ Out(c) \in Nat
        BY <1>0, <1>6, <2>1, <2>9, ReferenceTerms DEF NotifyChannel, PurposeInv, Kinds
      <4>2. CASE held' = held /\ leaked' = leaked /\ ~IsBundled
        BY <4>1, <4>2 DEF Out, One
      <4> QED
        BY <1>0, <2>2, <4>1, <4>2, HandedOut, Lost DEF One
    <3>4. buf_refcnt[c] = References(c)
      BY <1>0, <2>9 DEF ExactInv
    <3> QED
      BY <1>0, <3>1, <3>2, <3>3, <3>4, ReferenceTerms DEF References, One
  <2> QED
    BY <1>6, <2>3, <2>4, <2>5, <2>6, <2>7, <2>8, <2>9 DEF NotifyChannel, IInv, ExactInv
<1>7. CASE NotifyLinked
  <2>1. PICK b \in Bufs : b = rbuf
    BY <1>1, <1>7 DEF NotifyLinked
  <2>2. \/ AddRef(b, 1) /\ held' = held \cup {<<b, "link">>} /\ leaked' = leaked
        \/ AddRef(b, 1) /\ held' = held /\ leaked' = [leaked EXCEPT ![b] = leaked[b] + 1]
        \/ UNCHANGED <<buf_refcnt, held, leaked>>
    BY <1>7, <2>1 DEF NotifyLinked, HandOut, AddRef
  <2>3. TypeOK'
    <3>1. held' \in SUBSET (Bufs \X Kinds)
      BY <1>0, <2>2 DEF TypeOK, Kinds
    <3>2. leaked' \in [Bufs -> Nat]
      <4>1. leaked \in [Bufs -> Nat]
        BY <1>0 DEF TypeOK
      <4> QED
        BY <1>0, <2>2, <4>1, Lost
    <3>3. buf_refcnt' \in [Bufs -> 0..255]
      <4>1. CASE AddRef(b, 1)
        BY <1>0, <4>1, AddRefAdds
      <4>2. CASE UNCHANGED buf_refcnt
        BY <1>0, <4>2 DEF TypeOK
      <4> QED
        BY <2>2, <4>1, <4>2
    <3> QED
      BY <1>0, <1>7, <3>1, <3>2, <3>3 DEF NotifyLinked, TypeOK
  <2>4. ControlInv' /\ HandsInv' /\ RestInv' /\ DispatchInv'
    BY <1>0, <1>1, <1>7
       DEF NotifyLinked, ControlInv, HandsInv, RestInv, Still, CallersIdle, DispatchInv
  <2>5. CountInv'
    BY <1>0, <1>7 DEF NotifyLinked, CountInv, Counting, Queueing, One
  <2>6. ASSUME Counted PROVE PlaceInv' /\ PurposeInv' /\ BudgetInv' /\ ExactInv'
    <3>1. \A c \in Bufs : ToTake(c) = ToTake(c)' + One(c = b) /\ ToTake(c)' \in 0..2
      BY <1>7, <2>1 DEF NotifyLinked, ToTake, Queued, One
    \* The budget leaves room for the reference of the link.
    <3>2. buf_refcnt[b] + 1 \in 0..255
      BY <1>0, <2>6, <3>1, ReferenceTerms DEF BudgetInv, One
    <3>3. PICK d \in 0..1 : \A c \in Bufs :
             /\ buf_refcnt'[c] = IF c = b THEN buf_refcnt[b] + d ELSE buf_refcnt[c]
             /\ Out(c)' = IF c = b THEN Out(b) + d ELSE Out(c)
      <4>1. <<b, "link">> \notin held /\ "link" \in Kinds
        BY <1>0, <1>7, <2>1, <2>6 DEF NotifyLinked, PurposeInv, Kinds
      <4>2. CASE AddRef(b, 1)
                 /\ \/ held' = held \cup {<<b, "link">>} /\ leaked' = leaked
                    \/ held' = held /\ leaked' = [leaked EXCEPT ![b] = leaked[b] + 1]
        <5>1. \A c \in Bufs : Out(c)' = Out(c) + One(c = b)
          BY <1>0, <4>1, <4>2, HandedOut, Lost
        <5> QED
          BY <1>0, <3>2, <4>2, <5>1, AddRefAdds, ReferenceTerms DEF One
      <4>3. CASE UNCHANGED <<buf_refcnt, held, leaked>>
        <5>1. \A c \in Bufs : Out(c)' = Out(c)
          BY <4>3 DEF Out
        <5> QED
          BY <1>0, <4>3, <5>1, ReferenceTerms
      <4> QED
        BY <2>2, <4>2, <4>3
    <3>4. PlaceInv'
      <4>1. UNCHANGED <<state, kernel, rbuf, pc, at>> /\ rpc' = "post" /\ rbuf = b
        BY <1>7, <2>1 DEF NotifyLinked
      <4> QED
        BY <1>0, <3>3, <4>1 DEF PlaceInv, OnItsWay
    <3>5. PurposeInv'
      BY <1>0, <1>7, <2>1, <2>2, <2>6 DEF NotifyLinked, PurposeInv, Queued
    <3>6. BudgetInv'
      BY <1>0, <2>6, <3>1, <3>3, ReferenceTerms DEF BudgetInv, One
    <3>7. ASSUME NEW c \in Bufs PROVE buf_refcnt'[c] = References(c)'
      <4>1. BeingReturned(c)' = BeingReturned(c) /\ (Queued(c)' <=> Queued(c))
            /\ ToHandOut(c)' = ToHandOut(c)
        BY <1>7 DEF NotifyLinked, BeingReturned, Queued, ToHandOut
      <4>2. buf_refcnt[c] = References(c)
        BY <1>0, <2>6 DEF ExactInv
      <4> QED
        BY <1>0, <3>3, <4>1, <4>2, ReferenceTerms DEF References, One
    <3> QED
      BY <3>4, <3>5, <3>6, <3>7 DEF ExactInv
  <2> QED
    BY <1>7, <2>3, <2>4, <2>5, <2>6
       DEF NotifyLinked, IInv, PlaceInv, PurposeInv, BudgetInv, ExactInv
<1>8. CASE PostFrame
  <2>1. PICK b \in Bufs : b = rbuf
    BY <1>1, <1>8 DEF PostFrame
  <2>2. \/ /\ cmd_active /\ cmd_queue' = Append(cmd_queue, b) /\ leaked' = leaked
        \/ /\ cmd_queue' = cmd_queue /\ leaked' = [leaked EXCEPT ![b] = leaked[b] + 1]
    BY <1>8, <2>1 DEF PostFrame
  <2>3. TypeOK'
    <3>1. cmd_queue' \in Seq(Bufs)
      <4>1. cmd_queue \in Seq(Bufs)
        BY <1>0 DEF TypeOK
      <4> QED
        BY <2>2, <4>1
    <3>2. leaked' \in [Bufs -> Nat]
      <4>1. leaked \in [Bufs -> Nat] /\ held' = held
        BY <1>0, <1>8 DEF TypeOK, PostFrame
      <4> QED
        BY <1>0, <2>2, <4>1, Lost
    <3> QED
      BY <1>0, <1>8, <3>1, <3>2 DEF PostFrame, TypeOK
  <2>4. ControlInv' /\ HandsInv' /\ RestInv'
    BY <1>0, <1>1, <1>8 DEF PostFrame, ControlInv, HandsInv, RestInv, Still, CallersIdle
  <2>5. DispatchInv'
    BY <1>0, <1>8, <2>2 DEF PostFrame, DispatchInv
  <2>6. CountInv'
    BY <1>0, <1>8 DEF PostFrame, CountInv, Counting, Queueing, One
  <2>7. ASSUME Counted PROVE PlaceInv' /\ PurposeInv' /\ BudgetInv' /\ ExactInv'
    <3>1. /\ ~Queued(b) /\ cmd_queue \in Seq(Bufs)
          /\ \A i, j \in DOMAIN cmd_queue : cmd_queue[i] = cmd_queue[j] => i = j
      BY <1>0, <1>8, <2>1, <2>7 DEF PostFrame, PurposeInv, TypeOK
    \* The frame is queued, or its reference is lost.
    <3>2. PICK d \in 0..1 : \A c \in Bufs :
             /\ One(Queued(c))' = IF c = b THEN d ELSE One(Queued(c))
             /\ Out(c)' = IF c = b THEN Out(b) + 1 - d ELSE Out(c)
      <4>1. CASE cmd_queue' = Append(cmd_queue, b) /\ leaked' = leaked
        <5>1. \A c : Queued(c)' <=> Queued(c) \/ c = b
          BY <3>1, <4>1, Enqueued
        <5>2. \A c \in Bufs : One(Queued(c))' = IF c = b THEN 1 ELSE One(Queued(c))
          BY <5>1 DEF One
        <5>3. \A c \in Bufs : Out(c)' = Out(c)
          BY <1>8, <4>1 DEF PostFrame, Out
        <5> QED
          BY <1>0, <5>2, <5>3, ReferenceTerms
      <4>2. CASE cmd_queue' = cmd_queue /\ leaked' = [leaked EXCEPT ![b] = leaked[b] + 1]
        <5>1. \A c \in Bufs : Out(c)' = Out(c) + One(c = b)
          BY <1>0, <1>8, <4>2, Lost DEF PostFrame
        <5>2. \A c \in Bufs : One(Queued(c))' = IF c = b THEN 0 ELSE One(Queued(c))
          BY <3>1, <4>2 DEF One, Queued
        <5> QED
          BY <1>0, <5>1, <5>2, ReferenceTerms DEF One
      <4> QED
        BY <2>2, <4>1, <4>2
    <3>3. PlaceInv'
      BY <1>0, <1>1, <1>8 DEF PostFrame, PlaceInv, OnItsWay
    <3>4. PurposeInv'
      <4>1. /\ rpc' = "poll" /\ held' = held /\ <<b, "app">> \notin held
        BY <1>0, <1>8, <2>1, <2>7 DEF PostFrame, PurposeInv
      <4>2. CASE cmd_queue' = Append(cmd_queue, b)
        <5>1. /\ \A c : Queued(c)' <=> Queued(c) \/ c = b
              /\ \A i, j \in DOMAIN cmd_queue' : cmd_queue'[i] = cmd_queue'[j] => i = j
          BY <3>1, <4>2, Enqueued
        <5> QED
          BY <1>0, <2>7, <4>1, <5>1 DEF PurposeInv
      <4>3. CASE cmd_queue' = cmd_queue
        BY <1>0, <2>7, <4>1, <4>3 DEF PurposeInv, Queued
      <4> QED
        BY <2>2, <4>2, <4>3
    <3>5. BudgetInv'
      <4>1. \A c \in Bufs : ToTake(c)' = One(Queued(c))'
        BY <1>1, <1>8 DEF PostFrame, ToTake, One
      <4>2. \A c \in Bufs : ToTake(c) = One(c = b) + One(Queued(c))
        BY <1>8, <2>1 DEF PostFrame, ToTake, One
      <4>3. One(Queued(b)) = 0
        BY <3>1 DEF One
      <4>4. \A c \in Bufs : ToTake(c) \in 0..2 /\ ToTake(c)' \in 0..ToTake(c)
        <5> TAKE c \in Bufs
        <5>1. CASE c = b
          BY <3>2, <4>1, <4>2, <4>3, <5>1 DEF One
        <5>2. CASE c # b
          BY <1>0, <3>2, <4>1, <4>2, <5>2, ReferenceTerms DEF One
        <5> QED
          BY <5>1, <5>2
      <4>5. buf_refcnt' = buf_refcnt /\ \A c \in Bufs : buf_refcnt[c] \in 0..255
        BY <1>0, <1>8, ReferenceTerms DEF PostFrame
      <4> QED
        BY <1>0, <2>7, <4>4, <4>5 DEF BudgetInv
    <3>6. ASSUME NEW c \in Bufs PROVE buf_refcnt'[c] = References(c)'
      <4>1. BeingReturned(c)' = BeingReturned(c) /\ buf_refcnt' = buf_refcnt
        BY <1>8 DEF PostFrame, BeingReturned
      <4>2. ToHandOut(c) = One(c = b) /\ ToHandOut(c)' = 0
        BY <1>1, <1>8, <2>1 DEF PostFrame, ToHandOut, One
      <4>3. buf_refcnt[c] = References(c)
        BY <1>0, <2>7 DEF ExactInv
      <4> QED
        BY <1>0, <3>1, <3>2, <4>1, <4>2, <4>3, ReferenceTerms DEF References, One
    <3> QED
      BY <3>3, <3>4, <3>5, <3>6 DEF ExactInv
  <2> QED
    BY <1>8, <2>3, <2>4, <2>5, <2>6, <2>7
       DEF PostFrame, IInv, PlaceInv, PurposeInv, BudgetInv, ExactInv
<1> QED
  BY <1>2, <1>3, <1>4, <1>5, <1>6, <1>7, <1>8 DEF Reader
-----------------------------------------------------------------------------
(* The steps of the callers of mm_stream_buf_done() *)

LEMMA DispatchStep ==
  ASSUME HasCb, IInv, DispatchAppData
  PROVE  IInv'
<1> USE DEF control, cmd, driver, counts, reader, callers, Counted, Goto
<1>0. TypeOK /\ ControlInv /\ HandsInv /\ RestInv /\ PlaceInv /\ PurposeInv /\ BudgetInv
      /\ ExactInv /\ CountInv /\ DispatchInv
  BY DEF IInv
\* There is work for the command thread only while the stream is active.
<1>1. state = "ACTIVE" /\ cmd_active /\ cmd_queue \in Seq(Bufs)
  BY <1>0 DEF DispatchAppData, DispatchInv, ControlInv, TypeOK
<1>2. \A i, j \in DOMAIN cmd_queue : cmd_queue[i] = cmd_queue[j] => i = j
  BY <1>0, <1>1 DEF PurposeInv
<1>3. PICK b \in Bufs : b = Head(cmd_queue)
  BY <1>1 DEF DispatchAppData
<1>4. /\ Worker \in Callers /\ pc[Worker] = "idle"
      /\ pc' = [pc EXCEPT ![Worker] = "check"] /\ at' = [at EXCEPT ![Worker] = b]
      /\ AddRef(b, 1) /\ held' = held \cup {<<b, "app">>} /\ leaked' = leaked
      /\ cmd_queue # <<>> /\ cmd_queue' = Tail(cmd_queue)
  BY <1>3 DEF DispatchAppData, Callers, AddRef
<1>5. /\ cmd_queue' \in Seq(Bufs) /\ Queued(b)
      /\ \A c : Queued(c)' <=> Queued(c) /\ c # b
      /\ \A i, j \in DOMAIN cmd_queue' : cmd_queue'[i] = cmd_queue'[j] => i = j
  BY <1>1, <1>2, <1>3, <1>4, Dequeued
<1>6. <<b, "app">> \notin held /\ "app" \in Kinds
  BY <1>0, <1>1, <1>5 DEF PurposeInv, Kinds
\* The frame in the queue is a reference, and the budget leaves room for one more.
<1>7. buf_refcnt[b] >= 1 /\ buf_refcnt[b] + 1 \in 0..255
  <2>1. One(Queued(b)) = 1 /\ ToTake(b) >= 1
    BY <1>5 DEF One, ToTake
  <2>2. ToTake(b) \in 0..3 /\ buf_refcnt[b] + ToTake(b) <= 4 /\ buf_refcnt[b] = References(b)
    BY <1>0, <1>1 DEF BudgetInv, ExactInv, ToTake, One
  <2> QED
    BY <1>0, <2>1, <2>2, ReferenceTerms DEF References
<1>8. \A c \in Bufs : buf_refcnt'[c] = IF c = b THEN buf_refcnt[b] + 1 ELSE buf_refcnt[c]
  BY <1>0, <1>4, <1>7, AddRefAdds
<1>9. TypeOK'
  <2>1. buf_refcnt' \in [Bufs -> 0..255]
    BY <1>0, <1>4, AddRefAdds
  <2>2. held' \in SUBSET (Bufs \X Kinds)
    BY <1>0, <1>4, <1>6 DEF TypeOK
  <2>3. /\ pc' \in [Callers -> {"idle", "check", "dec", "qcount", "ioctl", "fail", "mark"}]
        /\ at' \in [Callers -> Bufs \cup {NoBuf}]
    BY <1>0, <1>4 DEF TypeOK
  <2> QED
    BY <1>0, <1>5, <2>1, <2>2, <2>3 DEF DispatchAppData, TypeOK
<1>10. ControlInv' /\ DispatchInv'
  BY <1>0, <1>1 DEF DispatchAppData, ControlInv, DispatchInv
<1>11. HandsInv'
  <2>1. \A t \in Callers : at'[t] = NoBuf <=> pc'[t] = "idle"
    BY <1>0, <1>4, MmStreamAssumption DEF HandsInv, TypeOK
  <2> QED
    BY <1>0, <1>4, <2>1, CallersStayFinite DEF DispatchAppData, HandsInv
<1>12. RestInv'
  BY <1>1 DEF DispatchAppData, RestInv
<1>13. PlaceInv'
  <2>1. UNCHANGED <<state, kernel, rbuf, rpc>>
    BY DEF DispatchAppData
  <2>2. \A t \in Callers, c \in Bufs : OnItsWay(t, c)' <=> OnItsWay(t, c)
    BY <1>0, <1>4 DEF OnItsWay, TypeOK
  <2> QED
    BY <1>0, <1>7, <1>8, <2>1, <2>2 DEF PlaceInv
<1>14. PurposeInv'
  BY <1>0, <1>1, <1>4, <1>5 DEF DispatchAppData, PurposeInv
<1>15. BudgetInv'
  <2>1. \A c \in Bufs : ToTake(c)' = ToTake(c) - One(c = b) /\ ToTake(c) \in 0..3
    BY <1>5 DEF DispatchAppData, ToTake, One
  <2> QED
    <3>1. \A c \in Bufs : buf_refcnt[c] + ToTake(c) <= 4 /\ buf_refcnt[c] \in 0..255
      BY <1>0, <1>1, ReferenceTerms DEF BudgetInv
    <3>2. \A c \in Bufs : buf_refcnt'[c] + ToTake(c)' = buf_refcnt[c] + ToTake(c)
      BY <1>8, <2>1, <3>1 DEF One
    <3> QED
      BY <3>1, <3>2 DEF BudgetInv
<1>16. ASSUME NEW c \in Bufs PROVE buf_refcnt'[c] = References(c)'
  <2>1. BeingReturned(c)' = BeingReturned(c) + One(c = b)
    BY <1>0, <1>4, ReturnBegins
  <2>2. Out(c)' = Out(c) + One(c = b)
    BY <1>0, <1>4, <1>6, HandedOut
  <2>3. One(Queued(c))' = One(Queued(c)) - One(c = b)
    BY <1>5 DEF One
  <2>4. ToHandOut(c)' = ToHandOut(c)
    BY DEF DispatchAppData, ToHandOut
  <2>5. buf_refcnt[c] = References(c)
    BY <1>0, <1>1 DEF ExactInv
  <2> QED
    BY <1>0, <1>8, <2>1, <2>2, <2>3, <2>4, <2>5, ReferenceTerms DEF References, One
<1>17. CountInv'
  <2>1. Queueing' = Queueing
    BY <1>0, <1>4 DEF Queueing, TypeOK
  <2> QED
    BY <1>0, <2>1 DEF DispatchAppData, CountInv, Counting
<1> QED
  BY <1>9, <1>10, <1>11, <1>12, <1>13, <1>14, <1>15, <1>16, <1>17 DEF IInv, ExactInv

LEMMA QbufStep ==
  ASSUME HasCb, IInv, NEW u \in Users, NEW b \in Bufs, NEW kind \in Kinds, Qbuf(u, b, kind)
  PROVE  IInv'
<1> USE DEF control, cmd, driver, counts, reader, callers, Counted, Goto
<1>0. TypeOK /\ ControlInv /\ HandsInv /\ RestInv /\ PlaceInv /\ PurposeInv /\ BudgetInv
      /\ ExactInv /\ CountInv /\ DispatchInv
  BY DEF IInv
<1>1. u \in Callers /\ u # Worker /\ pc[u] = "idle" /\ <<b, kind>> \in held
      /\ held' = held \ {<<b, kind>>}
  BY MmStreamAssumption DEF Qbuf, Callers
<1>2. CASE state = "ACTIVE"
  <2>1. /\ pc' = [pc EXCEPT ![u] = "check"] /\ at' = [at EXCEPT ![u] = b]
        /\ UNCHANGED <<control, is_linked, cmd, entry, driver, counts, leaked, reader>>
    BY <1>2 DEF Qbuf
  <2>2. TypeOK'
    <3>1. /\ pc' \in [Callers -> {"idle", "check", "dec", "qcount", "ioctl", "fail", "mark"}]
          /\ at' \in [Callers -> Bufs \cup {NoBuf}]
      BY <1>0, <2>1 DEF TypeOK
    <3> QED
      BY <1>0, <1>1, <2>1, <3>1 DEF TypeOK
  <2>3. ControlInv' /\ RestInv'
    BY <1>0, <1>2, <2>1 DEF ControlInv, RestInv
  <2>4. DispatchInv'
    BY <1>0, <1>1, <2>1 DEF DispatchInv, TypeOK
  <2>5. HandsInv'
    <3>1. \A t \in Callers : at'[t] = NoBuf <=> pc'[t] = "idle"
      BY <1>0, <2>1, MmStreamAssumption DEF HandsInv, TypeOK
    <3> QED
      BY <1>0, <1>1, <2>1, <3>1, CallersStayFinite DEF HandsInv
  <2>6. PlaceInv'
    <3>1. \A t \in Callers, c \in Bufs : OnItsWay(t, c)' <=> OnItsWay(t, c)
      BY <1>0, <1>1, <2>1 DEF OnItsWay, TypeOK
    <3> QED
      BY <1>0, <2>1, <3>1 DEF PlaceInv
  <2>7. PurposeInv' /\ BudgetInv'
    BY <1>0, <1>1, <2>1 DEF PurposeInv, BudgetInv, ToTake, Queued
  <2>8. ASSUME NEW c \in Bufs PROVE buf_refcnt'[c] = References(c)'
    <3>1. BeingReturned(c)' = BeingReturned(c) + One(c = b)
      BY <1>0, <1>1, <2>1, ReturnBegins
    <3>2. Out(c)' = Out(c) - One(c = b)
      BY <1>0, <1>1, <2>1, GivenBack
    <3>3. UNCHANGED <<buf_refcnt, ToHandOut(c), One(Queued(c))>>
      BY <2>1 DEF ToHandOut, Queued
    <3>4. buf_refcnt[c] = References(c)
      BY <1>0, <1>2 DEF ExactInv
    <3> QED
      BY <1>0, <3>1, <3>2, <3>3, <3>4, ReferenceTerms DEF References, One
  <2>9. CountInv'
    <3>1. Queueing' = Queueing
      BY <1>0, <1>1, <2>1 DEF Queueing, TypeOK
    <3> QED
      BY <1>0, <2>1, <3>1 DEF CountInv, Counting
  <2> QED
    BY <2>2, <2>3, <2>4, <2>5, <2>6, <2>7, <2>8, <2>9 DEF IInv, ExactInv
\* Refused: the reference is lost.
<1>3. CASE state # "ACTIVE"
  <2>1. /\ leaked' = [leaked EXCEPT ![b] = leaked[b] + 1]
        /\ UNCHANGED <<control, is_linked, cmd, entry, driver, counts, callers, reader>>
    BY <1>3 DEF Qbuf
  <2>2. TypeOK'
    <3>1. leaked' \in [Bufs -> Nat] /\ held' \in SUBSET (Bufs \X Kinds)
      BY <1>0, <1>1, <2>1 DEF TypeOK
    <3> QED
      BY <1>0, <2>1, <3>1 DEF TypeOK
  <2>3. ControlInv' /\ HandsInv' /\ DispatchInv'
    BY <1>0, <2>1 DEF ControlInv, HandsInv, DispatchInv
  <2>4. RestInv'
    BY <1>0, <1>1, <2>1 DEF RestInv, Still, CallersIdle
  <2>5. PlaceInv' /\ PurposeInv' /\ BudgetInv'
    <3>1. PlaceInv'
      BY <1>0, <2>1 DEF PlaceInv, OnItsWay
    <3>2. PurposeInv'
      BY <1>0, <1>1, <2>1 DEF PurposeInv, Queued
    <3>3. BudgetInv'
      BY <1>0, <2>1 DEF BudgetInv, ToTake, Queued
    <3> QED
      BY <3>1, <3>2, <3>3
  <2>6. ASSUME Counted, NEW c \in Bufs PROVE buf_refcnt'[c] = References(c)'
    <3>1. Out(c)' = Out(c)
      <4>1. \A k : <<c, k>> \in held' <=> <<c, k>> \in held /\ ~(c = b /\ k = kind)
        BY <1>1
      <4>2. leaked[c] \in Nat /\ leaked'[c] = leaked[c] + One(c = b)
        BY <1>0, <2>1 DEF TypeOK, One
      <4>3. kind = "bundle" \/ kind = "link" \/ kind = "app"
        BY DEF Kinds
      <4> QED
        BY <1>1, <4>1, <4>2, <4>3 DEF Out, One
    <3>2. UNCHANGED <<buf_refcnt, ToHandOut(c), One(Queued(c)), BeingReturned(c)>>
      BY <2>1 DEF ToHandOut, Queued, BeingReturned
    <3> QED
      BY <1>0, <2>6, <3>1, <3>2 DEF ExactInv, References
  <2>7. CountInv'
    BY <1>0, <2>1 DEF CountInv, Counting, Queueing
  <2> QED
    BY <2>1, <2>2, <2>3, <2>4, <2>5, <2>6, <2>7 DEF IInv, ExactInv
<1> QED
  BY <1>2, <1>3

\* What every step of mm_stream_buf_done() leaves in force.
LEMMA CallerGoesOn ==
  ASSUME IInv, NEW t \in Callers, pc[t] # "idle",
         NEW l \in {"idle", "dec", "qcount", "ioctl", "fail", "mark"},
         pc' = [pc EXCEPT ![t] = l],
         at' = IF l = "idle" THEN [at EXCEPT ![t] = NoBuf] ELSE at,
         UNCHANGED <<control, is_linked, cmd, requested, streaming, held, leaked, reader>>,
         kernel' = kernel \/ requested
  PROVE  /\ pc' \in [Callers -> {"idle", "check", "dec", "qcount", "ioctl", "fail", "mark"}]
         /\ at' \in [Callers -> Bufs \cup {NoBuf}] /\ at[t] \in Bufs
         /\ ControlInv' /\ HandsInv' /\ RestInv' /\ PurposeInv' /\ DispatchInv'
<1> USE DEF control, cmd, reader, Counted
<1>0. TypeOK /\ ControlInv /\ HandsInv /\ RestInv /\ PurposeInv /\ DispatchInv
  BY DEF IInv
<1>1. /\ pc' \in [Callers -> {"idle", "check", "dec", "qcount", "ioctl", "fail", "mark"}]
      /\ at' \in [Callers -> Bufs \cup {NoBuf}]
  BY <1>0 DEF TypeOK
<1>2. at[t] \in Bufs
  BY <1>0 DEF TypeOK, HandsInv
<1>3. ControlInv'
  BY <1>0 DEF ControlInv
<1>4. HandsInv'
  <2>1. \A c \in Callers : at'[c] = NoBuf <=> pc'[c] = "idle"
    BY <1>0, <1>2, MmStreamAssumption DEF HandsInv, TypeOK
  <2> QED
    BY <1>0, <2>1, CallersStayFinite DEF HandsInv
\* A caller is at work: the stream is not at rest.
<1>5. RestInv'
  BY <1>0 DEF RestInv, Still, CallersIdle
<1>6. PurposeInv'
  BY <1>0 DEF PurposeInv, Queued
<1>7. DispatchInv'
  BY <1>0 DEF DispatchInv, TypeOK
<1> QED
  BY <1>1, <1>2, <1>3, <1>4, <1>5, <1>6, <1>7

\* What it leaves in force unless the references or the kernel's buffers change.
LEMMA CallerMoves ==
  ASSUME IInv, NEW t \in Callers, pc[t] # "idle",
         NEW l \in {"idle", "dec", "ioctl", "fail", "mark"},
         l \in {"ioctl", "fail"} => pc[t] \in {"qcount", "ioctl"},
         pc' = [pc EXCEPT ![t] = l],
         at' = IF l = "idle" THEN [at EXCEPT ![t] = NoBuf] ELSE at,
         UNCHANGED <<state, buf_refcnt, held, leaked, cmd_queue, reader>>
  PROVE  /\ kernel' = kernel => PlaceInv'
         /\ BudgetInv'
         /\ (pc[t] \in {"check", "dec"} <=> l \in {"check", "dec"}) => ExactInv'
<1> USE DEF reader, Counted
<1>0. TypeOK /\ PlaceInv /\ BudgetInv /\ ExactInv /\ HandsInv
  BY DEF IInv
<1>1. ASSUME kernel' = kernel PROVE PlaceInv'
  <2>1. \A c \in Callers, b \in Bufs : OnItsWay(c, b)' => OnItsWay(c, b)
    BY <1>0, MmStreamAssumption DEF OnItsWay, TypeOK
  <2> QED
    BY <1>0, <1>1, <2>1 DEF PlaceInv
<1>2. BudgetInv'
  BY <1>0 DEF BudgetInv, ToTake, Queued
<1>3. ASSUME pc[t] \in {"check", "dec"} <=> l \in {"check", "dec"} PROVE ExactInv'
  <2>1. \A b \in Bufs : BeingReturned(b)' = BeingReturned(b)
    <3>1. CASE l = "dec"
      BY <1>0, <1>3, <3>1, ReturnGoesOn
    <3>2. CASE l # "dec"
      <4>1. /\ pc[t] \notin {"check", "dec"} /\ l \notin {"check", "dec"}
            /\ at' = at \/ at' = [at EXCEPT ![t] = NoBuf]
        BY <1>3, <3>2
      <4> QED
        BY <1>0, <4>1, ReturnGoesOn
    <3> QED
      BY <3>1, <3>2
  <2>2. \A b \in Bufs : References(b)' = References(b)
    BY <2>1 DEF References, Out, Queued, ToHandOut
  <2> QED
    BY <1>0, <2>2 DEF ExactInv
<1> QED
  BY <1>1, <1>2, <1>3

LEMMA CallerStep ==
  ASSUME HasCb, IInv, NEW t \in Callers, BufDone(t)
  PROVE  IInv'
<1> USE DEF control, cmd, driver, counts, reader, callers, Counted, Goto, Return
<1>0. TypeOK /\ ControlInv /\ HandsInv /\ RestInv /\ PlaceInv /\ PurposeInv /\ BudgetInv
      /\ ExactInv /\ CountInv /\ DispatchInv
  BY DEF IInv
<1>1. /\ Cardinality(Queueing) \in Nat /\ Cardinality(kernel) \in Nat
      /\ IsFiniteSet(kernel) /\ queued_buffer_count \in Int
  BY <1>0, CallersCount, MmStreamAssumption, FS_Subset, FS_CardinalityType DEF TypeOK
<1>2. pc[t] # "idle" => at[t] \in Bufs
  BY <1>0 DEF TypeOK, HandsInv
<1>3. CASE CheckRef(t)
  <2>1. PICK l \in {"idle", "dec"} :
          /\ pc' = [pc EXCEPT ![t] = l]
          /\ at' = IF l = "idle" THEN [at EXCEPT ![t] = NoBuf] ELSE at
          /\ l = "idle" => buf_refcnt[at[t]] = 0
    BY <1>3 DEF CheckRef
  <2>2. pc[t] = "check"
        /\ UNCHANGED <<control, is_linked, cmd, entry, driver, counts, held, leaked, reader>>
    BY <1>3 DEF CheckRef
  <2>3. /\ pc' \in [Callers -> {"idle", "check", "dec", "qcount", "ioctl", "fail", "mark"}]
        /\ at' \in [Callers -> Bufs \cup {NoBuf}]
        /\ ControlInv' /\ HandsInv' /\ RestInv' /\ PurposeInv' /\ DispatchInv'
    BY <2>1, <2>2, CallerGoesOn
  <2>4. TypeOK'
    BY <1>0, <2>2, <2>3 DEF TypeOK
  \* It finds the reference it gives back, unless the counters are out of force.
  <2>5. Counted => l = "dec"
    <3> SUFFICES ASSUME Counted, buf_refcnt[at[t]] = 0 PROVE FALSE
      BY <2>1
    <3>1. PICK b \in Bufs : b = at[t]
      BY <1>2, <2>2
    <3>2. t \in Returning(b)
      BY <2>2, <3>1 DEF Returning
    <3> QED
      BY <3>1, <3>2, NoReferences
  <2>6. PlaceInv' /\ BudgetInv' /\ (l = "dec" => ExactInv')
    BY <2>1, <2>2, CallerMoves
  <2>7. ExactInv'
    BY <2>2, <2>5, <2>6 DEF ExactInv
  <2>8. CountInv'
    <3>1. Queueing' = Queueing
      BY <1>0, <2>1, <2>2 DEF Queueing, TypeOK
    <3> QED
      BY <1>0, <2>2, <3>1 DEF CountInv, Counting
  <2> QED
    BY <2>3, <2>4, <2>6, <2>7, <2>8 DEF IInv
<1>4. CASE DecRef(t)
  <2>1. PICK b \in Bufs, l \in {"idle", "qcount"} :
          /\ b = at[t] /\ AddRef(b, -1)
          /\ l = "qcount" <=> buf_refcnt'[b] = 0
          /\ pc' = [pc EXCEPT ![t] = l]
          /\ at' = IF l = "idle" THEN [at EXCEPT ![t] = NoBuf] ELSE at
    BY <1>2, <1>4 DEF DecRef, AddRef
  <2>2. pc[t] = "dec"
        /\ UNCHANGED <<control, is_linked, cmd, entry, driver, queued_buffer_count, in_kernel,
                       held, leaked, reader>>
    BY <1>4 DEF DecRef
  <2>3. /\ pc' \in [Callers -> {"idle", "check", "dec", "qcount", "ioctl", "fail", "mark"}]
        /\ at' \in [Callers -> Bufs \cup {NoBuf}]
        /\ ControlInv' /\ HandsInv' /\ RestInv' /\ PurposeInv' /\ DispatchInv'
    BY <2>1, <2>2, CallerGoesOn
  <2>4. TypeOK'
    <3>1. buf_refcnt' \in [Bufs -> 0..255]
      BY <1>0, <2>1, AddRefAdds
    <3> QED
      BY <1>0, <2>2, <2>3, <3>1 DEF TypeOK
  <2>5. ASSUME Counted PROVE PlaceInv' /\ BudgetInv' /\ ExactInv'
    <3>1. \A c \in Bufs : buf_refcnt[c] = References(c)
      BY <1>0, <2>5 DEF ExactInv
    <3>2. BeingReturned(b) >= 1 /\ BeingReturned(b) \in Nat
      <4>1. t \in Returning(b)
        BY <2>1, <2>2 DEF Returning
      <4> QED
        BY <1>0, <4>1, CallersCount
    <3>3. buf_refcnt[b] >= 1 + ToHandOut(b)
      BY <1>0, <3>1, <3>2, ReferenceTerms DEF References
    <3>4. \A c \in Bufs : buf_refcnt'[c] = IF c = b THEN buf_refcnt[b] - 1 ELSE buf_refcnt[c]
      <4>1. buf_refcnt[b] + (-1) = buf_refcnt[b] - 1 /\ buf_refcnt[b] - 1 \in 0..255
        BY <1>0, <3>3, ReferenceTerms
      <4>2. AddRef(b, -1)
        BY <2>1
      <4> QED
        BY <1>0, <4>1, <4>2, AddRefAdds
    <3>5. PlaceInv'
      \* The last reference: the reader does not have the buffer, for it would still
      \* have the callback's reference to hand out.
      <4>1. rbuf = b => buf_refcnt[b] - 1 > 0
        <5>1. rbuf = b => rpc \notin {"poll", "dqbuf"}
          BY <1>0, MmStreamAssumption DEF HandsInv
        <5>2. rbuf = b => ToHandOut(b) >= 1
          BY <1>0, <2>5, <3>3, <5>1, ReferenceTerms DEF PlaceInv, ToHandOut, One, TypeOK
        <5> QED
          BY <1>0, <3>3, <5>2, ReferenceTerms
      <4>2. b \notin kernel /\ \A u \in Callers : ~OnItsWay(u, b)
        BY <1>0, <2>5, <3>3, ReferenceTerms DEF PlaceInv
      <4>3. \A u \in Callers, c \in Bufs :
              OnItsWay(u, c)' => OnItsWay(u, c) \/ (u = t /\ c = b /\ buf_refcnt'[b] = 0)
        BY <1>0, <2>1, <2>2, MmStreamAssumption DEF OnItsWay, TypeOK
      <4> QED
        BY <1>0, <2>2, <2>5, <3>3, <3>4, <4>1, <4>2, <4>3, ReferenceTerms DEF PlaceInv
    <3>6. BudgetInv'
      <4>1. \A c \in Bufs : ToTake(c)' = ToTake(c) /\ ToTake(c) \in 0..3
        BY <2>2 DEF ToTake, Queued, One
      <4> QED
        BY <1>0, <2>5, <3>4, <4>1, ReferenceTerms DEF BudgetInv
    <3>7. ASSUME NEW c \in Bufs PROVE buf_refcnt'[c] = References(c)'
      <4>1. BeingReturned(c)' = BeingReturned(c) - One(c = b)
        <5>1. l \notin {"check", "dec"} /\ pc' = [pc EXCEPT ![t] = l]
              /\ at' \in {at, [at EXCEPT ![t] = NoBuf]}
          BY <2>1
        <5> QED
          BY <1>0, <2>1, <2>2, <5>1, ReturnEnds
      <4>2. UNCHANGED <<Out(c), ToHandOut(c), One(Queued(c))>>
        BY <2>2 DEF Out, ToHandOut, Queued
      <4> QED
        BY <1>0, <3>1, <3>4, <4>1, <4>2, ReferenceTerms DEF References, One
    <3> QED
      BY <3>5, <3>6, <3>7 DEF ExactInv
  <2>6. CountInv'
    <3>1. Queueing' = Queueing
      BY <1>0, <2>1, <2>2 DEF Queueing, TypeOK
    <3> QED
      BY <1>0, <2>2, <3>1 DEF CountInv, Counting
  <2> QED
    BY <2>2, <2>3, <2>4, <2>5, <2>6 DEF IInv, PlaceInv, BudgetInv, ExactInv
<1>5. CASE QbufCount(t)
  <2>1. /\ pc[t] = "qcount" /\ pc' = [pc EXCEPT ![t] = "ioctl"] /\ at' = at
        /\ queued_buffer_count' = queued_buffer_count + 1
        /\ entry' = (entry \/ queued_buffer_count' = 1)
        /\ UNCHANGED <<control, is_linked, cmd, driver, buf_refcnt, in_kernel, held, leaked,
                      reader>>
    BY <1>5 DEF QbufCount
  <2>2. /\ pc' \in [Callers -> {"idle", "check", "dec", "qcount", "ioctl", "fail", "mark"}]
        /\ at' \in [Callers -> Bufs \cup {NoBuf}]
        /\ ControlInv' /\ HandsInv' /\ RestInv' /\ PurposeInv' /\ DispatchInv'
    BY <2>1, CallerGoesOn
  <2>3. TypeOK'
    <3>1. queued_buffer_count' \in Int /\ entry' \in BOOLEAN
      BY <1>0, <2>1 DEF TypeOK
    <3> QED
      BY <1>0, <2>1, <2>2, <3>1 DEF TypeOK
  <2>4. PlaceInv' /\ BudgetInv' /\ ExactInv'
    BY <2>1, CallerMoves
  <2>5. CountInv'
    <3>1. Cardinality(Queueing') = Cardinality(Queueing) + 1
      BY <1>0, <2>1, QueueingSteps
    <3>2. entry \/ queued_buffer_count' = 1 => entry'
      BY <2>1
    <3> QED
      BY <1>0, <1>1, <2>1, <3>1, <3>2 DEF CountInv, Counting, One
  <2> QED
    BY <2>2, <2>3, <2>4, <2>5 DEF IInv
<1>6. CASE QbufCacheFail(t) \/ MarkInKernel(t)
  <2>1. /\ pc[t] \in {"qcount", "mark"}
        /\ pc' = [pc EXCEPT ![t] = "idle"] /\ at' = [at EXCEPT ![t] = NoBuf]
        /\ UNCHANGED <<control, is_linked, cmd, entry, driver, queued_buffer_count,
                      buf_refcnt, held, leaked, reader>>
    BY <1>6 DEF QbufCacheFail, MarkInKernel
  <2>2. /\ pc' \in [Callers -> {"idle", "check", "dec", "qcount", "ioctl", "fail", "mark"}]
        /\ at' \in [Callers -> Bufs \cup {NoBuf}]
        /\ ControlInv' /\ HandsInv' /\ RestInv' /\ PurposeInv' /\ DispatchInv'
    BY <2>1, CallerGoesOn
  <2>3. TypeOK'
    <3>1. in_kernel' \in [Bufs -> BOOLEAN]
      BY <1>0, <1>6 DEF QbufCacheFail, MarkInKernel, TypeOK
    <3> QED
      BY <1>0, <2>1, <2>2, <3>1 DEF TypeOK
  <2>4. PlaceInv' /\ BudgetInv' /\ ExactInv'
    BY <2>1, CallerMoves
  <2>5. CountInv'
    <3>1. Queueing' = Queueing
      BY <1>0, <2>1 DEF Queueing, TypeOK
    <3> QED
      BY <1>0, <2>1, <3>1 DEF CountInv, Counting
  <2> QED
    BY <2>2, <2>3, <2>4, <2>5 DEF IInv
<1>7. CASE QbufIoctl(t)
  <2>1. PICK b \in Bufs : b = at[t]
    BY <1>2, <1>7 DEF QbufIoctl
  <2>2. /\ pc[t] = "ioctl" /\ pc' = [pc EXCEPT ![t] = "mark"] /\ at' = at
        /\ requested /\ kernel' = kernel \cup {b}
        /\ UNCHANGED <<control, is_linked, cmd, entry, requested, streaming, counts, held,
                      leaked, reader>>
    BY <1>7, <2>1 DEF QbufIoctl
  <2>3. /\ pc' \in [Callers -> {"idle", "check", "dec", "qcount", "ioctl", "fail", "mark"}]
        /\ at' \in [Callers -> Bufs \cup {NoBuf}]
        /\ ControlInv' /\ HandsInv' /\ RestInv' /\ PurposeInv' /\ DispatchInv'
    BY <2>2, CallerGoesOn
  <2>4. TypeOK'
    <3>1. kernel' \in SUBSET Bufs
      BY <1>0, <2>2 DEF TypeOK
    <3> QED
      BY <1>0, <2>2, <2>3, <3>1 DEF TypeOK
  <2>5. BudgetInv' /\ ExactInv'
    BY <2>2, CallerMoves
  <2>6. ASSUME Counted
        PROVE  b \notin kernel /\ buf_refcnt[b] = 0 /\ rbuf # b
               /\ \A u \in Callers : OnItsWay(u, b) => u = t
    <3>1. OnItsWay(t, b)
      BY <2>1, <2>2 DEF OnItsWay
    <3> QED
      BY <1>0, <2>6, <3>1 DEF PlaceInv
  <2>7. PlaceInv'
    <3>1. \A u \in Callers, c \in Bufs : OnItsWay(u, c)' => OnItsWay(u, c) /\ u # t
      BY <1>0, <2>2 DEF OnItsWay, TypeOK
    <3> QED
      BY <1>0, <2>2, <2>6, <3>1 DEF PlaceInv
  <2>8. CountInv'
    <3>1. Cardinality(Queueing') = Cardinality(Queueing) - 1
      <4>1. pc[t] \in {"ioctl", "fail"} /\ pc' = [pc EXCEPT ![t] = "mark"]
        BY <2>2
      <4>2. "mark" \notin {"ioctl", "fail"}
        OBVIOUS
      <4> QED
        BY <1>0, <4>1, <4>2, QueueingSteps
    <3>2. Counting => Counted
      BY <1>0 DEF ControlInv, Counting, TypeOK
    <3>3. Counting => Cardinality(kernel') = Cardinality(kernel) + 1
      BY <1>1, <2>2, <2>6, <3>2, OneMore
    <3> QED
      BY <1>0, <1>1, <2>2, <3>1, <3>3 DEF CountInv, Counting, One
  <2> QED
    BY <2>3, <2>4, <2>5, <2>7, <2>8 DEF IInv
<1>8. CASE QbufIoctlFail(t)
  <2>1. /\ pc[t] = "ioctl" /\ pc' = [pc EXCEPT ![t] = "fail"] /\ at' = at
        /\ UNCHANGED <<control, is_linked, cmd, entry, driver, counts, held, leaked, reader>>
    BY <1>8 DEF QbufIoctlFail
  <2>2. /\ pc' \in [Callers -> {"idle", "check", "dec", "qcount", "ioctl", "fail", "mark"}]
        /\ at' \in [Callers -> Bufs \cup {NoBuf}]
        /\ ControlInv' /\ HandsInv' /\ RestInv' /\ PurposeInv' /\ DispatchInv'
    BY <2>1, CallerGoesOn
  <2>3. TypeOK'
    BY <1>0, <2>1, <2>2 DEF TypeOK
  <2>4. PlaceInv' /\ BudgetInv' /\ ExactInv'
    BY <2>1, CallerMoves
  <2>5. CountInv'
    <3>1. Queueing' = Queueing
      BY <1>0, <2>1 DEF Queueing, TypeOK
    <3> QED
      BY <1>0, <2>1, <3>1 DEF CountInv, Counting
  <2> QED
    BY <2>2, <2>3, <2>4, <2>5 DEF IInv
<1>9. CASE QbufUndo(t)
  <2>1. /\ pc[t] = "fail" /\ pc' = [pc EXCEPT ![t] = "idle"]
        /\ at' = [at EXCEPT ![t] = NoBuf]
        /\ queued_buffer_count' = queued_buffer_count - 1
        /\ entry' = (entry /\ queued_buffer_count' # 0)
        /\ UNCHANGED <<control, is_linked, cmd, driver, buf_refcnt, in_kernel, held, leaked,
                      reader>>
    BY <1>9 DEF QbufUndo
  <2>2. /\ pc' \in [Callers -> {"idle", "check", "dec", "qcount", "ioctl", "fail", "mark"}]
        /\ at' \in [Callers -> Bufs \cup {NoBuf}]
        /\ ControlInv' /\ HandsInv' /\ RestInv' /\ PurposeInv' /\ DispatchInv'
    BY <2>1, CallerGoesOn
  <2>3. TypeOK'
    <3>1. queued_buffer_count' \in Int /\ entry' \in BOOLEAN
      BY <1>0, <2>1 DEF TypeOK
    <3> QED
      BY <1>0, <2>1, <2>2, <3>1 DEF TypeOK
  <2>4. PlaceInv' /\ BudgetInv' /\ ExactInv'
    BY <2>1, CallerMoves
  <2>5. CountInv'
    <3>1. Cardinality(Queueing') = Cardinality(Queueing) - 1
      <4>1. pc[t] \in {"ioctl", "fail"} /\ pc' = [pc EXCEPT ![t] = "idle"]
        BY <2>1
      <4>2. "idle" \notin {"ioctl", "fail"}
        OBVIOUS
      <4> QED
        BY <1>0, <4>1, <4>2, QueueingSteps
    <3>2. entry /\ queued_buffer_count' # 0 => entry'
      BY <2>1
    <3> QED
      BY <1>0, <1>1, <2>1, <3>1, <3>2 DEF CountInv, Counting, One
  <2> QED
    BY <2>2, <2>3, <2>4, <2>5 DEF IInv
<1> QED
  BY <1>3, <1>4, <1>5, <1>6, <1>7, <1>8, <1>9 DEF BufDone
-----------------------------------------------------------------------------
(* The theorems *)

LEMMA InitInv == HasCb /\ Init => IInv
<1> SUFFICES ASSUME HasCb, Init PROVE IInv
  OBVIOUS
<1> USE DEF Init
<1>1. TypeOK
  <2>1. LinkedAtStart \in BOOLEAN /\ 0 \in 0..MaxSessions
    BY MmStreamAssumption
  <2>2. /\ buf_refcnt \in [Bufs -> 0..255] /\ in_kernel \in [Bufs -> BOOLEAN]
        /\ leaked \in [Bufs -> Nat] /\ at \in [Callers -> Bufs \cup {NoBuf}]
        /\ pc \in [Callers -> {"idle", "check", "dec", "qcount", "ioctl", "fail", "mark"}]
    OBVIOUS
  <2>3. cmd_queue \in Seq(Bufs) /\ kernel \in SUBSET Bufs /\ held \in SUBSET (Bufs \X Kinds)
    OBVIOUS
  <2>4. {is_linked, cmd_active, entry, requested, streaming} \subseteq BOOLEAN
    BY <2>1
  <2>5. /\ state \in {"CFG", "BUFFED", "REG", "ACTIVE"} /\ queued_buffer_count \in Int
        /\ cpc \in {"idle", "reg", "streamon", "del", "barrier", "off", "lock", "release",
                    "unreg"}
        /\ rpc \in {"poll", "dqbuf", "count", "account", "chan", "link", "post"}
        /\ rbuf \in Bufs \cup {NoBuf} /\ sessions \in 0..MaxSessions
    BY <2>1
  <2> QED
    BY ONLY <2>2, <2>3, <2>4, <2>5 DEF TypeOK
<1>2. {t \in Callers : pc[t] # "idle"} = {}
  OBVIOUS
<1>3. ControlInv /\ HandsInv /\ RestInv /\ DispatchInv
  BY <1>2, FS_EmptySet
     DEF ControlInv, HandsInv, RestInv, Still, CallersIdle, DispatchInv, Counted, Callers
<1>4. PlaceInv /\ PurposeInv /\ BudgetInv /\ ExactInv /\ CountInv
  BY DEF PlaceInv, PurposeInv, BudgetInv, ExactInv, CountInv, Counting, Counted
<1> QED
  BY <1>1, <1>3, <1>4 DEF IInv

LEMMA StutterInv == IInv /\ UNCHANGED vars => IInv'
<1> SUFFICES ASSUME IInv, UNCHANGED vars PROVE IInv'
  OBVIOUS
<1> USE DEF vars, control, cmd, driver, counts, IInv
<1>1. HandsInv' /\ PlaceInv' /\ PurposeInv' /\ BudgetInv' /\ ExactInv'
  BY ReferencesUntouched DEF Counted
<1>2. TypeOK'
  BY DEF TypeOK, reader, callers
<1>3. ControlInv' /\ DispatchInv' /\ RestInv'
  BY DEF ControlInv, DispatchInv, RestInv, Still, CallersIdle, Counted, reader, callers
<1>4. CountInv'
  BY DEF CountInv, Counting, Queueing, reader, callers
<1> QED
  BY <1>1, <1>2, <1>3, <1>4

\* The invariant holds of every stream with a callback of its own.
THEOREM Invariance == ASSUME HasCb PROVE Spec => []IInv
<1>1. Init => IInv
  BY InitInv
<1>2. IInv /\ [Next]_vars => IInv'
  <2> SUFFICES ASSUME IInv, [Next]_vars PROVE IInv'
    OBVIOUS
  <2>1. CASE GetBuf \/ RegBuf \/ RegBufFail \/ Start \/ StreamOn \/ StreamOnFail
             \/ Stop \/ Stopping \/ UnregBuf \/ PutBuf \/ Unlink
    BY <2>1, ControlStep
  <2>2. CASE DataNotify \/ Reader
    BY <2>2, ReaderStep
  <2>3. CASE DispatchAppData
    BY <2>3, DispatchStep
  <2>4. CASE \E b \in Bufs, kind \in Kinds : GiveBack(b, kind)
    BY <2>4, QbufStep DEF GiveBack
  <2>5. CASE \E t \in Callers : BufDone(t)
    BY <2>5, CallerStep
  <2>6. CASE UNCHANGED vars
    BY <2>6, StutterInv
  <2> QED
    BY <2>1, <2>2, <2>3, <2>4, <2>5, <2>6 DEF Next
<1> QED
  BY <1>1, <1>2, PTL DEF Spec

\* buf_refcnt of every buffer is exactly the number of references that are out
\* (mm_stream_handle_rcvd_buf, mm_stream_buf_done): none is given back twice, none is
\* counted after it was handed out, and the eight bits do not wrap.
THEOREM ReferencesCounted == ASSUME HasCb PROVE Spec => []RefcntExact
<1>1. IInv => RefcntExact
  <2> SUFFICES ASSUME IInv, Counted, NEW b \in Bufs
               PROVE  buf_refcnt[b] = Cardinality({h \in held : h[1] = b}) + leaked[b]
                        + Cardinality({i \in DOMAIN cmd_queue : cmd_queue[i] = b})
                        + ToHandOut(b) + BeingReturned(b)
    BY DEF RefcntExact, Counted
  <2>1. Cardinality({h \in held : h[1] = b}) + leaked[b] = Out(b)
    BY HeldCount DEF IInv, TypeOK, Out, One
  <2>2. Cardinality({i \in DOMAIN cmd_queue : cmd_queue[i] = b}) = One(Queued(b))
    BY QueuedCount DEF IInv, PurposeInv
  <2>3. buf_refcnt[b] = References(b)
    BY DEF IInv, ExactInv
  <2> QED
    BY <2>1, <2>2, <2>3 DEF References
<1> QED
  BY <1>1, Invariance, PTL

\* A buffer that is queued in the kernel is nobody else's (mm_stream_qbuf is called only
\* for the last reference): no user, no thread of the library can have it.
THEOREM KernelAlone == ASSUME HasCb PROVE Spec => []KernelOwnsAlone
<1>1. IInv => KernelOwnsAlone
  <2> SUFFICES ASSUME IInv, NEW b \in kernel
               PROVE  /\ buf_refcnt[b] = 0 \/ ~Counted
                      /\ rbuf # b /\ \A kind \in Kinds : <<b, kind>> \notin held
                      /\ \A i \in DOMAIN cmd_queue : cmd_queue[i] # b
                      /\ \A t \in Callers : at[t] = b => pc[t] = "mark"
    BY DEF KernelOwnsAlone, Counted
  <2>1. b \in Bufs /\ b # NoBuf
    BY MmStreamAssumption DEF IInv, TypeOK
  <2>2. CASE Counted
    <3>1. buf_refcnt[b] = 0 /\ rbuf # b /\ \A t \in Callers : ~OnItsWay(t, b)
      BY <2>1, <2>2 DEF IInv, PlaceInv
    <3>2. (\A kind \in Kinds : <<b, kind>> \notin held) /\ ~Queued(b) /\ Returning(b) = {}
      BY <2>1, <2>2, <3>1, NoReferences
    <3>3. ASSUME NEW t \in Callers, at[t] = b PROVE pc[t] = "mark"
      <4>1. pc[t] \notin {"qcount", "ioctl", "fail"} /\ pc[t] \notin {"check", "dec"}
        BY <3>1, <3>2, <3>3 DEF OnItsWay, Returning
      <4>2. pc[t] # "idle"
        BY <2>1, <3>3 DEF IInv, HandsInv
      <4> QED
        BY <4>1, <4>2 DEF IInv, TypeOK
    <3> QED
      BY <3>1, <3>2, <3>3 DEF Queued
  <2>3. CASE ~Counted
    <3>1. Still /\ cmd_queue = <<>>
      BY <2>3 DEF IInv, RestInv, DispatchInv, ControlInv, Counted
    <3> QED
      BY <2>1, <2>3, <3>1 DEF IInv, Still, CallersIdle, HandsInv
  <2> QED
    BY <2>2, <2>3
<1> QED
  BY <1>1, Invariance, PTL

\* The count of queued buffers, the entry in the poll thread that is set with the first
\* buffer and cleared with the last, and the command thread's queue fit together.
THEOREM Bookkeeping == ASSUME HasCb PROVE Spec => []BookkeepingFits
<1>1. IInv => BookkeepingFits
  <2> SUFFICES ASSUME IInv PROVE QueuedCountExact /\ PolledWhileQueued
    BY DEF BookkeepingFits, NothingLeftToDispatch, IInv, DispatchInv
  <2>1. QueuedCountExact
    BY DEF IInv, CountInv, Counting, Queueing, QueuedCountExact
  <2>2. PolledWhileQueued
    <3> SUFFICES ASSUME streaming, cpc = "idle", kernel # {} PROVE entry
      BY DEF PolledWhileQueued
    <3>1. IsFiniteSet(kernel)
      BY MmStreamAssumption, FS_Subset DEF IInv, TypeOK
    <3>2. Cardinality(kernel) \in Nat /\ Cardinality(kernel) # 0
      BY <3>1, FS_EmptySet, FS_CardinalityType
    <3>3. queued_buffer_count > 0
      BY <3>2, CallersCount DEF IInv, CountInv, Counting, One
    <3> QED
      BY <3>3 DEF IInv, CountInv, Counting
  <2> QED
    BY <2>1, <2>2
<1> QED
  BY <1>1, Invariance, PTL

=============================================================================
