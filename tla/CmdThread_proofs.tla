-------------------------- MODULE CmdThread_proofs --------------------------
(***************************************************************************)
(* Proofs about CmdThread for any set of posters, any number of commands   *)
(* and any number of sessions.                                             *)
(*                                                                         *)
(* The properties are not inductive: that the queue is empty when the      *)
(* worker has been joined follows only from what the queue contains in     *)
(* every phase of a session.  Before EXIT is enqueued it holds exactly the *)
(* commands done+1 .. sent that are not in the worker's hand (Backlog);    *)
(* from then on nobody can enqueue, because the control thread holds       *)
(* cmd_lock, so EXIT stays last and everything in front of it is served    *)
(* before it (BacklogThenExit); after it the queue is empty.               *)
(***************************************************************************)
EXTENDS CmdThread, TLAPS

\* Phases of the control thread in which it holds cmd_lock.
Stopped == {"enq_exit", "post_exit", "join", "destroy", "unlock"}

\* cmd_lock protects the posters and STOP from each other.
LockInv ==
    /\ \A p \in Posters : cmd_lock = p <=> ppc[p] # "idle"
    /\ cmd_lock = Ctl <=> cpc \in Stopped

\* The life of the object: the worker exists, and posters work on the queue,
\* only between launch and destroy.
LifeInv ==
    /\ is_active <=> cpc \in {"up", "enq_exit", "post_exit", "join", "destroy"}
    /\ wpc = "none" <=> cpc \in {"down", "destroy", "unlock"}
    /\ \A p \in Posters : ppc[p] \in {"enq", "post"} => is_active
    /\ \A p \in Posters : ppc[p] = "enq" => sent < MaxCmds
    /\ wpc = "exited" => ~running
    /\ wpc # "none" => (wpc = "cmd" <=> node # NoCmd)

InHand == IF node \in Data THEN 1 ELSE 0

\* The first n places of the queue hold the next n commands to be dispatched.
Consecutive(n) == \A i \in 1..n : cmd_queue[i] = done + InHand + i

Backlog ==
    /\ running /\ node # Exit
    /\ sent = done + InHand + Len(cmd_queue)
    /\ Consecutive(Len(cmd_queue))

BacklogThenExit ==
    /\ running /\ node # Exit
    /\ Len(cmd_queue) > 0 /\ cmd_queue[Len(cmd_queue)] = Exit
    /\ sent = done + InHand + Len(cmd_queue) - 1
    /\ Consecutive(Len(cmd_queue) - 1)

Drained ==
    /\ cmd_queue = <<>> /\ done = sent
    /\ \/ node = Exit /\ running
       \/ node = NoCmd /\ ~running

QueueInv ==
    /\ node \in Data => node = done + 1
    /\ cpc \in {"up", "enq_exit"} => Backlog
    /\ cpc \in {"post_exit", "join"} => BacklogThenExit \/ Drained
    /\ cpc = "destroy" => cmd_queue = <<>> /\ done = sent

IInv == TypeOK /\ LockInv /\ LifeInv /\ QueueInv /\ NoLostCommand

-----------------------------------------------------------------------------
LEMMA EmptyQueue == <<>> \in Seq(Data \cup {Exit})
  OBVIOUS

LEMMA InitInv == Init => IInv
<1> SUFFICES ASSUME Init PROVE IInv
  OBVIOUS
<1> USE CmdThreadAssumption DEF Init
<1>1. TypeOK
  <2>1. cmd_queue \in Seq(Data \cup {Exit}) /\ node \in Data \cup {Exit, NoCmd}
    BY EmptyQueue
  <2>2. sent \in 0..MaxCmds /\ done \in 0..MaxCmds /\ launches \in 0..MaxLaunches
    OBVIOUS
  <2> QED
    BY <2>1, <2>2 DEF TypeOK
<1>2. LockInv
  BY DEF LockInv, Stopped
<1>3. LifeInv
  BY DEF LifeInv
<1>4. QueueInv
  BY DEF QueueInv, Data, NoCmd
<1>5. NoLostCommand
  BY DEF NoLostCommand
<1> QED
  BY <1>1, <1>2, <1>3, <1>4, <1>5 DEF IInv

LEMMA StepInv == IInv /\ [Next]_vars => IInv'
<1> SUFFICES ASSUME IInv, [Next]_vars PROVE IInv'
  OBVIOUS
<1> USE CmdThreadAssumption DEF IInv
<1>1. CASE Launch
  <2>1. TypeOK'
    BY <1>1 DEF Launch, TypeOK
  <2>2. LockInv'
    BY <1>1 DEF Launch, LockInv, Stopped
  <2>3. LifeInv'
    BY <1>1 DEF Launch, LifeInv
  <2>4. QueueInv'
    BY <1>1 DEF Launch, QueueInv, Backlog, Consecutive, InHand, Data, Exit,
       NoCmd
  <2>5. NoLostCommand'
    BY <1>1 DEF Launch, NoLostCommand
  <2> QED BY <2>1, <2>2, <2>3, <2>4, <2>5
<1>2. CASE StopLock
  <2>1. TypeOK'
    BY <1>2 DEF StopLock, TypeOK, Lock, Threads, thread, counts
  <2>2. LockInv'
    BY <1>2 DEF StopLock, LockInv, Stopped, Lock
  <2>3. LifeInv'
    BY <1>2 DEF StopLock, LifeInv, thread, counts
  <2>4. QueueInv'
    BY <1>2 DEF StopLock, QueueInv, Backlog, Consecutive, InHand, thread,
       counts
  <2>5. NoLostCommand'
    BY <1>2 DEF StopLock, NoLostCommand, thread
  <2> QED BY <2>1, <2>2, <2>3, <2>4, <2>5
<1>3. CASE StopEnqExit
  <2>1. TypeOK'
    BY <1>3 DEF StopEnqExit, TypeOK, cam_queue_enq, counts
  <2>2. LockInv'
    BY <1>3 DEF StopEnqExit, LockInv, Stopped
  <2>3. LifeInv'
    BY <1>3 DEF StopEnqExit, LifeInv, counts
  <2>4. QueueInv'
    <3>1. Backlog /\ cpc' = "post_exit"
      BY <1>3 DEF StopEnqExit, QueueInv
    <3>2. cmd_queue' = Append(cmd_queue, Exit) /\ UNCHANGED <<node, done, sent, running>>
      BY <1>3 DEF StopEnqExit, cam_queue_enq, counts
    <3>3. /\ cmd_queue \in Seq(Data \cup {Exit})
          /\ Len(cmd_queue') = Len(cmd_queue) + 1 /\ Len(cmd_queue) \in Nat
          /\ cmd_queue'[Len(cmd_queue')] = Exit
          /\ \A i \in 1..Len(cmd_queue) : cmd_queue'[i] = cmd_queue[i]
      BY <3>2 DEF TypeOK, Exit
    <3>4. InHand' = InHand /\ InHand \in {0, 1}
      BY <3>2 DEF InHand, Data
    <3>5. BacklogThenExit'
      BY <3>1, <3>2, <3>3, <3>4 DEF Backlog, BacklogThenExit, Consecutive
    <3> QED
      BY <3>1, <3>2, <3>5 DEF QueueInv, Data
  <2>5. NoLostCommand'
    BY <1>3 DEF StopEnqExit, NoLostCommand
  <2> QED BY <2>1, <2>2, <2>3, <2>4, <2>5
<1>4. CASE StopPostExit
  <2>1. TypeOK'
    BY <1>4 DEF StopPostExit, TypeOK, cam_sem_post, counts
  <2>2. LockInv'
    BY <1>4 DEF StopPostExit, LockInv, Stopped
  <2>3. LifeInv'
    BY <1>4 DEF StopPostExit, LifeInv, counts
  <2>4. QueueInv'
    BY <1>4 DEF StopPostExit, QueueInv, BacklogThenExit, Drained,
       Consecutive, InHand, counts
  <2>5. NoLostCommand'
    BY <1>4 DEF StopPostExit, TypeOK, NoLostCommand, cam_sem_post
  <2> QED BY <2>1, <2>2, <2>3, <2>4, <2>5
<1>5. CASE StopJoin
  <2>1. TypeOK'
    BY <1>5 DEF StopJoin, TypeOK, thread, counts
  <2>2. LockInv'
    BY <1>5 DEF StopJoin, LockInv, Stopped
  <2>3. LifeInv'
    BY <1>5 DEF StopJoin, LifeInv, thread, counts
  <2>4. QueueInv'
    BY <1>5 DEF StopJoin, LifeInv, QueueInv, BacklogThenExit, Drained,
       thread, counts
  <2>5. NoLostCommand'
    BY <1>5 DEF StopJoin, NoLostCommand
  <2> QED BY <2>1, <2>2, <2>3, <2>4, <2>5
<1>6. CASE Destroy
  <2>1. TypeOK'
    BY <1>6, EmptyQueue DEF Destroy, TypeOK, counts
  <2>2. LockInv'
    BY <1>6, EmptyQueue DEF Destroy, LockInv, Stopped
  <2>3. LifeInv'
    BY <1>6, EmptyQueue DEF Destroy, LockInv, LifeInv, Stopped
  <2>4. QueueInv'
    BY <1>6, EmptyQueue DEF Destroy, QueueInv, counts
  <2>5. NoLostCommand'
    BY <1>6, EmptyQueue DEF Destroy, NoLostCommand
  <2> QED BY <2>1, <2>2, <2>3, <2>4, <2>5
<1>7. CASE StopUnlock
  <2>1. TypeOK'
    BY <1>7 DEF StopUnlock, TypeOK, thread, counts
  <2>2. LockInv'
    BY <1>7 DEF StopUnlock, LockInv, Stopped
  <2>3. LifeInv'
    BY <1>7 DEF StopUnlock, LifeInv, thread
  <2>4. QueueInv'
    BY <1>7 DEF StopUnlock, QueueInv, counts
  <2>5. NoLostCommand'
    BY <1>7 DEF StopUnlock, NoLostCommand, thread
  <2> QED BY <2>1, <2>2, <2>3, <2>4, <2>5
<1>8. ASSUME NEW p \in Posters, RcvdBufLock(p) PROVE IInv'
  <2>1. TypeOK'
    BY <1>8 DEF RcvdBufLock, TypeOK, Lock, Threads, thread, counts
  <2>2. LockInv'
    BY <1>8 DEF RcvdBufLock, TypeOK, LockInv, Lock
  <2>3. LifeInv'
    BY <1>8 DEF RcvdBufLock, LifeInv, thread, counts
  <2>4. QueueInv'
    BY <1>8 DEF RcvdBufLock, QueueInv, Backlog, BacklogThenExit, Drained,
       Consecutive, InHand, thread, counts
  <2>5. NoLostCommand'
    BY <1>8 DEF RcvdBufLock, NoLostCommand, thread
  <2> QED BY <2>1, <2>2, <2>3, <2>4, <2>5
<1>9. ASSUME NEW p \in Posters, RcvdBufEnq(p) PROVE IInv'
  <2>1. TypeOK'
    BY <1>9 DEF RcvdBufEnq, TypeOK, LifeInv, cam_queue_enq, Data
  <2>2. LockInv'
    BY <1>9 DEF RcvdBufEnq, LockInv
  <2>3. LifeInv'
    BY <1>9 DEF RcvdBufEnq, TypeOK, LockInv, LifeInv
  <2>4. QueueInv'
    <3>1. cpc = "up" /\ Backlog
      BY <1>9 DEF RcvdBufEnq, LockInv, LifeInv, QueueInv, Stopped
    <3>2. /\ cmd_queue' = Append(cmd_queue, sent + 1) /\ sent' = sent + 1
          /\ UNCHANGED <<node, done, running, cpc>>
      BY <1>9 DEF RcvdBufEnq, cam_queue_enq
    <3>3. /\ Len(cmd_queue') = Len(cmd_queue) + 1 /\ Len(cmd_queue) \in Nat
          /\ cmd_queue'[Len(cmd_queue) + 1] = sent + 1
          /\ \A i \in 1..Len(cmd_queue) : cmd_queue'[i] = cmd_queue[i]
      BY <3>2 DEF TypeOK
    <3>4. InHand' = InHand /\ InHand \in {0, 1}
      BY <3>2 DEF InHand, Data
    <3>5. sent \in Nat /\ done \in Nat
      BY DEF TypeOK
    <3>6. Consecutive(Len(cmd_queue))'
      BY <3>1, <3>2, <3>3, <3>4, <3>5 DEF Backlog, Consecutive
    <3>7. Backlog'
      BY <3>1, <3>2, <3>3, <3>4, <3>5, <3>6 DEF Backlog
    <3> QED
      BY <3>1, <3>2, <3>7 DEF QueueInv
  <2>5. NoLostCommand'
    BY <1>9 DEF RcvdBufEnq, TypeOK, NoLostCommand
  <2> QED BY <2>1, <2>2, <2>3, <2>4, <2>5
<1>10. ASSUME NEW p \in Posters, RcvdBufNoMem(p) PROVE IInv'
  <2>1. TypeOK'
    BY <1>10 DEF RcvdBufNoMem, TypeOK, thread, counts
  <2>2. LockInv'
    BY <1>10 DEF RcvdBufNoMem, LockInv
  <2>3. LifeInv'
    BY <1>10 DEF RcvdBufNoMem, LifeInv, thread, counts
  <2>4. QueueInv'
    BY <1>10 DEF RcvdBufNoMem, QueueInv, Backlog, BacklogThenExit, Drained,
       Consecutive, InHand, thread, counts
  <2>5. NoLostCommand'
    BY <1>10 DEF RcvdBufNoMem, NoLostCommand, thread
  <2> QED BY <2>1, <2>2, <2>3, <2>4, <2>5
<1>11. ASSUME NEW p \in Posters, RcvdBufPost(p) PROVE IInv'
  <2>1. TypeOK'
    BY <1>11 DEF RcvdBufPost, TypeOK, cam_sem_post, counts
  <2>2. LockInv'
    BY <1>11 DEF RcvdBufPost, LockInv
  <2>3. LifeInv'
    BY <1>11 DEF RcvdBufPost, LifeInv, counts
  <2>4. QueueInv'
    BY <1>11 DEF RcvdBufPost, QueueInv, Backlog, BacklogThenExit, Drained,
       Consecutive, InHand, counts
  <2>5. NoLostCommand'
    BY <1>11 DEF RcvdBufPost, TypeOK, NoLostCommand, cam_sem_post
  <2> QED BY <2>1, <2>2, <2>3, <2>4, <2>5
<1>12. ASSUME NEW p \in Posters, RcvdBufUnlock(p) PROVE IInv'
  <2>1. TypeOK'
    BY <1>12 DEF RcvdBufUnlock, TypeOK, thread, counts
  <2>2. LockInv'
    BY <1>12 DEF RcvdBufUnlock, TypeOK, LockInv
  <2>3. LifeInv'
    BY <1>12 DEF RcvdBufUnlock, LifeInv, thread, counts
  <2>4. QueueInv'
    BY <1>12 DEF RcvdBufUnlock, QueueInv, Backlog, BacklogThenExit, Drained,
       Consecutive, InHand, thread, counts
  <2>5. NoLostCommand'
    BY <1>12 DEF RcvdBufUnlock, NoLostCommand, thread
  <2> QED BY <2>1, <2>2, <2>3, <2>4, <2>5
<1>13. CASE WorkerWait
  <2>1. TypeOK'
    BY <1>13 DEF WorkerWait, TypeOK, cam_sem_wait, counts
  <2>2. LockInv'
    BY <1>13 DEF WorkerWait, LockInv
  <2>3. LifeInv'
    BY <1>13 DEF WorkerWait, LifeInv, counts
  <2>4. QueueInv'
    BY <1>13 DEF WorkerWait, QueueInv, Backlog, BacklogThenExit, Drained,
       Consecutive, InHand, counts
  <2>5. NoLostCommand'
    BY <1>13 DEF WorkerWait, NoLostCommand
  <2> QED BY <2>1, <2>2, <2>3, <2>4, <2>5
<1>14. CASE WorkerDeq
  <2> USE <1>14 DEF WorkerDeq
  <2>1. /\ node = NoCmd /\ NoCmd \notin Data /\ NoCmd # Exit /\ Exit \notin Data
        /\ InHand = 0 /\ is_active
        /\ cpc \in {"up", "enq_exit", "post_exit", "join"}
    BY DEF TypeOK, LifeInv, InHand, Data, NoCmd, Exit
  <2>2. CASE cmd_queue = <<>>
    <3>1. /\ node' = NoCmd /\ InHand' = 0
          /\ UNCHANGED <<cmd_queue, running, sent, done, cpc>>
      BY <2>1, <2>2 DEF cam_queue_deq, counts, InHand
    <3>2. TypeOK'
      BY <2>2, <3>1 DEF TypeOK, counts
    <3>3. LockInv' /\ LifeInv'
      BY <2>1, <2>2, <3>1 DEF LockInv, LifeInv
    <3>4. Len(cmd_queue) = 0
      BY <2>2
    <3>5. QueueInv'
      BY <2>1, <2>2, <3>1, <3>4 DEF QueueInv, Backlog, BacklogThenExit,
         Drained, Consecutive
    <3>6. NoLostCommand'
      BY <2>2, <3>1 DEF NoLostCommand
    <3> QED
      BY <3>2, <3>3, <3>5, <3>6
  <2>3. CASE cmd_queue # <<>>
    <3>1. /\ node' = Head(cmd_queue) /\ cmd_queue' = Tail(cmd_queue) /\ wpc' = "cmd"
          /\ UNCHANGED <<running, sent, done, cpc, ppc, cmd_lock, is_active, cmd_sem, launches>>
      BY <2>3 DEF cam_queue_deq, counts
    <3>2. /\ cmd_queue \in Seq(Data \cup {Exit}) /\ Len(cmd_queue) \in Nat /\ Len(cmd_queue) > 0
          /\ Len(cmd_queue') = Len(cmd_queue) - 1
          /\ node' = cmd_queue[1] /\ node' \in Data \cup {Exit}
          /\ cmd_queue' \in Seq(Data \cup {Exit})
          /\ \A i \in 1..Len(cmd_queue') : cmd_queue'[i] = cmd_queue[i + 1]
      BY <2>3, <3>1 DEF TypeOK
    <3>3. TypeOK'
      BY <3>1, <3>2 DEF TypeOK
    <3>4. LockInv' /\ LifeInv'
      BY <2>1, <3>1, <3>2 DEF LockInv, LifeInv
    <3>5. QueueInv'
      <4>1. CASE cpc \in {"up", "enq_exit"}
        <5>1. Backlog
          BY <4>1 DEF QueueInv
        <5>2. node' = done + 1 /\ sent \in Nat /\ done \in Nat
          BY <2>1, <3>2, <5>1 DEF Backlog, Consecutive, TypeOK
        <5>3. node' \in Data /\ InHand' = 1
          BY <3>2, <5>2 DEF InHand, Exit
        <5>4. Consecutive(Len(cmd_queue))'
          <6> SUFFICES ASSUME NEW i \in 1..Len(cmd_queue')
                       PROVE  cmd_queue'[i] = done' + InHand' + i
            BY DEF Consecutive
          <6>1. i + 1 \in 1..Len(cmd_queue) /\ cmd_queue'[i] = cmd_queue[i + 1]
            BY <3>2
          <6>2. cmd_queue[i + 1] = done + 0 + (i + 1)
            BY <2>1, <5>1, <6>1 DEF Backlog, Consecutive
          <6> QED
            BY <3>1, <5>2, <5>3, <6>1, <6>2
        <5>5. Backlog'
          <6>1. running' /\ node' # Exit
            BY <2>1, <3>1, <5>1, <5>3 DEF Backlog
          <6>2. sent' = done' + InHand' + Len(cmd_queue')
            BY <2>1, <3>1, <3>2, <5>1, <5>2, <5>3 DEF Backlog
          <6> QED
            BY <5>4, <6>1, <6>2 DEF Backlog
        <5> QED
          BY <3>1, <4>1, <5>2, <5>5 DEF QueueInv
      <4>2. CASE cpc \in {"post_exit", "join"}
        <5>1. BacklogThenExit /\ sent \in Nat /\ done \in Nat
          BY <2>3, <4>2 DEF QueueInv, Drained, TypeOK
        <5>2. CASE Len(cmd_queue) = 1
          <6>1. node' = Exit /\ cmd_queue' = <<>> /\ done = sent
            BY <2>1, <3>2, <5>1, <5>2 DEF BacklogThenExit
          <6>2. Drained'
            BY <3>1, <5>1, <6>1 DEF Drained, BacklogThenExit
          <6> QED
            BY <2>1, <3>1, <4>2, <6>1, <6>2 DEF QueueInv, Data
        <5>3. CASE Len(cmd_queue) > 1
          <6>1. node' = done + 1
            BY <2>1, <3>2, <5>1, <5>3 DEF BacklogThenExit,
               Consecutive
          <6>2. node' \in Data /\ InHand' = 1
            BY <3>2, <5>1, <6>1 DEF InHand, Exit
          <6>3. Consecutive(Len(cmd_queue) - 1)'
            <7> SUFFICES ASSUME NEW i \in 1..(Len(cmd_queue') - 1)
                         PROVE  cmd_queue'[i] = done' + InHand' + i
              BY DEF Consecutive
            <7>1. /\ i + 1 \in 1..(Len(cmd_queue) - 1) /\ i \in 1..Len(cmd_queue')
                  /\ cmd_queue'[i] = cmd_queue[i + 1]
              BY <3>2
            <7>2. cmd_queue[i + 1] = done + 0 + (i + 1)
              BY <2>1, <5>1, <7>1 DEF BacklogThenExit, Consecutive
            <7> QED
              BY <3>1, <5>1, <6>2, <7>1, <7>2
          <6>4. Len(cmd_queue') > 0 /\ cmd_queue'[Len(cmd_queue')] = Exit
            BY <3>2, <5>1, <5>3 DEF BacklogThenExit
          <6>5. sent' = done' + InHand' + Len(cmd_queue') - 1
            BY <2>1, <3>1, <3>2, <5>1, <6>2 DEF BacklogThenExit
          <6>6. running' /\ node' # Exit
            BY <2>1, <3>1, <5>1, <6>2 DEF BacklogThenExit
          <6>7. BacklogThenExit'
            BY <6>3, <6>4, <6>5, <6>6 DEF BacklogThenExit
          <6> QED
            BY <3>1, <4>2, <6>1, <6>7 DEF QueueInv
        <5> QED
          BY <3>2, <5>2, <5>3
      <4> QED
        BY <2>1, <4>1, <4>2
    <3>6. NoLostCommand'
      BY <3>1 DEF NoLostCommand
    <3> QED
      BY <3>3, <3>4, <3>5, <3>6
  <2> QED
    BY <2>2, <2>3
<1>15. CASE WorkerCmd
  <2> USE <1>15 DEF WorkerCmd
  <2>1. /\ node # NoCmd /\ NoCmd \notin Data /\ NoCmd # Exit /\ Exit \notin Data
        /\ is_active /\ cpc \in {"up", "enq_exit", "post_exit", "join"}
        /\ node \in Data \cup {Exit}
    BY DEF TypeOK, LifeInv, Data, NoCmd, Exit
  <2>2. /\ node' = NoCmd /\ wpc' = "deq" /\ InHand' = 0
        /\ UNCHANGED <<cmd_queue, cmd_sem, is_active, cmd_lock, ppc, cpc, sent, launches>>
    BY <2>1 DEF thread, InHand
  <2>3. TypeOK'
    <3>1. Data \subseteq 0..MaxCmds
      BY DEF Data
    <3>2. done' \in 0..MaxCmds /\ running' \in BOOLEAN
      BY <2>1, <3>1 DEF TypeOK
    <3> QED
      BY <2>2, <3>2 DEF TypeOK
  <2>4. LockInv' /\ LifeInv'
    BY <2>1, <2>2 DEF LockInv, LifeInv
  <2>5. ASSUME node = Exit PROVE QueueInv'
    <3>1. running' = FALSE /\ done' = done /\ Drained /\ cpc \in {"post_exit", "join"}
      BY <2>1, <2>5 DEF QueueInv, Backlog, BacklogThenExit
    <3>2. Drained'
      BY <2>2, <3>1 DEF Drained
    <3> QED
      BY <2>1, <2>2, <3>1, <3>2 DEF QueueInv
  <2>6. ASSUME node # Exit PROVE QueueInv'
    <3>1. /\ node \in Data /\ InHand = 1 /\ done \in Nat /\ done' = done + 1
          /\ running' = running
      BY <2>1, <2>6 DEF InHand, QueueInv, TypeOK
    <3>2. done + 1 + Len(cmd_queue) = done' + 0 + Len(cmd_queue) /\ Len(cmd_queue) \in Nat
      BY <3>1 DEF TypeOK
    <3>3. Backlog => Backlog'
      BY <2>1, <2>2, <3>1, <3>2 DEF Backlog, Consecutive
    <3>4. BacklogThenExit => BacklogThenExit'
      BY <2>1, <2>2, <3>1, <3>2 DEF BacklogThenExit, Consecutive
    <3>5. ~Drained
      BY <2>1, <2>6 DEF Drained
    <3> QED
      BY <2>1, <2>2, <3>3, <3>4, <3>5 DEF QueueInv
  <2>7. NoLostCommand'
    BY <2>2 DEF NoLostCommand
  <2>8. QueueInv'
    BY <2>5, <2>6
  <2> QED
    BY <2>3, <2>4, <2>7, <2>8
<1>16. CASE UNCHANGED vars
  BY <1>16 DEF vars, TypeOK, LockInv, LifeInv, QueueInv, NoLostCommand,
     Backlog, BacklogThenExit, Drained, Consecutive, InHand
<1> QED
  BY <1>1, <1>2, <1>3, <1>4, <1>5, <1>6, <1>7, <1>8, <1>9, <1>10, <1>11, <1>12,
     <1>13, <1>14, <1>15, <1>16
  DEF Next, Stopping, PosterStep, Worker

(* The inductive invariant holds in every reachable state.                   *)
THEOREM Invariance == Spec => []IInv
<1>1. Init => IInv
  BY InitInv
<1>2. IInv /\ [Next]_vars => IInv'
  BY StepInv
<1> QED
  BY <1>1, <1>2, PTL DEF Spec

(* Type correctness.                                                         *)
THEOREM TypeCorrect == Spec => []TypeOK
  BY Invariance, PTL DEF IInv

(* No frame is left in the queue of a worker that sleeps on its semaphore:   *)
(* the order "enqueue, then post" of mm_stream_handle_rcvd_buf() and the     *)
(* drain loop of mm_camera_cmd_thread() lose no wake-up.                     *)
THEOREM NoCommandLost == Spec => []NoLostCommand
  BY Invariance, PTL DEF IInv

(* When mm_camera_cmd_thread_stop() has joined the worker, every accepted    *)
(* frame has been dispatched and the queue that is destroyed is empty.       *)
THEOREM ReleaseIsClean == Spec => []ReleaseDrains
<1>1. IInv => ReleaseDrains
  BY DEF IInv, QueueInv, ReleaseDrains
<1> QED
  BY <1>1, Invariance, PTL

(* No thread touches the queue or the semaphore between                      *)
(* mm_camera_cmd_thread_destroy() and the next launch.                       *)
THEOREM NoUseAfterDestroyed == Spec => []NoUseAfterDestroy
<1>1. IInv => NoUseAfterDestroy
  BY DEF IInv, TypeOK, LifeInv, NoUseAfterDestroy
<1> QED
  BY <1>1, Invariance, PTL

-----------------------------------------------------------------------------
(* What a step does to the three variables the callers can observe.          *)

LEMMA CallbackStep ==
  ASSUME IInv, WorkerCmd
  PROVE  \/ UNCHANGED <<is_active, sent, done>>
         \/ /\ is_active /\ done < sent /\ done' = done + 1
            /\ UNCHANGED <<is_active, sent>>
<1>1. /\ node # NoCmd /\ cpc \in {"up", "enq_exit", "post_exit", "join"} /\ is_active
      /\ node \in Data \cup {Exit}
  BY DEF IInv, TypeOK, LifeInv, WorkerCmd
<1>2. UNCHANGED <<is_active, sent>>
  BY DEF WorkerCmd, thread
<1>3. CASE node = Exit
  BY <1>2, <1>3 DEF WorkerCmd
<1>4. CASE node # Exit
  <2>1. node \in Data /\ node = done + 1 /\ done' = done + 1 /\ InHand = 1
    BY <1>1, <1>4 DEF IInv, QueueInv, WorkerCmd, InHand
  <2>2. Backlog \/ BacklogThenExit
    BY <1>1, <1>4 DEF IInv, QueueInv, Drained
  <2>3. done < sent
    BY <2>1, <2>2 DEF Backlog, BacklogThenExit, IInv, TypeOK
  <2> QED
    BY <1>1, <1>2, <2>1, <2>3
<1> QED
  BY <1>3, <1>4

(* Frames are delivered in the order in which they were accepted, each once. *)
THEOREM DispatchedInOrder == Spec => InOrder
<1> DEFINE Ordered == \/ done' = done \/ done' = done + 1
                      \/ (done' = 0 /\ cpc = "down")
<1>1. IInv /\ [Next]_vars => [Ordered]_vars
  <2> SUFFICES ASSUME IInv, Next PROVE Ordered
    BY DEF vars
  <2>1. CASE Launch
    BY <2>1 DEF Launch
  <2>2. CASE WorkerCmd
    BY <2>2, CallbackStep
  <2>3. CASE StopLock \/ Stopping \/ WorkerWait \/ WorkerDeq
    BY <2>3 DEF StopLock, Stopping, StopEnqExit, StopPostExit, StopJoin, Destroy,
                StopUnlock, WorkerWait, WorkerDeq, counts
  <2>4. ASSUME NEW p \in Posters, RcvdBufLock(p) \/ PosterStep(p) PROVE done' = done
    BY <2>4 DEF RcvdBufLock, PosterStep, RcvdBufEnq, RcvdBufNoMem, RcvdBufPost,
                RcvdBufUnlock, counts
  <2> QED
    BY <2>1, <2>2, <2>3, <2>4 DEF Next, Worker
<1> QED
  BY <1>1, Invariance, PTL DEF Spec, InOrder

(* The queue, the semaphore, the lock and the join implement the abstract    *)
(* dispatcher: it closes only when every accepted command was dispatched.    *)
THEOREM Refinement == Spec => ImplementsAsyncDispatch
<1>1. Init => Abstract!Init
  BY DEF Init, Abstract!Init
<1>2. IInv /\ [Next]_vars => [Abstract!Next]_(Abstract!vars)
  <2> SUFFICES ASSUME IInv, Next PROVE Abstract!Next \/ UNCHANGED <<is_active, sent, done>>
    BY DEF vars, Abstract!vars
  <2>1. CASE Launch
    <3>1. ~is_active
      BY <2>1 DEF Launch, IInv, LifeInv
    <3> QED
      BY <2>1, <3>1 DEF Launch, Abstract!Next, Abstract!Open
  <2>2. CASE Destroy
    <3>1. is_active /\ done = sent
      BY <2>2 DEF Destroy, IInv, LifeInv, QueueInv
    <3> QED
      BY <2>2, <3>1 DEF Destroy, counts, Abstract!Next, Abstract!Close
  <2>3. CASE WorkerCmd
    BY <2>3, CallbackStep DEF Abstract!Next, Abstract!Dispatch
  <2>4. CASE \/ StopLock \/ StopEnqExit \/ StopPostExit \/ StopJoin \/ StopUnlock
             \/ WorkerWait \/ WorkerDeq
    BY <2>4 DEF StopLock, StopEnqExit, StopPostExit, StopJoin, StopUnlock,
                WorkerWait, WorkerDeq, counts, thread
  <2>5. ASSUME NEW p \in Posters, RcvdBufEnq(p) PROVE Abstract!Next
    <3>1. is_active /\ sent < MaxCmds
      BY <2>5 DEF RcvdBufEnq, IInv, LifeInv
    <3> QED
      BY <2>5, <3>1 DEF RcvdBufEnq, Abstract!Next, Abstract!Accept
  <2>6. ASSUME NEW p \in Posters,
               RcvdBufLock(p) \/ RcvdBufNoMem(p) \/ RcvdBufPost(p) \/ RcvdBufUnlock(p)
        PROVE  UNCHANGED <<is_active, sent, done>>
    BY <2>6 DEF RcvdBufLock, RcvdBufNoMem, RcvdBufPost, RcvdBufUnlock, counts, thread
  <2> QED
    BY <2>1, <2>2, <2>3, <2>4, <2>5, <2>6 DEF Next, Stopping, Worker, PosterStep
<1> QED
  BY <1>1, <1>2, Invariance, PTL DEF Spec, ImplementsAsyncDispatch, Abstract!Spec

=============================================================================
