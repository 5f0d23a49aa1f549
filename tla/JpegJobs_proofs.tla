--------------------------- MODULE JpegJobs_proofs ---------------------------
(***************************************************************************)
(* The JPEG encoder for every set of sessions, any number of jobs and any  *)
(* number of failures of components: whoever holds job_lock has the state  *)
(* change under way to himself, the configuration is with one session, a   *)
(* session whose component is well is in session_handle_q or in use but    *)
(* never both, no token of job_sem is missing, and jpeg_cb is called once. *)
(*                                                                         *)
(* The argument is about sessions. A session is touched by the job manager *)
(* while its job is served, by its component while that has something to   *)
(* tell, and by its HAL thread. That no two of them work on the component  *)
(* at a time is what HealthyInv says clause by clause: one command at most *)
(* is pending, and it is the one that the holder of job_lock (MoveAsked)   *)
(* or mm_jpeg_session_abort (AbortAsked) waits for; a busy component has a *)
(* job that is ongoing and neither answered nor over. All of this is lost  *)
(* once a component failed at something, as the code goes on with it: the  *)
(* clauses are stated of healthy sessions, the locks and queues of all.    *)
(*                                                                         *)
(* A step leaves most sessions alone (LifeUntouched, HealthyUntouched). So *)
(* each group of steps has a lemma that asks of one session only what the  *)
(* step changes there: LocalStep (component), MoveStep (state changes),    *)
(* ServeStep and SleepStep (job manager), HalStep, HeldStep and CallsOff   *)
(* (HAL thread).                                                           *)
(***************************************************************************)
EXTENDS JpegJobs, FiniteSetTheorems, FunctionTheorems, SequenceTheorems, TLAPS

-----------------------------------------------------------------------------
(* The inductive invariant *)

\* Where the component's thread, a state change, the job manager and the HAL
\* threads are, and which of the latter hold job_lock and g_intf_lock there.
AnswerPcs == {"idle", "complete", "error", "filled", "remove", "giveback"}
MoveAts == {"off", "send", "check", "wait", "woken", "ok", "failed"}
ServePcs == {"encode", "unload", "unloaded", "configure", "execute", "configured",
             "params", "feed", "error", "done"}
CreatePcs == {"create execute", "created"}
AbortPcs == {"abort", "abort send", "abort wait", "aborting", "aborted", "abort end"}
FreePcs == {"destroy unload", "destroy free"}
LockPcs == CreatePcs \cup AbortPcs \cup FreePcs
IntfPcs == LockPcs \cup {"abort job", "destroy", "destroy end"}
HalPcs == IntfPcs \cup {"closed", "open", "unusable", "stop"}
\* Where a session has no jobs that are not over, and where its jobs are off the queues.
IdlePcs == {"closed", "unusable"} \cup CreatePcs
GonePcs == IdlePcs \cup FreePcs \cup {"destroy end"}

JobRec == [s : Sessions, cbs : Nat, status : {"none", "done", "error"}, over : BOOLEAN]
SessionRec ==
    [active : BOOLEAN, abort : {"none", "init", "done"}, encoding : BOOLEAN,
     config : BOOLEAN, pending : BOOLEAN, err : BOOLEAN, lock : BOOLEAN,
     avail : Nat, job : Nat]
ComponentRec ==
    [state : States, bufs : BOOLEAN, busy : BOOLEAN, cmds : Seq(States),
     at : AnswerPcs, failed : BOOLEAN]
MoveRec == [s : Sessions \cup {NULL}, to : States, exec : {"none", "send", "free"}, at : MoveAts]
ManagerRec == [pc : {"wait", "check", "lock"} \cup ServePcs, job : Nat]
HalRec == [pc : HalPcs, job : Nat, left : SUBSET Nat, lives : Nat]

\* Types: as TypeOK of the model, and of every field.
TypeInv ==
    /\ jobs \in Seq(JobRec) /\ Len(jobs) <= MaxJobs
    /\ todo \in Seq(Nat) /\ ongoing \subseteq JobIds /\ sem \in Nat
    /\ intf \in Sessions \cup {NULL} /\ jobLock \in Threads
    /\ ses \in [Sessions -> SessionRec] /\ inprogress \in Sessions \cup {NULL}
    /\ omx \in [Sessions -> ComponentRec]
    /\ move \in MoveRec /\ manager \in ManagerRec /\ manager.job <= Len(jobs)
    /\ hal \in [Sessions -> HalRec]
    /\ \A s \in Sessions : hal[s].left \subseteq JobIds
    /\ faults \in 0..MaxFaults

\* The jobs in job_mgr.job_queue; the job manager works for session s.
Queued == {todo[i] : i \in 1..Len(todo)}
Serves(s) == manager.pc \in ServePcs /\ jobs[manager.job].s = s

\* job_lock and g_intf_lock are with whom the program counters say.
LocksInv ==
    /\ jobLock = mgr <=> manager.pc \in ServePcs
    /\ \A s \in Sessions :
         /\ intf = s <=> hal[s].pc \in IntfPcs
         /\ jobLock = s <=> hal[s].pc \in LockPcs

\* A state change is under way only for the holder of job_lock, and of the session
\* that holder works on.
MoveInv ==
    /\ move.s = NULL => move.at \in {"off", "ok"}
    /\ move.s # NULL =>
         /\ move.at # "off"
         /\ \/ manager.pc \in {"unload", "unloaded"} /\ inprogress = move.s
            \/ manager.pc \in {"execute", "configured"} /\ Serves(move.s)
            \/ hal[move.s].pc \in CreatePcs \cup FreePcs

\* One session is configured, and mm_jpeg_session_encode unloads it before the next.
ConfigInv ==
    /\ OneConfigured
    /\ manager.pc \in {"unload", "unloaded"} => inprogress # NULL
    /\ manager.pc \in {"configure", "execute", "configured"} => inprogress = NULL
    /\ \A s \in Sessions : hal[s].pc \in CreatePcs => inprogress = NULL

\* A job is in job_mgr.job_queue once, or in ongoing_job_q, or in neither: in the
\* queue it is not answered, and no session has its id yet; an ongoing one is the
\* job its session has the id of, and is not over.
JobsInv ==
    /\ \A i, k \in 1..Len(todo) : todo[i] = todo[k] => i = k
    /\ \A j \in Queued : /\ j \in JobIds /\ j \notin ongoing
                         /\ jobs[j].cbs = 0 /\ ~jobs[j].over /\ ses[jobs[j].s].job # j
    /\ \A j \in ongoing : ~jobs[j].over /\ ses[jobs[j].s].job = j
    /\ \A s \in Sessions : ses[s].job # 0 => ses[s].job \in JobsOf(s)
    /\ manager.pc = "lock" => ongoing = {}
    /\ manager.pc \in ServePcs =>
         manager.job # 0 /\ ongoing \subseteq {manager.job} /\ ses[Serving].job = manager.job

\* mm_jpeg_destroy_session took the jobs of s off the queues; none is left there.
Destroyed(s) == hal[s].pc \in GonePcs \/ (hal[s].pc \in AbortPcs /\ hal[s].job = 0)
NoJobs(s) == ~Serves(s) /\ \A j \in JobsOf(s) : j \notin Queued /\ j \notin ongoing

\* The life of a session: what a session that is not in use looks like, and how far
\* an abort of it is.
ActiveInv(s) ==
    /\ ses[s].active <=> hal[s].pc \notin {"closed", "destroy end"}
    /\ ~ses[s].active =>
         ~ses[s].config /\ omx[s].at = "idle" /\ ~omx[s].busy /\ omx[s].cmds = <<>>
    /\ ses[s].lock <=> omx[s].at \in {"remove", "giveback"}
    /\ ses[s].abort = "init" => hal[s].pc \in {"abort send", "abort wait", "aborting", "aborted"}
    /\ hal[s].pc \in {"abort send", "abort wait", "aborting", "aborted"} => ses[s].abort # "none"
    /\ hal[s].pc \in FreePcs \cup {"abort end", "destroy end"} => ses[s].abort = "done"
    /\ hal[s].pc \in CreatePcs => ses[s].avail > 0
\* A session that is destroyed has no jobs in the queues, and after it none that the
\* HAL waits for.
GoneInv(s) ==
    /\ Destroyed(s) => NoJobs(s)
    /\ hal[s].pc \in IdlePcs => \A j \in JobsOf(s) : jobs[j].over
\* The job that a call of the HAL is about, and those the post processor aborts yet.
LeftInv(s) ==
    /\ hal[s].pc = "abort job" => hal[s].job \in JobsOf(s)
    /\ hal[s].pc = "destroy" => hal[s].job = 0
    /\ hal[s].pc \in AbortPcs /\ hal[s].job # 0 =>
         hal[s].job \in JobsOf(s) /\ hal[s].job \notin ongoing /\ hal[s].job \notin Queued
    /\ hal[s].left \subseteq JobsOf(s)
LifeInv(s) == ActiveInv(s) /\ GoneInv(s) /\ LeftInv(s)

\* The component has been told nothing that it has not done and reported.
Quiet(s) == omx[s].cmds = <<>> /\ omx[s].at # "complete"
\* It was told to leave Executing by mm_jpeg_session_abort.
AbortAsked(s) ==
    /\ ses[s].abort = "init" /\ hal[s].pc \in {"abort wait", "aborting"}
    /\ \/ /\ omx[s].cmds = <<"Idle">> /\ omx[s].state = "Executing"
          /\ omx[s].at \in {"idle", "filled"}
       \/ omx[s].cmds = <<>> /\ omx[s].at = "complete" /\ ~omx[s].busy
\* It was told to make the state change that the holder of job_lock waits for.
MoveAsked(s) ==
    /\ move.s = s /\ move.at \in {"check", "wait"} /\ ses[s].pending
    /\ \/ omx[s].cmds = <<move.to>> /\ omx[s].at = "idle" /\ omx[s].state # move.to
       \/ omx[s].cmds = <<>> /\ omx[s].at = "complete"
\* There are no other commands.
AskedInv(s) ==
    /\ ~ses[s].err /\ omx[s].at # "error"
    /\ AbortAsked(s) \/ MoveAsked(s) \/ Quiet(s)
\* While a state change of s is under way its component encodes nothing, and the
\* change is pending until it was made.
MovingInv(s) ==
    move.s = s =>
      /\ ~omx[s].busy /\ omx[s].at \notin {"filled", "remove"} /\ move.at # "failed"
      /\ move.at = "send" => Quiet(s)
      /\ move.at \in {"check", "wait"} /\ ses[s].pending => MoveAsked(s)
      /\ move.at = "wait" => ses[s].pending
      /\ move.at \in {"woken", "ok"} \/ (move.at = "check" /\ ~ses[s].pending)
           => Quiet(s) /\ omx[s].at = "idle"
\* A component that encodes, or has just encoded, has a job that the HAL waits for:
\* the session is in use, the job is ongoing, or an abort of it has begun.
EncodingInv(s) ==
    omx[s].busy \/ omx[s].at = "filled" =>
      /\ ses[s].encoding /\ ses[s].avail = 0 /\ ~Serves(s)
      /\ ses[s].job # 0 /\ jobs[ses[s].job].cbs = 0 /\ ~jobs[ses[s].job].over
      /\ omx[s].state = "Executing" /\ (omx[s].busy => omx[s].at = "idle")
      /\ ses[s].abort # "done"
      /\ ses[s].abort = "none" => ses[s].job \in ongoing \/ hal[s].pc = "abort"
\* A callback (fbd) that gives a job back has not made the session available yet.
ReturnInv(s) ==
    omx[s].at \in {"remove", "giveback"} =>
      /\ ses[s].encoding /\ ses[s].avail = 0 /\ ~Serves(s) /\ ses[s].job # 0
      /\ ses[s].abort = "none"
      /\ omx[s].at = "remove" => ses[s].job \in ongoing \/ hal[s].pc = "abort"
      /\ omx[s].at = "giveback" => ses[s].job \notin ongoing
\* encoding is cleared when the session is given back; it is available once, and then
\* no job of it is encoded.
HandleInv(s) ==
    /\ ses[s].encoding /\ ~Serves(s) /\ ses[s].abort = "none"
         => omx[s].busy \/ omx[s].at \in {"filled", "remove", "giveback"}
    /\ ses[s].avail <= 1
    /\ ses[s].avail = 1 => ses[s].job \notin ongoing /\ ~ses[s].encoding /\ ~Serves(s)
\* The session that the job manager works for is not in session_handle_q, its job is
\* ongoing, and not answered before JobError has called jpeg_cb.
ServedInv(s) ==
    Serves(s) =>
      /\ ses[s].avail = 0 /\ manager.job \in ongoing
      /\ manager.pc # "encode" => ses[s].abort = "none"
      /\ manager.pc = "feed" => ses[s].encoding
      /\ manager.pc # "done" => jobs[manager.job].cbs = 0
\* Where mm_jpeg_session_abort is, and what it finds there.
AbortingInv(s) ==
    /\ hal[s].pc = "abort send" =>
         /\ ses[s].abort = "init" /\ Quiet(s)
         /\ omx[s].at \in {"idle", "filled"} /\ omx[s].state = "Executing"
    /\ hal[s].pc = "aborting" => ses[s].abort = "init"
    /\ hal[s].pc = "aborted" => ses[s].abort = "done"
\* No job of s that the HAL waits for is answered twice.
OnceInv(s) == \A j \in JobsOf(s) : ~jobs[j].over => jobs[j].cbs <= 1

\* What holds of a session as long as its component has not failed.
HealthyInv(s) ==
    Healthy(s) =>
      /\ AskedInv(s) /\ MovingInv(s) /\ EncodingInv(s) /\ ReturnInv(s) /\ HandleInv(s)
      /\ ServedInv(s) /\ AbortingInv(s) /\ OnceInv(s)

\* Some callback is about to give a session back and to post job_sem.
Returning == \E s \in Sessions : omx[s].at \in {"remove", "giveback"}
\* Nobody has to be woken whom nobody is going to wake: a session in use is
\* available, or has an ongoing job, or is being given back.
WakeInv ==
    /\ NoLostWakeup
    /\ \A s \in Sessions : hal[s].pc = "open" =>
         ses[s].avail > 0 \/ ses[s].job \in ongoing \/ omx[s].at \in {"remove", "giveback"}
    /\ manager.pc \in ServePcs /\ manager.job \notin ongoing => sem > 0 \/ Returning

\* The inductive invariant.
IInv ==
    /\ TypeInv /\ LocksInv /\ MoveInv /\ ConfigInv /\ JobsInv
    /\ \A s \in Sessions : LifeInv(s) /\ HealthyInv(s)
    /\ WakeInv

-----------------------------------------------------------------------------
(* What a step does not touch *)

\* The job that a session has the id of (jobId) is a job of no other session.
LEMMA OwnJob ==
    ASSUME JobsInv, NEW s \in Sessions, NEW t \in Sessions, s # t
    PROVE  ses[s].job \notin JobsOf(t)
BY DEF JobsInv, JobsOf, JobIds

\* What a step does not touch of session t.
Untouched(t) ==
    /\ ses'[t] = ses[t] /\ omx'[t] = omx[t] /\ hal'[t] = hal[t]
    /\ move.s = t \/ move'.s = t => move' = move
    /\ Serves(t) \/ Serves(t)' => Serves(t) /\ Serves(t)' /\ manager' = manager
    /\ JobsOf(t)' = JobsOf(t)
    /\ \A j \in JobsOf(t) : /\ jobs'[j] = jobs[j] /\ (j \in ongoing' <=> j \in ongoing)
                            /\ j \in Queued' => j \in Queued

\* The life of a session that a step does not touch goes on as before.
LEMMA LifeUntouched ==
    ASSUME NEW t \in Sessions, LifeInv(t), Untouched(t)
    PROVE  LifeInv(t)'
<1>1. NoJobs(t) => NoJobs(t)'
  BY DEF NoJobs, Untouched
<1>2. Destroyed(t)' => Destroyed(t)
  BY DEF Destroyed, Untouched
<1>3. (\A j \in JobsOf(t) : jobs[j].over) => (\A j \in JobsOf(t)' : jobs'[j].over)
  BY DEF Untouched
<1>4. ActiveInv(t)'
  BY DEF LifeInv, ActiveInv, Untouched
<1>5. GoneInv(t)'
  BY <1>1, <1>2, <1>3 DEF LifeInv, GoneInv, Untouched
<1>6. LeftInv(t)'
  BY DEF LifeInv, LeftInv, Untouched
<1>. QED BY <1>4, <1>5, <1>6 DEF LifeInv

\* And so does the work on its component: what HealthyInv says of t depends on the
\* session, its HAL thread, its jobs and the state change under way, if it is of t.
LEMMA HealthyUntouched ==
    ASSUME TypeInv, TypeInv', JobsInv, NEW t \in Sessions, HealthyInv(t), Untouched(t)
    PROVE  HealthyInv(t)'
<1>. SUFFICES ASSUME Healthy(t)'
              PROVE  HealthyInv(t)'
  BY DEF HealthyInv
<1>1. Healthy(t)
  BY DEF Healthy, Untouched
<1>2. ses[t].job # 0 => ses[t].job \in JobsOf(t)
  BY DEF JobsInv
<1>3. Serves(t) => manager.job \in JobsOf(t)
  BY DEF JobsInv, Serves, TypeInv, ManagerRec, JobsOf, JobIds
<1>4. 0 \notin ongoing /\ 0 \notin ongoing'
  BY DEF TypeInv, JobIds
<1>5. Quiet(t)' <=> Quiet(t)
  BY DEF Quiet, Untouched
<1>6. AbortAsked(t)' <=> AbortAsked(t)
  BY DEF AbortAsked, Untouched
<1>7. MoveAsked(t)' <=> MoveAsked(t)
  BY DEF MoveAsked, Untouched
<1>8. AskedInv(t)'
  BY <1>1, <1>5, <1>6, <1>7 DEF AskedInv, HealthyInv, Untouched
<1>9. MovingInv(t)'
  BY <1>1, <1>5, <1>6, <1>7 DEF MovingInv, HealthyInv, Untouched
<1>10. EncodingInv(t)'
  BY <1>1, <1>2, <1>4 DEF EncodingInv, HealthyInv, Untouched
<1>11. ReturnInv(t)'
  BY <1>1, <1>2, <1>4 DEF ReturnInv, HealthyInv, Untouched
<1>12. HandleInv(t)'
  BY <1>1, <1>2, <1>4 DEF HandleInv, HealthyInv, Untouched
<1>13. ServedInv(t)'
  BY <1>1, <1>3 DEF ServedInv, HealthyInv, Untouched
<1>14. AbortingInv(t)'
  BY <1>1, <1>5 DEF AbortingInv, HealthyInv, Untouched
<1>15. OnceInv(t)'
  BY <1>1 DEF OnceInv, HealthyInv, Untouched
<1>. QED BY <1>8, <1>9, <1>10, <1>11, <1>12, <1>13, <1>14, <1>15 DEF HealthyInv

\* The queues, and whom the job manager works for, are functions of jobs, todo and
\* manager.
LEMMA SameQueues ==
    ASSUME UNCHANGED <<jobs, todo, manager>>
    PROVE  /\ Queued' = Queued /\ JobIds' = JobIds
           /\ \A t \in Sessions : JobsOf(t)' = JobsOf(t) /\ (Serves(t)' <=> Serves(t))
BY DEF Queued, JobIds, JobsOf, Serves

\* What the two job queues say stays true when jobs only leave ongoing_job_q and
\* only jobs outside the queue are answered: all steps but those that start a job,
\* take one from the queue or call jobs off.
LEMMA JobsKept ==
    ASSUME JobsInv, JobIds' = JobIds, todo' = todo, ongoing \subseteq JobIds,
           ongoing' \subseteq ongoing,
           \A j \in JobIds : jobs'[j].s = jobs[j].s /\ jobs'[j].over = jobs[j].over
                               /\ jobs[j].s \in Sessions,
           \A j \in Queued : jobs'[j].cbs = jobs[j].cbs,
           \A s \in Sessions : ses'[s].job = ses[s].job,
           manager'.pc = "lock" => ongoing' = {},
           manager'.pc \in ServePcs =>
             manager.pc \in ServePcs /\ manager'.job = manager.job /\ manager.job \in JobIds
    PROVE  JobsInv'
<1>1. Queued' = Queued
  BY DEF Queued
<1>2. \A s \in Sessions : JobsOf(s)' = JobsOf(s)
  BY DEF JobsOf
<1>3. \A i, k \in 1..Len(todo') : todo'[i] = todo'[k] => i = k
  BY DEF JobsInv
<1>4. ASSUME NEW j \in Queued
      PROVE  /\ j \in JobIds /\ j \notin ongoing'
             /\ jobs'[j].cbs = 0 /\ ~jobs'[j].over /\ ses'[jobs'[j].s].job # j
  BY <1>4 DEF JobsInv
<1>5. ASSUME NEW j \in ongoing'
      PROVE  ~jobs'[j].over /\ ses'[jobs'[j].s].job = j
  BY <1>5 DEF JobsInv
<1>6. \A s \in Sessions : ses'[s].job # 0 => ses'[s].job \in JobsOf(s)'
  BY <1>2 DEF JobsInv
<1>7. manager'.pc \in ServePcs =>
        manager'.job # 0 /\ ongoing' \subseteq {manager'.job} /\ ses'[Serving'].job = manager'.job
  BY DEF JobsInv, Serving, Job
<1>. QED BY <1>1, <1>3, <1>4, <1>5, <1>6, <1>7 DEF JobsInv

\* Nobody misses a token of job_sem when the queues and the manager stay as they
\* are and no session is taken from session_handle_q: a callback that was about to
\* post is still about to.
LEMMA WakeKept ==
    ASSUME WakeInv, UNCHANGED <<todo, ongoing, sem, manager>>,
           \A t \in Sessions :
             /\ ses'[t].avail = ses[t].avail /\ ses'[t].job = ses[t].job
             /\ omx[t].at \in {"remove", "giveback"} => omx'[t].at \in {"remove", "giveback"}
             /\ hal'[t].pc = "open" => hal[t].pc = "open" \/ ses[t].avail > 0
             /\ Stopping(t) => Stopping(t)'
    PROVE  WakeInv'
<1>1. Returning => Returning'
  BY DEF Returning
<1>2. NoLostWakeup'
  BY DEF WakeInv, NoLostWakeup
<1>3. ASSUME NEW t \in Sessions, hal'[t].pc = "open"
      PROVE  \/ ses'[t].avail > 0 \/ ses'[t].job \in ongoing'
             \/ omx'[t].at \in {"remove", "giveback"}
  BY <1>3 DEF WakeInv
<1>. QED BY <1>1, <1>2, <1>3 DEF WakeInv

\* Every job is one of a session.
LEMMA JobFacts ==
    ASSUME TypeInv
    PROVE  /\ ongoing \subseteq JobIds
           /\ \A j \in JobIds : jobs[j] \in JobRec /\ jobs[j].s \in Sessions
<1>1. \A j \in JobIds : jobs[j] \in JobRec
  BY DEF TypeInv, JobIds
<1>2. \A r \in JobRec : r.s \in Sessions
  BY DEF JobRec
<1>. QED BY <1>1, <1>2 DEF TypeInv

-----------------------------------------------------------------------------
(* One session at work: the component, its callbacks, the state changes *)

\* A step of the component of s, of its callback or of its HAL thread that leaves
\* the queues and the job manager alone: only the clauses about s are to be shown.
LEMMA LocalStep ==
    ASSUME IInv, NEW s \in Sessions, UNCHANGED <<jobs, todo, ongoing, sem, manager>>,
           TypeInv', LocksInv', MoveInv', ConfigInv',
           \A t \in Sessions : t # s =>
             /\ ses'[t] = ses[t] /\ omx'[t] = omx[t] /\ hal'[t] = hal[t]
             /\ move.s = t \/ move'.s = t => move' = move,
           ses'[s].avail = ses[s].avail /\ ses'[s].job = ses[s].job,
           omx[s].at \in {"remove", "giveback"} => omx'[s].at \in {"remove", "giveback"},
           hal'[s].pc = "open" => hal[s].pc = "open" \/ ses[s].avail > 0,
           Stopping(s) => Stopping(s)',
           Destroyed(s)' => Destroyed(s), hal'[s].pc \in IdlePcs => hal[s].pc \in IdlePcs,
           ActiveInv(s)', LeftInv(s)', HealthyInv(s)'
    PROVE  IInv'
<1>1. /\ Queued' = Queued /\ JobIds' = JobIds
      /\ \A t \in Sessions : JobsOf(t)' = JobsOf(t) /\ (Serves(t)' <=> Serves(t))
  BY SameQueues
<1>2. JobsInv'
  <2>1. ongoing \subseteq JobIds /\ \A j \in JobIds : jobs[j].s \in Sessions
    BY JobFacts DEF IInv
  <2>2. \A t \in Sessions : ses'[t].job = ses[t].job
    OBVIOUS
  <2>3. manager.pc \in ServePcs => manager.job \in JobIds
    BY DEF IInv, JobsInv, TypeInv, ManagerRec, JobIds
  <2>4. manager'.pc = "lock" => ongoing' = {}
    BY DEF IInv, JobsInv
  <2>. QED BY <1>1, <2>1, <2>2, <2>3, <2>4, JobsKept DEF IInv
<1>3. ASSUME NEW t \in Sessions, t # s
      PROVE  LifeInv(t)' /\ HealthyInv(t)'
  <2>1. Untouched(t)
    BY <1>1, <1>3 DEF Untouched
  <2>. QED BY <2>1, LifeUntouched, HealthyUntouched DEF IInv
<1>4. GoneInv(s)'
  <2>1. NoJobs(s) => NoJobs(s)'
    BY <1>1 DEF NoJobs
  <2>. QED BY <1>1, <2>1 DEF IInv, LifeInv, GoneInv
<1>5. WakeInv'
  <2>1. \A t \in Sessions : Stopping(t) => Stopping(t)'
    BY DEF Stopping
  <2>2. \A t \in Sessions :
          /\ ses'[t].avail = ses[t].avail /\ ses'[t].job = ses[t].job
          /\ omx[t].at \in {"remove", "giveback"} => omx'[t].at \in {"remove", "giveback"}
          /\ hal'[t].pc = "open" => hal[t].pc = "open" \/ ses[t].avail > 0
    OBVIOUS
  <2>. QED BY <2>1, <2>2, WakeKept DEF IInv
<1>. QED BY <1>2, <1>3, <1>4, <1>5 DEF IInv, LifeInv

\* fbd and event_handler take the job out of ongoing_job_q before they post job_sem.
LEMMA JobRemoveInv ==
    ASSUME IInv, NEW s \in Sessions, JobRemove(s)
    PROVE  IInv'
<1>1. /\ omx[s].at = "remove" /\ omx' = [omx EXCEPT ![s].at = "giveback"]
      /\ ongoing' = ongoing \ {ses[s].job}
      /\ UNCHANGED <<jobs, todo, sem, intf, jobLock, ses, inprogress, move, manager, hal,
                     faults>>
  BY DEF JobRemove, locks
<1>2. /\ omx'[s].at = "giveback"
      /\ omx'[s].state = omx[s].state /\ omx'[s].busy = omx[s].busy
      /\ omx'[s].cmds = omx[s].cmds /\ omx'[s].failed = omx[s].failed
      /\ \A t \in Sessions : t # s => omx'[t] = omx[t]
  BY <1>1 DEF IInv, TypeInv, ComponentRec
<1>3. TypeInv'
  BY <1>1 DEF IInv, TypeInv, ComponentRec, AnswerPcs, JobIds
<1>4. LocksInv' /\ MoveInv' /\ ConfigInv'
  BY <1>1 DEF IInv, LocksInv, MoveInv, Serves, ConfigInv, OneConfigured
<1>5. JobsInv'
  BY <1>1 DEF IInv, JobsInv, Serving, Job, JobIds, JobsOf, Queued
<1>6. /\ Queued' = Queued /\ JobIds' = JobIds
      /\ \A t \in Sessions : JobsOf(t)' = JobsOf(t) /\ (Serves(t)' <=> Serves(t))
  BY <1>1 DEF Queued, JobIds, JobsOf, Serves
<1>7. ASSUME NEW t \in Sessions, t # s
      PROVE  Untouched(t)
  BY <1>1, <1>2, <1>6, <1>7, OwnJob DEF Untouched, IInv
<1>8. LifeInv(s)'
  <2>1. NoJobs(s) => NoJobs(s)'
    BY <1>1, <1>6 DEF NoJobs
  <2>2. ActiveInv(s)'
    BY <1>1, <1>2 DEF IInv, LifeInv, ActiveInv
  <2>3. GoneInv(s)' /\ LeftInv(s)'
    BY <1>1, <1>6, <2>1 DEF IInv, LifeInv, GoneInv, LeftInv, Destroyed
  <2>. QED BY <2>2, <2>3 DEF LifeInv
<1>9. HealthyInv(s)'
  <2>. SUFFICES ASSUME Healthy(s)'
                PROVE  HealthyInv(s)'
    BY DEF HealthyInv
  <2>1. Healthy(s) /\ HealthyInv(s)
    BY <1>1, <1>2 DEF Healthy, IInv
  <2>2. ses[s].job # 0 /\ ~omx[s].busy /\ Quiet(s)
    BY <1>1, <2>1 DEF HealthyInv, ReturnInv, AskedInv, EncodingInv, AbortAsked, MoveAsked, Quiet
  <2>3. AskedInv(s)' /\ AbortingInv(s)' /\ MovingInv(s)'
    BY <1>1, <1>2, <2>1, <2>2 DEF HealthyInv, AskedInv, AbortingInv, MovingInv, ReturnInv,
                                  Quiet, AbortAsked, MoveAsked
  <2>4. EncodingInv(s)' /\ ReturnInv(s)'
    BY <1>1, <1>2, <2>1, <2>2 DEF HealthyInv, EncodingInv, ReturnInv, Serves
  <2>5. HandleInv(s)' /\ ServedInv(s)' /\ OnceInv(s)'
    BY <1>1, <1>2, <2>1, <2>2 DEF HealthyInv, HandleInv, ServedInv, ReturnInv, OnceInv,
                                  Serves, JobsOf, JobIds
  <2>. QED BY <2>3, <2>4, <2>5 DEF HealthyInv
<1>10. WakeInv'
  <2>1. Returning'
    BY <1>2 DEF Returning
  <2>2. NoLostWakeup'
    BY <2>1 DEF NoLostWakeup, Returning
  <2>3. ASSUME NEW t \in Sessions, hal'[t].pc = "open"
        PROVE  ses'[t].avail > 0 \/ ses'[t].job \in ongoing'
                 \/ omx'[t].at \in {"remove", "giveback"}
    BY <1>1, <1>2, <2>3 DEF IInv, WakeInv, JobsInv, JobsOf, TypeInv, JobIds
  <2>. QED BY <2>1, <2>2, <2>3 DEF WakeInv
<1>. QED BY <1>3, <1>4, <1>5, <1>6, <1>8, <1>9, <1>10, <1>7, LifeUntouched,
            HealthyUntouched DEF IInv

-----------------------------------------------------------------------------
(* mm_jpeg_session_change_state *)

\* The state change that a thread sends, looks at or waits for is of some session.
LEMMA MoveSession ==
    ASSUME IInv, move.at \in {"send", "check", "wait", "woken"}
    PROVE  move.s \in Sessions
BY DEF IInv, TypeInv, MoveRec, MoveInv

\* What a state change leaves alone of a session.
Steady(s) ==
    /\ ses'[s].active = ses[s].active /\ ses'[s].config = ses[s].config
    /\ ses'[s].abort = ses[s].abort /\ ses'[s].lock = ses[s].lock
    /\ ses'[s].avail = ses[s].avail /\ ses'[s].job = ses[s].job
    /\ ses'[s].encoding = ses[s].encoding /\ ses'[s].err = ses[s].err

\* A step of mm_jpeg_session_change_state, by the holder of job_lock: only what it
\* does to the component and the pending state change of s is to be shown.
LEMMA MoveStep ==
    ASSUME IInv, NEW s \in Sessions, move.s = s, move'.s = s, move'.at # "off",
           UNCHANGED <<jobs, todo, ongoing, sem, intf, jobLock, inprogress, manager, hal>>,
           \A t \in Sessions : t # s => ses'[t] = ses[t] /\ omx'[t] = omx[t],
           Steady(s), omx'[s].at = omx[s].at, omx'[s].busy = omx[s].busy,
           ses[s].active \/ omx'[s].cmds = omx[s].cmds,
           TypeInv', HealthyInv(s)'
    PROVE  IInv'
<1>1. LocksInv'
  BY DEF IInv, LocksInv
<1>2. ConfigInv'
  <2>1. \A t \in Sessions : ses'[t].config = ses[t].config
    BY DEF Steady
  <2>. QED BY <2>1 DEF IInv, ConfigInv, OneConfigured
<1>3. MoveInv'
  BY JpegConstants DEF IInv, MoveInv, Serves
<1>4. ActiveInv(s)'
  <2>1. ActiveInv(s) /\ hal'[s] = hal[s]
    BY DEF IInv, LifeInv
  <2>2. ~ses'[s].active => omx'[s].cmds = omx[s].cmds
    BY DEF Steady
  <2>. QED BY <2>1, <2>2 DEF ActiveInv, Steady
<1>5. LeftInv(s)'
  <2>1. LeftInv(s) /\ hal'[s] = hal[s]
    BY DEF IInv, LifeInv
  <2>2. JobsOf(s)' = JobsOf(s) /\ Queued' = Queued
    BY DEF JobsOf, JobIds, Queued
  <2>. QED BY <2>1, <2>2 DEF LeftInv
<1>6. /\ Destroyed(s)' => Destroyed(s)
      /\ Stopping(s) => Stopping(s)'
  BY DEF Destroyed, Stopping
<1>7. \A t \in Sessions : t # s =>
        /\ ses'[t] = ses[t] /\ omx'[t] = omx[t] /\ hal'[t] = hal[t]
        /\ move.s = t \/ move'.s = t => move' = move
  OBVIOUS
<1>. QED BY <1>1, <1>2, <1>3, <1>4, <1>5, <1>6, <1>7, LocalStep DEF Steady

\* The clauses about the encoding depend on what the component does, and on nothing
\* that a state change writes (state_change_pending, the commands).
LEMMA EncodingKept ==
    ASSUME NEW s \in Sessions, HealthyInv(s), Healthy(s), Steady(s), hal'[s] = hal[s],
           omx'[s].at = omx[s].at, omx'[s].busy = omx[s].busy, omx'[s].state = omx[s].state,
           UNCHANGED <<jobs, ongoing, manager>>
    PROVE  EncodingInv(s)' /\ ReturnInv(s)' /\ HandleInv(s)' /\ ServedInv(s)' /\ OnceInv(s)'
<1>1. EncodingInv(s)'
  BY DEF HealthyInv, EncodingInv, Steady, Serves
<1>2. ReturnInv(s)'
  BY DEF HealthyInv, ReturnInv, Steady, Serves
<1>3. HandleInv(s)'
  BY DEF HealthyInv, HandleInv, Steady, Serves
<1>4. ServedInv(s)'
  BY DEF HealthyInv, ServedInv, Steady, Serves
<1>5. OnceInv(s)'
  BY DEF HealthyInv, OnceInv, JobsOf, JobIds
<1>. QED BY <1>1, <1>2, <1>3, <1>4, <1>5

\* The call that aborts holds job_lock, and so does whoever waits for a state change:
\* the two never ask the same component for something at the same time.
LEMMA MoveExcludesAbort ==
    ASSUME IInv, NEW s \in Sessions, move.s = s
    PROVE  hal[s].pc \notin AbortPcs
<1>1. CASE manager.pc \in ServePcs
  BY <1>1, JpegConstants DEF IInv, LocksInv, LockPcs
<1>2. CASE manager.pc \notin ServePcs
  BY <1>2, JpegConstants DEF IInv, MoveInv, ServePcs, CreatePcs, FreePcs, AbortPcs
<1>. QED BY <1>1, <1>2

\* mm_jpeg_session_change_state sends the command, unless the component is in that
\* state already.
LEMMA MoveSendInv ==
    ASSUME IInv, MoveSend
    PROVE  IInv'
<1>1. PICK s \in Sessions : move.s = s
  BY MoveSession DEF MoveSend
<1>2. /\ move.at = "send" /\ ~ses[s].lock
      /\ UNCHANGED <<jobs, todo, ongoing, sem, intf, jobLock, inprogress, manager, hal>>
  BY <1>1 DEF MoveSend, queues, locks
<1>3. move \in MoveRec /\ ses \in [Sessions -> SessionRec] /\ omx \in [Sessions -> ComponentRec]
  BY DEF IInv, TypeInv
<1>4. ActiveInv(s) /\ HealthyInv(s) /\ ses[s].active
  <2>1. ActiveInv(s) /\ HealthyInv(s)
    BY DEF IInv, LifeInv
  <2>2. ses[s].active
    BY <1>1, <2>1, JpegConstants DEF IInv, MoveInv, ConfigInv, OneConfigured, LifeInv,
       ActiveInv, GoneInv, Destroyed, NoJobs, CreatePcs, FreePcs, GonePcs, IdlePcs
  <2>. QED BY <2>1, <2>2
<1>5. CASE omx[s].state = move.to
  <2>1. /\ UNCHANGED <<ses, omx, faults>> /\ move' = [move EXCEPT !.at = "ok"]
    BY <1>1, <1>5 DEF MoveSend, Answer
  <2>2. move'.s = s /\ move'.at = "ok" /\ move' \in MoveRec
    BY <1>1, <1>3, <2>1 DEF MoveRec, MoveAts
  <2>3. TypeInv'
    BY <1>2, <2>1, <2>2 DEF IInv, TypeInv, JobIds
  <2>4. HealthyInv(s)'
    <3>. SUFFICES ASSUME Healthy(s)
                  PROVE  HealthyInv(s)'
      BY <2>1 DEF HealthyInv, Healthy
    <3>1. Quiet(s) /\ omx[s].at = "idle" /\ ~omx[s].busy
      BY <1>1, <1>2, <1>4 DEF HealthyInv, MovingInv, ActiveInv, AskedInv, Quiet, IInv,
         TypeInv, ComponentRec, AnswerPcs
    <3>2. AskedInv(s)' /\ MovingInv(s)'
      BY <1>2, <1>4, <2>1, <2>2, <3>1 DEF HealthyInv, AskedInv, MovingInv, Quiet
    <3>3. AbortingInv(s)'
      BY <1>2, <1>4, <2>1 DEF HealthyInv, AbortingInv, Quiet
    <3>. QED BY <1>2, <1>4, <2>1, <3>2, <3>3, EncodingKept DEF HealthyInv, Steady
  <2>. QED BY <1>1, <1>2, <2>1, <2>2, <2>3, <2>4, MoveStep DEF Steady
<1>6. CASE /\ omx[s].state # move.to
           /\ ses' = [ses EXCEPT ![s].pending = TRUE]
           /\ omx' = [omx EXCEPT ![s].cmds = Append(@, move.to)]
           /\ move' = [move EXCEPT !.at = "check"] /\ UNCHANGED faults
  <2>1. /\ move'.s = s /\ move'.at = "check" /\ move' \in MoveRec
    BY <1>1, <1>3, <1>6 DEF MoveRec, MoveAts
  <2>2. Steady(s) /\ ses'[s].pending = TRUE /\ ses' \in [Sessions -> SessionRec]
    BY <1>3, <1>6 DEF Steady, SessionRec
  <2>3. /\ omx'[s].at = omx[s].at /\ omx'[s].busy = omx[s].busy /\ omx'[s].state = omx[s].state
        /\ omx'[s].failed = omx[s].failed /\ omx'[s].cmds = Append(omx[s].cmds, move.to)
        /\ omx' \in [Sessions -> ComponentRec]
    <3>1. omx[s] \in ComponentRec /\ Append(omx[s].cmds, move.to) \in Seq(States)
      BY <1>3 DEF ComponentRec, MoveRec
    <3>. QED BY <1>3, <1>6, <3>1 DEF ComponentRec
  <2>4. \A t \in Sessions : t # s => ses'[t] = ses[t] /\ omx'[t] = omx[t]
    BY <1>3, <1>6
  <2>5. TypeInv'
    BY <1>2, <1>6, <2>1, <2>2, <2>3 DEF IInv, TypeInv, JobIds
  <2>6. HealthyInv(s)'
    <3>. SUFFICES ASSUME Healthy(s)
                  PROVE  HealthyInv(s)'
      BY <2>2, <2>3 DEF HealthyInv, Healthy, Steady
    <3>1. Quiet(s) /\ omx[s].at = "idle" /\ ~omx[s].busy
      BY <1>1, <1>2, <1>4 DEF HealthyInv, MovingInv, ActiveInv, AskedInv, Quiet, IInv,
         TypeInv, ComponentRec, AnswerPcs
    <3>2. hal[s].pc \notin AbortPcs
      BY <1>1, <1>2, MoveExcludesAbort
    <3>3. omx'[s].cmds = <<move'.to>> /\ move'.to = move.to
      BY <1>1, <1>3, <1>6, <2>3, <3>1 DEF Quiet, MoveRec
    <3>4. MoveAsked(s)' /\ omx'[s].at = "idle" /\ ~omx'[s].busy
      BY <1>6, <2>1, <2>2, <2>3, <3>1, <3>3 DEF MoveAsked
    <3>5. AskedInv(s)'
      BY <1>4, <2>2, <3>4 DEF HealthyInv, AskedInv, Steady
    <3>6. MovingInv(s)'
      BY <2>1, <2>2, <3>4 DEF MovingInv
    <3>7. AbortingInv(s)'
      BY <1>2, <3>2 DEF AbortingInv, AbortPcs
    <3>. QED BY <1>2, <1>4, <2>2, <2>3, <3>5, <3>6, <3>7, EncodingKept DEF HealthyInv
  <2>. QED BY <1>1, <1>2, <1>4, <2>1, <2>2, <2>3, <2>4, <2>5, <2>6, MoveStep
<1>7. CASE /\ ses' = [ses EXCEPT ![s].pending = TRUE] /\ Fault(s)
           /\ move' = [move EXCEPT !.at = "failed"]
  <2>1. /\ move'.s = s /\ move'.at = "failed" /\ move' \in MoveRec
    BY <1>1, <1>3, <1>7 DEF MoveRec, MoveAts
  <2>2. Steady(s) /\ ses' \in [Sessions -> SessionRec]
    BY <1>3, <1>7 DEF Steady, SessionRec
  <2>3. /\ omx'[s].at = omx[s].at /\ omx'[s].busy = omx[s].busy /\ omx'[s].failed = TRUE
        /\ omx'[s].cmds = omx[s].cmds /\ omx' \in [Sessions -> ComponentRec]
    BY <1>3, <1>7 DEF Fault, ComponentRec
  <2>4. \A t \in Sessions : t # s => ses'[t] = ses[t] /\ omx'[t] = omx[t]
    BY <1>3, <1>7 DEF Fault
  <2>5. TypeInv'
    BY <1>2, <1>7, <2>1, <2>2, <2>3, JpegConstants DEF IInv, TypeInv, JobIds, Fault, MayFail
  <2>6. HealthyInv(s)'
    BY <2>3 DEF HealthyInv, Healthy
  <2>. QED BY <1>1, <1>2, <2>1, <2>2, <2>3, <2>4, <2>5, <2>6, MoveStep
<1>. QED BY <1>1, <1>5, <1>6, <1>7 DEF MoveSend, Answer

\* Then it looks at error_flag, gives or takes the buffers, and waits unless the
\* component has reported.
LEMMA MoveCheckInv ==
    ASSUME IInv, MoveCheck
    PROVE  IInv'
<1>1. PICK s \in Sessions : move.s = s
  BY MoveSession DEF MoveCheck
<1>2. /\ move.at = "check" /\ ~ses[s].lock
      /\ UNCHANGED <<jobs, todo, ongoing, sem, intf, jobLock, ses, inprogress, manager, hal,
                     faults>>
  BY <1>1 DEF MoveCheck, queues, locks
<1>3. move \in MoveRec /\ omx \in [Sessions -> ComponentRec] /\ HealthyInv(s)
  BY DEF IInv, TypeInv
<1>4. /\ move' = [move EXCEPT !.at = move'.at] /\ move'.at \in {"failed", "wait", "ok"}
      /\ move'.at = "failed" => ses[s].err
      /\ move'.at = "wait" => ses[s].pending
      /\ move'.at = "ok" => ~ses[s].pending
  BY <1>1, <1>2, <1>3 DEF MoveCheck, Answer, MoveRec
<1>5. move'.s = s /\ move'.to = move.to /\ move' \in MoveRec
  BY <1>1, <1>3, <1>4 DEF MoveRec, MoveAts
<1>6. \/ omx' = omx
      \/ \E b \in BOOLEAN : omx' = [omx EXCEPT ![s].bufs = b]
  <2>1. omx[s].bufs \in BOOLEAN
    BY <1>3 DEF ComponentRec
  <2>. QED BY <1>1, <2>1 DEF MoveCheck
<1>7. /\ omx'[s].at = omx[s].at /\ omx'[s].busy = omx[s].busy /\ omx'[s].state = omx[s].state
      /\ omx'[s].failed = omx[s].failed /\ omx'[s].cmds = omx[s].cmds
      /\ omx' \in [Sessions -> ComponentRec]
      /\ \A t \in Sessions : t # s => omx'[t] = omx[t]
  <2>1. omx \in [Sessions -> ComponentRec]
    BY <1>3
  <2>2. CASE omx' = omx
    BY <2>1, <2>2
  <2>3. ASSUME NEW b \in BOOLEAN, omx' = [omx EXCEPT ![s].bufs = b]
        PROVE  <1>7!:
    <3>1. omx' \in [Sessions -> ComponentRec]
      BY <2>1, <2>3 DEF ComponentRec
    <3>. QED BY <2>1, <2>3, <3>1 DEF ComponentRec
  <2>. QED BY <1>6, <2>2, <2>3
<1>8. TypeInv'
  BY <1>2, <1>5, <1>7 DEF IInv, TypeInv, JobIds
<1>9. HealthyInv(s)'
  <2>. SUFFICES ASSUME Healthy(s)
                PROVE  HealthyInv(s)'
    BY <1>2, <1>7 DEF HealthyInv, Healthy
  <2>1. /\ Quiet(s)' <=> Quiet(s)
        /\ AbortAsked(s)' <=> AbortAsked(s)
        /\ MoveAsked(s) => move'.at # "ok"
        /\ MoveAsked(s) /\ move'.at = "wait" => MoveAsked(s)'
    BY <1>1, <1>2, <1>5, <1>4, <1>7 DEF Quiet, AbortAsked, MoveAsked
  <2>2. move'.at # "failed"
    BY <1>3, <1>4 DEF HealthyInv, AskedInv
  <2>3. AskedInv(s)'
    BY <1>2, <1>3, <1>4, <1>7, <2>1, <2>2 DEF HealthyInv, AskedInv
  <2>4. MovingInv(s)'
    BY <1>1, <1>2, <1>3, <1>4, <1>7, <2>1, <2>2 DEF HealthyInv, MovingInv
  <2>5. AbortingInv(s)'
    BY <1>2, <1>3, <1>7, <2>1 DEF HealthyInv, AbortingInv
  <2>. QED BY <1>2, <1>3, <1>7, <2>3, <2>4, <2>5, EncodingKept DEF HealthyInv, Steady
<1>. QED BY <1>1, <1>2, <1>4, <1>5, <1>7, <1>8, <1>9, MoveStep DEF Steady

\* pthread_cond_wait returns with the session's lock.
LEMMA MoveWakeInv ==
    ASSUME IInv, MoveWake
    PROVE  IInv'
<1>1. PICK s \in Sessions : move.s = s
  BY MoveSession DEF MoveWake
<1>2. /\ move.at = "woken" /\ move' = [move EXCEPT !.at = "ok"]
      /\ UNCHANGED <<jobs, todo, ongoing, sem, intf, jobLock, ses, inprogress, omx, manager,
                     hal>>
      /\ faults' = faults
  BY <1>1 DEF MoveWake, Answer, queues, locks
<1>3. move'.s = s /\ move'.at = "ok" /\ move' \in MoveRec
  BY <1>1, <1>2 DEF IInv, TypeInv, MoveRec, MoveAts
<1>4. TypeInv'
  BY <1>2, <1>3 DEF IInv, TypeInv, JobIds
<1>5. HealthyInv(s)'
  <2>. SUFFICES ASSUME Healthy(s)
                PROVE  HealthyInv(s)'
    BY <1>2 DEF HealthyInv, Healthy
  <2>1. HealthyInv(s)
    BY DEF IInv
  <2>2. Quiet(s) /\ omx[s].at = "idle"
    BY <1>1, <1>2, <2>1 DEF HealthyInv, MovingInv
  <2>3. Quiet(s)' /\ omx' = omx /\ ses' = ses
    BY <1>2, <2>2 DEF Quiet
  <2>4. AskedInv(s)' /\ MovingInv(s)'
    BY <1>1, <1>3, <2>1, <2>2, <2>3 DEF HealthyInv, AskedInv, MovingInv
  <2>5. AbortingInv(s)'
    BY <1>2, <2>1, <2>3 DEF HealthyInv, AbortingInv
  <2>. QED BY <1>2, <2>1, <2>4, <2>5, EncodingKept DEF HealthyInv, Steady
<1>. QED BY <1>1, <1>2, <1>3, <1>4, <1>5, MoveStep DEF Steady

-----------------------------------------------------------------------------
(* The events of the component: mm_jpeg_fbd and mm_jpeg_event_handler *)

\* pthread_cond_signal by a callback of s wakes the state change or the abort that
\* waits for s, and nobody else.
LEMMA SignalEffect ==
    ASSUME TypeInv, NEW s \in Sessions, Signal(s)
    PROVE  /\ move' \in MoveRec /\ hal' \in [Sessions -> HalRec]
           /\ move'.s = move.s /\ move'.to = move.to
           /\ move'.at = IF move.s = s /\ move.at = "wait" THEN "woken" ELSE move.at
           /\ move.s # s => move' = move
           /\ \A t \in Sessions : t # s => hal'[t] = hal[t]
           /\ hal'[s].pc = IF hal[s].pc = "aborting" THEN "aborted" ELSE hal[s].pc
           /\ hal'[s].job = hal[s].job /\ hal'[s].left = hal[s].left
<1>1. /\ move' \in MoveRec /\ move'.s = move.s /\ move'.to = move.to
      /\ move'.at = IF move.s = s /\ move.at = "wait" THEN "woken" ELSE move.at
      /\ move.s # s => move' = move
  BY DEF Signal, TypeInv, MoveRec, MoveAts
<1>2. /\ hal' \in [Sessions -> HalRec] /\ \A t \in Sessions : t # s => hal'[t] = hal[t]
      /\ hal'[s].pc = IF hal[s].pc = "aborting" THEN "aborted" ELSE hal[s].pc
      /\ hal'[s].job = hal[s].job /\ hal'[s].left = hal[s].left
  <2>1. CASE hal[s].pc = "aborting"
    <3>1. hal' = [hal EXCEPT ![s].pc = "aborted"] /\ "aborted" \in HalPcs
      BY <2>1 DEF Signal, HalPcs, IntfPcs, LockPcs, AbortPcs
    <3>. QED BY <2>1, <3>1 DEF TypeInv, HalRec
  <2>2. CASE hal[s].pc # "aborting"
    BY <2>2 DEF Signal, TypeInv
  <2>. QED BY <2>1, <2>2
<1>. QED BY <1>1, <1>2

\* An answer counts, and sets the status, in the record of the job.
LEMMA Answered ==
    ASSUME NEW r \in JobRec, NEW status \in {"done", "error"}
    PROVE  [[r EXCEPT !.cbs = @ + 1] EXCEPT !.status = status] \in JobRec
<1>. DEFINE q == [r EXCEPT !.cbs = @ + 1]
<1>1. q \in JobRec
  BY DEF JobRec
<1>. HIDE DEF q
<1>2. [q EXCEPT !.status = status] \in JobRec
  BY <1>1 DEF JobRec
<1>. QED BY <1>2 DEF q

\* jpeg_cb answers the one job it is called for, and no job changes its session.
LEMMA CallBackEffect ==
    ASSUME TypeInv, NEW j \in Nat, NEW status \in {"done", "error"}, CallBack(j, status)
    PROVE  /\ jobs' \in Seq(JobRec) /\ Len(jobs') = Len(jobs) /\ JobIds' = JobIds
           /\ \A k \in JobIds : /\ jobs'[k].s = jobs[k].s /\ jobs'[k].over = jobs[k].over
                                /\ k # j => jobs'[k] = jobs[k]
                                /\ k = j => jobs'[k].cbs = jobs[k].cbs + 1
<1>1. DOMAIN jobs = JobIds /\ \A k \in JobIds : jobs[k] \in JobRec
  BY DEF TypeInv, JobIds
<1>. DEFINE job == [[jobs[j] EXCEPT !.cbs = @ + 1] EXCEPT !.status = status]
<1>2. CASE j \in JobIds
  <2>1. job \in JobRec
    BY <1>1, <1>2, Answered
  <2>2. jobs' = [jobs EXCEPT ![j] = job]
    BY <1>1 DEF CallBack
  <2>3. job.s = jobs[j].s /\ job.over = jobs[j].over /\ job.cbs = jobs[j].cbs + 1
    BY <1>1, <1>2 DEF JobRec
  <2>. HIDE DEF job
  <2>4. jobs' \in Seq(JobRec) /\ Len(jobs') = Len(jobs)
    BY <1>2, <2>1, <2>2, ExceptSeq DEF TypeInv, JobIds
  <2>5. \A k \in JobIds : jobs'[k] = IF k = j THEN job ELSE jobs[k]
    BY <1>1, <2>2
  <2>. QED BY <2>3, <2>4, <2>5 DEF JobIds
<1>3. CASE j \notin JobIds
  <2>2. jobs' = [[jobs EXCEPT ![j].cbs = @ + 1] EXCEPT ![j].status = status]
    BY DEF CallBack
  <2>3. jobs' = jobs
    BY <1>1, <1>3, <2>2 DEF TypeInv
  <2>. QED BY <1>3, <2>3 DEF JobIds, TypeInv
<1>. QED BY <1>2, <1>3

\* What a signal leaves of the state change and of the HAL thread of a session.
Signaled(s) ==
    /\ move.s = s <=> move'.s = s
    /\ move.s # s => move' = move
    /\ move.at # "off" => move'.at # "off"
    /\ \/ hal'[s].pc = hal[s].pc
       \/ hal[s].pc = "aborting" /\ hal'[s].pc = "aborted"
    /\ hal'[s].job = hal[s].job /\ hal'[s].left = hal[s].left

\* A signal leaves the locks, the configuration and the order of the state change
\* as they are.
LEMMA SignalKept ==
    ASSUME IInv, NEW s \in Sessions, Signaled(s),
           UNCHANGED <<jobs, intf, jobLock, inprogress, manager>>,
           \A t \in Sessions : t # s => hal'[t] = hal[t],
           \A t \in Sessions : ses'[t].config = ses[t].config
    PROVE  LocksInv' /\ ConfigInv' /\ MoveInv'
<1>1. LocksInv'
  <2>1. \A t \in Sessions :
          /\ hal'[t].pc \in IntfPcs <=> hal[t].pc \in IntfPcs
          /\ hal'[t].pc \in LockPcs <=> hal[t].pc \in LockPcs
    BY DEF Signaled, IntfPcs, LockPcs, AbortPcs
  <2>. QED BY <2>1 DEF IInv, LocksInv
<1>2. ConfigInv'
  <2>2. \A t \in Sessions : hal'[t].pc \in CreatePcs => hal[t].pc \in CreatePcs
    BY DEF Signaled, CreatePcs
  <2>. QED BY <2>2 DEF IInv, ConfigInv, OneConfigured
<1>3. MoveInv'
  <2>1. CASE move.s = s
    <3>1. move'.s = s /\ move.s # NULL /\ move'.at # "off"
      BY <2>1, JpegConstants DEF Signaled, IInv, MoveInv
    <3>2. hal[s].pc \in CreatePcs \cup FreePcs => hal'[s].pc \in CreatePcs \cup FreePcs
      BY DEF Signaled, CreatePcs, FreePcs
    <3>3. \/ manager.pc \in {"unload", "unloaded"} /\ inprogress = s
          \/ manager.pc \in {"execute", "configured"} /\ Serves(s)
          \/ hal[s].pc \in CreatePcs \cup FreePcs
      BY <2>1, JpegConstants DEF IInv, MoveInv
    <3>4. Serves(s)' <=> Serves(s)
      BY DEF Serves
    <3>. QED BY <3>1, <3>2, <3>3, <3>4, JpegConstants DEF MoveInv
  <2>2. CASE move.s # s
    <3>1. move' = move
      BY <2>2 DEF Signaled
    <3>2. \A t \in Sessions : Serves(t)' <=> Serves(t)
      BY DEF Serves
    <3>3. move.s # NULL => move.s \in Sessions /\ hal'[move.s] = hal[move.s]
      BY <2>2 DEF IInv, TypeInv, MoveRec
    <3>. QED BY <3>1, <3>2, <3>3 DEF IInv, MoveInv
  <2>. QED BY <2>1, <2>2
<1>. QED BY <1>1, <1>2, <1>3

\* What a report of the component that nobody is called back for leaves of a session.
Reported(s) ==
    /\ ses'[s].active = ses[s].active /\ ses'[s].config = ses[s].config
    /\ ses'[s].lock = ses[s].lock
    /\ ses'[s].avail = ses[s].avail /\ ses'[s].job = ses[s].job
    /\ ses'[s].abort = ses[s].abort \/ (ses[s].abort = "init" /\ ses'[s].abort = "done")
    /\ omx[s].at \notin {"remove", "giveback"} /\ omx'[s].at \notin {"remove", "giveback"}
    /\ Signaled(s)

\* A report of the component of s, before or after it has a job to give back: only
\* that s is as healthy as before is to be shown.
LEMMA ReportStep ==
    ASSUME IInv, NEW s \in Sessions, ses[s].active, Reported(s),
           UNCHANGED <<jobs, todo, ongoing, sem, intf, jobLock, inprogress, manager>>,
           \A t \in Sessions : t # s => ses'[t] = ses[t] /\ omx'[t] = omx[t] /\ hal'[t] = hal[t],
           TypeInv', HealthyInv(s)'
    PROVE  IInv'
<1>1. LocksInv' /\ ConfigInv' /\ MoveInv'
  <2>1. \A t \in Sessions : ses'[t].config = ses[t].config
    BY DEF Reported
  <2>. QED BY <2>1, SignalKept DEF Reported
<1>2. ActiveInv(s)'
  <2>1. ActiveInv(s)
    BY DEF IInv, LifeInv
  <2>. QED BY <2>1 DEF ActiveInv, FreePcs, CreatePcs, Reported, Signaled
<1>3. LeftInv(s)'
  <2>1. LeftInv(s) /\ JobsOf(s)' = JobsOf(s) /\ Queued' = Queued
    BY SameQueues DEF IInv, LifeInv
  <2>. QED BY <2>1 DEF LeftInv, AbortPcs, Reported, Signaled
<1>4. /\ Destroyed(s)' => Destroyed(s)
      /\ Stopping(s) => Stopping(s)'
      /\ hal'[s].pc = "open" => hal[s].pc = "open"
      /\ hal'[s].pc \in IdlePcs => hal[s].pc \in IdlePcs
  BY DEF Destroyed, Stopping, GonePcs, IdlePcs, FreePcs, CreatePcs, AbortPcs, Reported, Signaled
<1>5. \A t \in Sessions : t # s =>
        /\ ses'[t] = ses[t] /\ omx'[t] = omx[t] /\ hal'[t] = hal[t]
        /\ move.s = t \/ move'.s = t => move' = move
  BY DEF Reported, Signaled
<1>6. /\ ses'[s].avail = ses[s].avail /\ ses'[s].job = ses[s].job
      /\ omx[s].at \in {"remove", "giveback"} => omx'[s].at \in {"remove", "giveback"}
  BY DEF Reported
<1>. QED BY <1>1, <1>2, <1>3, <1>4, <1>5, <1>6, LocalStep

\* The first command of the component, and those after it.
LEMMA Cmds ==
    ASSUME NEW q \in Seq(States), q # <<>>
    PROVE  /\ Head(q) \in States /\ Tail(q) \in Seq(States)
           /\ \A x : q = <<x>> => Head(q) = x /\ Tail(q) = <<>>
<1>1. Head(q) \in States /\ Tail(q) \in Seq(States)
  OBVIOUS
<1>2. \A x : q = <<x>> => Head(q) = x /\ Tail(q) = <<>>
  OBVIOUS
<1>. QED BY <1>1, <1>2

\* What Change leaves of the component: a state change made, or refused.
LEMMA ChangeEffect ==
    ASSUME TypeInv, NEW s \in Sessions, Change(s)
    PROVE  /\ omx' \in [Sessions -> ComponentRec]
           /\ \A t \in Sessions : t # s => omx'[t] = omx[t]
           /\ omx'[s].cmds = Tail(omx[s].cmds) /\ omx'[s].at \in {"complete", "error"}
           /\ omx'[s].failed = omx[s].failed \/ omx'[s].failed = TRUE
           /\ omx'[s].failed = FALSE =>
                \/ /\ omx'[s].at = "complete" /\ omx'[s].state = Head(omx[s].cmds)
                   /\ omx'[s].busy = (omx[s].busy /\ Head(omx[s].cmds) = "Executing")
                \/ /\ omx'[s].at = "error" /\ omx[s].state = Head(omx[s].cmds)
           /\ faults' \in 0..MaxFaults
<1>. DEFINE to == Head(omx[s].cmds)
            next == [omx[s] EXCEPT !.cmds = Tail(@)]
<1>1. omx[s] \in ComponentRec /\ omx[s].cmds \in Seq(States) /\ omx[s].cmds # <<>>
  BY DEF TypeInv, ComponentRec, Change
<1>2. to \in States /\ Tail(omx[s].cmds) \in Seq(States)
  BY <1>1, Cmds
<1>3. /\ next \in ComponentRec /\ next.cmds = Tail(omx[s].cmds) /\ next.failed = omx[s].failed
      /\ next.busy = omx[s].busy
  BY <1>1, <1>2 DEF ComponentRec
<1>4. CASE /\ omx' = [omx EXCEPT ![s] = [next EXCEPT
                        !.state = to, !.busy = @ /\ to = "Executing", !.at = "complete"]]
           /\ UNCHANGED faults
  <2>. DEFINE b == next.busy /\ to = "Executing"
  <2>1. b \in BOOLEAN
    BY <1>3 DEF ComponentRec
  <2>2. omx' = [omx EXCEPT ![s] = [next EXCEPT !.state = to, !.busy = b, !.at = "complete"]]
    BY <1>4
  <2>. HIDE DEF b, to, next
  <2>3. /\ omx' \in [Sessions -> ComponentRec] /\ \A t \in Sessions : t # s => omx'[t] = omx[t]
        /\ omx'[s].state = to /\ omx'[s].busy = b /\ omx'[s].at = "complete"
        /\ omx'[s].cmds = next.cmds /\ omx'[s].failed = next.failed
    BY <1>2, <1>3, <2>1, <2>2 DEF TypeInv, ComponentRec, AnswerPcs
  <2>. QED BY <1>3, <1>4, <2>3 DEF b, to, TypeInv
<1>5. CASE /\ omx[s].state = to
           /\ omx' = [omx EXCEPT ![s] = [next EXCEPT !.at = "error"]] /\ UNCHANGED faults
  <2>. HIDE DEF next
  <2>1. /\ omx' \in [Sessions -> ComponentRec] /\ \A t \in Sessions : t # s => omx'[t] = omx[t]
        /\ omx'[s].at = "error"
        /\ omx'[s].cmds = next.cmds /\ omx'[s].failed = next.failed
    BY <1>3, <1>5 DEF TypeInv, ComponentRec, AnswerPcs
  <2>. QED BY <1>3, <1>5, <2>1 DEF TypeInv
<1>6. CASE /\ MayFail(s)
           /\ omx' = [omx EXCEPT ![s] = [next EXCEPT !.at = "error", !.failed = TRUE]]
  <2>. HIDE DEF next
  <2>1. /\ omx' \in [Sessions -> ComponentRec] /\ \A t \in Sessions : t # s => omx'[t] = omx[t]
        /\ omx'[s].at = "error"
        /\ omx'[s].cmds = next.cmds /\ omx'[s].failed = TRUE
    BY <1>3, <1>6 DEF TypeInv, ComponentRec, AnswerPcs
  <2>. QED BY <1>3, <1>6, <2>1, JpegConstants DEF TypeInv, MayFail
<1>. QED BY <1>4, <1>5, <1>6 DEF Change

\* The component makes, or refuses, the first state change that it was told.
LEMMA ChangeInv ==
    ASSUME IInv, NEW s \in Sessions, Change(s)
    PROVE  IInv'
<1>1. /\ omx[s].at = "idle" /\ omx[s].cmds # <<>>
      /\ UNCHANGED <<jobs, todo, ongoing, sem, intf, jobLock, ses, inprogress, move, manager,
                     hal>>
  BY DEF Change, queues, locks
<1>2. /\ omx' \in [Sessions -> ComponentRec]
      /\ \A t \in Sessions : t # s => omx'[t] = omx[t]
      /\ omx'[s].cmds = Tail(omx[s].cmds) /\ omx'[s].at \in {"complete", "error"}
      /\ omx'[s].failed = omx[s].failed \/ omx'[s].failed = TRUE
      /\ omx'[s].failed = FALSE =>
           \/ /\ omx'[s].at = "complete" /\ omx'[s].state = Head(omx[s].cmds)
              /\ omx'[s].busy = (omx[s].busy /\ Head(omx[s].cmds) = "Executing")
           \/ /\ omx'[s].at = "error" /\ omx[s].state = Head(omx[s].cmds)
      /\ faults' \in 0..MaxFaults
  BY ChangeEffect DEF IInv
<1>3. TypeInv'
  BY <1>1, <1>2 DEF IInv, TypeInv, JobIds
<1>4. ses[s].active /\ HealthyInv(s)
  BY <1>1 DEF IInv, LifeInv, ActiveInv
<1>5. Reported(s)
  BY <1>1, <1>2 DEF Reported, Signaled
<1>6. HealthyInv(s)'
  <2>. SUFFICES ASSUME Healthy(s)'
                PROVE  HealthyInv(s)'
    BY DEF HealthyInv
  <2>1. Healthy(s) /\ omx'[s].failed = FALSE /\ omx[s].cmds \in Seq(States)
    BY <1>1, <1>2 DEF Healthy, IInv, TypeInv, ComponentRec
  <2>2. /\ AbortAsked(s) \/ MoveAsked(s)
        /\ MoveAsked(s) => hal[s].pc \notin AbortPcs /\ ~omx[s].busy
        /\ AbortAsked(s) => move.s # s
    <3>1. AbortAsked(s) \/ MoveAsked(s)
      BY <1>1, <1>4, <2>1 DEF HealthyInv, AskedInv, Quiet
    <3>2. MoveAsked(s) => hal[s].pc \notin AbortPcs /\ ~omx[s].busy
      BY <1>4, <2>1, MoveExcludesAbort DEF MoveAsked, HealthyInv, MovingInv
    <3>3. AbortAsked(s) => move.s # s
      BY MoveExcludesAbort DEF AbortAsked, AbortPcs
    <3>. QED BY <3>1, <3>2, <3>3
  <2>3. CASE AbortAsked(s)
    <3>1. omx[s].cmds = <<"Idle">> /\ omx[s].state = "Executing" /\ ses[s].abort = "init"
          /\ hal[s].pc \in {"abort wait", "aborting"}
      BY <1>1, <2>3 DEF AbortAsked
    <3>2. Head(omx[s].cmds) = "Idle" /\ Tail(omx[s].cmds) = <<>>
      BY <2>1, <3>1, Cmds
    <3>3. omx'[s].cmds = <<>> /\ omx'[s].at = "complete" /\ ~omx'[s].busy
      BY <1>2, <2>1, <3>1, <3>2
    <3>4. AskedInv(s)'
      BY <1>1, <1>4, <2>1, <3>1, <3>3 DEF HealthyInv, AskedInv, AbortAsked
    <3>5. MovingInv(s)' /\ EncodingInv(s)' /\ ReturnInv(s)'
      BY <1>1, <2>2, <2>3, <3>3 DEF MovingInv, EncodingInv, ReturnInv
    <3>6. HandleInv(s)' /\ ServedInv(s)' /\ OnceInv(s)'
      BY <1>1, <1>4, <2>1, <3>1 DEF HealthyInv, HandleInv, ServedInv, OnceInv, Serves,
                                    JobsOf, JobIds
    <3>7. AbortingInv(s)'
      BY <1>1, <1>4, <2>1, <3>1 DEF HealthyInv, AbortingInv
    <3>. QED BY <3>4, <3>5, <3>6, <3>7 DEF HealthyInv
  <2>4. CASE MoveAsked(s)
    <3>1. /\ omx[s].cmds = <<move.to>> /\ omx[s].state # move.to
          /\ move.s = s /\ move.at \in {"check", "wait"} /\ ses[s].pending
      BY <1>1, <2>4 DEF MoveAsked
    <3>2. Head(omx[s].cmds) = move.to /\ Tail(omx[s].cmds) = <<>>
      BY <2>1, <3>1, Cmds
    <3>3. omx'[s].cmds = <<>> /\ omx'[s].at = "complete" /\ ~omx'[s].busy
      BY <1>2, <2>1, <2>2, <2>4, <3>1, <3>2
    <3>4. MoveAsked(s)'
      BY <1>1, <3>1, <3>3 DEF MoveAsked
    <3>5. AskedInv(s)' /\ MovingInv(s)'
      BY <1>1, <1>4, <2>1, <3>1, <3>3, <3>4 DEF HealthyInv, AskedInv, MovingInv
    <3>6. EncodingInv(s)' /\ ReturnInv(s)'
      BY <1>1, <3>3 DEF EncodingInv, ReturnInv
    <3>7. HandleInv(s)'
      BY <1>1, <1>4, <2>1, <2>2, <2>4 DEF HealthyInv, HandleInv, Serves
    <3>8. ServedInv(s)' /\ OnceInv(s)'
      BY <1>1, <1>4, <2>1 DEF HealthyInv, ServedInv, OnceInv, Serves, JobsOf, JobIds
    <3>9. AbortingInv(s)'
      BY <1>1, <2>2, <2>4 DEF AbortingInv, AbortPcs
    <3>. QED BY <3>5, <3>6, <3>7, <3>8, <3>9 DEF HealthyInv
  <2>. QED BY <2>2, <2>3, <2>4
<1>. QED BY <1>1, <1>2, <1>3, <1>4, <1>5, <1>6, ReportStep

\* The component has encoded the frame, or failed at it.
LEMMA EncodedInv ==
    ASSUME IInv, NEW s \in Sessions, Encoded(s)
    PROVE  IInv'
<1>1. /\ omx[s].at = "idle" /\ omx[s].busy
      /\ UNCHANGED <<jobs, todo, ongoing, sem, intf, jobLock, ses, inprogress, move, manager,
                     hal>>
  BY DEF Encoded, queues, locks
<1>2. /\ omx' \in [Sessions -> ComponentRec]
      /\ \A t \in Sessions : t # s => omx'[t] = omx[t]
      /\ omx'[s].cmds = omx[s].cmds /\ omx'[s].state = omx[s].state /\ ~omx'[s].busy
      /\ omx'[s].at \in {"filled", "error"}
      /\ ~omx'[s].failed => omx'[s].at = "filled" /\ ~omx[s].failed
      /\ faults' \in 0..MaxFaults
  <2>1. omx \in [Sessions -> ComponentRec] /\ faults \in 0..MaxFaults
    BY DEF IInv, TypeInv
  <2>2. CASE omx' = [omx EXCEPT ![s].busy = FALSE, ![s].at = "filled"] /\ UNCHANGED faults
    BY <2>1, <2>2 DEF ComponentRec, AnswerPcs
  <2>3. CASE /\ MayFail(s)
             /\ omx' = [omx EXCEPT ![s].busy = FALSE, ![s].at = "error", ![s].failed = TRUE]
    <3>1. faults' \in 0..MaxFaults
      BY <2>1, <2>3, JpegConstants DEF MayFail
    <3>. QED BY <2>1, <2>3, <3>1, ZenonT(30) DEF ComponentRec, AnswerPcs
  <2>. QED BY <2>2, <2>3 DEF Encoded
<1>3. TypeInv'
  BY <1>1, <1>2 DEF IInv, TypeInv, JobIds
<1>4. ses[s].active /\ HealthyInv(s)
  BY <1>1 DEF IInv, LifeInv, ActiveInv
<1>5. Reported(s)
  BY <1>1, <1>2 DEF Reported, Signaled
<1>6. HealthyInv(s)'
  <2>. SUFFICES ASSUME Healthy(s)'
                PROVE  HealthyInv(s)'
    BY DEF HealthyInv
  <2>1. Healthy(s) /\ omx'[s].at = "filled"
    BY <1>1, <1>2 DEF Healthy
  <2>2. /\ move.s # s
        /\ AbortAsked(s) => AbortAsked(s)'
        /\ Quiet(s) => Quiet(s)'
        /\ ~MoveAsked(s)
    BY <1>1, <1>2, <1>4, <2>1 DEF HealthyInv, MovingInv, AbortAsked, MoveAsked, Quiet
  <2>3. AskedInv(s)'
    BY <1>1, <1>4, <2>1, <2>2 DEF HealthyInv, AskedInv
  <2>4. MovingInv(s)' /\ ReturnInv(s)'
    BY <1>1, <2>1, <2>2 DEF MovingInv, ReturnInv
  <2>5. EncodingInv(s)'
    BY <1>1, <1>2, <1>4, <2>1 DEF HealthyInv, EncodingInv, Serves
  <2>6. HandleInv(s)' /\ ServedInv(s)' /\ OnceInv(s)'
    BY <1>1, <1>4, <2>1 DEF HealthyInv, HandleInv, ServedInv, OnceInv, Serves, JobsOf, JobIds
  <2>7. AbortingInv(s)'
    BY <1>1, <1>2, <1>4, <2>1, <2>2 DEF HealthyInv, AbortingInv
  <2>. QED BY <2>3, <2>4, <2>5, <2>6, <2>7 DEF HealthyInv
<1>. QED BY <1>1, <1>2, <1>3, <1>4, <1>5, <1>6, ReportStep

\* The component gives a job back: the callback is under way, and the session not
\* available before it ends.
LEMMA ReturnStep ==
    ASSUME IInv, NEW s \in Sessions, NEW status \in {"done", "error"},
           ses[s].active, ses[s].abort # "init",
           CallBack(ses[s].job, status),
           UNCHANGED <<todo, ongoing, sem, intf, jobLock, inprogress, move, manager, hal,
                       faults>>,
           \A t \in Sessions : t # s => ses'[t] = ses[t] /\ omx'[t] = omx[t],
           /\ ses'[s].active = ses[s].active /\ ses'[s].config = ses[s].config
           /\ ses'[s].abort = ses[s].abort /\ ses'[s].lock = TRUE
           /\ ses'[s].avail = ses[s].avail /\ ses'[s].job = ses[s].job,
           omx'[s].at = "remove",
           ses' \in [Sessions -> SessionRec], omx' \in [Sessions -> ComponentRec],
           HealthyInv(s)'
    PROVE  IInv'
<1>1. ses[s].job \in Nat
  BY DEF IInv, TypeInv, SessionRec
<1>2. /\ jobs' \in Seq(JobRec) /\ Len(jobs') = Len(jobs) /\ JobIds' = JobIds
      /\ \A k \in JobIds : /\ jobs'[k].s = jobs[k].s /\ jobs'[k].over = jobs[k].over
                           /\ k # ses[s].job => jobs'[k] = jobs[k]
  BY <1>1, CallBackEffect DEF IInv
<1>3. TypeInv'
  BY <1>2 DEF IInv, TypeInv
<1>4. /\ Queued' = Queued
      /\ \A t \in Sessions : JobsOf(t)' = JobsOf(t)
      /\ manager.pc \in ServePcs => manager.job \in JobIds
  BY <1>2 DEF Queued, JobsOf, IInv, JobsInv, TypeInv, ManagerRec, JobIds
<1>5. \A t \in Sessions : Serves(t)' <=> Serves(t)
  BY <1>2, <1>4 DEF Serves
<1>6. LocksInv' /\ MoveInv'
  <2>1. LocksInv'
    BY DEF IInv, LocksInv
  <2>2. move.s # NULL => move.s \in Sessions
    BY DEF IInv, TypeInv, MoveRec
  <2>3. MoveInv'
    BY <1>5, <2>2 DEF IInv, MoveInv
  <2>. QED BY <2>1, <2>3
<1>7. ConfigInv'
  <2>1. \A t \in Sessions : ses'[t].config = ses[t].config
    OBVIOUS
  <2>. QED BY <2>1 DEF IInv, ConfigInv, OneConfigured
<1>8. JobsInv'
  <2>1. ongoing \subseteq JobIds /\ \A j \in JobIds : jobs[j].s \in Sessions
    BY JobFacts DEF IInv
  <2>2. \A t \in Sessions : ses'[t].job = ses[t].job
    OBVIOUS
  <2>3. ASSUME NEW j \in Queued
        PROVE  jobs'[j].cbs = jobs[j].cbs
    <3>1. j \in JobIds /\ j # 0 /\ ses[jobs[j].s].job # j
      BY <2>3 DEF IInv, JobsInv, JobIds
    <3>2. ses[s].job = j => jobs[j].s = s
      BY <3>1 DEF IInv, JobsInv, JobsOf
    <3>. QED BY <1>2, <3>1, <3>2
  <2>4. manager'.pc = "lock" => ongoing' = {}
    BY DEF IInv, JobsInv
  <2>. QED BY <1>2, <1>4, <2>1, <2>2, <2>3, <2>4, JobsKept DEF IInv
<1>9. ASSUME NEW t \in Sessions, t # s
      PROVE  LifeInv(t)' /\ HealthyInv(t)'
  <2>1. ses[s].job \notin JobsOf(t)
    BY <1>9, OwnJob DEF IInv
  <2>2. \A j \in JobsOf(t) : jobs'[j] = jobs[j]
    BY <1>2, <2>1 DEF JobsOf
  <2>3. Untouched(t)
    BY <1>4, <1>5, <1>9, <2>2 DEF Untouched
  <2>. QED BY <1>3, <2>3, LifeUntouched, HealthyUntouched DEF IInv
<1>10. LifeInv(s)'
  <2>1. LifeInv(s)
    BY DEF IInv
  <2>2. ActiveInv(s)'
    BY <2>1 DEF LifeInv, ActiveInv
  <2>3. NoJobs(s) => NoJobs(s)'
    BY <1>4, <1>5 DEF NoJobs
  <2>4. GoneInv(s)'
    <3>1. \A j \in JobsOf(s) : jobs'[j].over = jobs[j].over
      BY <1>2 DEF JobsOf
    <3>. QED BY <1>4, <2>1, <2>3, <3>1 DEF LifeInv, GoneInv, Destroyed
  <2>5. LeftInv(s)'
    BY <1>4, <2>1 DEF LifeInv, LeftInv
  <2>. QED BY <2>2, <2>4, <2>5 DEF LifeInv
<1>11. WakeInv'
  <2>1. \A t \in Sessions :
          /\ ses'[t].avail = ses[t].avail /\ ses'[t].job = ses[t].job
          /\ omx[t].at \in {"remove", "giveback"} => omx'[t].at \in {"remove", "giveback"}
          /\ hal'[t].pc = "open" => hal[t].pc = "open"
          /\ Stopping(t) => Stopping(t)'
    BY DEF Stopping
  <2>. QED BY <2>1, WakeKept DEF IInv
<1>. QED BY <1>3, <1>6, <1>7, <1>8, <1>9, <1>10, <1>11 DEF IInv

\* mm_jpeg_fbd: the end of an abort if one is under way, otherwise jpeg_cb; it goes
\* on with the session's lock held.
LEMMA fbdInv ==
    ASSUME IInv, NEW s \in Sessions, fbd(s)
    PROVE  IInv'
<1>1. /\ omx[s].at = "filled" /\ ~ses[s].lock
      /\ UNCHANGED <<todo, ongoing, sem, intf, jobLock, inprogress, move, manager, hal, faults>>
  BY DEF fbd, locks
<1>2. /\ omx \in [Sessions -> ComponentRec] /\ ses \in [Sessions -> SessionRec]
      /\ ses[s].active /\ HealthyInv(s)
  BY <1>1 DEF IInv, TypeInv, LifeInv, ActiveInv
<1>3. CASE /\ ses[s].abort # "none" /\ UNCHANGED <<jobs, ses>>
           /\ omx' = [omx EXCEPT ![s].at = "idle"]
  <2>1. /\ omx' \in [Sessions -> ComponentRec]
        /\ \A t \in Sessions : t # s => omx'[t] = omx[t]
        /\ omx'[s].cmds = omx[s].cmds /\ omx'[s].state = omx[s].state
        /\ omx'[s].busy = omx[s].busy /\ omx'[s].failed = omx[s].failed
        /\ omx'[s].at = "idle"
    BY <1>2, <1>3 DEF ComponentRec, AnswerPcs
  <2>2. TypeInv'
    BY <1>1, <1>3, <2>1 DEF IInv, TypeInv, JobIds
  <2>3. Reported(s)
    BY <1>1, <1>3, <2>1 DEF Reported, Signaled
  <2>4. HealthyInv(s)'
    <3>. SUFFICES ASSUME Healthy(s)'
                  PROVE  HealthyInv(s)'
      BY DEF HealthyInv
    <3>1. Healthy(s)
      BY <1>3, <2>1 DEF Healthy
    <3>2. /\ move.s # s /\ ~MoveAsked(s)
          /\ AbortAsked(s) => AbortAsked(s)'
          /\ Quiet(s) => Quiet(s)'
          /\ ~omx[s].busy
      BY <1>1, <1>2, <1>3, <2>1, <3>1
         DEF HealthyInv, MovingInv, EncodingInv, AbortAsked, MoveAsked, Quiet
    <3>3. AskedInv(s)'
      BY <1>2, <1>3, <2>1, <3>1, <3>2 DEF HealthyInv, AskedInv
    <3>4. MovingInv(s)' /\ EncodingInv(s)' /\ ReturnInv(s)'
      BY <1>1, <2>1, <3>2 DEF MovingInv, EncodingInv, ReturnInv
    <3>5. HandleInv(s)' /\ ServedInv(s)' /\ OnceInv(s)'
      BY <1>1, <1>2, <1>3, <3>1 DEF HealthyInv, HandleInv, ServedInv, OnceInv, Serves,
                                    JobsOf, JobIds
    <3>6. AbortingInv(s)'
      BY <1>1, <1>2, <1>3, <2>1, <3>1, <3>2 DEF HealthyInv, AbortingInv
    <3>. QED BY <3>3, <3>4, <3>5, <3>6 DEF HealthyInv
  <2>. QED BY <1>1, <1>2, <1>3, <2>1, <2>2, <2>3, <2>4, ReportStep
<1>4. CASE /\ ses[s].abort = "none" /\ CallBack(ses[s].job, "done")
           /\ ses' = [ses EXCEPT ![s].lock = TRUE]
           /\ omx' = [omx EXCEPT ![s].at = "remove"]
  <2>1. /\ omx' \in [Sessions -> ComponentRec] /\ ses' \in [Sessions -> SessionRec]
        /\ \A t \in Sessions : t # s => ses'[t] = ses[t] /\ omx'[t] = omx[t]
        /\ omx'[s].cmds = omx[s].cmds /\ omx'[s].state = omx[s].state
        /\ omx'[s].busy = omx[s].busy /\ omx'[s].failed = omx[s].failed
        /\ omx'[s].at = "remove"
    <3>1. /\ omx' \in [Sessions -> ComponentRec] /\ \A t \in Sessions : t # s => omx'[t] = omx[t]
          /\ omx'[s].cmds = omx[s].cmds /\ omx'[s].state = omx[s].state
          /\ omx'[s].busy = omx[s].busy /\ omx'[s].failed = omx[s].failed
          /\ omx'[s].at = "remove"
      BY <1>2, <1>4 DEF ComponentRec, AnswerPcs
    <3>2. ses' \in [Sessions -> SessionRec] /\ \A t \in Sessions : t # s => ses'[t] = ses[t]
      BY <1>2, <1>4 DEF SessionRec
    <3>. QED BY <3>1, <3>2
  <2>2. /\ ses'[s].active = ses[s].active /\ ses'[s].config = ses[s].config
        /\ ses'[s].abort = ses[s].abort /\ ses'[s].lock = TRUE
        /\ ses'[s].avail = ses[s].avail /\ ses'[s].job = ses[s].job
        /\ ses'[s].encoding = ses[s].encoding /\ ses'[s].err = ses[s].err
    BY <1>2, <1>4 DEF SessionRec
  <2>3. HealthyInv(s)'
    <3>. SUFFICES ASSUME Healthy(s)'
                  PROVE  HealthyInv(s)'
      BY DEF HealthyInv
    <3>1. Healthy(s) /\ EncodingInv(s)
      BY <1>2, <2>1, <2>2 DEF Healthy, HealthyInv
    <3>2. /\ move.s # s /\ Quiet(s)' /\ ~omx[s].busy
      BY <1>1, <1>2, <1>4, <2>1, <3>1
         DEF HealthyInv, MovingInv, EncodingInv, AskedInv, AbortAsked, MoveAsked, Quiet
    <3>3. /\ ses[s].job \in JobIds /\ jobs[ses[s].job].cbs = 0
          /\ ses[s].encoding /\ ses[s].avail = 0 /\ ~Serves(s) /\ ses[s].job # 0
          /\ ses[s].job \in ongoing \/ hal[s].pc = "abort"
      BY <1>1, <1>4, <3>1 DEF EncodingInv, IInv, JobsInv, JobsOf
    <3>4. JobIds' = JobIds /\ \A k \in JobIds :
            /\ jobs'[k].s = jobs[k].s /\ jobs'[k].over = jobs[k].over
            /\ k # ses[s].job => jobs'[k] = jobs[k]
            /\ k = ses[s].job => jobs'[k].cbs = jobs[k].cbs + 1
      <4>1. ses[s].job \in Nat
        BY <1>2 DEF SessionRec
      <4>. QED BY <1>4, <4>1, CallBackEffect DEF IInv
    <3>5. ~Serves(s)'
      BY <1>1, <3>3, <3>4 DEF Serves, IInv, JobsInv, TypeInv, ManagerRec, JobIds
    <3>6. AskedInv(s)'
      BY <1>2, <2>1, <2>2, <3>1, <3>2 DEF HealthyInv, AskedInv
    <3>7. MovingInv(s)' /\ EncodingInv(s)'
      BY <1>1, <2>1, <3>2 DEF MovingInv, EncodingInv
    <3>8. ReturnInv(s)'
      BY <1>1, <1>4, <2>1, <2>2, <3>3, <3>5 DEF ReturnInv
    <3>9. HandleInv(s)' /\ ServedInv(s)'
      BY <1>1, <2>1, <2>2, <3>3, <3>5 DEF HandleInv, ServedInv
    <3>10. OnceInv(s)'
      <4>1. ASSUME NEW j \in JobsOf(s)', ~jobs'[j].over
            PROVE  jobs'[j].cbs <= 1
        <5>1. j \in JobsOf(s) /\ ~jobs[j].over
          BY <3>4, <4>1 DEF JobsOf
        <5>2. CASE j = ses[s].job
          <6>1. jobs'[j].cbs = jobs[j].cbs + 1 /\ jobs[j].cbs = 0
            BY <3>3, <3>4, <5>2
          <6>. QED BY <6>1
        <5>3. CASE j # ses[s].job
          BY <1>2, <3>1, <3>4, <5>1, <5>3 DEF HealthyInv, OnceInv, JobsOf
        <5>. QED BY <5>2, <5>3
      <4>. QED BY <4>1 DEF OnceInv
    <3>11. AbortingInv(s)'
      BY <1>1, <1>2, <1>4, <2>1, <2>2, <3>1 DEF HealthyInv, AbortingInv
    <3>. QED BY <3>6, <3>7, <3>8, <3>9, <3>10, <3>11 DEF HealthyInv
  <2>. QED BY <1>1, <1>2, <1>4, <2>1, <2>2, <2>3, ReturnStep
<1>. QED BY <1>3, <1>4 DEF fbd

\* An event of an aborted session: the abort is done, and whoever waits is woken.
LEMMA AbortedByEffect ==
    ASSUME TypeInv, NEW s \in Sessions, AbortedBy(s)
    PROVE  /\ ses' \in [Sessions -> SessionRec] /\ omx' \in [Sessions -> ComponentRec]
           /\ \A t \in Sessions : t # s => ses'[t] = ses[t] /\ omx'[t] = omx[t]
           /\ ses'[s].abort = "done"
           /\ ses'[s].active = ses[s].active /\ ses'[s].config = ses[s].config
           /\ ses'[s].lock = ses[s].lock /\ ses'[s].err = ses[s].err
           /\ ses'[s].avail = ses[s].avail /\ ses'[s].job = ses[s].job
           /\ ses'[s].encoding = ses[s].encoding
           /\ omx'[s].at = "idle" /\ omx'[s].cmds = omx[s].cmds /\ omx'[s].state = omx[s].state
           /\ omx'[s].busy = omx[s].busy /\ omx'[s].failed = omx[s].failed
<1>1. /\ ses' = [ses EXCEPT ![s].abort = "done"] /\ omx' = [omx EXCEPT ![s].at = "idle"]
  BY DEF AbortedBy
<1>2. ses \in [Sessions -> SessionRec] /\ omx \in [Sessions -> ComponentRec]
  BY DEF TypeInv
<1>3. /\ ses' \in [Sessions -> SessionRec] /\ \A t \in Sessions : t # s => ses'[t] = ses[t]
      /\ ses'[s].abort = "done"
      /\ ses'[s].active = ses[s].active /\ ses'[s].config = ses[s].config
      /\ ses'[s].lock = ses[s].lock /\ ses'[s].err = ses[s].err
      /\ ses'[s].avail = ses[s].avail /\ ses'[s].job = ses[s].job
      /\ ses'[s].encoding = ses[s].encoding
  BY <1>1, <1>2 DEF SessionRec
<1>4. /\ omx' \in [Sessions -> ComponentRec] /\ \A t \in Sessions : t # s => omx'[t] = omx[t]
      /\ omx'[s].at = "idle" /\ omx'[s].cmds = omx[s].cmds /\ omx'[s].state = omx[s].state
      /\ omx'[s].busy = omx[s].busy /\ omx'[s].failed = omx[s].failed
  BY <1>1, <1>2 DEF ComponentRec, AnswerPcs
<1>. QED BY <1>3, <1>4

\* A signal does what Signaled says of it.
LEMMA SignalSignaled ==
    ASSUME TypeInv, NEW s \in Sessions, Signal(s)
    PROVE  /\ Signaled(s) /\ move' \in MoveRec /\ hal' \in [Sessions -> HalRec]
           /\ \A t \in Sessions : t # s => hal'[t] = hal[t]
<1>1. /\ move' \in MoveRec /\ hal' \in [Sessions -> HalRec]
      /\ move'.s = move.s /\ move'.to = move.to
      /\ move'.at = IF move.s = s /\ move.at = "wait" THEN "woken" ELSE move.at
      /\ move.s # s => move' = move
      /\ \A t \in Sessions : t # s => hal'[t] = hal[t]
      /\ hal'[s].pc = IF hal[s].pc = "aborting" THEN "aborted" ELSE hal[s].pc
      /\ hal'[s].job = hal[s].job /\ hal'[s].left = hal[s].left
  BY SignalEffect
<1>. QED BY <1>1 DEF Signaled

\* The events that are taken for the end of an abort, by a component that is healthy
\* or not.
LEMMA AbortedStep ==
    ASSUME IInv, NEW s \in Sessions, omx[s].at \in {"error", "complete"}, ~ses[s].lock,
           ses[s].abort = "init", AbortedBy(s),
           UNCHANGED <<todo, ongoing, sem, intf, jobLock, inprogress, manager, faults>>
    PROVE  IInv'
<1>1. /\ ses' \in [Sessions -> SessionRec] /\ omx' \in [Sessions -> ComponentRec]
      /\ \A t \in Sessions : t # s => ses'[t] = ses[t] /\ omx'[t] = omx[t]
      /\ ses'[s].abort = "done"
      /\ ses'[s].active = ses[s].active /\ ses'[s].config = ses[s].config
      /\ ses'[s].lock = ses[s].lock /\ ses'[s].err = ses[s].err
      /\ ses'[s].avail = ses[s].avail /\ ses'[s].job = ses[s].job
      /\ ses'[s].encoding = ses[s].encoding
      /\ omx'[s].at = "idle" /\ omx'[s].cmds = omx[s].cmds /\ omx'[s].state = omx[s].state
      /\ omx'[s].busy = omx[s].busy /\ omx'[s].failed = omx[s].failed
  BY AbortedByEffect DEF IInv
<1>2. /\ Signal(s) /\ jobs' = jobs
  BY DEF AbortedBy
<1>3. /\ Signaled(s) /\ move' \in MoveRec /\ hal' \in [Sessions -> HalRec]
      /\ \A t \in Sessions : t # s => hal'[t] = hal[t]
      /\ move'.at = "wait" => move.s # s
      /\ hal'[s].pc # "aborting"
  BY <1>2, SignalEffect, SignalSignaled DEF IInv
<1>4. TypeInv'
  <2>1. \A t \in Sessions : hal'[t].left = hal[t].left
    BY <1>3 DEF Signaled
  <2>. QED BY <1>1, <1>2, <1>3, <2>1 DEF IInv, TypeInv, JobIds
<1>5. ses[s].active /\ HealthyInv(s)
  BY DEF IInv, LifeInv, ActiveInv
<1>6. Reported(s)
  BY <1>1, <1>3 DEF Reported
<1>7. HealthyInv(s)'
  <2>. SUFFICES ASSUME Healthy(s)'
                PROVE  HealthyInv(s)'
    BY DEF HealthyInv
  <2>1. Healthy(s)
    BY <1>1 DEF Healthy
  <2>2. /\ omx[s].cmds = <<>> /\ ~omx[s].busy /\ move.s # s
        /\ hal[s].pc \in {"abort wait", "aborting"}
    <3>1. MoveAsked(s) => hal[s].pc \notin AbortPcs
      BY MoveExcludesAbort DEF MoveAsked
    <3>2. hal[s].pc \in AbortPcs
      BY DEF IInv, LifeInv, ActiveInv, AbortPcs
    <3>3. AbortAsked(s) /\ move.s # s
      BY <1>5, <2>1, <3>1, <3>2, MoveExcludesAbort DEF HealthyInv, AskedInv, Quiet
    <3>. QED BY <1>5, <2>1, <3>3 DEF AbortAsked, HealthyInv, AskedInv
  <2>3. Quiet(s)' /\ omx'[s].at = "idle" /\ ~omx'[s].busy /\ move' = move
    BY <1>1, <1>3, <2>2 DEF Quiet, Signaled
  <2>4. AskedInv(s)'
    BY <1>1, <1>5, <2>1, <2>3 DEF HealthyInv, AskedInv
  <2>5. MovingInv(s)' /\ EncodingInv(s)' /\ ReturnInv(s)'
    BY <2>2, <2>3 DEF MovingInv, EncodingInv, ReturnInv
  <2>6. HandleInv(s)' /\ OnceInv(s)'
    BY <1>1, <1>2, <1>5, <2>1 DEF HealthyInv, HandleInv, OnceInv, Serves, JobsOf, JobIds
  <2>7. ServedInv(s)'
    BY <1>1, <1>2, <1>5, <2>1 DEF HealthyInv, ServedInv, Serves
  <2>8. AbortingInv(s)'
    BY <1>1, <1>3, <2>2 DEF AbortingInv, Signaled
  <2>. QED BY <2>4, <2>5, <2>6, <2>7, <2>8 DEF HealthyInv
<1>. QED BY <1>1, <1>2, <1>3, <1>4, <1>5, <1>6, <1>7, ReportStep

\* mm_jpeg_event_handler, OMX_EventError: only a component that failed sends it.
LEMMA EventErrorInv ==
    ASSUME IInv, NEW s \in Sessions, EventError(s)
    PROVE  IInv'
<1>1. /\ omx[s].at = "error" /\ ~ses[s].lock
      /\ UNCHANGED <<todo, ongoing, sem, intf, jobLock, inprogress, manager, faults>>
  BY DEF EventError, locks
<1>2. /\ omx \in [Sessions -> ComponentRec] /\ ses \in [Sessions -> SessionRec]
      /\ ses[s].active /\ ~Healthy(s)
  BY <1>1 DEF IInv, TypeInv, LifeInv, ActiveInv, HealthyInv, AskedInv
<1>3. CASE ses[s].abort = "init" /\ AbortedBy(s)
  BY <1>1, <1>3, AbortedStep
<1>4. CASE /\ ses[s].abort # "init" /\ CallBack(ses[s].job, "error")
           /\ ses' = [ses EXCEPT ![s].err = TRUE, ![s].lock = TRUE]
           /\ omx' = [omx EXCEPT ![s].at = "remove"]
           /\ UNCHANGED <<move, hal>>
  <2>1. /\ omx' \in [Sessions -> ComponentRec]
        /\ \A t \in Sessions : t # s => omx'[t] = omx[t]
        /\ omx'[s].at = "remove" /\ omx'[s].failed = omx[s].failed
    BY <1>2, <1>4 DEF ComponentRec, AnswerPcs
  <2>2. /\ ses' \in [Sessions -> SessionRec]
        /\ \A t \in Sessions : t # s => ses'[t] = ses[t]
        /\ ses'[s].active = ses[s].active /\ ses'[s].config = ses[s].config
        /\ ses'[s].abort = ses[s].abort /\ ses'[s].lock = TRUE
        /\ ses'[s].avail = ses[s].avail /\ ses'[s].job = ses[s].job
    <3>1. ses \in [Sessions -> SessionRec]
      BY <1>2
    <3>2. ses' = [ses EXCEPT ![s].err = TRUE, ![s].lock = TRUE]
      BY <1>4
    <3>3. ses' \in [Sessions -> SessionRec]
      BY <3>1, <3>2, ZenonT(30) DEF SessionRec
    <3>. QED BY <3>1, <3>2, <3>3 DEF SessionRec
  <2>3. HealthyInv(s)'
    BY <1>2, <2>1, <2>2 DEF HealthyInv, Healthy
  <2>. QED BY <1>1, <1>2, <1>4, <2>1, <2>2, <2>3, ReturnStep
<1>5. CASE /\ ses[s].abort # "init"
           /\ ses' = [ses EXCEPT ![s].err = TRUE]
           /\ Signal(s) /\ omx' = [omx EXCEPT ![s].at = "idle"]
           /\ UNCHANGED jobs
  <2>1. /\ omx' \in [Sessions -> ComponentRec]
        /\ \A t \in Sessions : t # s => omx'[t] = omx[t]
        /\ omx'[s].at = "idle" /\ omx'[s].failed = omx[s].failed
    BY <1>2, <1>5 DEF ComponentRec, AnswerPcs
  <2>2. /\ ses' \in [Sessions -> SessionRec]
        /\ \A t \in Sessions : t # s => ses'[t] = ses[t]
        /\ ses'[s].active = ses[s].active /\ ses'[s].config = ses[s].config
        /\ ses'[s].abort = ses[s].abort /\ ses'[s].lock = ses[s].lock
        /\ ses'[s].avail = ses[s].avail /\ ses'[s].job = ses[s].job
    BY <1>2, <1>5 DEF SessionRec
  <2>3. /\ Signaled(s) /\ move' \in MoveRec /\ hal' \in [Sessions -> HalRec]
        /\ \A t \in Sessions : t # s => hal'[t] = hal[t]
    BY <1>5, SignalSignaled DEF IInv
  <2>4. TypeInv'
    <3>1. \A t \in Sessions : hal'[t].left = hal[t].left
      BY <2>3 DEF Signaled
    <3>. QED BY <1>1, <1>5, <2>1, <2>2, <2>3, <3>1 DEF IInv, TypeInv, JobIds
  <2>5. Reported(s)
    BY <1>1, <2>1, <2>2, <2>3 DEF Reported
  <2>6. HealthyInv(s)'
    BY <1>2, <2>1, <2>2 DEF HealthyInv, Healthy
  <2>. QED BY <1>1, <1>2, <1>5, <2>1, <2>2, <2>3, <2>4, <2>5, <2>6, ReportStep
<1>. QED BY <1>3, <1>4, <1>5 DEF EventError

\* mm_jpeg_event_handler, OMX_EventCmdComplete: the end of an abort, or of the state
\* change that is pending.
LEMMA EventCompleteInv ==
    ASSUME IInv, NEW s \in Sessions, EventComplete(s)
    PROVE  IInv'
<1>1. /\ omx[s].at = "complete" /\ ~ses[s].lock
      /\ UNCHANGED <<todo, ongoing, sem, intf, jobLock, inprogress, manager, faults>>
  BY DEF EventComplete, locks
<1>2. /\ omx \in [Sessions -> ComponentRec] /\ ses \in [Sessions -> SessionRec]
      /\ ses[s].active /\ HealthyInv(s)
  BY <1>1 DEF IInv, TypeInv, LifeInv, ActiveInv
<1>3. CASE ses[s].abort = "init" /\ AbortedBy(s)
  BY <1>1, <1>3, AbortedStep
<1>4. CASE /\ ses[s].abort # "init"
           /\ ses' = [ses EXCEPT ![s].pending = FALSE]
           /\ IF ses[s].pending THEN Signal(s) ELSE UNCHANGED <<move, hal>>
           /\ omx' = [omx EXCEPT ![s].at = "idle"] /\ UNCHANGED jobs
  <2>1. /\ omx' \in [Sessions -> ComponentRec]
        /\ \A t \in Sessions : t # s => omx'[t] = omx[t]
        /\ omx'[s].at = "idle" /\ omx'[s].failed = omx[s].failed
        /\ omx'[s].cmds = omx[s].cmds /\ omx'[s].state = omx[s].state
        /\ omx'[s].busy = omx[s].busy
    BY <1>2, <1>4 DEF ComponentRec, AnswerPcs
  <2>2. /\ ses' \in [Sessions -> SessionRec]
        /\ \A t \in Sessions : t # s => ses'[t] = ses[t]
        /\ ses'[s].active = ses[s].active /\ ses'[s].config = ses[s].config
        /\ ses'[s].abort = ses[s].abort /\ ses'[s].lock = ses[s].lock
        /\ ses'[s].avail = ses[s].avail /\ ses'[s].job = ses[s].job
        /\ ses'[s].encoding = ses[s].encoding /\ ses'[s].err = ses[s].err
        /\ ses'[s].pending = FALSE
    BY <1>2, <1>4 DEF SessionRec
  <2>3. /\ Signaled(s) /\ move' \in MoveRec /\ hal' \in [Sessions -> HalRec]
        /\ \A t \in Sessions : t # s => hal'[t] = hal[t]
        /\ ses[s].pending => Signal(s)
    BY <1>4, SignalSignaled DEF IInv, Signaled, TypeInv
  <2>4. TypeInv'
    <3>1. \A t \in Sessions : hal'[t].left = hal[t].left
      BY <2>3 DEF Signaled
    <3>. QED BY <1>1, <1>4, <2>1, <2>2, <2>3, <3>1 DEF IInv, TypeInv, JobIds
  <2>5. Reported(s)
    BY <1>1, <2>1, <2>2, <2>3 DEF Reported
  <2>6. HealthyInv(s)'
    <3>. SUFFICES ASSUME Healthy(s)'
                  PROVE  HealthyInv(s)'
      BY DEF HealthyInv
    <3>1. Healthy(s)
      BY <2>1, <2>2 DEF Healthy
    <3>2. MoveAsked(s) /\ omx[s].cmds = <<>> /\ hal[s].pc \notin AbortPcs /\ ~omx[s].busy
      <4>1. MoveAsked(s) /\ omx[s].cmds = <<>>
        BY <1>1, <1>2, <1>4, <3>1 DEF HealthyInv, AskedInv, AbortAsked, MoveAsked, Quiet
      <4>. QED BY <1>2, <3>1, <4>1, MoveExcludesAbort DEF MoveAsked, HealthyInv, MovingInv
    <3>3. /\ move'.s = s /\ move'.at \in {"check", "woken"} /\ hal'[s].pc = hal[s].pc
      BY <2>3, <3>2, SignalEffect DEF MoveAsked, IInv, AbortPcs
    <3>4. Quiet(s)' /\ ~omx'[s].busy
      BY <2>1, <3>2 DEF Quiet
    <3>5. AskedInv(s)' /\ MovingInv(s)'
      BY <1>2, <2>1, <2>2, <3>1, <3>3, <3>4 DEF HealthyInv, AskedInv, MovingInv
    <3>6. EncodingInv(s)' /\ ReturnInv(s)'
      BY <2>1, <3>4 DEF EncodingInv, ReturnInv
    <3>7. HandleInv(s)'
      BY <1>1, <1>2, <1>4, <2>2, <3>1, <3>2 DEF HealthyInv, HandleInv, Serves
    <3>8. ServedInv(s)' /\ OnceInv(s)'
      BY <1>1, <1>2, <1>4, <2>2, <3>1 DEF HealthyInv, ServedInv, OnceInv, Serves, JobsOf, JobIds
    <3>9. AbortingInv(s)'
      BY <3>2, <3>3 DEF AbortingInv, AbortPcs
    <3>. QED BY <3>5, <3>6, <3>7, <3>8, <3>9 DEF HealthyInv
  <2>. QED BY <1>1, <1>2, <1>4, <2>1, <2>2, <2>3, <2>4, <2>5, <2>6, ReportStep
<1>. QED BY <1>3, <1>4 DEF EventComplete

\* The callback gives the session back to session_handle_q, then posts job_sem: the
\* manager, if it sleeps over the queue, is woken.
LEMMA JobGiveBackInv ==
    ASSUME IInv, NEW s \in Sessions, JobGiveBack(s)
    PROVE  IInv'
<1>1. /\ omx[s].at = "giveback" /\ sem' = sem + 1 /\ Signal(s)
      /\ UNCHANGED <<jobs, todo, ongoing, intf, jobLock, inprogress, manager, faults>>
  BY DEF JobGiveBack, locks
<1>2. /\ omx' \in [Sessions -> ComponentRec]
      /\ \A t \in Sessions : t # s => omx'[t] = omx[t]
      /\ omx'[s].at = "idle" /\ omx'[s].failed = omx[s].failed
      /\ omx'[s].cmds = omx[s].cmds /\ omx'[s].state = omx[s].state
      /\ omx'[s].busy = omx[s].busy
  BY DEF JobGiveBack, IInv, TypeInv, ComponentRec, AnswerPcs
<1>3. /\ ses' \in [Sessions -> SessionRec]
      /\ \A t \in Sessions : t # s => ses'[t] = ses[t]
      /\ ses'[s].active = ses[s].active /\ ses'[s].config = ses[s].config
      /\ ses'[s].abort = ses[s].abort /\ ses'[s].lock = FALSE
      /\ ses'[s].avail = ses[s].avail + 1 /\ ses'[s].job = ses[s].job
      /\ ses'[s].encoding = FALSE /\ ses'[s].err = ses[s].err
      /\ ses'[s].pending = ses[s].pending /\ ses[s].avail \in Nat
  <2>1. ses \in [Sessions -> SessionRec] /\ ses[s].avail \in Nat /\ ses[s].avail + 1 \in Nat
    BY DEF IInv, TypeInv, SessionRec
  <2>2. ses' = [ses EXCEPT ![s].encoding = FALSE, ![s].avail = @ + 1, ![s].lock = FALSE]
    BY DEF JobGiveBack
  <2>3. /\ ses'[s].active = ses[s].active /\ ses'[s].config = ses[s].config
        /\ ses'[s].abort = ses[s].abort /\ ses'[s].lock = FALSE
        /\ ses'[s].avail = ses[s].avail + 1 /\ ses'[s].job = ses[s].job
        /\ ses'[s].encoding = FALSE /\ ses'[s].err = ses[s].err
        /\ ses'[s].pending = ses[s].pending
    BY <2>1, <2>2 DEF SessionRec
  <2>4. ses' \in [Sessions -> SessionRec]
    BY <2>1, <2>2 DEF SessionRec
  <2>. QED BY <2>1, <2>2, <2>3, <2>4
<1>4. /\ Signaled(s) /\ move' \in MoveRec /\ hal' \in [Sessions -> HalRec]
      /\ \A t \in Sessions : t # s => hal'[t] = hal[t]
  BY <1>1, SignalSignaled DEF IInv
<1>5. TypeInv'
  <2>1. \A t \in Sessions : hal'[t].left = hal[t].left
    BY <1>4 DEF Signaled
  <2>2. TypeInv /\ ses[s].avail \in Nat
    BY <1>3 DEF IInv
  <2>3. JobIds' = JobIds /\ sem' \in Nat
    BY <1>1, <2>2 DEF JobIds, TypeInv
  <2>. QED BY <1>1, <1>2, <1>3, <1>4, <2>1, <2>2, <2>3 DEF TypeInv
<1>6. LocksInv' /\ ConfigInv' /\ MoveInv'
  <2>1. \A t \in Sessions : ses'[t].config = ses[t].config
    BY <1>3
  <2>. QED BY <1>1, <1>4, <2>1, SignalKept
<1>7. /\ Queued' = Queued /\ JobIds' = JobIds
      /\ \A t \in Sessions : JobsOf(t)' = JobsOf(t) /\ (Serves(t)' <=> Serves(t))
  BY <1>1, SameQueues
<1>8. JobsInv'
  <2>1. ongoing \subseteq JobIds /\ \A j \in JobIds : jobs[j].s \in Sessions
    BY JobFacts DEF IInv
  <2>2. \A t \in Sessions : ses'[t].job = ses[t].job
    BY <1>3
  <2>3. manager.pc \in ServePcs => manager.job \in JobIds
    BY DEF IInv, JobsInv, TypeInv, ManagerRec, JobIds
  <2>4. manager'.pc = "lock" => ongoing' = {}
    BY <1>1 DEF IInv, JobsInv
  <2>. QED BY <1>1, <1>7, <2>1, <2>2, <2>3, <2>4, JobsKept DEF IInv
<1>9. ASSUME NEW t \in Sessions, t # s
      PROVE  LifeInv(t)' /\ HealthyInv(t)'
  <2>1. move.s = t \/ move'.s = t => move' = move
    BY <1>4, <1>9 DEF Signaled
  <2>2. Untouched(t)
    BY <1>1, <1>2, <1>3, <1>4, <1>7, <1>9, <2>1 DEF Untouched
  <2>. QED BY <1>5, <2>2, LifeUntouched, HealthyUntouched DEF IInv
<1>10. LifeInv(s)'
  <2>1. LifeInv(s)
    BY DEF IInv
  <2>2. ActiveInv(s)'
    <3>1. ses'[s].avail > 0
      BY <1>3
    <3>2. hal'[s].pc = hal[s].pc \/ (hal[s].pc = "aborting" /\ hal'[s].pc = "aborted")
      BY <1>4 DEF Signaled
    <3>3. ses'[s].active = ses[s].active /\ ses'[s].abort = ses[s].abort
          /\ ses'[s].config = ses[s].config /\ ses'[s].lock = FALSE
      BY <1>3
    <3>4. ActiveInv(s)
      BY <2>1 DEF LifeInv
    <3>5. ~ses'[s].active =>
            ~ses'[s].config /\ omx'[s].at = "idle" /\ ~omx'[s].busy /\ omx'[s].cmds = <<>>
      BY <1>2, <3>3, <3>4 DEF ActiveInv
    <3>6. ses'[s].lock <=> omx'[s].at \in {"remove", "giveback"}
      BY <1>2, <3>3
    <3>. QED BY <3>1, <3>2, <3>3, <3>4, <3>5, <3>6 DEF ActiveInv, FreePcs
  <2>3. NoJobs(s) => NoJobs(s)'
    BY <1>1, <1>7 DEF NoJobs
  <2>4. GoneInv(s)'
    <3>1. Destroyed(s)' => Destroyed(s)
      BY <1>4 DEF Destroyed, Signaled, GonePcs, IdlePcs, FreePcs, CreatePcs, AbortPcs
    <3>2. hal'[s].pc \in IdlePcs => hal[s].pc \in IdlePcs
      BY <1>4 DEF Signaled, IdlePcs, CreatePcs
    <3>. QED BY <1>1, <1>7, <2>1, <2>3, <3>1, <3>2 DEF LifeInv, GoneInv
  <2>5. LeftInv(s)'
    BY <1>1, <1>4, <1>7, <2>1 DEF LifeInv, LeftInv, Signaled, AbortPcs
  <2>. QED BY <2>2, <2>4, <2>5 DEF LifeInv
<1>11. HealthyInv(s)'
  <2>. SUFFICES ASSUME Healthy(s)'
                PROVE  HealthyInv(s)'
    BY DEF HealthyInv
  <2>1. Healthy(s) /\ HealthyInv(s)
    BY <1>2, <1>3 DEF Healthy, IInv
  <2>2. /\ ses[s].encoding /\ ses[s].avail = 0 /\ ~Serves(s) /\ ses[s].job # 0
        /\ ses[s].abort = "none" /\ ses[s].job \notin ongoing /\ ~omx[s].busy
    BY <1>1, <2>1 DEF HealthyInv, ReturnInv, EncodingInv
  <2>3. Quiet(s) /\ Quiet(s)'
    BY <1>1, <1>2, <2>1, <2>2 DEF HealthyInv, AskedInv, AbortAsked, MoveAsked, Quiet
  <2>4. AskedInv(s)'
    BY <1>2, <1>3, <2>1, <2>3 DEF HealthyInv, AskedInv
  <2>5. MovingInv(s)'
    <3>1. move.s = s => move.at \in {"send", "off"}
      BY <1>1, <1>4, <2>1 DEF HealthyInv, MovingInv, MoveAsked, IInv, TypeInv, MoveRec, MoveAts
    <3>2. move'.s = s => move'.at \in {"send", "off"}
      BY <1>1, <1>4, <3>1, SignalEffect DEF Signaled, IInv
    <3>. QED BY <1>2, <2>2, <2>3, <3>2 DEF MovingInv
  <2>6. EncodingInv(s)' /\ ReturnInv(s)'
    BY <1>2, <2>2 DEF EncodingInv, ReturnInv
  <2>7. HandleInv(s)' /\ ServedInv(s)'
    BY <1>1, <1>3, <1>7, <2>2 DEF HandleInv, ServedInv
  <2>8. OnceInv(s)'
    BY <1>1, <1>7, <2>1 DEF HealthyInv, OnceInv
  <2>9. AbortingInv(s)'
    BY <1>4, <2>1, <2>2 DEF HealthyInv, AbortingInv, Signaled
  <2>. QED BY <2>4, <2>5, <2>6, <2>7, <2>8, <2>9 DEF HealthyInv
<1>12. WakeInv'
  <2>1. sem' > 0
    BY <1>1 DEF IInv, TypeInv
  <2>2. NoLostWakeup'
    BY <2>1 DEF NoLostWakeup
  <2>3. ASSUME NEW t \in Sessions, hal'[t].pc = "open"
        PROVE  ses'[t].avail > 0 \/ ses'[t].job \in ongoing'
                 \/ omx'[t].at \in {"remove", "giveback"}
    <3>1. CASE t = s
      BY <1>3, <3>1
    <3>2. CASE t # s
      BY <1>1, <1>2, <1>3, <1>4, <2>3, <3>2 DEF IInv, WakeInv
    <3>. QED BY <3>1, <3>2
  <2>. QED BY <2>1, <2>2, <2>3 DEF WakeInv
<1>. QED BY <1>5, <1>6, <1>8, <1>9, <1>10, <1>11, <1>12 DEF IInv

-----------------------------------------------------------------------------
(* The job manager at work: mm_jpeg_process_encoding_job *)

\* While the manager serves a job it holds job_lock, and the job is one of a session
\* in use that nobody is destroying.
LEMMA ServingFacts ==
    ASSUME IInv, manager.pc \in ServePcs
    PROVE  /\ manager.job \in JobIds /\ Serving \in Sessions
           /\ Serves(Serving) /\ ses[Serving].job = manager.job
           /\ \A t \in Sessions : t # Serving => ~Serves(t)
           /\ ses[Serving].active
           /\ \A t \in Sessions : hal[t].pc \notin LockPcs
<1>1. manager.job \in JobIds
  BY DEF IInv, JobsInv, TypeInv, ManagerRec, JobIds
<1>2. Serving \in Sessions /\ Serves(Serving)
  BY <1>1, JobFacts DEF IInv, Serving, Job, Serves
<1>3. \A t \in Sessions : t # Serving => ~Serves(t)
  BY DEF Serves, Serving, Job
<1>4. ses[Serving].job = manager.job
  BY DEF IInv, JobsInv
<1>5. \A t \in Sessions : hal[t].pc \notin LockPcs
  <2>1. jobLock = mgr /\ \A t \in Sessions : t # mgr
    BY JpegConstants DEF IInv, LocksInv
  <2>2. \A t \in Sessions : jobLock = t <=> hal[t].pc \in LockPcs
    BY DEF IInv, LocksInv
  <2>. QED BY <2>1, <2>2
<1>6. ses[Serving].active
  <2>1. LifeInv(Serving)
    BY <1>2 DEF IInv
  <2>2. ~Destroyed(Serving)
    BY <1>2, <2>1 DEF LifeInv, GoneInv, NoJobs
  <2>. QED BY <2>1, <2>2 DEF LifeInv, ActiveInv, Destroyed, GonePcs, IdlePcs
<1>. QED BY <1>1, <1>2, <1>3, <1>4, <1>5, <1>6

\* Meanwhile no healthy component encodes and no healthy session is aborted (both need
\* job_lock, or an ongoing job), and a component does at most what the manager asked.
LEMMA Still ==
    ASSUME IInv, manager.pc \in ServePcs, NEW t \in Sessions, Healthy(t)
    PROVE  /\ ~omx[t].busy /\ omx[t].at \notin {"filled", "remove"}
           /\ omx[t].at = "giveback" => ~Serves(t)
           /\ hal[t].pc \notin AbortPcs /\ ses[t].abort # "init"
           /\ Quiet(t) \/ MoveAsked(t)
<1>1. HealthyInv(t) /\ ActiveInv(t)
  BY DEF IInv, LifeInv
<1>2. hal[t].pc \notin AbortPcs /\ hal[t].pc \notin LockPcs
  BY ServingFacts DEF LockPcs
<1>3. ses[t].abort # "init"
  BY <1>1, <1>2 DEF ActiveInv, AbortPcs
<1>4. ses[t].job \notin ongoing \/ Serves(t)
  <2>1. ongoing \subseteq {manager.job}
    BY DEF IInv, JobsInv
  <2>2. ses[t].job = manager.job => t = Serving
    BY ServingFacts, OwnJob DEF IInv, JobsOf, JobsInv, Serving, Job
  <2>. QED BY <2>1, <2>2, ServingFacts
<1>5. ~omx[t].busy /\ omx[t].at # "filled"
  <2>1. EncodingInv(t)
    BY <1>1 DEF HealthyInv
  <2>2. ses[t].abort \in {"none", "init", "done"}
    BY DEF IInv, TypeInv, SessionRec
  <2>. QED BY <1>2, <1>3, <1>4, <2>1, <2>2 DEF EncodingInv, AbortPcs
<1>6. omx[t].at # "remove" /\ (omx[t].at = "giveback" => ~Serves(t))
  <2>1. ReturnInv(t)
    BY <1>1 DEF HealthyInv
  <2>. QED BY <1>2, <1>4, <2>1 DEF ReturnInv, AbortPcs
<1>7. Quiet(t) \/ MoveAsked(t)
  BY <1>1, <1>3 DEF HealthyInv, AskedInv, AbortAsked
<1>. QED BY <1>2, <1>3, <1>5, <1>6, <1>7

\* ... and what the manager leaves of a session.
Kept(t) ==
    /\ ses'[t].active = ses[t].active /\ ses'[t].lock = ses[t].lock
    /\ ses'[t].avail = ses[t].avail /\ ses'[t].job = ses[t].job
    /\ ses'[t].err = ses[t].err /\ ses'[t].pending = ses[t].pending
    /\ ses'[t].abort = ses[t].abort \/ (Serves(t) /\ ses'[t].abort = "none")
    /\ ses'[t].encoding = ses[t].encoding \/ Serves(t)
    /\ ses'[t].config => ses[t].config \/ Serves(t)
    /\ omx'[t].at = omx[t].at /\ omx'[t].busy = omx[t].busy
    /\ omx'[t].cmds = omx[t].cmds /\ omx'[t].state = omx[t].state
    /\ ~omx'[t].failed => ~omx[t].failed

\* A step of the job manager that goes on with the job it serves: only the types, and
\* what it does to the state change and the configuration, is to be shown.
LEMMA ServeStep ==
    ASSUME IInv, NEW s \in Sessions, Serves(s), manager'.pc \in ServePcs \ {"encode"},
           manager'.job = manager.job, manager.pc # "done", Moved \/ move.s = NULL,
           UNCHANGED <<jobs, todo, ongoing, sem, intf, jobLock, hal>>,
           \A t \in Sessions : Kept(t),
           \A t \in Sessions : move'.s = t => move'.at = "send" \/ move' = move,
           manager.pc = "encode" => ses'[s].abort = "none",
           manager'.pc = "feed" => ses'[s].encoding,
           TypeInv', MoveInv', ConfigInv'
    PROVE  IInv'
<1>1. /\ manager.pc \in ServePcs /\ manager.job \in JobIds
      /\ ses[s].job = manager.job /\ ses[s].active
      /\ \A t \in Sessions : t # s => ~Serves(t)
      /\ \A t \in Sessions : hal[t].pc \notin LockPcs
  <2>1. manager.pc \in ServePcs /\ s = Serving
    BY DEF Serves, Serving, Job
  <2>. QED BY <2>1, ServingFacts
<1>2. /\ Queued' = Queued /\ JobIds' = JobIds
      /\ \A t \in Sessions : JobsOf(t)' = JobsOf(t) /\ (Serves(t)' <=> Serves(t))
  BY <1>1 DEF Queued, JobIds, JobsOf, Serves
<1>3. LocksInv'
  <2>1. jobLock' = mgr <=> manager'.pc \in ServePcs
    BY <1>1 DEF IInv, LocksInv
  <2>2. \A t \in Sessions :
          (intf' = t <=> hal'[t].pc \in IntfPcs) /\ (jobLock' = t <=> hal'[t].pc \in LockPcs)
    BY DEF IInv, LocksInv
  <2>. QED BY <2>1, <2>2 DEF LocksInv
<1>4. JobsInv'
  <2>1. ongoing \subseteq JobIds /\ \A j \in JobIds : jobs[j].s \in Sessions
    BY JobFacts DEF IInv
  <2>2. \A t \in Sessions : ses'[t].job = ses[t].job
    BY DEF Kept
  <2>3. manager'.pc # "lock"
    BY DEF ServePcs
  <2>. QED BY <1>1, <1>2, <2>1, <2>2, <2>3, JobsKept DEF IInv
<1>5. ASSUME NEW t \in Sessions
      PROVE  LifeInv(t)'
  <2>1. LifeInv(t) /\ hal'[t] = hal[t]
    BY <1>5 DEF IInv
  <2>2. Serves(t) => ses[t].active
    BY <1>1, <1>5
  <2>3. ActiveInv(t)'
    <3>1. hal[t].pc \in FreePcs \cup {"abort end", "destroy end"} => ~Serves(t)
      <4>1. hal[t].pc \notin LockPcs
        BY <1>1, <1>5
      <4>2. hal[t].pc = "destroy end" => Destroyed(t)
        BY DEF Destroyed, GonePcs
      <4>. QED BY <2>1, <4>1, <4>2 DEF LifeInv, GoneInv, NoJobs, LockPcs, AbortPcs
    <3>2. hal[t].pc \notin AbortPcs \cup CreatePcs
      BY <1>1, <1>5 DEF LockPcs
    <3>. QED BY <1>5, <2>1, <2>2, <3>1, <3>2 DEF LifeInv, ActiveInv, Kept, AbortPcs
  <2>4. NoJobs(t) => NoJobs(t)'
    BY <1>2, <1>5 DEF NoJobs
  <2>5. GoneInv(t)'
    BY <1>2, <1>5, <2>1, <2>4 DEF LifeInv, GoneInv, Destroyed
  <2>6. LeftInv(t)'
    BY <1>2, <1>5, <2>1 DEF LifeInv, LeftInv
  <2>. QED BY <2>3, <2>5, <2>6 DEF LifeInv
<1>6. ASSUME NEW t \in Sessions, Healthy(t)'
      PROVE  HealthyInv(t)'
  <2>1. Healthy(t) /\ HealthyInv(t) /\ Kept(t)
    BY <1>6 DEF Kept, Healthy, IInv
  <2>2. /\ ~omx[t].busy /\ omx[t].at \notin {"filled", "remove"}
        /\ omx[t].at = "giveback" => ~Serves(t)
        /\ hal[t].pc \notin AbortPcs
        /\ Quiet(t)
    <3>1. ~MoveAsked(t)
      BY <1>6, JpegConstants DEF Moved, MoveAsked
    <3>. QED BY <1>1, <1>6, <2>1, <3>1, Still
  <2>3. Quiet(t)'
    BY <2>1, <2>2 DEF Quiet, Kept
  <2>4. AskedInv(t)'
    BY <2>1, <2>3 DEF HealthyInv, AskedInv, Kept
  <2>5. MovingInv(t)'
    <3>1. ~omx'[t].busy /\ omx'[t].at \notin {"filled", "remove"}
      BY <2>1, <2>2 DEF Kept
    <3>2. CASE move'.s # t
      BY <3>2 DEF MovingInv
    <3>3. CASE move'.s = t /\ move'.at = "send"
      BY <2>3, <3>1, <3>3 DEF MovingInv
    <3>4. CASE move'.s = t /\ move' = move
      <4>1. move.s = t /\ move.at \in {"ok", "failed"}
        BY <1>6, <3>4, JpegConstants DEF Moved
      <4>2. move.at # "failed" /\ omx[t].at = "idle"
        BY <2>1, <4>1 DEF HealthyInv, MovingInv
      <4>3. move'.at = "ok" /\ omx'[t].at = "idle"
        BY <2>1, <3>4, <4>1, <4>2 DEF Kept
      <4>. QED BY <2>3, <3>1, <4>3 DEF MovingInv
    <3>. QED BY <1>6, <3>2, <3>3, <3>4
  <2>6. EncodingInv(t)'
    BY <2>1, <2>2 DEF EncodingInv, Kept
  <2>7. ReturnInv(t)'
    BY <1>2, <1>6, <2>1, <2>2 DEF HealthyInv, ReturnInv, Kept
  <2>8. HandleInv(t)'
    BY <1>2, <1>6, <2>1, <2>2 DEF HealthyInv, HandleInv, ServedInv, Kept
  <2>9. ServedInv(t)'
    <3>. SUFFICES ASSUME Serves(t)
                  PROVE  ServedInv(t)'
      BY <1>2, <1>6 DEF ServedInv
    <3>1. t = s /\ ServedInv(t)
      BY <1>1, <1>6, <2>1 DEF HealthyInv
    <3>2. ses'[t].abort = "none"
      BY <2>1, <3>1 DEF ServedInv, Kept
    <3>3. ses'[t].avail = 0 /\ manager'.job \in ongoing'
      BY <2>1, <3>1 DEF ServedInv, Kept
    <3>4. jobs'[manager'.job].cbs = 0
      BY <3>1 DEF ServedInv
    <3>. QED BY <3>1, <3>2, <3>3, <3>4 DEF ServedInv
  <2>10. AbortingInv(t)'
    BY <2>2 DEF AbortingInv, AbortPcs
  <2>11. OnceInv(t)'
    BY <1>2, <1>6, <2>1 DEF HealthyInv, OnceInv
  <2>. QED BY <2>4, <2>5, <2>6, <2>7, <2>8, <2>9, <2>10, <2>11 DEF HealthyInv
<1>7. WakeInv'
  <2>1. \A t \in Sessions : omx'[t].at = omx[t].at /\ ses'[t].avail = ses[t].avail
                              /\ ses'[t].job = ses[t].job
    BY DEF Kept
  <2>2. NoLostWakeup'
    BY DEF NoLostWakeup, ServePcs
  <2>3. Returning => Returning'
    BY <2>1 DEF Returning
  <2>4. ASSUME NEW t \in Sessions, hal'[t].pc = "open"
        PROVE  ses'[t].avail > 0 \/ ses'[t].job \in ongoing'
                 \/ omx'[t].at \in {"remove", "giveback"}
    BY <2>1, <2>4 DEF IInv, WakeInv
  <2>5. manager'.job \notin ongoing' => sem' > 0 \/ Returning'
    BY <1>1, <2>3 DEF IInv, WakeInv
  <2>. QED BY <2>2, <2>4, <2>5 DEF WakeInv
<1>8. \A t \in Sessions : HealthyInv(t)'
  BY <1>6 DEF HealthyInv
<1>. QED BY <1>3, <1>4, <1>5, <1>7, <1>8 DEF IInv

\* A failure marks the component, and changes nothing else of it.
LEMMA FaultEffect ==
    ASSUME TypeInv, NEW s \in Sessions, Fault(s)
    PROVE  /\ omx' \in [Sessions -> ComponentRec] /\ faults' \in 0..MaxFaults
           /\ omx'[s].failed
           /\ \A t \in Sessions :
                /\ t # s => omx'[t] = omx[t]
                /\ omx'[t].at = omx[t].at /\ omx'[t].busy = omx[t].busy
                /\ omx'[t].cmds = omx[t].cmds /\ omx'[t].state = omx[t].state
                /\ ~omx'[t].failed => ~omx[t].failed
<1>1. omx \in [Sessions -> ComponentRec] /\ omx' = [omx EXCEPT ![s].failed = TRUE]
  BY DEF TypeInv, Fault
<1>2. faults' \in 0..MaxFaults
  BY JpegConstants DEF TypeInv, Fault, MayFail
<1>. QED BY <1>1, <1>2 DEF ComponentRec

\* Outside the state changes of mm_jpeg_session_encode the manager waits for none.
LEMMA NoneMoves ==
    ASSUME IInv, manager.pc \in ServePcs \ {"unload", "unloaded", "execute", "configured"}
    PROVE  move.s = NULL
<1>1. \A t \in Sessions : hal[t].pc \notin CreatePcs \cup FreePcs
  BY ServingFacts DEF LockPcs
<1>. QED BY <1>1 DEF IInv, MoveInv, TypeInv, MoveRec

\* A state change that is to be sent.
LEMMA NewMove ==
    ASSUME NEW s \in Sessions, NEW to \in States, NEW exec \in {"none", "send", "free"}
    PROVE  /\ Move(s, to, exec) \in MoveRec /\ Move(s, to, exec).s = s
           /\ Move(s, to, exec).at = "send" /\ Move(s, to, exec).to = to
BY DEF Move, MoveRec, MoveAts

\* No state change, and one that needs no command.
LEMMA NoMoveFacts ==
    /\ NoMove \in MoveRec /\ NoMove.s = NULL /\ NoMove.at = "off"
    /\ [NoMove EXCEPT !.at = "ok"] \in MoveRec
    /\ [NoMove EXCEPT !.at = "ok"].s = NULL /\ [NoMove EXCEPT !.at = "ok"].at = "ok"
BY DEF NoMove, MoveRec, MoveAts, States

\* The job manager goes on with the job that it has in hand.
LEMMA GoEffect ==
    ASSUME TypeInv, NEW pc \in {"wait", "check", "lock"} \cup ServePcs, Go(pc)
    PROVE  manager' \in ManagerRec /\ manager'.pc = pc /\ manager'.job = manager.job
BY DEF TypeInv, Go, ManagerRec

\* mm_jpeg_session_encode clears abort and sets encoding first, and unloads the session
\* in progress if it is another one.
LEMMA EncodeInv ==
    ASSUME IInv, Encode
    PROVE  IInv'
<1>1. PICK s \in Sessions : s = Serving /\ Serves(s)
  BY ServingFacts DEF Encode, ServePcs
<1>2. /\ manager.pc = "encode"
      /\ UNCHANGED <<jobs, todo, ongoing, sem, intf, jobLock, inprogress, omx, hal, faults>>
  BY DEF Encode, queues, locks
<1>3. /\ ses' \in [Sessions -> SessionRec]
      /\ \A t \in Sessions : t # s => ses'[t] = ses[t]
      /\ ses'[s].active = ses[s].active /\ ses'[s].lock = ses[s].lock
      /\ ses'[s].avail = ses[s].avail /\ ses'[s].job = ses[s].job
      /\ ses'[s].err = ses[s].err /\ ses'[s].pending = ses[s].pending
      /\ ses'[s].abort = "none" /\ ses'[s].config = ses[s].config
  <2>1. ses \in [Sessions -> SessionRec] /\ ses[s] \in SessionRec
    BY DEF IInv, TypeInv
  <2>2. ses' = [ses EXCEPT ![s].abort = "none", ![s].encoding = FALSE]
    BY <1>1 DEF Encode
  <2>3. ses' \in [Sessions -> SessionRec]
    BY <2>1, <2>2 DEF SessionRec
  <2>. QED BY <2>1, <2>2, <2>3 DEF SessionRec
<1>4. \A t \in Sessions : Kept(t)
  BY <1>1, <1>2, <1>3 DEF Kept
<1>5. move.s = NULL
  BY <1>2, NoneMoves DEF ServePcs
<1>6. /\ manager' \in ManagerRec /\ manager'.job = manager.job
      /\ manager'.pc \in {"params", "unload", "configure"}
      /\ ~ses[s].config /\ inprogress # NULL => manager'.pc = "unload"
      /\ manager'.pc = "unload" => inprogress # NULL
      /\ manager'.pc = "configure" => inprogress = NULL
  <2>. DEFINE pc == IF ses[s].config THEN "params"
                    ELSE IF inprogress # NULL THEN "unload" ELSE "configure"
  <2>1. Go(pc)
    BY <1>1 DEF Encode
  <2>2. /\ pc \in {"params", "unload", "configure"}
        /\ ~ses[s].config /\ inprogress # NULL => pc = "unload"
        /\ pc = "unload" => inprogress # NULL
        /\ pc = "configure" => inprogress = NULL
    OBVIOUS
  <2>. HIDE DEF pc
  <2>3. pc \in {"wait", "check", "lock"} \cup ServePcs
    BY <2>2 DEF ServePcs
  <2>4. manager' \in ManagerRec /\ manager'.pc = pc /\ manager'.job = manager.job
    BY <2>1, <2>3, GoEffect DEF IInv
  <2>. QED BY <2>2, <2>4
<1>7. /\ move' \in MoveRec
      /\ \/ move'.s = NULL /\ move'.at \in {"off", "ok"}
         \/ /\ inprogress # NULL /\ manager'.pc = "unload" /\ move'.s = inprogress
            /\ move'.at = "send"
  <2>1. CASE ses[s].config \/ inprogress = NULL
    <3>1. move' = NoMove
      BY <1>1, <2>1 DEF Encode
    <3>. QED BY <3>1, NoMoveFacts
  <2>2. CASE ~ses[s].config /\ inprogress # NULL
    <3>1. \/ move' = Move(inprogress, "Idle", "none")
          \/ move' = [NoMove EXCEPT !.at = "ok"]
      BY <1>1, <2>2 DEF Encode
    <3>2. inprogress \in Sessions /\ "Idle" \in States
      BY <2>2 DEF IInv, TypeInv, States
    <3>3. manager'.pc = "unload"
      BY <1>6, <2>2
    <3>4. CASE move' = Move(inprogress, "Idle", "none")
      BY <2>2, <3>2, <3>3, <3>4, NewMove
    <3>5. CASE move' = [NoMove EXCEPT !.at = "ok"]
      BY <3>5, NoMoveFacts
    <3>. QED BY <3>1, <3>4, <3>5
  <2>. QED BY <2>1, <2>2
<1>8. TypeInv'
  <2>1. manager'.job <= Len(jobs)
    BY <1>6 DEF IInv, TypeInv
  <2>. QED BY <1>2, <1>3, <1>6, <1>7, <2>1 DEF IInv, TypeInv, JobIds
<1>9. MoveInv'
  BY <1>2, <1>7 DEF MoveInv
<1>10. ConfigInv'
  <2>1. \A t \in Sessions : ses'[t].config = ses[t].config
    BY <1>3
  <2>. QED BY <1>2, <1>6, <2>1 DEF IInv, ConfigInv, OneConfigured
<1>11. \A t \in Sessions : move'.s = t => move'.at = "send" \/ move' = move
  BY <1>7, JpegConstants
<1>. QED BY <1>1, <1>2, <1>3, <1>4, <1>5, <1>6, <1>8, <1>9, <1>10, <1>11, ServeStep DEF ServePcs

\* A step of the manager within a job: the types of what it writes are the types of all.
LEMMA ServeTypes ==
    ASSUME IInv, NEW pc \in ServePcs, Go(pc),
           UNCHANGED <<jobs, todo, ongoing, sem, intf, jobLock, hal>>,
           ses' \in [Sessions -> SessionRec], omx' \in [Sessions -> ComponentRec],
           move' \in MoveRec, inprogress' \in Sessions \cup {NULL}, faults' \in 0..MaxFaults
    PROVE  TypeInv' /\ manager'.pc = pc /\ manager'.job = manager.job
<1>1. manager' \in ManagerRec /\ manager'.pc = pc /\ manager'.job = manager.job
  BY GoEffect DEF IInv
<1>2. manager'.job <= Len(jobs)
  BY <1>1 DEF IInv, TypeInv
<1>. QED BY <1>1, <1>2 DEF IInv, TypeInv, JobIds

\* mm_jpeg_session_encode fails: the manager goes to its error path, with the job in
\* hand.
LEMMA ErrorStep ==
    ASSUME IInv, manager.pc \in ServePcs \ {"encode", "done"}, Go("error"),
           Moved \/ move.s = NULL, move' = NoMove \/ (move' = move /\ move.s = NULL),
           UNCHANGED <<jobs, todo, ongoing, sem, intf, jobLock, ses, inprogress, hal>>,
           (UNCHANGED <<omx, faults>>) \/ Fault(Serving)
    PROVE  IInv'
<1>1. PICK s \in Sessions : s = Serving /\ Serves(s)
  BY ServingFacts
<1>2. /\ omx' \in [Sessions -> ComponentRec] /\ faults' \in 0..MaxFaults
      /\ \A t \in Sessions : Kept(t)
  <2>1. CASE UNCHANGED <<omx, faults>>
    BY <2>1 DEF IInv, TypeInv, Kept
  <2>2. CASE Fault(Serving)
    BY <1>1, <2>2, FaultEffect DEF IInv, Kept
  <2>. QED BY <2>1, <2>2
<1>3. move' \in MoveRec /\ move'.s = NULL /\ move'.at \in {"off", "ok"}
  BY NoMoveFacts DEF IInv, TypeInv, MoveInv
<1>4. "error" \in ServePcs
  BY DEF ServePcs
<1>5. TypeInv' /\ manager'.pc = "error" /\ manager'.job = manager.job
  <2>1. ses' \in [Sessions -> SessionRec] /\ inprogress' \in Sessions \cup {NULL}
    BY DEF IInv, TypeInv
  <2>. QED BY <1>2, <1>3, <1>4, <2>1, ServeTypes
<1>6. MoveInv'
  BY <1>3 DEF MoveInv
<1>7. ConfigInv'
  BY <1>5 DEF IInv, ConfigInv, OneConfigured
<1>8. \A t \in Sessions : move'.s = t => move'.at = "send" \/ move' = move
  BY <1>3, JpegConstants
<1>. QED BY <1>1, <1>2, <1>5, <1>6, <1>7, <1>8, ServeStep DEF ServePcs

\* The steps of the manager that do not touch the sessions and their components.
LEMMA QuietStep ==
    ASSUME IInv, manager.pc \in ServePcs \ {"encode", "done"},
           NEW pc \in ServePcs \ {"encode", "feed"}, Go(pc),
           Moved \/ move.s = NULL, move' \in MoveRec,
           \/ move' = move
           \/ move'.s \in Sessions /\ move'.at = "send"
           \/ move'.s = NULL /\ move'.at \in {"off", "ok"},
           UNCHANGED <<jobs, todo, ongoing, sem, intf, jobLock, ses, inprogress, omx, hal,
                       faults>>,
           MoveInv', ConfigInv'
    PROVE  IInv'
<1>1. PICK s \in Sessions : s = Serving /\ Serves(s)
  BY ServingFacts
<1>2. TypeInv' /\ manager'.pc = pc /\ manager'.job = manager.job
  <2>1. /\ ses' \in [Sessions -> SessionRec] /\ omx' \in [Sessions -> ComponentRec]
        /\ inprogress' \in Sessions \cup {NULL} /\ faults' \in 0..MaxFaults
    BY DEF IInv, TypeInv
  <2>. QED BY <2>1, ServeTypes
<1>3. \A t \in Sessions : Kept(t)
  BY DEF Kept
<1>4. \A t \in Sessions : move'.s = t => move'.at = "send" \/ move' = move
  BY JpegConstants
<1>. QED BY <1>1, <1>2, <1>3, <1>4, ServeStep DEF ServePcs

\* The session in progress is taken from Executing to Idle.
LEMMA UnloadInv ==
    ASSUME IInv, Unload
    PROVE  IInv'
<1>1. /\ manager.pc = "unload" /\ Moved
      /\ UNCHANGED <<jobs, todo, ongoing, sem, intf, jobLock, ses, inprogress, omx, hal,
                     faults>>
  BY DEF Unload, queues, locks
<1>2. CASE move.at = "failed"
  <2>1. Go("error") /\ move' = NoMove
    BY <1>2 DEF Unload
  <2>. QED BY <1>1, <2>1, ErrorStep DEF ServePcs
<1>3. CASE move.at # "failed"
  <2>1. Go("unloaded") /\ "unloaded" \in ServePcs \ {"encode", "feed"}
    BY <1>3 DEF Unload, ServePcs
  <2>2. manager'.pc = "unloaded"
    BY <2>1, GoEffect DEF IInv
  <2>3. inprogress \in Sessions /\ "Loaded" \in States
    BY <1>1 DEF IInv, ConfigInv, TypeInv, States
  <2>4. CASE omx[inprogress].state = "Idle"
    <3>1. move' = Move(inprogress, "Loaded", "free")
      BY <1>3, <2>4 DEF Unload, Moving
    <3>2. move' \in MoveRec /\ move'.s = inprogress /\ move'.at = "send"
      BY <2>3, <3>1, NewMove
    <3>3. MoveInv'
      BY <1>1, <2>2, <2>3, <3>2, JpegConstants DEF MoveInv
    <3>4. ConfigInv'
      BY <1>1, <2>2, <2>3, JpegConstants DEF IInv, ConfigInv, OneConfigured
    <3>. QED BY <1>1, <2>1, <2>3, <3>2, <3>3, <3>4, QuietStep DEF ServePcs
  <2>5. CASE omx[inprogress].state # "Idle"
    <3>1. move' = move /\ move' \in MoveRec
      BY <1>3, <2>5 DEF Unload, IInv, TypeInv
    <3>2. MoveInv'
      <4>1. \A t \in Sessions : hal[t].pc \notin CreatePcs \cup FreePcs
        BY <1>1, ServingFacts DEF LockPcs, ServePcs
      <4>2. move.s # NULL => move.at # "off" /\ inprogress = move.s
        BY <1>1, <4>1 DEF IInv, MoveInv, TypeInv, MoveRec
      <4>3. move.s = NULL => move.at \in {"off", "ok"}
        BY DEF IInv, MoveInv
      <4>. QED BY <1>1, <2>2, <3>1, <4>2, <4>3 DEF MoveInv
    <3>3. ConfigInv'
      BY <1>1, <2>2, <2>3, JpegConstants DEF IInv, ConfigInv, OneConfigured
    <3>. QED BY <1>1, <2>1, <3>1, <3>2, <3>3, QuietStep DEF ServePcs
  <2>. QED BY <2>4, <2>5
<1>. QED BY <1>2, <1>3

\* And from Idle to Loaded: then it is configured no longer.
LEMMA UnloadedInv ==
    ASSUME IInv, Unloaded
    PROVE  IInv'
<1>1. /\ manager.pc = "unloaded" /\ Moved /\ move' = NoMove
      /\ UNCHANGED <<jobs, todo, ongoing, sem, intf, jobLock, omx, hal, faults>>
  BY DEF Unloaded, queues, locks
<1>2. CASE move.at = "failed"
  <2>1. Go("error") /\ UNCHANGED <<ses, inprogress>>
    BY <1>2 DEF Unloaded
  <2>. QED BY <1>1, <2>1, ErrorStep DEF ServePcs
<1>3. CASE move.at # "failed"
  <2>1. Go("configure") /\ inprogress' = NULL /\ ses' = [ses EXCEPT ![inprogress].config = FALSE]
    BY <1>3 DEF Unloaded
  <2>2. PICK p \in Sessions : p = inprogress
    BY <1>1 DEF IInv, ConfigInv, TypeInv
  <2>3. PICK s \in Sessions : s = Serving /\ Serves(s)
    BY <1>1, ServingFacts DEF ServePcs
  <2>4. /\ ses' \in [Sessions -> SessionRec]
        /\ \A t \in Sessions :
             /\ ses'[t].active = ses[t].active /\ ses'[t].lock = ses[t].lock
             /\ ses'[t].avail = ses[t].avail /\ ses'[t].job = ses[t].job
             /\ ses'[t].err = ses[t].err /\ ses'[t].pending = ses[t].pending
             /\ ses'[t].abort = ses[t].abort /\ ses'[t].encoding = ses[t].encoding
             /\ ses'[t].config = (ses[t].config /\ t # p)
    <3>1. ses \in [Sessions -> SessionRec]
      BY DEF IInv, TypeInv
    <3>2. ses' = [ses EXCEPT ![p].config = FALSE]
      BY <2>1, <2>2
    <3>3. ses' \in [Sessions -> SessionRec]
      BY <3>1, <3>2 DEF SessionRec
    <3>. QED BY <3>1, <3>2, <3>3, ZenonT(30) DEF SessionRec
  <2>5. \A t \in Sessions : Kept(t)
    BY <1>1, <2>4 DEF Kept
  <2>6. move' \in MoveRec /\ move'.s = NULL /\ move'.at = "off"
    BY <1>1, NoMoveFacts
  <2>7. TypeInv' /\ manager'.pc = "configure" /\ manager'.job = manager.job
    <3>1. /\ omx' \in [Sessions -> ComponentRec] /\ faults' \in 0..MaxFaults
          /\ "configure" \in ServePcs
      BY <1>1 DEF IInv, TypeInv, ServePcs
    <3>. QED BY <1>1, <2>1, <2>4, <2>6, <3>1, ServeTypes
  <2>8. MoveInv'
    BY <2>6 DEF MoveInv
  <2>9. ConfigInv'
    <3>1. \A t \in Sessions : ~ses'[t].config /\ inprogress' # t
      BY <2>1, <2>2, <2>4, JpegConstants DEF IInv, ConfigInv, OneConfigured
    <3>. QED BY <2>1, <2>7, <3>1 DEF ConfigInv, OneConfigured
  <2>10. \A t \in Sessions : move'.s = t => move'.at = "send" \/ move' = move
    BY <2>6, JpegConstants
  <2>. QED BY <1>1, <2>3, <2>5, <2>7, <2>8, <2>9, <2>10, ServeStep DEF ServePcs
<1>. QED BY <1>2, <1>3

\* mm_jpeg_session_configure asks for Idle, which takes the buffers, unless config_main
\* fails, ...
LEMMA ConfigureInv ==
    ASSUME IInv, Configure
    PROVE  IInv'
<1>1. /\ manager.pc = "configure"
      /\ UNCHANGED <<jobs, todo, ongoing, sem, intf, jobLock, ses, inprogress, hal>>
  BY DEF Configure, queues, locks
<1>2. move.s = NULL
  BY <1>1, NoneMoves DEF ServePcs
<1>3. CASE Fault(Serving) /\ Go("error") /\ UNCHANGED move
  BY <1>1, <1>2, <1>3, ErrorStep DEF ServePcs
<1>4. CASE Moving(Serving, "Idle", "send") /\ Go("execute") /\ UNCHANGED <<omx, faults>>
  <2>1. PICK s \in Sessions : s = Serving /\ Serves(s)
    BY <1>1, ServingFacts DEF ServePcs
  <2>2. /\ manager'.pc = "execute" /\ manager'.job = manager.job
        /\ "execute" \in ServePcs \ {"encode", "feed"}
    BY <1>4, GoEffect DEF IInv, ServePcs
  <2>3. move' \in MoveRec /\ move'.s = s /\ move'.at = "send"
    BY <1>4, <2>1, NewMove DEF Moving, States
  <2>4. Serves(s)'
    BY <1>1, <2>1, <2>2 DEF Serves
  <2>5. MoveInv'
    BY <2>2, <2>3, <2>4, JpegConstants DEF MoveInv
  <2>6. ConfigInv'
    BY <1>1, <2>2 DEF IInv, ConfigInv, OneConfigured
  <2>. QED BY <1>1, <1>2, <1>4, <2>2, <2>3, <2>5, <2>6, QuietStep DEF ServePcs
<1>. QED BY <1>3, <1>4 DEF Configure

\* ... then for Executing, ...
LEMMA ExecuteInv ==
    ASSUME IInv, Execute
    PROVE  IInv'
<1>1. /\ manager.pc = "execute" /\ Moved
      /\ UNCHANGED <<jobs, todo, ongoing, sem, intf, jobLock, ses, inprogress, omx, hal,
                     faults>>
  BY DEF Execute, queues, locks
<1>2. CASE move.at # "ok"
  <2>1. Go("error") /\ move' = NoMove
    BY <1>2 DEF Execute
  <2>. QED BY <1>1, <2>1, ErrorStep DEF ServePcs
<1>3. CASE move.at = "ok"
  <2>1. PICK s \in Sessions : s = Serving /\ Serves(s)
    BY <1>1, ServingFacts DEF ServePcs
  <2>2. Go("configured") /\ move' = Move(Serving, "Executing", "none")
    BY <1>3 DEF Execute, Moving
  <2>3. manager'.pc = "configured" /\ manager'.job = manager.job
        /\ "configured" \in ServePcs \ {"encode", "feed"}
    BY <2>2, GoEffect DEF IInv, ServePcs
  <2>4. move' \in MoveRec /\ move'.s = s /\ move'.at = "send"
    BY <2>1, <2>2, NewMove DEF States
  <2>5. Serves(s)'
    BY <1>1, <2>1, <2>3 DEF Serves
  <2>6. MoveInv'
    BY <2>3, <2>4, <2>5, JpegConstants DEF MoveInv
  <2>7. ConfigInv'
    BY <1>1, <2>3 DEF IInv, ConfigInv, OneConfigured
  <2>. QED BY <1>1, <2>2, <2>3, <2>4, <2>6, <2>7, QuietStep DEF ServePcs
<1>. QED BY <1>2, <1>3

\* ... and then the session is the one in progress, and configured.
LEMMA ConfiguredInv ==
    ASSUME IInv, Configured
    PROVE  IInv'
<1>1. /\ manager.pc = "configured" /\ Moved /\ move' = NoMove
      /\ UNCHANGED <<jobs, todo, ongoing, sem, intf, jobLock, omx, hal, faults>>
  BY DEF Configured, queues, locks
<1>2. CASE move.at = "failed"
  <2>1. Go("error") /\ UNCHANGED <<ses, inprogress>>
    BY <1>2 DEF Configured
  <2>. QED BY <1>1, <2>1, ErrorStep DEF ServePcs
<1>3. CASE move.at # "failed"
  <2>1. Go("params") /\ inprogress' = Serving /\ ses' = [ses EXCEPT ![Serving].config = TRUE]
    BY <1>3 DEF Configured
  <2>2. PICK s \in Sessions : s = Serving /\ Serves(s)
    BY <1>1, ServingFacts DEF ServePcs
  <2>3. /\ ses' \in [Sessions -> SessionRec]
        /\ \A t \in Sessions :
             /\ ses'[t].active = ses[t].active /\ ses'[t].lock = ses[t].lock
             /\ ses'[t].avail = ses[t].avail /\ ses'[t].job = ses[t].job
             /\ ses'[t].err = ses[t].err /\ ses'[t].pending = ses[t].pending
             /\ ses'[t].abort = ses[t].abort /\ ses'[t].encoding = ses[t].encoding
             /\ ses'[t].config = (ses[t].config \/ t = s)
    <3>1. ses \in [Sessions -> SessionRec]
      BY DEF IInv, TypeInv
    <3>2. ses' = [ses EXCEPT ![s].config = TRUE]
      BY <2>1, <2>2
    <3>3. ses' \in [Sessions -> SessionRec]
      BY <3>1, <3>2 DEF SessionRec
    <3>. QED BY <3>1, <3>2, <3>3 DEF SessionRec
  <2>4. \A t \in Sessions : Kept(t)
    BY <1>1, <2>2, <2>3 DEF Kept
  <2>5. move' \in MoveRec /\ move'.s = NULL /\ move'.at = "off"
    BY <1>1, NoMoveFacts
  <2>6. TypeInv' /\ manager'.pc = "params" /\ manager'.job = manager.job
    <3>1. /\ omx' \in [Sessions -> ComponentRec] /\ faults' \in 0..MaxFaults
          /\ "params" \in ServePcs /\ inprogress' \in Sessions \cup {NULL}
      BY <1>1, <2>1, <2>2 DEF IInv, TypeInv, ServePcs
    <3>. QED BY <1>1, <2>1, <2>3, <2>5, <3>1, ServeTypes
  <2>7. MoveInv'
    BY <2>5 DEF MoveInv
  <2>8. ConfigInv'
    <3>1. \A t \in Sessions : ~ses[t].config
      BY <1>1, JpegConstants DEF IInv, ConfigInv, OneConfigured
    <3>2. \A t \in Sessions : hal'[t].pc \notin CreatePcs
      BY <1>1, ServingFacts DEF ServePcs, LockPcs
    <3>. QED BY <2>1, <2>2, <2>3, <2>6, <3>1, <3>2 DEF ConfigInv, OneConfigured
  <2>9. \A t \in Sessions : move'.s = t => move'.at = "send" \/ move' = move
    BY <2>5, JpegConstants
  <2>. QED BY <1>1, <2>2, <2>4, <2>6, <2>7, <2>8, <2>9, ServeStep DEF ServePcs
<1>. QED BY <1>2, <1>3

\* mm_jpeg_configure_job_params: the parameters of this job, or a failure.
LEMMA JobParamsInv ==
    ASSUME IInv, JobParams
    PROVE  IInv'
<1>1. /\ manager.pc = "params"
      /\ UNCHANGED <<jobs, todo, ongoing, sem, intf, jobLock, inprogress, move, hal>>
  BY DEF JobParams, queues, locks
<1>2. move.s = NULL
  BY <1>1, NoneMoves DEF ServePcs
<1>3. CASE Fault(Serving) /\ Go("error") /\ UNCHANGED ses
  BY <1>1, <1>2, <1>3, ErrorStep DEF ServePcs
<1>4. CASE /\ ses' = [ses EXCEPT ![Serving].encoding = TRUE] /\ Go("feed")
           /\ UNCHANGED <<omx, faults>>
  <2>1. PICK s \in Sessions : s = Serving /\ Serves(s)
    BY <1>1, ServingFacts DEF ServePcs
  <2>2. /\ ses' \in [Sessions -> SessionRec]
        /\ ses'[s].encoding = TRUE
        /\ \A t \in Sessions :
             /\ t # s => ses'[t] = ses[t]
             /\ ses'[t].active = ses[t].active /\ ses'[t].lock = ses[t].lock
             /\ ses'[t].avail = ses[t].avail /\ ses'[t].job = ses[t].job
             /\ ses'[t].err = ses[t].err /\ ses'[t].pending = ses[t].pending
             /\ ses'[t].abort = ses[t].abort /\ ses'[t].config = ses[t].config
    <3>1. ses \in [Sessions -> SessionRec]
      BY DEF IInv, TypeInv
    <3>2. ses' = [ses EXCEPT ![s].encoding = TRUE]
      BY <1>4, <2>1
    <3>3. ses' \in [Sessions -> SessionRec]
      BY <3>1, <3>2 DEF SessionRec
    <3>. QED BY <3>1, <3>2, <3>3 DEF SessionRec
  <2>3. \A t \in Sessions : Kept(t)
    BY <1>4, <2>1, <2>2 DEF Kept
  <2>4. TypeInv' /\ manager'.pc = "feed" /\ manager'.job = manager.job
    <3>1. /\ omx' \in [Sessions -> ComponentRec] /\ faults' \in 0..MaxFaults
          /\ "feed" \in ServePcs /\ move' \in MoveRec /\ inprogress' \in Sessions \cup {NULL}
      BY <1>1, <1>4 DEF IInv, TypeInv, ServePcs
    <3>. QED BY <1>1, <1>4, <2>2, <3>1, ServeTypes
  <2>5. MoveInv'
    BY <1>1, <1>2 DEF IInv, MoveInv
  <2>6. ConfigInv'
    BY <1>1, <2>2, <2>4 DEF IInv, ConfigInv, OneConfigured
  <2>7. \A t \in Sessions : move'.s = t => move'.at = "send" \/ move' = move
    BY <1>1
  <2>. QED BY <1>1, <1>2, <2>1, <2>2, <2>3, <2>4, <2>5, <2>6, <2>7, ServeStep DEF ServePcs
<1>. QED BY <1>3, <1>4 DEF JobParams

\* The manager has done with a job, which was fed to the component or answered with an
\* error: it lets go of job_lock and waits for the next token.
LEMMA ServeEnd ==
    ASSUME IInv, NEW s \in Sessions, Serves(s),
           manager.pc \in {"feed", "done"}, Waits, jobLock' = NULL,
           UNCHANGED <<jobs, todo, intf, inprogress, move, hal, faults>>,
           ongoing' = ongoing \/ ongoing' = ongoing \ {manager.job},
           sem' \in Nat, sem' >= sem,
           ses' \in [Sessions -> SessionRec], omx' \in [Sessions -> ComponentRec],
           \A t \in Sessions : t # s => ses'[t] = ses[t] /\ omx'[t] = omx[t],
           /\ ses'[s].active = ses[s].active /\ ses'[s].lock = ses[s].lock
           /\ ses'[s].abort = ses[s].abort /\ ses'[s].config = ses[s].config
           /\ ses'[s].job = ses[s].job
           /\ omx'[s].at = omx[s].at,
           HealthyInv(s)', WakeInv'
    PROVE  IInv'
<1>1. /\ manager.pc \in ServePcs /\ manager.job \in JobIds
      /\ ses[s].job = manager.job /\ ses[s].active
      /\ \A t \in Sessions : t # s => ~Serves(t)
      /\ \A t \in Sessions : hal[t].pc \notin LockPcs
  <2>1. manager.pc \in ServePcs /\ s = Serving
    BY DEF Serves, Serving, Job
  <2>. QED BY <2>1, ServingFacts
<1>2. /\ Queued' = Queued /\ JobIds' = JobIds
      /\ \A t \in Sessions : JobsOf(t)' = JobsOf(t)
  BY DEF Queued, JobIds, JobsOf
<1>3. /\ manager'.pc = "wait" /\ manager'.job = 0 /\ manager' \in ManagerRec
      /\ \A t \in Sessions : ~Serves(t)'
  BY DEF Waits, ManagerRec, Serves, ServePcs
<1>4. ongoing' \subseteq ongoing
  OBVIOUS
<1>5. TypeInv'
  <2>1. manager'.job <= Len(jobs')
    BY <1>3 DEF IInv, TypeInv
  <2>2. ongoing' \subseteq JobIds'
    BY <1>2, <1>4 DEF IInv, TypeInv
  <2>3. jobLock' \in Threads /\ jobs' \in Seq(JobRec) /\ Len(jobs') <= MaxJobs
    BY DEF IInv, TypeInv, Threads
  <2>. QED BY <1>2, <1>3, <2>1, <2>2, <2>3 DEF IInv, TypeInv
<1>6. LocksInv'
  <2>1. ~(jobLock' = mgr) /\ ~(manager'.pc \in ServePcs)
    BY <1>3, JpegConstants DEF ServePcs
  <2>2. \A t \in Sessions : jobLock' # t /\ hal'[t].pc \notin LockPcs
    BY <1>1, JpegConstants
  <2>3. \A t \in Sessions : intf' = t <=> hal'[t].pc \in IntfPcs
    BY DEF IInv, LocksInv
  <2>. QED BY <2>1, <2>2, <2>3 DEF LocksInv
<1>7. MoveInv'
  <2>1. move.s = NULL
    BY NoneMoves DEF ServePcs
  <2>. QED BY <2>1 DEF IInv, MoveInv
<1>8. ConfigInv'
  <2>1. \A t \in Sessions : ses'[t].config = ses[t].config
    OBVIOUS
  <2>. QED BY <1>3, <2>1 DEF IInv, ConfigInv, OneConfigured
<1>9. JobsInv'
  <2>1. ongoing \subseteq JobIds /\ \A j \in JobIds : jobs[j].s \in Sessions
    BY JobFacts DEF IInv
  <2>2. \A t \in Sessions : ses'[t].job = ses[t].job
    OBVIOUS
  <2>3. manager'.pc # "lock" /\ manager'.pc \notin ServePcs
    BY <1>3 DEF ServePcs
  <2>. QED BY <1>1, <1>2, <1>4, <2>1, <2>2, <2>3, JobsKept DEF IInv
<1>10. ASSUME NEW t \in Sessions, t # s
       PROVE  LifeInv(t)' /\ HealthyInv(t)'
  <2>1. manager.job \notin JobsOf(t)
    BY <1>1, <1>10, OwnJob DEF IInv
  <2>2. \A j \in JobsOf(t) : j \in ongoing' <=> j \in ongoing
    BY <2>1
  <2>3. Untouched(t)
    BY <1>1, <1>2, <1>3, <1>10, <2>2 DEF Untouched
  <2>. QED BY <1>5, <2>3, LifeUntouched, HealthyUntouched DEF IInv
<1>11. LifeInv(s)'
  <2>1. LifeInv(s)
    BY DEF IInv
  <2>2. ActiveInv(s)'
    <3>1. hal[s].pc \notin CreatePcs
      BY <1>1 DEF LockPcs
    <3>. QED BY <1>1, <2>1, <3>1 DEF LifeInv, ActiveInv
  <2>3. ~Destroyed(s) /\ GoneInv(s)
    BY <2>1 DEF LifeInv, GoneInv, NoJobs
  <2>4. ~Destroyed(s)'
    BY <2>3 DEF Destroyed
  <2>5. GoneInv(s)'
    BY <1>2, <2>3, <2>4 DEF GoneInv
  <2>6. LeftInv(s)'
    BY <1>2, <2>1 DEF LifeInv, LeftInv
  <2>. QED BY <2>2, <2>5, <2>6 DEF LifeInv
<1>. QED BY <1>5, <1>6, <1>7, <1>8, <1>9, <1>10, <1>11 DEF IInv

\* OMX_EmptyThisBuffer and OMX_FillThisBuffer: the component encodes, or refuses.
LEMMA FeedInv ==
    ASSUME IInv, Feed
    PROVE  IInv'
<1>1. /\ manager.pc = "feed"
      /\ UNCHANGED <<jobs, todo, ongoing, sem, intf, ses, inprogress, move, hal>>
  BY DEF Feed, queues
<1>2. move.s = NULL
  BY <1>1, NoneMoves DEF ServePcs
<1>3. CASE /\ Go("error") /\ UNCHANGED <<jobLock, omx, faults>>
  BY <1>1, <1>2, <1>3, ErrorStep DEF ServePcs
<1>4. CASE Fault(Serving) /\ Go("error") /\ UNCHANGED jobLock
  BY <1>1, <1>2, <1>4, ErrorStep DEF ServePcs
<1>5. CASE /\ omx[Serving].state = "Executing"
           /\ omx' = [omx EXCEPT ![Serving].busy = TRUE]
           /\ Waits /\ jobLock' = NULL /\ UNCHANGED faults
  <2>1. PICK s \in Sessions : s = Serving /\ Serves(s)
    BY <1>1, ServingFacts DEF ServePcs
  <2>2. /\ omx' \in [Sessions -> ComponentRec]
        /\ \A t \in Sessions : t # s => omx'[t] = omx[t]
        /\ omx'[s].busy = TRUE /\ omx'[s].at = omx[s].at /\ omx'[s].cmds = omx[s].cmds
        /\ omx'[s].state = "Executing" /\ omx'[s].failed = omx[s].failed
    BY <1>5, <2>1 DEF IInv, TypeInv, ComponentRec
  <2>3. \A t \in Sessions : omx'[t].at = omx[t].at
    BY <2>2
  <2>4. manager'.pc = "wait" /\ ~Serves(s)'
    BY <1>5 DEF Waits, Serves, ServePcs
  <2>5. sem \in Nat /\ sem' >= sem /\ sem' \in Nat /\ ses \in [Sessions -> SessionRec]
    BY <1>1 DEF IInv, TypeInv
  <2>6. HealthyInv(s)'
    <3>. SUFFICES ASSUME Healthy(s)'
                  PROVE  HealthyInv(s)'
      BY DEF HealthyInv
    <3>1. Healthy(s) /\ HealthyInv(s)
      BY <1>1, <2>2 DEF Healthy, IInv
    <3>2. /\ ~omx[s].busy /\ omx[s].at \notin {"filled", "remove", "giveback"}
          /\ hal[s].pc \notin AbortPcs /\ Quiet(s) /\ omx[s].at # "error"
      <4>1. ~MoveAsked(s)
        BY <1>2, JpegConstants DEF MoveAsked
      <4>2. omx[s].at # "error"
        BY <3>1 DEF HealthyInv, AskedInv
      <4>. QED BY <1>1, <2>1, <3>1, <4>1, <4>2, Still DEF ServePcs
    <3>3. omx[s].at = "idle"
      BY <3>2 DEF Quiet, IInv, TypeInv, ComponentRec, AnswerPcs
    <3>4. /\ ses[s].encoding /\ ses[s].avail = 0 /\ ses[s].abort = "none"
          /\ ses[s].job # 0 /\ ses[s].job \in ongoing
          /\ jobs[ses[s].job].cbs = 0 /\ ~jobs[ses[s].job].over
      <4>1. ServedInv(s) /\ ses[s].job = manager.job /\ manager.job \in JobIds
        BY <1>1, <2>1, <3>1, ServingFacts DEF HealthyInv, ServePcs
      <4>2. manager.job # 0
        BY <4>1 DEF JobIds
      <4>3. manager.job \in ongoing /\ jobs[manager.job].cbs = 0
        BY <1>1, <2>1, <4>1 DEF ServedInv
      <4>4. ~jobs[manager.job].over
        BY <4>3 DEF IInv, JobsInv
      <4>. QED BY <1>1, <2>1, <4>1, <4>2, <4>3, <4>4 DEF ServedInv
    <3>5. Quiet(s)'
      BY <2>2, <3>2 DEF Quiet
    <3>6. AskedInv(s)'
      BY <1>1, <2>2, <3>1, <3>5 DEF HealthyInv, AskedInv
    <3>7. MovingInv(s)'
      BY <1>1, <1>2, JpegConstants DEF MovingInv
    <3>8. EncodingInv(s)'
      BY <1>1, <2>2, <2>4, <3>3, <3>4 DEF EncodingInv
    <3>9. ReturnInv(s)' /\ ServedInv(s)'
      BY <2>2, <2>4, <3>3 DEF ReturnInv, ServedInv
    <3>10. HandleInv(s)'
      BY <1>1, <2>2, <3>4 DEF HandleInv
    <3>11. AbortingInv(s)'
      BY <1>1, <3>2 DEF AbortingInv, AbortPcs
    <3>12. OnceInv(s)'
      BY <1>1, <3>1 DEF HealthyInv, OnceInv, JobsOf, JobIds
    <3>. QED BY <3>6, <3>7, <3>8, <3>9, <3>10, <3>11, <3>12 DEF HealthyInv
  <2>7. WakeInv'
    <3>1. Returning => Returning'
      BY <2>3 DEF Returning
    <3>2. sem' = 0 /\ ongoing' = {} => Returning'
      BY <1>1, <3>1, <2>5 DEF IInv, WakeInv, ServePcs
    <3>3. NoLostWakeup'
      BY <3>2 DEF NoLostWakeup, Returning
    <3>4. ASSUME NEW t \in Sessions, hal'[t].pc = "open"
          PROVE  ses'[t].avail > 0 \/ ses'[t].job \in ongoing'
                   \/ omx'[t].at \in {"remove", "giveback"}
      BY <1>1, <2>3, <3>4 DEF IInv, WakeInv
    <3>. QED BY <2>4, <3>3, <3>4 DEF WakeInv, ServePcs
  <2>. QED BY <1>1, <1>5, <2>1, <2>2, <2>5, <2>6, <2>7, ServeEnd
<1>. QED BY <1>3, <1>4, <1>5 DEF Feed

\* After the error path of mm_jpeg_process_encoding_job the job is not ongoing, the
\* session is available again, and job_sem is posted.
LEMMA JobErrorDoneInv ==
    ASSUME IInv, JobErrorDone
    PROVE  IInv'
<1>1. /\ manager.pc = "done" /\ Waits /\ jobLock' = NULL
      /\ ongoing' = ongoing \ {manager.job} /\ sem' = sem + 1
      /\ UNCHANGED <<jobs, todo, intf, inprogress, omx, move, hal, faults>>
  BY DEF JobErrorDone, Job
<1>2. PICK s \in Sessions : s = Serving /\ Serves(s)
  BY <1>1, ServingFacts DEF ServePcs
<1>3. /\ ses' \in [Sessions -> SessionRec]
      /\ \A t \in Sessions : t # s => ses'[t] = ses[t]
      /\ ses'[s].active = ses[s].active /\ ses'[s].lock = ses[s].lock
      /\ ses'[s].abort = ses[s].abort /\ ses'[s].config = ses[s].config
      /\ ses'[s].job = ses[s].job /\ ses'[s].err = ses[s].err
      /\ ses'[s].pending = ses[s].pending
      /\ ses'[s].encoding = FALSE /\ ses'[s].avail = ses[s].avail + 1
      /\ ses[s].avail \in Nat
  <2>1. ses \in [Sessions -> SessionRec] /\ ses[s].avail \in Nat /\ ses[s].avail + 1 \in Nat
    BY DEF IInv, TypeInv, SessionRec
  <2>2. ses' = [ses EXCEPT ![s].encoding = FALSE, ![s].avail = @ + 1]
    BY <1>2 DEF JobErrorDone
  <2>3. ses' \in [Sessions -> SessionRec]
    BY <2>1, <2>2 DEF SessionRec
  <2>. QED BY <2>1, <2>2, <2>3 DEF SessionRec
<1>4. sem \in Nat /\ sem' >= sem /\ sem' \in Nat /\ omx \in [Sessions -> ComponentRec]
  BY <1>1 DEF IInv, TypeInv
<1>5. manager'.pc = "wait" /\ ~Serves(s)'
  BY <1>1 DEF Waits, Serves, ServePcs
<1>6. /\ ses[s].job = manager.job /\ manager.job \in JobIds
      /\ \A t \in Sessions : ses[t].job = manager.job => t = s
  <2>1. ses[s].job = manager.job /\ manager.job \in JobIds
    BY <1>1, <1>2, ServingFacts DEF ServePcs
  <2>2. manager.job # 0
    BY <2>1 DEF JobIds
  <2>. QED BY <2>1, <2>2 DEF IInv, JobsInv, JobsOf
<1>7. HealthyInv(s)'
  <2>. SUFFICES ASSUME Healthy(s)'
                PROVE  HealthyInv(s)'
    BY DEF HealthyInv
  <2>1. Healthy(s) /\ HealthyInv(s)
    BY <1>1, <1>3 DEF Healthy, IInv
  <2>2. move.s = NULL
    BY <1>1, NoneMoves DEF ServePcs
  <2>3. /\ ~omx[s].busy /\ omx[s].at \notin {"filled", "remove", "giveback"}
        /\ hal[s].pc \notin AbortPcs /\ Quiet(s)
    <3>1. ~MoveAsked(s)
      BY <2>2, JpegConstants DEF MoveAsked
    <3>. QED BY <1>1, <1>2, <2>1, <3>1, Still DEF ServePcs
  <2>4. Quiet(s)'
    BY <1>1, <2>3 DEF Quiet
  <2>5. AskedInv(s)'
    BY <1>1, <1>3, <2>1, <2>4 DEF HealthyInv, AskedInv
  <2>6. MovingInv(s)'
    BY <1>1, <2>2, JpegConstants DEF MovingInv
  <2>7. EncodingInv(s)' /\ ReturnInv(s)' /\ ServedInv(s)'
    BY <1>1, <1>5, <2>3 DEF EncodingInv, ReturnInv, ServedInv
  <2>8. HandleInv(s)'
    <3>1. ses[s].avail = 0
      BY <1>2, <2>1 DEF HealthyInv, ServedInv
    <3>2. ses'[s].job \notin ongoing'
      BY <1>1, <1>3, <1>6
    <3>. QED BY <1>3, <1>5, <3>1, <3>2 DEF HandleInv
  <2>9. AbortingInv(s)'
    BY <1>1, <2>3 DEF AbortingInv, AbortPcs
  <2>10. OnceInv(s)'
    BY <1>1, <2>1 DEF HealthyInv, OnceInv, JobsOf, JobIds
  <2>. QED BY <2>5, <2>6, <2>7, <2>8, <2>9, <2>10 DEF HealthyInv
<1>8. WakeInv'
  <2>1. sem' > 0
    BY <1>1, <1>4
  <2>2. NoLostWakeup'
    BY <2>1 DEF NoLostWakeup
  <2>3. ASSUME NEW t \in Sessions, hal'[t].pc = "open"
        PROVE  ses'[t].avail > 0 \/ ses'[t].job \in ongoing'
                 \/ omx'[t].at \in {"remove", "giveback"}
    <3>1. CASE t = s
      BY <1>3, <3>1
    <3>2. CASE t # s
      <4>1. ses[t].avail > 0 \/ ses[t].job \in ongoing \/ omx[t].at \in {"remove", "giveback"}
        BY <1>1, <2>3 DEF IInv, WakeInv
      <4>2. ses[t].job \in ongoing => ses[t].job \in ongoing'
        BY <1>1, <1>6, <2>3, <3>2
      <4>. QED BY <1>1, <1>3, <2>3, <3>2, <4>1, <4>2
    <3>. QED BY <3>1, <3>2
  <2>. QED BY <2>1, <2>2, <2>3 DEF WakeInv
<1>. QED BY <1>1, <1>2, <1>3, <1>4, <1>7, <1>8, ServeEnd

\* The error path calls jpeg_cb: nobody has answered the job before it, as long as the
\* component is healthy.
LEMMA JobErrorInv ==
    ASSUME IInv, JobError
    PROVE  IInv'
<1>1. /\ manager.pc = "error" /\ CallBack(manager.job, "error") /\ Go("done")
      /\ UNCHANGED <<todo, ongoing, sem, intf, jobLock, ses, inprogress, omx, move, hal,
                     faults>>
  BY DEF JobError, Job, locks
<1>2. PICK s \in Sessions : s = Serving /\ Serves(s)
  BY <1>1, ServingFacts DEF ServePcs
<1>3. /\ manager.job \in JobIds /\ ses[s].job = manager.job
      /\ \A t \in Sessions : t # s => ~Serves(t)
      /\ \A t \in Sessions : hal[t].pc \notin LockPcs
  BY <1>1, <1>2, ServingFacts DEF ServePcs
<1>4. /\ jobs' \in Seq(JobRec) /\ Len(jobs') = Len(jobs) /\ JobIds' = JobIds
      /\ \A k \in JobIds : /\ jobs'[k].s = jobs[k].s /\ jobs'[k].over = jobs[k].over
                           /\ k # manager.job => jobs'[k] = jobs[k]
                           /\ k = manager.job => jobs'[k].cbs = jobs[k].cbs + 1
  <2>1. manager.job \in Nat
    BY DEF IInv, TypeInv, ManagerRec
  <2>. QED BY <1>1, <2>1, CallBackEffect DEF IInv
<1>5. manager' \in ManagerRec /\ manager'.pc = "done" /\ manager'.job = manager.job
  BY <1>1, GoEffect DEF IInv, ServePcs
<1>6. TypeInv'
  <2>1. manager'.job <= Len(jobs')
    BY <1>4, <1>5 DEF IInv, TypeInv
  <2>. QED BY <1>1, <1>4, <1>5, <2>1 DEF IInv, TypeInv
<1>7. /\ Queued' = Queued
      /\ \A t \in Sessions : JobsOf(t)' = JobsOf(t) /\ (Serves(t)' <=> Serves(t))
  BY <1>1, <1>3, <1>4, <1>5 DEF Queued, JobsOf, Serves, ServePcs
<1>8. LocksInv'
  <2>1. jobLock' = mgr <=> manager'.pc \in ServePcs
    BY <1>1, <1>5 DEF IInv, LocksInv, ServePcs
  <2>. QED BY <1>1, <2>1 DEF IInv, LocksInv
<1>9. MoveInv'
  <2>1. move.s = NULL
    BY <1>1, NoneMoves DEF ServePcs
  <2>. QED BY <1>1, <2>1 DEF IInv, MoveInv
<1>10. ConfigInv'
  BY <1>1, <1>5 DEF IInv, ConfigInv, OneConfigured
<1>11. JobsInv'
  <2>1. ongoing \subseteq JobIds /\ \A j \in JobIds : jobs[j].s \in Sessions
    BY JobFacts DEF IInv
  <2>2. \A t \in Sessions : ses'[t].job = ses[t].job
    BY <1>1
  <2>3. ASSUME NEW j \in Queued
        PROVE  jobs'[j].cbs = jobs[j].cbs
    <3>1. j \in JobIds /\ ses[jobs[j].s].job # j
      BY <2>3 DEF IInv, JobsInv
    <3>2. j # manager.job
      BY <1>2, <1>3, <3>1 DEF Serves
    <3>. QED BY <1>4, <3>1, <3>2
  <2>4. manager'.pc # "lock" /\ manager.pc \in ServePcs
    BY <1>1, <1>5 DEF ServePcs
  <2>. QED BY <1>1, <1>3, <1>4, <1>5, <2>1, <2>2, <2>3, <2>4, JobsKept DEF IInv
<1>12. ASSUME NEW t \in Sessions, t # s
       PROVE  LifeInv(t)' /\ HealthyInv(t)'
  <2>1. manager.job \notin JobsOf(t)
    BY <1>3, <1>12, OwnJob DEF IInv
  <2>2. \A j \in JobsOf(t) : jobs'[j] = jobs[j]
    BY <1>4, <2>1 DEF JobsOf
  <2>3. Untouched(t)
    BY <1>1, <1>3, <1>7, <1>12, <2>2 DEF Untouched
  <2>. QED BY <1>6, <2>3, LifeUntouched, HealthyUntouched DEF IInv
<1>13. LifeInv(s)'
  <2>1. LifeInv(s)
    BY DEF IInv
  <2>2. ActiveInv(s)'
    BY <1>1, <2>1 DEF LifeInv, ActiveInv
  <2>3. GoneInv(s)'
    <3>1. NoJobs(s) => NoJobs(s)'
      BY <1>1, <1>7 DEF NoJobs
    <3>2. \A j \in JobsOf(s) : jobs'[j].over = jobs[j].over
      BY <1>4 DEF JobsOf
    <3>. QED BY <1>1, <1>7, <2>1, <3>1, <3>2 DEF LifeInv, GoneInv, Destroyed
  <2>4. LeftInv(s)'
    BY <1>1, <1>7, <2>1 DEF LifeInv, LeftInv
  <2>. QED BY <2>2, <2>3, <2>4 DEF LifeInv
<1>14. HealthyInv(s)'
  <2>. SUFFICES ASSUME Healthy(s)'
                PROVE  HealthyInv(s)'
    BY DEF HealthyInv
  <2>1. Healthy(s) /\ HealthyInv(s)
    BY <1>1 DEF Healthy, IInv
  <2>2. /\ ~omx[s].busy /\ omx[s].at \notin {"filled", "remove", "giveback"}
        /\ hal[s].pc \notin AbortPcs /\ Quiet(s) /\ move.s = NULL
    <3>1. move.s = NULL
      BY <1>1, NoneMoves DEF ServePcs
    <3>2. ~MoveAsked(s)
      BY <3>1, JpegConstants DEF MoveAsked
    <3>. QED BY <1>1, <1>2, <2>1, <3>1, <3>2, Still DEF ServePcs
  <2>3. Quiet(s)'
    BY <1>1, <2>2 DEF Quiet
  <2>4. AskedInv(s)'
    BY <1>1, <2>1, <2>3 DEF HealthyInv, AskedInv
  <2>5. MovingInv(s)'
    BY <1>1, <2>2, JpegConstants DEF MovingInv
  <2>6. EncodingInv(s)' /\ ReturnInv(s)'
    BY <1>1, <2>2 DEF EncodingInv, ReturnInv
  <2>7. HandleInv(s)'
    BY <1>1, <1>7, <2>1 DEF HealthyInv, HandleInv
  <2>8. ServedInv(s)'
    BY <1>1, <1>2, <1>5, <2>1 DEF HealthyInv, ServedInv
  <2>9. AbortingInv(s)'
    BY <1>1, <2>2 DEF AbortingInv, AbortPcs
  <2>10. OnceInv(s)'
    <3>1. ASSUME NEW j \in JobsOf(s)', ~jobs'[j].over
          PROVE  jobs'[j].cbs <= 1
      <4>1. j \in JobIds /\ ~jobs[j].over /\ j \in JobsOf(s)
        BY <1>4, <1>7, <3>1 DEF JobsOf
      <4>2. CASE j = manager.job
        <5>1. jobs[j].cbs = 0
          BY <1>1, <1>2, <2>1, <4>2 DEF HealthyInv, ServedInv
        <5>2. jobs'[j].cbs = jobs[j].cbs + 1
          BY <1>4, <4>1, <4>2
        <5>. QED BY <5>1, <5>2
      <4>3. CASE j # manager.job
        BY <1>4, <2>1, <4>1, <4>3 DEF HealthyInv, OnceInv
      <4>. QED BY <4>2, <4>3
    <3>. QED BY <3>1 DEF OnceInv
  <2>. QED BY <2>4, <2>5, <2>6, <2>7, <2>8, <2>9, <2>10 DEF HealthyInv
<1>15. WakeInv'
  <2>1. NoLostWakeup'
    BY <1>5 DEF NoLostWakeup
  <2>2. ASSUME NEW t \in Sessions, hal'[t].pc = "open"
        PROVE  ses'[t].avail > 0 \/ ses'[t].job \in ongoing'
                 \/ omx'[t].at \in {"remove", "giveback"}
    BY <1>1, <2>2 DEF IInv, WakeInv
  <2>3. manager'.job \notin ongoing' => sem' > 0 \/ Returning'
    BY <1>1, <1>5 DEF IInv, WakeInv, ServePcs, Returning
  <2>. QED BY <2>1, <2>2, <2>3 DEF WakeInv
<1>. QED BY <1>6, <1>8, <1>9, <1>10, <1>11, <1>12, <1>13, <1>14, <1>15 DEF IInv

-----------------------------------------------------------------------------
(* The job manager looks for work: mm_jpeg_jobmgr_thread *)

\* The manager waits for a token or looks for work; it does not hold job_lock.
LEMMA SleepStep ==
    ASSUME IInv, manager.pc \notin ServePcs, manager'.pc \notin ServePcs,
           UNCHANGED <<jobs, todo, ongoing, intf, jobLock, ses, inprogress, omx, move, hal>>,
           manager'.pc = "lock" => ongoing = {},
           TypeInv', NoLostWakeup'
    PROVE  IInv'
<1>1. /\ Queued' = Queued /\ JobIds' = JobIds
      /\ \A t \in Sessions : JobsOf(t)' = JobsOf(t) /\ ~Serves(t) /\ ~Serves(t)'
  BY DEF Queued, JobIds, JobsOf, Serves
<1>2. LocksInv'
  BY DEF IInv, LocksInv
<1>3. MoveInv'
  <2>1. move.s = NULL => move.at \in {"off", "ok"}
    BY DEF IInv, MoveInv
  <2>2. move.s # NULL => move.at # "off" /\ hal[move.s].pc \in CreatePcs \cup FreePcs
    BY DEF IInv, MoveInv, ServePcs
  <2>. QED BY <2>1, <2>2 DEF MoveInv
<1>4. ConfigInv'
  BY DEF IInv, ConfigInv, OneConfigured, ServePcs
<1>5. JobsInv'
  <2>1. ongoing \subseteq JobIds /\ \A j \in JobIds : jobs[j].s \in Sessions
    BY JobFacts DEF IInv
  <2>. QED BY <1>1, <2>1, JobsKept DEF IInv
<1>6. ASSUME NEW t \in Sessions
      PROVE  LifeInv(t)' /\ HealthyInv(t)'
  <2>1. Untouched(t)
    BY <1>1, <1>6 DEF Untouched
  <2>. QED BY <1>6, <2>1, LifeUntouched, HealthyUntouched DEF IInv
<1>7. WakeInv'
  <2>1. \A t \in Sessions : hal'[t].pc = "open" =>
          ses'[t].avail > 0 \/ ses'[t].job \in ongoing' \/ omx'[t].at \in {"remove", "giveback"}
    BY DEF IInv, WakeInv
  <2>. QED BY <2>1 DEF WakeInv
<1>. QED BY <1>2, <1>3, <1>4, <1>5, <1>6, <1>7 DEF IInv

\* mm_jpeg_jobmgr_thread takes a token from job_sem.
LEMMA MgrWaitInv ==
    ASSUME IInv, MgrWait
    PROVE  IInv'
<1>1. /\ manager.pc = "wait" /\ sem > 0 /\ sem' = sem - 1 /\ Go("check")
      /\ UNCHANGED <<jobs, todo, ongoing, intf, jobLock, ses, inprogress, omx, move, hal,
                     faults>>
  BY DEF MgrWait, locks
<1>2. manager' \in ManagerRec /\ manager'.pc = "check" /\ manager'.job = manager.job
  BY <1>1, GoEffect DEF IInv
<1>3. sem' \in Nat
  BY <1>1 DEF IInv, TypeInv
<1>4. TypeInv'
  <2>1. manager'.job <= Len(jobs)
    BY <1>2 DEF IInv, TypeInv
  <2>. QED BY <1>1, <1>2, <1>3, <2>1 DEF IInv, TypeInv, JobIds
<1>5. NoLostWakeup'
  BY <1>2 DEF NoLostWakeup
<1>. QED BY <1>1, <1>2, <1>4, <1>5, SleepStep DEF ServePcs

\* It looks whether the limit of jobs under way is reached and whether there is a job;
\* when it goes back to sleep there is a job under way that posts in the end.
LEMMA MgrCheckInv ==
    ASSUME IInv, MgrCheck
    PROVE  IInv'
<1>1. /\ manager.pc = "check"
      /\ UNCHANGED <<jobs, todo, ongoing, sem, intf, jobLock, ses, inprogress, omx, move,
                     hal, faults>>
  BY DEF MgrCheck, queues, locks
<1>2. IsFiniteSet(ongoing) /\ Cardinality(ongoing) \in Nat
  <2>1. IsFiniteSet(JobIds)
    BY FS_Interval DEF JobIds, IInv, TypeInv
  <2>2. ongoing \subseteq JobIds
    BY DEF IInv, TypeInv
  <2>. QED BY <2>1, <2>2, FS_Subset, FS_CardinalityType
<1>3. Cardinality(ongoing) = 0 <=> ongoing = {}
  BY <1>2, FS_EmptySet
<1>. DEFINE pc == IF Cardinality(ongoing) >= Limit THEN "wait" ELSE "lock"
<1>4. pc \in {"wait", "lock"} /\ (pc = "lock" <=> ongoing = {})
  BY <1>2, <1>3 DEF Limit
<1>5. Go(pc)
  BY DEF MgrCheck
<1>. HIDE DEF pc
<1>6. manager' \in ManagerRec /\ manager'.pc = pc /\ manager'.job = manager.job
  BY <1>4, <1>5, GoEffect DEF IInv
<1>7. TypeInv'
  <2>1. manager'.job <= Len(jobs)
    BY <1>6 DEF IInv, TypeInv
  <2>. QED BY <1>1, <1>6, <2>1 DEF IInv, TypeInv, JobIds
<1>8. NoLostWakeup'
  BY <1>1, <1>4, <1>6 DEF NoLostWakeup
<1>. QED BY <1>1, <1>4, <1>6, <1>7, <1>8, SleepStep DEF ServePcs

\* The first job of the queue and the others, in their order.
LEMMA HeadTail ==
    ASSUME TypeInv, todo # <<>>
    PROVE  /\ Len(todo) >= 1 /\ Head(todo) = todo[1] /\ Head(todo) \in Queued
           /\ Tail(todo) \in Seq(Nat) /\ Len(Tail(todo)) = Len(todo) - 1
           /\ \A i \in 1..Len(Tail(todo)) : Tail(todo)[i] = todo[i + 1]
<1>1. todo \in Seq(Nat)
  BY DEF TypeInv
<1>2. /\ Len(todo) >= 1 /\ Head(todo) = todo[1]
      /\ Tail(todo) \in Seq(Nat) /\ Len(Tail(todo)) = Len(todo) - 1
      /\ \A i \in 1..Len(Tail(todo)) : Tail(todo)[i] = todo[i + 1]
  BY <1>1
<1>. QED BY <1>1, <1>2 DEF Queued

\* It takes the first job if its session is available, and puts the job into
\* ongoing_job_q and the session's id into it; otherwise the job waits for its session.
LEMMA MgrTakeInv ==
    ASSUME IInv, MgrTake
    PROVE  IInv'
<1>1. /\ manager.pc = "lock" /\ jobLock = NULL
      /\ UNCHANGED <<jobs, sem, intf, inprogress, omx, move, hal, faults>>
  BY DEF MgrTake
<1>2. ongoing = {}
  BY <1>1 DEF IInv, JobsInv
<1>. DEFINE j == Head(todo)
<1>3. CASE ~Available /\ Waits /\ UNCHANGED <<todo, ongoing, jobLock, ses>>
  <2>1. manager' \in ManagerRec /\ manager'.pc = "wait" /\ manager'.job = 0
    BY <1>3 DEF Waits, ManagerRec
  <2>2. TypeInv'
    <3>1. manager'.job <= Len(jobs)
      BY <2>1 DEF IInv, TypeInv
    <3>. QED BY <1>1, <1>3, <2>1, <3>1 DEF IInv, TypeInv, JobIds
  <2>3. todo # <<>> => \E s \in Sessions : omx[s].at \in {"remove", "giveback"} \/ Stopping(s)
    <3>. SUFFICES ASSUME todo # <<>>
                  PROVE  \E s \in Sessions : omx[s].at \in {"remove", "giveback"} \/ Stopping(s)
      OBVIOUS
    <3>1. j \in JobIds /\ ~jobs[j].over
      BY HeadTail DEF IInv, JobsInv
    <3>2. PICK s \in Sessions : s = jobs[j].s
      BY <3>1, JobFacts DEF IInv
    <3>3. ses[s].avail = 0
      BY <1>3, <3>2 DEF Available, IInv, TypeInv, SessionRec
    <3>4. j \in JobsOf(s)
      BY <3>1, <3>2 DEF JobsOf
    <3>5. hal[s].pc \notin IdlePcs
      BY <3>1, <3>4 DEF IInv, LifeInv, GoneInv
    <3>6. CASE hal[s].pc = "open"
      BY <1>2, <3>3, <3>6 DEF IInv, WakeInv
    <3>7. CASE hal[s].pc # "open"
      BY <3>5, <3>7 DEF Stopping, IdlePcs, CreatePcs
    <3>. QED BY <3>6, <3>7
  <2>4. NoLostWakeup'
    BY <1>1, <1>3, <2>3 DEF NoLostWakeup, Stopping
  <2>. QED BY <1>1, <1>3, <2>1, <2>2, <2>4, SleepStep DEF ServePcs
<1>4. CASE /\ Available
           /\ todo' = Tail(todo) /\ ongoing' = ongoing \cup {j}
           /\ jobLock' = mgr
           /\ ses' = [ses EXCEPT ![jobs[j].s].avail = @ - 1, ![jobs[j].s].job = j]
           /\ manager' = [pc |-> "encode", job |-> j]
  <2>1. /\ Len(todo) >= 1 /\ j = todo[1] /\ j \in Queued
        /\ Tail(todo) \in Seq(Nat) /\ Len(Tail(todo)) = Len(todo) - 1
        /\ \A i \in 1..Len(Tail(todo)) : Tail(todo)[i] = todo[i + 1]
    BY <1>4, HeadTail DEF IInv, Available
  <2>2. /\ j \in JobIds /\ j \notin ongoing /\ j # 0 /\ j \in Nat /\ j <= Len(jobs)
        /\ jobs[j].cbs = 0 /\ ~jobs[j].over
    BY <2>1 DEF IInv, JobsInv, JobIds, TypeInv
  <2>3. PICK s \in Sessions : s = jobs[j].s
    BY <2>2, JobFacts DEF IInv
  <2>4. j \in JobsOf(s)
    BY <2>2, <2>3 DEF JobsOf
  <2>5. /\ todo' = Tail(todo) /\ ongoing' = {j} /\ jobLock' = mgr
        /\ manager'.pc = "encode" /\ manager'.job = j /\ manager' \in ManagerRec
        /\ ses' = [ses EXCEPT ![s].avail = @ - 1, ![s].job = j]
        /\ ses[s].avail > 0
    BY <1>2, <1>4, <2>2, <2>3 DEF ManagerRec, ServePcs, Available
  <2>. HIDE DEF j
  <2>6. /\ ses' \in [Sessions -> SessionRec]
        /\ \A t \in Sessions : t # s => ses'[t] = ses[t]
        /\ ses'[s].active = ses[s].active /\ ses'[s].lock = ses[s].lock
        /\ ses'[s].abort = ses[s].abort /\ ses'[s].config = ses[s].config
        /\ ses'[s].job = j /\ ses'[s].err = ses[s].err
        /\ ses'[s].pending = ses[s].pending /\ ses'[s].encoding = ses[s].encoding
        /\ ses'[s].avail = ses[s].avail - 1
    <3>1. ses \in [Sessions -> SessionRec] /\ ses[s].avail \in Nat /\ ses[s].avail - 1 \in Nat
      BY <2>5 DEF IInv, TypeInv, SessionRec
    <3>2. ses' = [ses EXCEPT ![s].avail = @ - 1, ![s].job = j] /\ j \in Nat
      BY <2>2, <2>5
    <3>3. ses' \in [Sessions -> SessionRec]
      <4>1. [ses[s] EXCEPT !.avail = @ - 1, !.job = j] \in SessionRec
        BY <3>1, <3>2, Zenon DEF SessionRec
      <4>2. /\ ses'[s] = [ses[s] EXCEPT !.avail = @ - 1, !.job = j]
            /\ \A t \in Sessions : t # s => ses'[t] = ses[t]
            /\ ses' = [t \in Sessions |-> ses'[t]]
        BY <3>1, <3>2, Zenon
      <4>. QED BY <3>1, <4>1, <4>2
    <3>4. \A t \in Sessions : t # s => ses'[t] = ses[t]
      BY <3>1, <3>2
    <3>5. ses'[s].avail = ses[s].avail - 1 /\ ses'[s].job = j
      BY <3>1, <3>2 DEF SessionRec
    <3>6. /\ ses'[s].active = ses[s].active /\ ses'[s].lock = ses[s].lock
          /\ ses'[s].abort = ses[s].abort /\ ses'[s].config = ses[s].config
          /\ ses'[s].err = ses[s].err /\ ses'[s].pending = ses[s].pending
          /\ ses'[s].encoding = ses[s].encoding
      BY <3>1, <3>2 DEF SessionRec
    <3>. QED BY <3>3, <3>4, <3>5, <3>6
  <2>7. /\ JobIds' = JobIds
        /\ \A t \in Sessions : JobsOf(t)' = JobsOf(t)
        /\ \A t \in Sessions : ~Serves(t) /\ (Serves(t)' <=> t = s)
    BY <1>1, <2>3, <2>5 DEF JobIds, JobsOf, Serves, ServePcs
  <2>8. /\ \A i \in 1..Len(todo') : i + 1 \in 1..Len(todo) /\ todo'[i] = todo[i + 1]
        /\ Queued' \subseteq Queued \ {j}
    <3>1. \A i \in 1..Len(todo') : i + 1 \in 1..Len(todo) /\ todo'[i] = todo[i + 1]
      BY <2>1, <2>5 DEF IInv, TypeInv
    <3>2. \A i \in 1..Len(todo') : todo'[i] # j /\ todo'[i] \in Queued
      <4>. SUFFICES ASSUME NEW i \in 1..Len(todo')
                    PROVE  todo'[i] # j /\ todo'[i] \in Queued
        OBVIOUS
      <4>1. i + 1 \in 1..Len(todo) /\ i + 1 # 1 /\ 1 \in 1..Len(todo)
        BY <2>1, <3>1 DEF IInv, TypeInv
      <4>2. todo[i + 1] # todo[1]
        BY <4>1 DEF IInv, JobsInv
      <4>. QED BY <2>1, <3>1, <4>1, <4>2 DEF Queued
    <3>. QED BY <3>1, <3>2 DEF Queued
  <2>9. TypeInv'
    BY <1>1, <2>1, <2>2, <2>5, <2>6, <2>7 DEF IInv, TypeInv, Threads
  <2>10. LocksInv'
    <3>1. \A t \in Sessions : jobLock' # t /\ hal'[t].pc \notin LockPcs
      BY <1>1, <2>5, JpegConstants DEF IInv, LocksInv
    <3>2. jobLock' = mgr <=> manager'.pc \in ServePcs
      BY <2>5 DEF ServePcs
    <3>. QED BY <1>1, <3>1, <3>2 DEF IInv, LocksInv
  <2>11. move.s = NULL
    <3>1. \A t \in Sessions : hal[t].pc \notin CreatePcs \cup FreePcs
      BY <1>1, JpegConstants DEF IInv, LocksInv, LockPcs
    <3>. QED BY <1>1, <3>1 DEF IInv, MoveInv, TypeInv, MoveRec
  <2>12. MoveInv'
    BY <1>1, <2>11 DEF IInv, MoveInv
  <2>13. ConfigInv'
    <3>1. \A t \in Sessions : ses'[t].config = ses[t].config
      BY <2>6
    <3>. QED BY <1>1, <2>5, <3>1 DEF IInv, ConfigInv, OneConfigured
  <2>14. JobsInv'
    <3>1. \A i, k \in 1..Len(todo') : todo'[i] = todo'[k] => i = k
      <4>. SUFFICES ASSUME NEW i \in 1..Len(todo'), NEW k \in 1..Len(todo'), todo'[i] = todo'[k]
                    PROVE  i = k
        OBVIOUS
      <4>1. i + 1 \in 1..Len(todo) /\ k + 1 \in 1..Len(todo) /\ todo[i + 1] = todo[k + 1]
        BY <2>8
      <4>2. i + 1 = k + 1
        BY <4>1 DEF IInv, JobsInv
      <4>. QED BY <4>2
    <3>2. ASSUME NEW k \in Queued'
          PROVE  /\ k \in JobIds' /\ k \notin ongoing'
                 /\ jobs'[k].cbs = 0 /\ ~jobs'[k].over /\ ses'[jobs'[k].s].job # k
      <4>1. k \in Queued /\ k # j
        BY <2>8, <3>2
      <4>2. /\ k \in JobIds /\ jobs[k].cbs = 0 /\ ~jobs[k].over /\ ses[jobs[k].s].job # k
            /\ jobs[k].s \in Sessions
        BY <4>1, JobFacts DEF IInv, JobsInv
      <4>. QED BY <1>1, <2>5, <2>6, <2>7, <4>1, <4>2
    <3>3. ASSUME NEW k \in ongoing'
          PROVE  ~jobs'[k].over /\ ses'[jobs'[k].s].job = k
      BY <1>1, <2>2, <2>3, <2>5, <2>6, <3>3
    <3>4. \A t \in Sessions : ses'[t].job # 0 => ses'[t].job \in JobsOf(t)'
      BY <2>4, <2>6, <2>7 DEF IInv, JobsInv
    <3>5. manager'.job # 0 /\ ongoing' \subseteq {manager'.job} /\ ses'[Serving'].job = manager'.job
      BY <1>1, <2>2, <2>3, <2>5, <2>6 DEF Serving, Job
    <3>. QED BY <2>5, <3>1, <3>2, <3>3, <3>4, <3>5 DEF JobsInv
  <2>15. ASSUME NEW t \in Sessions, t # s
         PROVE  LifeInv(t)' /\ HealthyInv(t)'
    <3>1. j \notin JobsOf(t)
      BY <2>3, <2>15 DEF JobsOf
    <3>2. Untouched(t)
      BY <1>1, <1>2, <2>5, <2>6, <2>7, <2>8, <2>15, <3>1 DEF Untouched
    <3>. QED BY <2>9, <2>15, <3>2, LifeUntouched, HealthyUntouched DEF IInv
  <2>16. LifeInv(s)'
    <3>1. LifeInv(s)
      BY DEF IInv
    <3>2. ~Destroyed(s)
      BY <2>1, <2>4, <3>1 DEF LifeInv, GoneInv, NoJobs
    <3>3. ActiveInv(s)'
      <4>1. hal[s].pc \notin CreatePcs
        BY <3>2 DEF Destroyed, GonePcs, IdlePcs
      <4>. QED BY <1>1, <2>6, <3>1, <4>1 DEF LifeInv, ActiveInv
    <3>4. GoneInv(s)'
      <4>1. ~Destroyed(s)'
        BY <1>1, <3>2 DEF Destroyed
      <4>. QED BY <1>1, <2>7, <3>1, <4>1 DEF LifeInv, GoneInv
    <3>5. LeftInv(s)'
      <4>1. hal[s].pc \notin AbortPcs
        BY <1>1, JpegConstants DEF IInv, LocksInv, LockPcs
      <4>. QED BY <1>1, <2>7, <3>1, <4>1 DEF LifeInv, LeftInv
    <3>. QED BY <3>3, <3>4, <3>5 DEF LifeInv
  <2>17. HealthyInv(s)'
    <3>. SUFFICES ASSUME Healthy(s)'
                  PROVE  HealthyInv(s)'
      BY DEF HealthyInv
    <3>1. Healthy(s) /\ HealthyInv(s)
      BY <1>1, <2>6 DEF Healthy, IInv
    <3>2. ses[s].avail = 1 /\ ~ses[s].encoding /\ ses[s].avail \in Nat
      BY <2>5, <3>1 DEF HealthyInv, HandleInv, IInv, TypeInv, SessionRec
    <3>3. ~omx[s].busy /\ omx[s].at \notin {"filled", "remove", "giveback"}
      BY <3>1, <3>2 DEF HealthyInv, EncodingInv, ReturnInv
    <3>4. AskedInv(s)' /\ MovingInv(s)' /\ AbortingInv(s)'
      BY <1>1, <2>6, <3>1 DEF HealthyInv, AskedInv, MovingInv, AbortingInv, AbortAsked,
         MoveAsked, Quiet
    <3>5. EncodingInv(s)' /\ ReturnInv(s)'
      BY <1>1, <3>3 DEF EncodingInv, ReturnInv
    <3>6. HandleInv(s)'
      BY <2>6, <3>2 DEF HandleInv
    <3>7. ServedInv(s)'
      <4>1. jobs'[manager'.job].cbs = 0 /\ manager'.job \in ongoing' /\ ses'[s].avail = 0
        BY <1>1, <2>2, <2>5, <2>6, <3>2
      <4>. QED BY <2>5, <4>1 DEF ServedInv
    <3>8. OnceInv(s)'
      BY <1>1, <2>7, <3>1 DEF HealthyInv, OnceInv
    <3>. QED BY <3>4, <3>5, <3>6, <3>7, <3>8 DEF HealthyInv
  <2>18. WakeInv'
    <3>1. NoLostWakeup'
      BY <2>5 DEF NoLostWakeup
    <3>2. ASSUME NEW t \in Sessions, hal'[t].pc = "open"
          PROVE  ses'[t].avail > 0 \/ ses'[t].job \in ongoing'
                   \/ omx'[t].at \in {"remove", "giveback"}
      <4>1. CASE t = s
        BY <2>5, <2>6, <4>1
      <4>2. CASE t # s
        BY <1>1, <1>2, <2>6, <3>2, <4>2 DEF IInv, WakeInv
      <4>. QED BY <4>1, <4>2
    <3>3. manager'.job \in ongoing'
      BY <2>5
    <3>. QED BY <3>1, <3>2, <3>3 DEF WakeInv
  <2>. QED BY <2>9, <2>10, <2>12, <2>13, <2>14, <2>15, <2>16, <2>17, <2>18 DEF IInv
<1>. QED BY <1>3, <1>4 DEF MgrTake

-----------------------------------------------------------------------------
(* The calls of the HAL: stop, and mm_jpeg_session_abort *)

\* The HAL thread of s goes on, with the job and the jobs left that it had.
LEMMA GotoEffect ==
    ASSUME TypeInv, NEW s \in Sessions, NEW pc \in HalPcs, Goto(s, pc)
    PROVE  /\ hal' \in [Sessions -> HalRec] /\ \A t \in Sessions : t # s => hal'[t] = hal[t]
           /\ \A t \in Sessions : hal'[t].left \subseteq JobIds
           /\ hal'[s].pc = pc /\ hal'[s].job = hal[s].job /\ hal'[s].left = hal[s].left
<1>1. hal \in [Sessions -> HalRec] /\ hal' = [hal EXCEPT ![s].pc = pc]
  BY DEF TypeInv, Goto
<1>2. \A t \in Sessions : hal[t].left \subseteq JobIds
  BY DEF TypeInv
<1>. QED BY <1>1, <1>2 DEF HalRec

\* Nobody holds job_lock: nobody serves, creates, aborts or destroys.
LEMMA LockFree ==
    ASSUME IInv, jobLock = NULL
    PROVE  /\ manager.pc \notin ServePcs /\ \A t \in Sessions : hal[t].pc \notin LockPcs
           /\ move.s = NULL /\ \A t \in Sessions : ~Serves(t)
<1>1. manager.pc \notin ServePcs /\ \A t \in Sessions : hal[t].pc \notin LockPcs
  BY JpegConstants DEF IInv, LocksInv
<1>2. move.s = NULL
  BY <1>1 DEF IInv, MoveInv, ServePcs, LockPcs, TypeInv, MoveRec
<1>. QED BY <1>1, <1>2 DEF Serves

\* The HAL thread of s holds it: then no other one does, nor the manager.
LEMMA LockHeld ==
    ASSUME IInv, NEW s \in Sessions, hal[s].pc \in LockPcs
    PROVE  /\ jobLock = s /\ manager.pc \notin ServePcs
           /\ \A t \in Sessions : t # s => hal[t].pc \notin LockPcs
           /\ move.s \in {s, NULL} /\ \A t \in Sessions : ~Serves(t)
<1>1. jobLock = s /\ manager.pc \notin ServePcs
  BY JpegConstants DEF IInv, LocksInv
<1>2. \A t \in Sessions : t # s => hal[t].pc \notin LockPcs
  BY <1>1 DEF IInv, LocksInv
<1>3. move.s \in {s, NULL}
  BY <1>1, <1>2 DEF IInv, MoveInv, ServePcs, LockPcs, TypeInv, MoveRec
<1>. QED BY <1>1, <1>2, <1>3 DEF Serves

\* What a step of the HAL thread of s does with the locks.
IntfStep(s) ==
    \/ intf' = intf /\ (hal'[s].pc \in IntfPcs <=> hal[s].pc \in IntfPcs)
    \/ intf = NULL /\ intf' = s /\ hal'[s].pc \in IntfPcs
    \/ intf' = NULL /\ hal[s].pc \in IntfPcs /\ hal'[s].pc \notin IntfPcs
JobLockStep(s) ==
    \/ jobLock' = jobLock /\ (hal'[s].pc \in LockPcs <=> hal[s].pc \in LockPcs)
    \/ jobLock = NULL /\ jobLock' = s /\ hal'[s].pc \in LockPcs
    \/ jobLock' = NULL /\ hal[s].pc \in LockPcs /\ hal'[s].pc \notin LockPcs

\* A HAL thread takes and gives up job_lock and g_intf_lock where its program counter
\* says so.
LEMMA LocksKept ==
    ASSUME IInv, NEW s \in Sessions, manager' = manager,
           \A t \in Sessions : t # s => hal'[t] = hal[t],
           IntfStep(s), JobLockStep(s)
    PROVE  /\ LocksInv' /\ intf' \in Sessions \cup {NULL} /\ jobLock' \in Threads
<1>1. /\ jobLock = mgr <=> manager.pc \in ServePcs
      /\ \A t \in Sessions : (intf = t <=> hal[t].pc \in IntfPcs)
      /\ \A t \in Sessions : (jobLock = t <=> hal[t].pc \in LockPcs)
      /\ intf \in Sessions \cup {NULL} /\ jobLock \in Threads
  BY DEF IInv, LocksInv, TypeInv
<1>2. \A t \in Sessions : t # mgr /\ t # NULL
  BY JpegConstants
<1>3. mgr # NULL
  BY JpegConstants
<1>4. ASSUME NEW t \in Sessions
      PROVE  intf' = t <=> hal'[t].pc \in IntfPcs
  <2>1. CASE t = s
    BY <1>1, <1>2, <2>1 DEF IntfStep
  <2>2. CASE t # s
    BY <1>1, <1>2, <1>4, <2>2 DEF IntfStep
  <2>. QED BY <2>1, <2>2
<1>5. ASSUME NEW t \in Sessions
      PROVE  jobLock' = t <=> hal'[t].pc \in LockPcs
  <2>1. CASE t = s
    BY <1>1, <1>2, <2>1 DEF JobLockStep
  <2>2. CASE t # s
    BY <1>1, <1>2, <1>5, <2>2 DEF JobLockStep
  <2>. QED BY <2>1, <2>2
<1>6. jobLock' = mgr <=> manager'.pc \in ServePcs
  BY <1>1, <1>2, <1>3 DEF JobLockStep
<1>7. intf' \in Sessions \cup {NULL} /\ jobLock' \in Threads
  BY <1>1 DEF IntfStep, JobLockStep, Threads
<1>. QED BY <1>4, <1>5, <1>6, <1>7 DEF LocksInv

\* A step of a call that waits for no state change, before it and after it.
CallStep(s) ==
    /\ ses'[s].active = ses[s].active /\ ses'[s].config = ses[s].config
    /\ ses'[s].lock = ses[s].lock
    /\ ses'[s].avail = ses[s].avail /\ ses'[s].job = ses[s].job
    /\ omx'[s].at = omx[s].at
    /\ hal'[s].pc \notin CreatePcs \cup FreePcs \cup {"open"}
    /\ hal[s].pc \notin CreatePcs \cup FreePcs

\* Such a step leaves the state change and the configuration of the others alone.
LEMMA MoveConfigKept ==
    ASSUME IInv, NEW s \in Sessions, UNCHANGED <<jobs, inprogress, move, manager>>,
           \A t \in Sessions : t # s => ses'[t] = ses[t] /\ hal'[t] = hal[t],
           CallStep(s)
    PROVE  MoveInv' /\ ConfigInv'
<1>1. \A t \in Sessions : /\ hal'[t].pc \in CreatePcs => hal[t].pc \in CreatePcs
                          /\ hal[t].pc \in CreatePcs \cup FreePcs => hal'[t].pc = hal[t].pc
  BY DEF CallStep
<1>2. \A t \in Sessions : (Serves(t)' <=> Serves(t)) /\ ses'[t].config = ses[t].config
  BY DEF Serves, CallStep
<1>3. MoveInv'
  <2>1. move.s # NULL => move.s \in Sessions
    BY DEF IInv, TypeInv, MoveRec
  <2>. QED BY <1>1, <1>2, <2>1 DEF IInv, MoveInv
<1>4. ConfigInv'
  BY <1>1, <1>2 DEF IInv, ConfigInv, OneConfigured
<1>. QED BY <1>3, <1>4

\* A step of the HAL thread of s within a call that leaves the queues alone: only the
\* clauses about s are to be shown.
LEMMA HalStep ==
    ASSUME IInv, NEW s \in Sessions, UNCHANGED <<jobs, todo, ongoing, sem, inprogress, move,
                                                 manager>>,
           \A t \in Sessions : t # s => ses'[t] = ses[t] /\ omx'[t] = omx[t] /\ hal'[t] = hal[t],
           IntfStep(s), JobLockStep(s), CallStep(s),
           Stopping(s) => Stopping(s)', Destroyed(s)' => Destroyed(s),
           hal'[s].pc \in IdlePcs => hal[s].pc \in IdlePcs,
           TypeInv', ActiveInv(s)', LeftInv(s)', HealthyInv(s)'
    PROVE  IInv'
<1>1. LocksInv'
  BY LocksKept
<1>2. MoveInv' /\ ConfigInv'
  BY MoveConfigKept
<1>3. /\ ses'[s].avail = ses[s].avail /\ ses'[s].job = ses[s].job
      /\ omx[s].at \in {"remove", "giveback"} => omx'[s].at \in {"remove", "giveback"}
      /\ hal'[s].pc = "open" => hal[s].pc = "open"
  BY DEF CallStep
<1>4. \A t \in Sessions : t # s =>
        /\ ses'[t] = ses[t] /\ omx'[t] = omx[t] /\ hal'[t] = hal[t]
        /\ move.s = t \/ move'.s = t => move' = move
  OBVIOUS
<1>. QED BY <1>1, <1>2, <1>3, <1>4, LocalStep

\* A session is as healthy as before when its HAL thread goes on outside an abort.
LEMMA HealthyOutside ==
    ASSUME IInv, NEW s \in Sessions, UNCHANGED <<jobs, ongoing, move, manager>>,
           ses'[s] = ses[s], omx'[s] = omx[s],
           hal[s].pc \notin AbortPcs, hal'[s].pc \notin AbortPcs
    PROVE  HealthyInv(s)'
<1>. SUFFICES ASSUME Healthy(s)'
              PROVE  HealthyInv(s)'
  BY DEF HealthyInv
<1>1. Healthy(s) /\ HealthyInv(s)
  BY DEF Healthy, IInv
<1>2. JobsOf(s)' = JobsOf(s) /\ (Serves(s)' <=> Serves(s))
  BY DEF JobsOf, JobIds, Serves
<1>3. /\ Quiet(s)' <=> Quiet(s)
      /\ MoveAsked(s)' <=> MoveAsked(s)
      /\ ~AbortAsked(s)
  BY DEF Quiet, MoveAsked, AbortAsked, AbortPcs
<1>4. AskedInv(s)' /\ MovingInv(s)'
  BY <1>1, <1>3 DEF HealthyInv, AskedInv, MovingInv
<1>5. EncodingInv(s)'
  BY <1>1, <1>2 DEF HealthyInv, EncodingInv, AbortPcs
<1>6. ReturnInv(s)'
  BY <1>1, <1>2 DEF HealthyInv, ReturnInv, AbortPcs
<1>7. HandleInv(s)'
  BY <1>1, <1>2 DEF HealthyInv, HandleInv
<1>8. ServedInv(s)'
  BY <1>1, <1>2 DEF HealthyInv, ServedInv
<1>9. AbortingInv(s)'
  BY DEF AbortingInv, AbortPcs
<1>10. OnceInv(s)'
  BY <1>1, <1>2 DEF HealthyInv, OnceInv
<1>. QED BY <1>4, <1>5, <1>6, <1>7, <1>8, <1>9, <1>10 DEF HealthyInv

\* The post processor begins to stop: it aborts the jobs that it has no answer for.
LEMMA StopInv ==
    ASSUME IInv, NEW s \in Sessions, Stop(s)
    PROVE  IInv'
<1>1. /\ hal[s].pc \in {"open", "unusable"}
      /\ UNCHANGED <<jobs, todo, ongoing, sem, intf, jobLock, ses, inprogress, omx, move,
                     manager, faults>>
  BY DEF Stop, At, queues, locks
<1>2. PICK left \in SUBSET JobsOf(s) : hal' = [hal EXCEPT ![s].pc = "stop", ![s].left = left]
  <2>1. PICK answered \in SUBSET {j \in JobsOf(s) : ~jobs[j].over /\ jobs[j].cbs > 0} :
          hal' = [hal EXCEPT ![s].pc = "stop", ![s].left =
                    answered \cup {j \in JobsOf(s) : ~jobs[j].over /\ jobs[j].cbs = 0}]
    BY DEF Stop
  <2>. DEFINE left == answered \cup {j \in JobsOf(s) : ~jobs[j].over /\ jobs[j].cbs = 0}
  <2>2. left \in SUBSET JobsOf(s)
    OBVIOUS
  <2>. QED BY <2>1, <2>2
<1>3. left \subseteq JobIds /\ left \subseteq Nat
  BY DEF JobsOf, JobIds
<1>4. /\ hal' \in [Sessions -> HalRec] /\ \A t \in Sessions : t # s => hal'[t] = hal[t]
      /\ hal'[s].pc = "stop" /\ hal'[s].job = hal[s].job /\ hal'[s].left = left
      /\ \A t \in Sessions : hal'[t].left \subseteq JobIds
  <2>1. "stop" \in HalPcs /\ hal \in [Sessions -> HalRec]
    BY DEF HalPcs, IInv, TypeInv
  <2>2. \A t \in Sessions : hal[t].left \subseteq JobIds
    BY DEF IInv, TypeInv
  <2>. QED BY <1>2, <1>3, <2>1, <2>2 DEF HalRec
<1>5. TypeInv'
  BY <1>1, <1>4 DEF IInv, TypeInv, JobIds
<1>6. IntfStep(s) /\ JobLockStep(s) /\ CallStep(s)
  BY <1>1, <1>4 DEF IntfStep, JobLockStep, CallStep, IntfPcs, LockPcs, CreatePcs, AbortPcs,
                    FreePcs
<1>7. /\ Stopping(s) => Stopping(s)'
      /\ ~Destroyed(s)' /\ hal'[s].pc \notin IdlePcs
  BY <1>4 DEF Stopping, Destroyed, GonePcs, IdlePcs, CreatePcs, FreePcs, AbortPcs
<1>8. ActiveInv(s)'
  BY <1>1, <1>4 DEF IInv, LifeInv, ActiveInv, FreePcs, CreatePcs
<1>9. LeftInv(s)'
  BY <1>1, <1>4 DEF LeftInv, JobsOf, JobIds, AbortPcs
<1>10. HealthyInv(s)'
  BY <1>1, <1>4, HealthyOutside DEF AbortPcs
<1>. QED BY <1>1, <1>4, <1>5, <1>6, <1>7, <1>8, <1>9, <1>10, HalStep

\* It takes the next of them, or goes on to destroy the session.
LEMMA NextAbortInv ==
    ASSUME IInv, NEW s \in Sessions, NextAbort(s)
    PROVE  IInv'
<1>1. /\ hal[s].pc = "stop" /\ intf = NULL /\ intf' = s
      /\ UNCHANGED <<jobs, todo, ongoing, sem, jobLock, ses, inprogress, omx, move, manager,
                     faults>>
  BY DEF NextAbort, At, queues
<1>2. PICK j \in hal[s].left :
        hal' = [hal EXCEPT ![s].pc = "abort job", ![s].job = j, ![s].left = @ \ {j}]
  BY DEF NextAbort
<1>3. hal[s].left \subseteq JobsOf(s) /\ j \in JobsOf(s) /\ j \in Nat /\ hal[s].left \subseteq Nat
  <2>1. hal[s].left \subseteq JobsOf(s)
    BY DEF IInv, LifeInv, LeftInv
  <2>2. JobsOf(s) \subseteq Nat
    BY DEF JobsOf, JobIds
  <2>. QED BY <2>1, <2>2
<1>4. /\ hal' \in [Sessions -> HalRec] /\ \A t \in Sessions : t # s => hal'[t] = hal[t]
      /\ hal'[s].pc = "abort job" /\ hal'[s].job = j /\ hal'[s].left = hal[s].left \ {j}
      /\ \A t \in Sessions : hal'[t].left \subseteq JobIds
  <2>1. "abort job" \in HalPcs /\ hal \in [Sessions -> HalRec]
    BY DEF HalPcs, IntfPcs, IInv, TypeInv
  <2>2. \A t \in Sessions : hal[t].left \subseteq JobIds
    BY DEF IInv, TypeInv
  <2>. QED BY <1>2, <1>3, <2>1, <2>2 DEF HalRec
<1>5. TypeInv'
  BY <1>1, <1>4 DEF IInv, TypeInv, JobIds
<1>6. IntfStep(s) /\ JobLockStep(s) /\ CallStep(s)
  BY <1>1, <1>4 DEF IntfStep, JobLockStep, CallStep, IntfPcs, LockPcs, CreatePcs, AbortPcs,
                    FreePcs
<1>7. /\ Stopping(s)' /\ ~Destroyed(s)' /\ hal'[s].pc \notin IdlePcs
  BY <1>4 DEF Stopping, Destroyed, GonePcs, IdlePcs, CreatePcs, FreePcs, AbortPcs
<1>8. ActiveInv(s)'
  BY <1>1, <1>4 DEF IInv, LifeInv, ActiveInv, FreePcs, CreatePcs
<1>9. LeftInv(s)'
  BY <1>1, <1>3, <1>4 DEF LeftInv, JobsOf, JobIds, AbortPcs
<1>10. HealthyInv(s)'
  BY <1>1, <1>4, HealthyOutside DEF AbortPcs
<1>. QED BY <1>1, <1>4, <1>5, <1>6, <1>7, <1>8, <1>9, <1>10, HalStep

\* mm_jpeg_destroy_session begins: g_intf_lock is free.
LEMMA DestroyInv ==
    ASSUME IInv, NEW s \in Sessions, Destroy(s)
    PROVE  IInv'
<1>1. /\ hal[s].pc = "stop" /\ intf = NULL /\ intf' = s
      /\ hal' = [hal EXCEPT ![s].pc = "destroy", ![s].job = 0]
      /\ UNCHANGED <<jobs, todo, ongoing, sem, jobLock, ses, inprogress, omx, move, manager,
                     faults>>
  BY DEF Destroy, At, queues
<1>2. /\ hal' \in [Sessions -> HalRec] /\ \A t \in Sessions : t # s => hal'[t] = hal[t]
      /\ hal'[s].pc = "destroy" /\ hal'[s].job = 0 /\ hal'[s].left = hal[s].left
      /\ \A t \in Sessions : hal'[t].left \subseteq JobIds
  <2>1. "destroy" \in HalPcs /\ hal \in [Sessions -> HalRec]
    BY DEF HalPcs, IntfPcs, IInv, TypeInv
  <2>2. \A t \in Sessions : hal[t].left \subseteq JobIds
    BY DEF IInv, TypeInv
  <2>. QED BY <1>1, <2>1, <2>2 DEF HalRec
<1>3. TypeInv'
  BY <1>1, <1>2 DEF IInv, TypeInv, JobIds
<1>4. IntfStep(s) /\ JobLockStep(s) /\ CallStep(s)
  BY <1>1, <1>2 DEF IntfStep, JobLockStep, CallStep, IntfPcs, LockPcs, CreatePcs, AbortPcs,
                    FreePcs
<1>5. /\ Stopping(s)' /\ ~Destroyed(s)' /\ hal'[s].pc \notin IdlePcs
  BY <1>2 DEF Stopping, Destroyed, GonePcs, IdlePcs, CreatePcs, FreePcs, AbortPcs
<1>6. ActiveInv(s)'
  BY <1>1, <1>2 DEF IInv, LifeInv, ActiveInv, FreePcs, CreatePcs
<1>7. LeftInv(s)'
  <2>1. hal[s].left \subseteq JobsOf(s)
    BY DEF IInv, LifeInv, LeftInv
  <2>2. JobsOf(s)' = JobsOf(s)
    BY <1>1 DEF JobsOf, JobIds
  <2>. QED BY <1>2, <2>1, <2>2 DEF LeftInv, AbortPcs
<1>8. HealthyInv(s)'
  BY <1>1, <1>2, HealthyOutside DEF AbortPcs
<1>. QED BY <1>1, <1>2, <1>3, <1>4, <1>5, <1>6, <1>7, <1>8, HalStep

\* While a session is aborted no state change of it is under way.
LEMMA AbortFacts ==
    ASSUME IInv, NEW s \in Sessions, hal[s].pc \in AbortPcs
    PROVE  /\ move.s # s /\ ~Serves(s) /\ ses[s].active
           /\ Healthy(s) => Quiet(s) \/ AbortAsked(s)
<1>1. move.s # s
  BY MoveExcludesAbort
<1>2. ~Serves(s)
  BY LockHeld DEF LockPcs
<1>3. ses[s].active
  BY DEF IInv, LifeInv, ActiveInv, AbortPcs
<1>4. Healthy(s) => Quiet(s) \/ AbortAsked(s)
  BY <1>1 DEF IInv, HealthyInv, AskedInv, MoveAsked
<1>. QED BY <1>1, <1>2, <1>3, <1>4

\* The steps of mm_jpeg_session_abort.
AbortStep(s, pc) ==
    /\ hal[s].pc \in AbortPcs /\ Goto(s, pc)
    /\ UNCHANGED <<jobs, todo, ongoing, sem, intf, jobLock, inprogress, move, manager, faults>>
    /\ \A t \in Sessions : t # s => ses'[t] = ses[t] /\ omx'[t] = omx[t]
    /\ ses'[s].active = ses[s].active /\ ses'[s].config = ses[s].config
    /\ ses'[s].lock = ses[s].lock
    /\ ses'[s].avail = ses[s].avail /\ ses'[s].job = ses[s].job
    /\ ses'[s].err = ses[s].err /\ ses'[s].encoding = ses[s].encoding
    /\ omx'[s].at = omx[s].at /\ omx'[s].busy = omx[s].busy
    /\ omx'[s].state = omx[s].state /\ omx'[s].failed = omx[s].failed
    /\ ses' \in [Sessions -> SessionRec] /\ omx' \in [Sessions -> ComponentRec]

\* They leave the queues and the other sessions alone, and the job too.
LEMMA AbortStepInv ==
    ASSUME IInv, NEW s \in Sessions, NEW pc \in AbortPcs \ {"abort"}, AbortStep(s, pc),
           pc # "abort end" => ses'[s].abort # "none",
           pc = "abort end" => ses'[s].abort = "done",
           HealthyInv(s)'
    PROVE  IInv'
<1>1. pc \in HalPcs
  BY DEF HalPcs, IntfPcs, LockPcs
<1>2. /\ hal' \in [Sessions -> HalRec] /\ \A t \in Sessions : t # s => hal'[t] = hal[t]
      /\ \A t \in Sessions : hal'[t].left \subseteq JobIds
      /\ hal'[s].pc = pc /\ hal'[s].job = hal[s].job /\ hal'[s].left = hal[s].left
  BY <1>1, GotoEffect DEF IInv, AbortStep
<1>3. TypeInv'
  BY <1>2 DEF AbortStep, IInv, TypeInv, JobIds
<1>4. IntfStep(s) /\ JobLockStep(s) /\ CallStep(s)
  BY <1>2 DEF AbortStep, IntfStep, JobLockStep, CallStep, IntfPcs, LockPcs, CreatePcs,
     AbortPcs, FreePcs
<1>5. /\ Stopping(s)' /\ (Destroyed(s)' => Destroyed(s)) /\ hal'[s].pc \notin IdlePcs
  BY <1>2 DEF AbortStep, Stopping, Destroyed, GonePcs, IdlePcs, CreatePcs, FreePcs, AbortPcs
<1>6. ActiveInv(s)'
  <2>1. ActiveInv(s) /\ ses[s].active
    BY AbortFacts DEF IInv, LifeInv, AbortStep
  <2>. QED BY <1>2, <2>1 DEF ActiveInv, AbortStep, AbortPcs, FreePcs, CreatePcs
<1>7. LeftInv(s)'
  <2>1. LeftInv(s) /\ hal[s].pc \in AbortPcs
    BY DEF IInv, LifeInv, AbortStep
  <2>2. JobsOf(s)' = JobsOf(s) /\ Queued' = Queued
    BY DEF JobsOf, JobIds, Queued, AbortStep
  <2>. QED BY <1>2, <2>1, <2>2 DEF LeftInv, AbortPcs, AbortStep
<1>8. UNCHANGED <<jobs, todo, ongoing, sem, inprogress, move, manager>>
  BY DEF AbortStep
<1>9. \A t \in Sessions : t # s => ses'[t] = ses[t] /\ omx'[t] = omx[t] /\ hal'[t] = hal[t]
  BY <1>2 DEF AbortStep
<1>. QED BY <1>3, <1>4, <1>5, <1>6, <1>7, <1>8, <1>9, HalStep

\* A session whose component is healthy stays so in a step of its abort: either the
\* component was told nothing, or it was told to leave Executing and has not reported.
LEMMA AbortStepHealthy ==
    ASSUME IInv, NEW s \in Sessions, NEW pc \in AbortPcs \ {"abort"}, AbortStep(s, pc),
           Healthy(s), Healthy(s)', ses'[s].abort # "none",
           ses'[s].abort = "done" => ~omx[s].busy /\ omx[s].at # "filled",
           omx[s].at \in {"remove", "giveback"} => ses'[s].abort = "none",
           Quiet(s)' \/ AbortAsked(s)', AbortingInv(s)'
    PROVE  HealthyInv(s)'
<1>1. HealthyInv(s) /\ ~Serves(s)
  BY AbortFacts DEF IInv, AbortStep
<1>2. JobsOf(s)' = JobsOf(s) /\ ~Serves(s)'
  BY <1>1 DEF JobsOf, JobIds, Serves, AbortStep
<1>3. AskedInv(s)'
  BY <1>1 DEF HealthyInv, AskedInv, AbortStep
<1>4. MovingInv(s)'
  BY AbortFacts DEF MovingInv, AbortStep
<1>5. EncodingInv(s)'
  BY <1>1, <1>2 DEF HealthyInv, EncodingInv, AbortStep
<1>6. ReturnInv(s)'
  BY DEF ReturnInv, AbortStep
<1>7. HandleInv(s)'
  BY <1>1, <1>2 DEF HealthyInv, HandleInv, AbortStep
<1>8. ServedInv(s)'
  BY <1>2 DEF ServedInv
<1>9. OnceInv(s)'
  BY <1>1, <1>2 DEF HealthyInv, OnceInv, AbortStep
<1>. QED BY <1>3, <1>4, <1>5, <1>6, <1>7, <1>8, <1>9 DEF HealthyInv

\* The end of mm_jpeg_session_abort once the component is out of Executing, or none
\* was asked for.
LEMMA AbortDone ==
    ASSUME IInv, NEW s \in Sessions, hal[s].pc \in {"abort", "abort wait", "aborted"}, ~ses[s].lock,
           UNCHANGED <<jobs, todo, ongoing, sem, intf, jobLock, inprogress, omx, move,
                       manager, faults>>,
           ses' = [ses EXCEPT ![s].abort = "done"], Goto(s, "abort end"),
           Healthy(s) =>
             \/ ses[s].abort = "done"
             \/ ses[s].abort = "none" /\ (hal[s].pc = "abort wait" \/ ~ses[s].encoding)
    PROVE  IInv'
<1>1. ActiveInv(s) /\ HealthyInv(s) /\ ses \in [Sessions -> SessionRec]
      /\ omx \in [Sessions -> ComponentRec] /\ hal[s].pc \in AbortPcs
  BY DEF IInv, LifeInv, TypeInv, AbortPcs
<1>2. omx[s].at \notin {"remove", "giveback"}
  BY <1>1 DEF ActiveInv
<1>3. ~Serves(s) /\ ses[s].active /\ (Healthy(s) => Quiet(s) \/ AbortAsked(s))
  BY <1>1, AbortFacts
<1>4. ses' \in [Sessions -> SessionRec]
  BY <1>1, ZenonT(30) DEF SessionRec
<1>5. /\ \A t \in Sessions : t # s => ses'[t] = ses[t]
      /\ ses'[s].abort = "done" /\ ses'[s].active = ses[s].active
      /\ ses'[s].config = ses[s].config /\ ses'[s].lock = ses[s].lock
      /\ ses'[s].avail = ses[s].avail /\ ses'[s].job = ses[s].job
      /\ ses'[s].err = ses[s].err /\ ses'[s].encoding = ses[s].encoding
  BY <1>1 DEF SessionRec
<1>6. "abort end" \in AbortPcs \ {"abort"}
  BY DEF AbortPcs
<1>7. AbortStep(s, "abort end")
  BY <1>1, <1>4, <1>5 DEF AbortStep
<1>8. hal'[s].pc = "abort end"
  BY <1>6, GotoEffect DEF IInv, HalPcs, IntfPcs, LockPcs
<1>9. HealthyInv(s)'
  <2>. SUFFICES ASSUME Healthy(s)'
                PROVE  HealthyInv(s)'
    BY DEF HealthyInv
  <2>1. Healthy(s)
    BY <1>5 DEF Healthy
  <2>2. ses[s].abort # "none" \/ (hal[s].pc # "abort wait" /\ ~ses[s].encoding)
    BY <1>1, <2>1 DEF ActiveInv
  <2>3. ~omx[s].busy /\ omx[s].at # "filled"
    BY <1>1, <2>1, <2>2 DEF HealthyInv, EncodingInv
  <2>4. Quiet(s)'
    BY <1>3, <2>1 DEF Quiet, AbortAsked
  <2>5. AbortingInv(s)'
    BY <1>8 DEF AbortingInv
  <2>. QED BY <1>2, <1>5, <1>6, <1>7, <2>1, <2>3, <2>4, <2>5, AbortStepHealthy
<1>. QED BY <1>5, <1>6, <1>7, <1>9, AbortStepInv

\* mm_jpeg_session_abort: nothing to do, or the abort begins under the session's lock.
LEMMA AbortInv ==
    ASSUME IInv, NEW s \in Sessions, Abort(s)
    PROVE  IInv'
<1>1. /\ hal[s].pc = "abort" /\ ~ses[s].lock
      /\ UNCHANGED <<jobs, todo, ongoing, sem, intf, jobLock, inprogress, omx, move, manager,
                     faults>>
  BY DEF Abort, At, queues, locks
<1>2. ActiveInv(s) /\ HealthyInv(s) /\ ses \in [Sessions -> SessionRec]
      /\ omx \in [Sessions -> ComponentRec] /\ hal[s].pc \in AbortPcs
  BY <1>1 DEF IInv, LifeInv, TypeInv, AbortPcs
<1>3. omx[s].at \notin {"remove", "giveback"}
  BY <1>1, <1>2 DEF ActiveInv
<1>4. ~Serves(s) /\ ses[s].active /\ (Healthy(s) => Quiet(s) \/ AbortAsked(s))
  BY <1>2, AbortFacts
<1>5. CASE ses[s].abort # "none"
  <2>1. ses' = ses /\ Goto(s, "abort end")
    BY <1>5 DEF Abort
  <2>2. ses[s].abort = "done"
    BY <1>1, <1>2, <1>5 DEF ActiveInv, SessionRec
  <2>3. "abort end" \in AbortPcs \ {"abort"}
    BY DEF AbortPcs
  <2>4. AbortStep(s, "abort end")
    BY <1>1, <1>2, <2>1 DEF AbortStep
  <2>5. HealthyInv(s)'
    <3>. SUFFICES ASSUME Healthy(s)'
                  PROVE  HealthyInv(s)'
      BY DEF HealthyInv
    <3>1. Healthy(s)
      BY <1>1, <2>1 DEF Healthy
    <3>2. ~omx[s].busy /\ omx[s].at # "filled"
      BY <1>2, <2>2, <3>1 DEF HealthyInv, EncodingInv
    <3>3. Quiet(s)'
      BY <1>1, <1>4, <2>2, <3>1 DEF Quiet, AbortAsked
    <3>4. AbortingInv(s)'
      <4>1. hal'[s].pc = "abort end"
        BY <2>1, GotoEffect, <2>3 DEF IInv, HalPcs, IntfPcs, LockPcs
      <4>. QED BY <4>1 DEF AbortingInv
    <3>5. ses'[s].abort = "done"
      BY <2>1, <2>2
    <3>. QED BY <1>3, <2>3, <2>4, <3>1, <3>2, <3>3, <3>4, <3>5, AbortStepHealthy
  <2>6. ses'[s].abort = "done"
    BY <2>1, <2>2
  <2>. QED BY <2>3, <2>4, <2>5, <2>6, AbortStepInv
<1>6. CASE ses[s].abort = "none" /\ ses[s].encoding
  <2>1. ses' = [ses EXCEPT ![s].abort = "init", ![s].pending = TRUE] /\ Goto(s, "abort send")
    BY <1>6 DEF Abort
  <2>2. ses' \in [Sessions -> SessionRec]
    <3>1. ses \in [Sessions -> SessionRec]
      BY <1>2
    <3>2. ses' = [ses EXCEPT ![s].abort = "init", ![s].pending = TRUE]
      BY <2>1
    <3>. QED BY <3>1, <3>2, ZenonT(30) DEF SessionRec
  <2>3. /\ \A t \in Sessions : t # s => ses'[t] = ses[t]
        /\ ses'[s].abort = "init" /\ ses'[s].active = ses[s].active
        /\ ses'[s].config = ses[s].config /\ ses'[s].lock = ses[s].lock
        /\ ses'[s].avail = ses[s].avail /\ ses'[s].job = ses[s].job
        /\ ses'[s].err = ses[s].err /\ ses'[s].encoding = ses[s].encoding
    BY <1>2, <2>1 DEF SessionRec
  <2>4. "abort send" \in AbortPcs \ {"abort"}
    BY DEF AbortPcs
  <2>5. AbortStep(s, "abort send")
    BY <1>1, <1>2, <2>1, <2>2, <2>3 DEF AbortStep
  <2>6. HealthyInv(s)'
    <3>. SUFFICES ASSUME Healthy(s)'
                  PROVE  HealthyInv(s)'
      BY DEF HealthyInv
    <3>1. Healthy(s)
      BY <1>1, <2>3 DEF Healthy
    <3>2. omx[s].busy \/ omx[s].at = "filled"
      BY <1>2, <1>3, <1>4, <1>6, <3>1 DEF HealthyInv, HandleInv
    <3>3. omx[s].state = "Executing" /\ omx[s].at \in {"idle", "filled"}
      BY <1>2, <3>1, <3>2 DEF HealthyInv, EncodingInv
    <3>4. Quiet(s)
      BY <1>1, <1>4, <3>1 DEF AbortAsked
    <3>5. Quiet(s)'
      BY <1>1, <3>4 DEF Quiet
    <3>6. AbortingInv(s)'
      <4>1. hal'[s].pc = "abort send"
        BY <2>1, GotoEffect, <2>4 DEF IInv, HalPcs, IntfPcs, LockPcs
      <4>. QED BY <1>1, <2>3, <3>3, <3>5, <4>1 DEF AbortingInv
    <3>. QED BY <1>3, <2>3, <2>4, <2>5, <3>1, <3>5, <3>6, AbortStepHealthy
  <2>. QED BY <2>3, <2>4, <2>5, <2>6, AbortStepInv
<1>7. CASE ses[s].abort = "none" /\ ~ses[s].encoding
  <2>1. ses' = [ses EXCEPT ![s].abort = "done"] /\ Goto(s, "abort end")
    BY <1>7 DEF Abort
  <2>. QED BY <1>1, <1>7, <2>1, AbortDone
<1>. QED BY <1>5, <1>6, <1>7

\* It tells the component to leave Executing.
LEMMA AbortSendInv ==
    ASSUME IInv, NEW s \in Sessions, AbortSend(s)
    PROVE  IInv'
<1>1. /\ hal[s].pc = "abort send" /\ Goto(s, "abort wait")
      /\ omx' = [omx EXCEPT ![s].cmds = Append(@, "Idle")]
      /\ UNCHANGED <<jobs, todo, ongoing, sem, intf, jobLock, ses, inprogress, move, manager,
                     faults>>
  BY DEF AbortSend, At, queues, locks
<1>2. ActiveInv(s) /\ HealthyInv(s) /\ ses \in [Sessions -> SessionRec]
      /\ omx \in [Sessions -> ComponentRec] /\ hal[s].pc \in AbortPcs
  BY <1>1 DEF IInv, LifeInv, TypeInv, AbortPcs
<1>3. omx[s].cmds \in Seq(States) /\ Append(omx[s].cmds, "Idle") \in Seq(States)
  BY <1>2 DEF ComponentRec, States
<1>4. omx' \in [Sessions -> ComponentRec]
  BY <1>1, <1>2, <1>3 DEF ComponentRec
<1>5. /\ \A t \in Sessions : t # s => omx'[t] = omx[t]
      /\ omx'[s].cmds = Append(omx[s].cmds, "Idle")
      /\ omx'[s].at = omx[s].at /\ omx'[s].busy = omx[s].busy
      /\ omx'[s].state = omx[s].state /\ omx'[s].failed = omx[s].failed
  BY <1>1, <1>2 DEF ComponentRec
<1>6. "abort wait" \in AbortPcs \ {"abort"}
  BY DEF AbortPcs
<1>7. AbortStep(s, "abort wait")
  BY <1>1, <1>2, <1>4, <1>5 DEF AbortStep
<1>8. ses[s].abort # "none"
  BY <1>1, <1>2 DEF ActiveInv
<1>9. hal'[s].pc = "abort wait"
  BY <1>1, <1>6, GotoEffect DEF IInv, HalPcs, IntfPcs, LockPcs
<1>10. HealthyInv(s)'
  <2>. SUFFICES ASSUME Healthy(s)'
                PROVE  HealthyInv(s)'
    BY DEF HealthyInv
  <2>1. Healthy(s)
    BY <1>1, <1>5 DEF Healthy
  <2>2. /\ ses[s].abort = "init" /\ Quiet(s)
        /\ omx[s].at \in {"idle", "filled"} /\ omx[s].state = "Executing"
    BY <1>1, <1>2, <2>1 DEF HealthyInv, AbortingInv
  <2>3. omx'[s].cmds = <<"Idle">>
    BY <1>5, <2>2 DEF Quiet
  <2>4. AbortAsked(s)'
    BY <1>1, <1>5, <1>9, <2>2, <2>3 DEF AbortAsked
  <2>5. AbortingInv(s)'
    BY <1>9 DEF AbortingInv
  <2>6. ses'[s].abort = "init"
    BY <1>1, <2>2
  <2>. QED BY <1>6, <1>7, <2>1, <2>2, <2>4, <2>5, <2>6, AbortStepHealthy
<1>. QED BY <1>1, <1>6, <1>7, <1>8, <1>10, AbortStepInv

\* It waits for the event, unless that came before.
LEMMA AbortWaitInv ==
    ASSUME IInv, NEW s \in Sessions, AbortWait(s)
    PROVE  IInv'
<1>1. /\ hal[s].pc = "abort wait" /\ ~ses[s].lock
      /\ UNCHANGED <<jobs, todo, ongoing, sem, intf, jobLock, inprogress, omx, move, manager,
                     faults>>
  BY DEF AbortWait, At, queues, locks
<1>2. ActiveInv(s) /\ HealthyInv(s) /\ ses \in [Sessions -> SessionRec]
      /\ omx \in [Sessions -> ComponentRec] /\ hal[s].pc \in AbortPcs
  BY <1>1 DEF IInv, LifeInv, TypeInv, AbortPcs
<1>3. omx[s].at \notin {"remove", "giveback"}
  BY <1>1, <1>2 DEF ActiveInv
<1>4. ~Serves(s) /\ ses[s].active /\ (Healthy(s) => Quiet(s) \/ AbortAsked(s))
  BY <1>2, AbortFacts
<1>5. CASE ses[s].abort = "init"
  <2>1. ses' = ses /\ Goto(s, "aborting")
    BY <1>5 DEF AbortWait
  <2>2. "aborting" \in AbortPcs \ {"abort"}
    BY DEF AbortPcs
  <2>3. AbortStep(s, "aborting")
    BY <1>1, <1>2, <2>1 DEF AbortStep
  <2>4. hal'[s].pc = "aborting"
    BY <2>1, <2>2, GotoEffect DEF IInv, HalPcs, IntfPcs, LockPcs
  <2>5. ses'[s].abort = "init"
    BY <1>5, <2>1
  <2>6. HealthyInv(s)'
    <3>. SUFFICES ASSUME Healthy(s)'
                  PROVE  HealthyInv(s)'
      BY DEF HealthyInv
    <3>1. Healthy(s)
      BY <1>1, <2>1 DEF Healthy
    <3>2. Quiet(s)' \/ AbortAsked(s)'
      BY <1>1, <1>4, <2>1, <2>4, <3>1 DEF Quiet, AbortAsked
    <3>3. AbortingInv(s)'
      BY <2>4, <2>5 DEF AbortingInv
    <3>. QED BY <1>3, <2>2, <2>3, <2>5, <3>1, <3>2, <3>3, AbortStepHealthy
  <2>. QED BY <2>2, <2>3, <2>5, <2>6, AbortStepInv
<1>6. CASE ses[s].abort # "init"
  <2>1. ses' = [ses EXCEPT ![s].abort = "done"] /\ Goto(s, "abort end")
    BY <1>6 DEF AbortWait
  <2>2. ses[s].abort = "done"
    BY <1>1, <1>2, <1>6 DEF ActiveInv, SessionRec
  <2>. QED BY <1>1, <2>1, <2>2, AbortDone
<1>. QED BY <1>5, <1>6

\* It is woken by the event.
LEMMA AbortedInv ==
    ASSUME IInv, NEW s \in Sessions, Aborted(s)
    PROVE  IInv'
<1>1. /\ hal[s].pc = "aborted" /\ ~ses[s].lock
      /\ ses' = [ses EXCEPT ![s].abort = "done"] /\ Goto(s, "abort end")
      /\ UNCHANGED <<jobs, todo, ongoing, sem, intf, jobLock, inprogress, omx, move, manager,
                     faults>>
  BY DEF Aborted, At, queues, locks
<1>2. Healthy(s) => ses[s].abort = "done"
  BY <1>1 DEF IInv, HealthyInv, AbortingInv
<1>. QED BY <1>1, <1>2, AbortDone

-----------------------------------------------------------------------------
(* The calls that change states: mm_jpeg_create_session and mm_jpeg_session_destroy *)

\* When the state change is over, or is not one of s, its component has nothing to do.
LEMMA MovedQuiet ==
    ASSUME IInv, NEW s \in Sessions, Healthy(s), Moved \/ move.s # s,
           hal[s].pc \notin {"abort wait", "aborting"}
    PROVE  Quiet(s)
<1>1. AskedInv(s) /\ MovingInv(s)
  BY DEF IInv, HealthyInv
<1>2. CASE move.s = s
  BY <1>1, <1>2 DEF MovingInv, Moved
<1>3. CASE move.s # s
  BY <1>1, <1>3 DEF AskedInv, AbortAsked, MoveAsked
<1>. QED BY <1>2, <1>3

\* A session that is available is in session_handle_q at least once.
LEMMA AvailPositive ==
    ASSUME TypeInv
    PROVE  \A t \in Sessions : ses[t].avail > 0 => ses[t].avail # 0
<1>1. \A t \in Sessions : ses[t].avail \in Nat
  BY DEF TypeInv, SessionRec
<1>. QED BY <1>1

\* A session is as healthy as before when the thread that holds job_lock, to create or
\* to destroy it, goes on to another state change or lets go of the lock.
LEMMA HeldHealthy ==
    ASSUME IInv, NEW s \in Sessions, hal[s].pc \in CreatePcs \cup FreePcs \cup {"abort end"},
           Moved \/ move.s # s, UNCHANGED <<jobs, ongoing, manager>>, omx'[s] = omx[s],
           /\ ses'[s].active = ses[s].active /\ ses'[s].abort = ses[s].abort
           /\ ses'[s].encoding = ses[s].encoding /\ ses'[s].pending = ses[s].pending
           /\ ses'[s].err = ses[s].err /\ ses'[s].avail = ses[s].avail /\ ses'[s].job = ses[s].job,
           hal'[s].pc \notin AbortPcs,
           move'.s # s \/ move'.at = "send" \/ move' = move
    PROVE  HealthyInv(s)'
<1>. SUFFICES ASSUME Healthy(s)'
              PROVE  HealthyInv(s)'
  BY DEF HealthyInv
<1>1. Healthy(s) /\ HealthyInv(s) /\ ActiveInv(s) /\ hal[s].pc \notin AbortPcs \ {"abort end"}
  BY DEF Healthy, IInv, LifeInv, CreatePcs, FreePcs, AbortPcs
<1>2. JobsOf(s)' = JobsOf(s) /\ (Serves(s)' <=> Serves(s))
  BY DEF JobsOf, JobIds, Serves
<1>3. Quiet(s)
  BY <1>1, MovedQuiet DEF AbortPcs
<1>4. Quiet(s)'
  BY <1>3 DEF Quiet
<1>5. ses[s].avail > 0 \/ ses[s].abort = "done"
  BY <1>1 DEF ActiveInv
<1>6. ses[s].avail > 0 => ses[s].avail # 0
  BY AvailPositive DEF IInv
<1>7. ~omx[s].busy /\ omx[s].at \notin {"filled", "remove"}
  BY <1>1, <1>5, <1>6 DEF HealthyInv, EncodingInv, ReturnInv
<1>8. AskedInv(s)'
  BY <1>1, <1>4 DEF HealthyInv, AskedInv
<1>9. MovingInv(s)'
  <2>1. CASE move'.s # s
    BY <2>1 DEF MovingInv
  <2>2. CASE move'.at = "send"
    BY <1>4, <1>7, <2>2 DEF MovingInv
  <2>3. CASE move' = move
    <3>1. MoveAsked(s)' <=> MoveAsked(s)
      BY <2>3 DEF MoveAsked
    <3>2. Quiet(s)' <=> Quiet(s)
      BY <1>3, <1>4
    <3>. QED BY <1>1, <2>3, <3>1, <3>2 DEF HealthyInv, MovingInv
  <2>. QED BY <2>1, <2>2, <2>3
<1>10. EncodingInv(s)'
  BY <1>7 DEF EncodingInv
<1>11. ReturnInv(s)'
  BY <1>1, <1>2, <1>7 DEF HealthyInv, ReturnInv
<1>12. HandleInv(s)'
  BY <1>1, <1>2 DEF HealthyInv, HandleInv
<1>13. ServedInv(s)'
  BY <1>1, <1>2 DEF HealthyInv, ServedInv
<1>14. AbortingInv(s)'
  BY DEF AbortingInv, AbortPcs
<1>15. OnceInv(s)'
  BY <1>1, <1>2 DEF HealthyInv, OnceInv
<1>. QED BY <1>8, <1>9, <1>10, <1>11, <1>12, <1>13, <1>14, <1>15 DEF HealthyInv

\* A step of the HAL thread that holds job_lock and waits for a state change.
LEMMA HeldStep ==
    ASSUME IInv, NEW s \in Sessions, hal[s].pc \in LockPcs,
           UNCHANGED <<jobs, todo, ongoing, sem, manager>>,
           \A t \in Sessions : t # s => ses'[t] = ses[t] /\ omx'[t] = omx[t] /\ hal'[t] = hal[t],
           IntfStep(s), JobLockStep(s), move'.s \in {s, NULL},
           ses'[s].avail = ses[s].avail /\ ses'[s].job = ses[s].job,
           omx[s].at \in {"remove", "giveback"} => omx'[s].at \in {"remove", "giveback"},
           hal'[s].pc = "open" => ses[s].avail > 0,
           Stopping(s) => Stopping(s)', Destroyed(s)' => Destroyed(s),
           hal'[s].pc \in IdlePcs => hal[s].pc \in IdlePcs,
           hal'[s].left = hal[s].left,
           hal'[s].pc \notin AbortPcs \cup {"abort job", "destroy"},
           TypeInv', MoveInv', ConfigInv', ActiveInv(s)', HealthyInv(s)'
    PROVE  IInv'
<1>1. LocksInv'
  BY LocksKept
<1>2. \A t \in Sessions : t # s => move.s # t /\ move'.s # t
  <2>1. move.s \in {s, NULL} /\ move'.s \in {s, NULL}
    BY LockHeld
  <2>2. \A t \in Sessions : t # NULL
    BY JpegConstants
  <2>. QED BY <2>1, <2>2
<1>3. LeftInv(s)'
  <2>1. LeftInv(s)
    BY DEF IInv, LifeInv
  <2>2. JobsOf(s)' = JobsOf(s)
    BY DEF JobsOf, JobIds
  <2>. QED BY <2>1, <2>2 DEF LeftInv
<1>4. \A t \in Sessions : t # s =>
        /\ ses'[t] = ses[t] /\ omx'[t] = omx[t] /\ hal'[t] = hal[t]
        /\ move.s = t \/ move'.s = t => move' = move
  BY <1>2
<1>. QED BY <1>1, <1>3, <1>4, LocalStep

\* mm_jpeg_create_session: the component is Idle and is told to go to Executing, ...
LEMMA CreateExecuteInv ==
    ASSUME IInv, NEW s \in Sessions, CreateExecute(s)
    PROVE  IInv'
<1>1. /\ hal[s].pc = "create execute" /\ Moved
      /\ UNCHANGED <<jobs, todo, ongoing, sem, ses, inprogress, omx, manager, faults>>
  BY DEF CreateExecute, At, queues
<1>2. PICK pc \in {"created", "unusable"} :
        /\ Goto(s, pc)
        /\ pc = "created" => move' = Move(s, "Executing", "none") /\ UNCHANGED <<intf, jobLock>>
        /\ pc = "unusable" => move' = NoMove /\ intf' = NULL /\ jobLock' = NULL
  BY DEF CreateExecute, Moving
<1>3. pc \in HalPcs
  BY DEF HalPcs, IntfPcs, LockPcs, CreatePcs
<1>4. /\ hal' \in [Sessions -> HalRec] /\ \A t \in Sessions : t # s => hal'[t] = hal[t]
      /\ \A t \in Sessions : hal'[t].left \subseteq JobIds
      /\ hal'[s].pc = pc /\ hal'[s].job = hal[s].job /\ hal'[s].left = hal[s].left
  BY <1>2, <1>3, GotoEffect DEF IInv
<1>5. /\ move' \in MoveRec /\ move'.s \in {s, NULL}
      /\ move'.s = s => move'.at = "send" /\ pc = "created"
      /\ move'.s = NULL => move'.at = "off"
  BY <1>2, NewMove, NoMoveFacts, JpegConstants DEF States
<1>6. hal[s].pc \in LockPcs
  BY <1>1 DEF LockPcs, CreatePcs
<1>7. IntfStep(s) /\ JobLockStep(s)
  BY <1>1, <1>2, <1>4 DEF IntfStep, JobLockStep, IntfPcs, LockPcs, CreatePcs, AbortPcs, FreePcs
<1>8. TypeInv'
  <2>1. intf' \in Sessions \cup {NULL} /\ jobLock' \in Threads
    BY <1>1, <1>4, <1>7, LocksKept
  <2>. QED BY <1>1, <1>4, <1>5, <2>1 DEF IInv, TypeInv, JobIds
<1>9. MoveInv'
  BY <1>4, <1>5 DEF MoveInv, CreatePcs
<1>10. ConfigInv'
  <2>1. \A t \in Sessions : hal'[t].pc \in CreatePcs => hal[t].pc \in CreatePcs
    BY <1>1, <1>4 DEF CreatePcs
  <2>. QED BY <1>1, <2>1 DEF IInv, ConfigInv, OneConfigured
<1>11. ActiveInv(s)'
  <2>1. ActiveInv(s)
    BY DEF IInv, LifeInv
  <2>. QED BY <1>1, <1>4, <2>1 DEF ActiveInv, FreePcs, CreatePcs
<1>12. hal'[s].pc \notin AbortPcs \cup {"abort job", "destroy"}
  BY <1>4 DEF AbortPcs
<1>13. HealthyInv(s)'
  <2>1. hal[s].pc \in CreatePcs \cup FreePcs \cup {"abort end"}
    BY <1>1 DEF CreatePcs
  <2>. QED BY <1>1, <1>5, <1>12, <2>1, HeldHealthy
<1>14. /\ ~Stopping(s) /\ ~(hal'[s].pc = "open") /\ hal[s].pc \in IdlePcs /\ Destroyed(s)
  BY <1>1, <1>4 DEF Stopping, IdlePcs, CreatePcs, Destroyed, GonePcs
<1>. QED BY <1>1, <1>4, <1>5, <1>6, <1>7, <1>8, <1>9, <1>10, <1>11, <1>12, <1>13, <1>14,
            HeldStep

\* ... then the session is configured and in progress; or the call has failed.
LEMMA CreatedInv ==
    ASSUME IInv, NEW s \in Sessions, Created(s)
    PROVE  IInv'
<1>1. /\ hal[s].pc = "created" /\ Moved /\ move' = NoMove /\ intf' = NULL /\ jobLock' = NULL
      /\ UNCHANGED <<jobs, todo, ongoing, sem, omx, manager, faults>>
  BY DEF Created, At, queues
<1>2. PICK pc \in {"open", "unusable"} :
        /\ Goto(s, pc)
        /\ pc = "open" => ses' = [ses EXCEPT ![s].config = TRUE] /\ inprogress' = s
        /\ pc = "unusable" => UNCHANGED <<ses, inprogress>>
  BY DEF Created
<1>3. pc \in HalPcs
  BY DEF HalPcs
<1>4. /\ hal' \in [Sessions -> HalRec] /\ \A t \in Sessions : t # s => hal'[t] = hal[t]
      /\ \A t \in Sessions : hal'[t].left \subseteq JobIds
      /\ hal'[s].pc = pc /\ hal'[s].job = hal[s].job /\ hal'[s].left = hal[s].left
  BY <1>2, <1>3, GotoEffect DEF IInv
<1>5. move' \in MoveRec /\ move'.s = NULL /\ move'.at = "off"
  BY <1>1, NoMoveFacts
<1>6. /\ ses' \in [Sessions -> SessionRec]
      /\ \A t \in Sessions : t # s => ses'[t] = ses[t]
      /\ ses'[s].active = ses[s].active /\ ses'[s].abort = ses[s].abort
      /\ ses'[s].encoding = ses[s].encoding /\ ses'[s].pending = ses[s].pending
      /\ ses'[s].err = ses[s].err /\ ses'[s].avail = ses[s].avail /\ ses'[s].job = ses[s].job
      /\ ses'[s].lock = ses[s].lock
      /\ ses'[s].config = IF pc = "open" THEN TRUE ELSE ses[s].config
  <2>1. ses \in [Sessions -> SessionRec]
    BY DEF IInv, TypeInv
  <2>2. CASE pc = "open"
    <3>1. ses' = [ses EXCEPT ![s].config = TRUE]
      BY <1>2, <2>2
    <3>. QED BY <2>1, <2>2, <3>1 DEF SessionRec
  <2>3. CASE pc = "unusable"
    BY <1>2, <2>1, <2>3
  <2>. QED BY <2>2, <2>3
<1>7. hal[s].pc \in LockPcs /\ hal[s].pc \in CreatePcs
  BY <1>1 DEF LockPcs, CreatePcs
<1>8. IntfStep(s) /\ JobLockStep(s)
  BY <1>1, <1>2, <1>4 DEF IntfStep, JobLockStep, IntfPcs, LockPcs, CreatePcs, AbortPcs, FreePcs
<1>9. TypeInv'
  <2>1. intf' \in Sessions \cup {NULL} /\ jobLock' \in Threads
    BY <1>1, <1>4, <1>8, LocksKept
  <2>2. inprogress' \in Sessions \cup {NULL}
    BY <1>2 DEF IInv, TypeInv
  <2>. QED BY <1>1, <1>4, <1>5, <1>6, <2>1, <2>2 DEF IInv, TypeInv, JobIds
<1>10. MoveInv'
  BY <1>5 DEF MoveInv
<1>11. ConfigInv'
  <2>1. inprogress = NULL /\ \A t \in Sessions : ~ses[t].config
    BY <1>7, JpegConstants DEF IInv, ConfigInv, OneConfigured
  <2>2. \A t \in Sessions : hal'[t].pc \notin CreatePcs
    BY <1>4, <1>7, LockHeld DEF LockPcs, CreatePcs
  <2>3. OneConfigured'
    BY <1>2, <1>6, <2>1, JpegConstants DEF OneConfigured
  <2>4. manager.pc \notin ServePcs
    BY <1>7, LockHeld
  <2>. QED BY <1>1, <2>2, <2>3, <2>4 DEF ConfigInv, ServePcs
<1>12. ActiveInv(s)
  BY DEF IInv, LifeInv
<1>13. ses[s].active /\ ses[s].avail > 0
  BY <1>1, <1>7, <1>12 DEF ActiveInv
<1>14. ActiveInv(s)'
  BY <1>1, <1>4, <1>6, <1>12, <1>13 DEF ActiveInv, FreePcs, CreatePcs
<1>15. hal'[s].pc \notin AbortPcs \cup {"abort job", "destroy"}
  BY <1>4 DEF AbortPcs
<1>16. HealthyInv(s)'
  <2>1. move'.s # s
    BY <1>5, JpegConstants
  <2>. QED BY <1>1, <1>6, <1>7, <1>15, <2>1, HeldHealthy
<1>17. /\ ~Stopping(s) /\ hal[s].pc \in IdlePcs /\ Destroyed(s)
  BY <1>1, <1>4 DEF Stopping, IdlePcs, CreatePcs, Destroyed, GonePcs
<1>. QED BY <1>1, <1>4, <1>5, <1>6, <1>7, <1>8, <1>9, <1>10, <1>11, <1>13, <1>14, <1>15,
            <1>16, <1>17,
            HeldStep

\* mm_jpeg_session_destroy takes the component to Idle, ...
LEMMA DestroyIdleInv ==
    ASSUME IInv, NEW s \in Sessions, DestroyIdle(s)
    PROVE  IInv'
<1>1. /\ hal[s].pc = "abort end" /\ hal[s].job = 0 /\ Goto(s, "destroy unload")
      /\ UNCHANGED <<jobs, todo, ongoing, sem, intf, jobLock, ses, inprogress, omx, manager,
                     faults>>
      /\ \/ move' = Move(s, "Idle", "none")
         \/ move' = [NoMove EXCEPT !.at = "ok"]
  BY DEF DestroyIdle, At, queues, locks, Moving
<1>2. /\ "destroy unload" \in HalPcs /\ hal[s].pc \in AbortPcs /\ hal[s].pc \in LockPcs
      /\ hal[s].pc \notin CreatePcs /\ hal[s].pc \in CreatePcs \cup FreePcs \cup {"abort end"}
  BY <1>1 DEF HalPcs, IntfPcs, LockPcs, FreePcs, AbortPcs, CreatePcs
<1>3. /\ hal' \in [Sessions -> HalRec] /\ \A t \in Sessions : t # s => hal'[t] = hal[t]
      /\ \A t \in Sessions : hal'[t].left \subseteq JobIds
      /\ hal'[s].pc = "destroy unload" /\ hal'[s].job = hal[s].job /\ hal'[s].left = hal[s].left
  BY <1>1, <1>2, GotoEffect DEF IInv
<1>4. /\ move' \in MoveRec /\ move'.s \in {s, NULL}
      /\ move'.s = s => move'.at = "send"
      /\ move'.s = NULL => move'.at = "ok"
  <2>1. CASE move' = Move(s, "Idle", "none")
    <3>1. "Idle" \in States /\ "none" \in {"none", "send", "free"}
      BY DEF States
    <3>. QED BY <2>1, <3>1, NewMove, JpegConstants
  <2>2. CASE move' = [NoMove EXCEPT !.at = "ok"]
    BY <2>2, NoMoveFacts, JpegConstants
  <2>. QED BY <1>1, <2>1, <2>2
<1>5. IntfStep(s) /\ JobLockStep(s)
  BY <1>1, <1>2, <1>3 DEF IntfStep, JobLockStep, IntfPcs, LockPcs, FreePcs, AbortPcs
<1>6. TypeInv'
  BY <1>1, <1>3, <1>4 DEF IInv, TypeInv, JobIds
<1>7. MoveInv'
  BY <1>3, <1>4 DEF MoveInv, FreePcs
<1>8. ConfigInv'
  <2>1. \A t \in Sessions : hal'[t].pc \in CreatePcs => hal[t].pc \in CreatePcs
    BY <1>3 DEF CreatePcs
  <2>. QED BY <1>1, <2>1 DEF IInv, ConfigInv, OneConfigured
<1>9. ActiveInv(s)'
  <2>1. ActiveInv(s)
    BY DEF IInv, LifeInv
  <2>. QED BY <1>1, <1>3, <2>1 DEF ActiveInv, FreePcs, CreatePcs
<1>10. hal'[s].pc \notin AbortPcs \cup {"abort job", "destroy"}
  BY <1>3 DEF AbortPcs
<1>11. move.s # s
  BY <1>2, MoveExcludesAbort
<1>12. HealthyInv(s)'
  BY <1>1, <1>2, <1>4, <1>10, <1>11, HeldHealthy
<1>13. Stopping(s)' /\ Destroyed(s) /\ hal'[s].pc \notin IdlePcs \cup {"open"}
  BY <1>1, <1>2, <1>3 DEF Stopping, Destroyed, IdlePcs, CreatePcs
<1>. QED BY <1>1, <1>2, <1>3, <1>4, <1>5, <1>6, <1>7, <1>8, <1>9, <1>10, <1>12, <1>13, HeldStep

\* ... then to Loaded, whether the first one failed or not, ...
LEMMA DestroyUnloadInv ==
    ASSUME IInv, NEW s \in Sessions, DestroyUnload(s)
    PROVE  IInv'
<1>1. /\ hal[s].pc = "destroy unload" /\ Moved /\ Goto(s, "destroy free")
      /\ UNCHANGED <<jobs, todo, ongoing, sem, intf, jobLock, ses, inprogress, omx, manager,
                     faults>>
      /\ \/ move' = Move(s, "Loaded", "free")
         \/ move' = move
  BY DEF DestroyUnload, At, queues, locks, Moving
<1>2. /\ "destroy free" \in HalPcs /\ hal[s].pc \in LockPcs
      /\ hal[s].pc \notin CreatePcs /\ hal[s].pc \in CreatePcs \cup FreePcs \cup {"abort end"}
  BY <1>1 DEF HalPcs, IntfPcs, LockPcs, FreePcs, CreatePcs
<1>3. /\ hal' \in [Sessions -> HalRec] /\ \A t \in Sessions : t # s => hal'[t] = hal[t]
      /\ \A t \in Sessions : hal'[t].left \subseteq JobIds
      /\ hal'[s].pc = "destroy free" /\ hal'[s].job = hal[s].job /\ hal'[s].left = hal[s].left
  BY <1>1, <1>2, GotoEffect DEF IInv
<1>4. /\ move' \in MoveRec /\ move'.s \in {s, NULL}
      /\ move'.at = "send" \/ move' = move
      /\ move'.s = s => move'.at # "off"
      /\ move'.s = NULL => move'.at \in {"off", "ok"}
  <2>1. move.s \in {s, NULL} /\ move \in MoveRec
    BY <1>2, LockHeld DEF IInv, TypeInv
  <2>2. CASE move' = move
    BY <1>1, <2>1, <2>2, JpegConstants DEF IInv, MoveInv, Moved
  <2>3. CASE move' = Move(s, "Loaded", "free")
    <3>1. "Loaded" \in States /\ "free" \in {"none", "send", "free"}
      BY DEF States
    <3>. QED BY <2>3, <3>1, NewMove, JpegConstants
  <2>. QED BY <1>1, <2>2, <2>3
<1>5. IntfStep(s) /\ JobLockStep(s)
  BY <1>1, <1>2, <1>3 DEF IntfStep, JobLockStep, IntfPcs, LockPcs, FreePcs
<1>6. TypeInv'
  BY <1>1, <1>3, <1>4 DEF IInv, TypeInv, JobIds
<1>7. MoveInv'
  BY <1>3, <1>4 DEF MoveInv, FreePcs
<1>8. ConfigInv'
  <2>1. \A t \in Sessions : hal'[t].pc \in CreatePcs => hal[t].pc \in CreatePcs
    BY <1>3 DEF CreatePcs
  <2>. QED BY <1>1, <2>1 DEF IInv, ConfigInv, OneConfigured
<1>9. ActiveInv(s)'
  <2>1. ActiveInv(s)
    BY DEF IInv, LifeInv
  <2>. QED BY <1>1, <1>3, <2>1 DEF ActiveInv, FreePcs, CreatePcs
<1>10. hal'[s].pc \notin AbortPcs \cup {"abort job", "destroy"}
  BY <1>3 DEF AbortPcs
<1>11. HealthyInv(s)'
  BY <1>1, <1>2, <1>4, <1>10, HeldHealthy
<1>12. Stopping(s)' /\ Destroyed(s) /\ hal'[s].pc \notin IdlePcs \cup {"open"}
  BY <1>1, <1>2, <1>3 DEF Stopping, Destroyed, IdlePcs, CreatePcs, GonePcs, FreePcs
<1>. QED BY <1>1, <1>2, <1>3, <1>4, <1>5, <1>6, <1>7, <1>8, <1>9, <1>10, <1>11, <1>12, HeldStep

\* ... and calls OMX_FreeHandle, after which the component does not call back.
LEMMA DestroyFreeInv ==
    ASSUME IInv, NEW s \in Sessions, DestroyFree(s)
    PROVE  IInv'
<1>1. /\ hal[s].pc = "destroy free" /\ omx[s].at = "idle" /\ Goto(s, "destroy end")
      /\ omx' = [omx EXCEPT ![s] = Component] /\ move' = NoMove /\ jobLock' = NULL
      /\ inprogress' = IF inprogress = s THEN NULL ELSE inprogress
      /\ ses' = [ses EXCEPT ![s].config = FALSE, ![s].active = FALSE]
      /\ UNCHANGED <<jobs, todo, ongoing, sem, intf, manager, faults>>
  BY DEF DestroyFree, At, queues
<1>2. /\ "destroy end" \in HalPcs /\ hal[s].pc \in LockPcs /\ hal[s].pc \notin CreatePcs
      /\ hal[s].pc \in FreePcs
  BY <1>1 DEF HalPcs, IntfPcs, LockPcs, FreePcs, CreatePcs
<1>3. /\ hal' \in [Sessions -> HalRec] /\ \A t \in Sessions : t # s => hal'[t] = hal[t]
      /\ \A t \in Sessions : hal'[t].left \subseteq JobIds
      /\ hal'[s].pc = "destroy end" /\ hal'[s].job = hal[s].job /\ hal'[s].left = hal[s].left
  BY <1>1, <1>2, GotoEffect DEF IInv
<1>4. move' \in MoveRec /\ move'.s = NULL /\ move'.at = "off"
  BY <1>1, NoMoveFacts
<1>5. IntfStep(s) /\ JobLockStep(s)
  BY <1>1, <1>2, <1>3 DEF IntfStep, JobLockStep, IntfPcs, LockPcs, FreePcs, CreatePcs, AbortPcs
<1>6. ses \in [Sessions -> SessionRec] /\ omx \in [Sessions -> ComponentRec]
  BY DEF IInv, TypeInv
<1>7. ses' \in [Sessions -> SessionRec]
  <2>1. ses' = [ses EXCEPT ![s].config = FALSE, ![s].active = FALSE]
    BY <1>1
  <2>. QED BY <1>6, <2>1, ZenonT(30) DEF SessionRec
<1>8. /\ \A t \in Sessions : t # s => ses'[t] = ses[t]
      /\ ~ses'[s].active /\ ~ses'[s].config /\ ses'[s].abort = ses[s].abort
      /\ ses'[s].avail = ses[s].avail /\ ses'[s].job = ses[s].job /\ ses'[s].lock = ses[s].lock
  <2>1. ses' = [ses EXCEPT ![s].config = FALSE, ![s].active = FALSE]
    BY <1>1
  <2>. QED BY <1>6, <2>1 DEF SessionRec
<1>9. /\ Component \in ComponentRec /\ Component.at = "idle" /\ ~Component.busy
      /\ Component.cmds = <<>>
  BY DEF Component, ComponentRec, States, AnswerPcs
<1>10. /\ omx' \in [Sessions -> ComponentRec] /\ \A t \in Sessions : t # s => omx'[t] = omx[t]
       /\ omx'[s].at = "idle" /\ ~omx'[s].busy /\ omx'[s].cmds = <<>>
  BY <1>1, <1>6, <1>9
<1>11. TypeInv'
  <2>1. intf' \in Sessions \cup {NULL} /\ jobLock' \in Threads
    BY <1>1, <1>3, <1>5, LocksKept
  <2>2. inprogress' \in Sessions \cup {NULL}
    BY <1>1 DEF IInv, TypeInv
  <2>. QED BY <1>1, <1>3, <1>4, <1>7, <1>10, <2>1, <2>2 DEF IInv, TypeInv, JobIds
<1>12. MoveInv'
  BY <1>4 DEF MoveInv
<1>13. ConfigInv'
  <2>1. \A t \in Sessions : hal'[t].pc \in CreatePcs => hal[t].pc \in CreatePcs
    BY <1>3 DEF CreatePcs
  <2>2. manager.pc \notin ServePcs
    BY <1>2, LockHeld
  <2>3. OneConfigured'
    BY <1>1, <1>8, JpegConstants DEF IInv, ConfigInv, OneConfigured
  <2>4. inprogress = NULL => inprogress' = NULL
    BY <1>1
  <2>5. \A t \in Sessions : hal[t].pc \in CreatePcs => inprogress = NULL
    BY DEF IInv, ConfigInv
  <2>. QED BY <1>1, <2>1, <2>2, <2>3, <2>4, <2>5 DEF ConfigInv, ServePcs
<1>14. ActiveInv(s)
  BY DEF IInv, LifeInv
<1>15. ~ses[s].lock /\ ses[s].abort = "done"
  BY <1>1, <1>2, <1>14 DEF ActiveInv
<1>16. ActiveInv(s)'
  BY <1>3, <1>8, <1>10, <1>15 DEF ActiveInv, FreePcs, CreatePcs
<1>17. hal'[s].pc \notin AbortPcs \cup {"abort job", "destroy"}
  BY <1>3 DEF AbortPcs
<1>18. HealthyInv(s)'
  BY <1>8 DEF HealthyInv, Healthy
<1>19. Stopping(s)' /\ Destroyed(s) /\ hal'[s].pc \notin IdlePcs \cup {"open"}
  BY <1>2, <1>3 DEF Stopping, Destroyed, IdlePcs, CreatePcs, GonePcs
<1>. QED BY <1>1, <1>2, <1>3, <1>4, <1>5, <1>8, <1>10, <1>11, <1>12, <1>13, <1>16, <1>17, <1>18,
            <1>19, HeldStep

-----------------------------------------------------------------------------
(* What is taken off a queue *)

\* The positions of a queue that are kept can be counted off in their order, and they
\* are finitely many: what Without chooses is there.
LEMMA Enumerated ==
    ASSUME NEW n \in Nat, NEW kept \in SUBSET (1..n)
    PROVE  /\ Cardinality(kept) \in Nat
           /\ \E f \in [1..Cardinality(kept) -> kept] :
                \A i, k \in 1..Cardinality(kept) : i < k => f[i] < f[k]
<1>. DEFINE K == Cardinality(kept)
            upto(p) == {q \in kept : q <= p}
            rank == [p \in kept |-> Cardinality(upto(p))]
<1>1. IsFiniteSet(kept) /\ K \in Nat
  <2>1. IsFiniteSet(1..n)
    BY FS_Interval
  <2>. QED BY <2>1, FS_Subset, FS_CardinalityType
<1>2. ASSUME NEW p \in kept
      PROVE  IsFiniteSet(upto(p)) /\ Cardinality(upto(p)) \in 1..K
  <2>1. upto(p) \in SUBSET kept /\ p \in upto(p)
    OBVIOUS
  <2>2. IsFiniteSet(upto(p)) /\ Cardinality(upto(p)) <= K
    BY <1>1, <2>1, FS_Subset
  <2>3. Cardinality(upto(p)) \in Nat /\ Cardinality(upto(p)) # 0
    BY <2>1, <2>2, FS_CardinalityType, FS_EmptySet
  <2>. HIDE DEF upto
  <2>. QED BY <1>1, <2>2, <2>3
<1>3. ASSUME NEW p \in kept, NEW q \in kept, p < q
      PROVE  rank[p] < rank[q]
  <2>1. upto(p) \in SUBSET upto(q) /\ q \in upto(q) /\ q \notin upto(p)
    <3>1. p \in Nat /\ q \in Nat /\ kept \subseteq Nat
      OBVIOUS
    <3>2. \A r \in kept : r <= p => r <= q
      BY <1>3, <3>1
    <3>3. q <= q /\ ~(q <= p)
      BY <1>3, <3>1
    <3>. QED BY <3>2, <3>3
  <2>2. IsFiniteSet(upto(q)) /\ Cardinality(upto(q)) \in Nat /\ Cardinality(upto(p)) \in Nat
    BY <1>1, <1>2
  <2>3. Cardinality(upto(p)) <= Cardinality(upto(q)) /\ Cardinality(upto(p)) # Cardinality(upto(q))
    BY <2>1, <2>2, FS_Subset
  <2>4. rank[p] = Cardinality(upto(p)) /\ rank[q] = Cardinality(upto(q))
    OBVIOUS
  <2>. HIDE DEF upto, rank
  <2>. QED BY <2>2, <2>3, <2>4
<1>4. rank \in [kept -> 1..K]
  BY <1>2
<1>. HIDE DEF rank
<1>5. rank \in Injection(kept, 1..K)
  <2>1. ASSUME NEW p \in kept, NEW q \in kept, rank[p] = rank[q]
        PROVE  p = q
    <3>1. rank[p] \in 1..K /\ rank[q] \in 1..K
      BY <1>4
    <3>2. ~(rank[p] < rank[q]) /\ ~(rank[q] < rank[p])
      BY <1>1, <2>1, <3>1
    <3>3. ~(p < q) /\ ~(q < p)
      BY <1>3, <3>2
    <3>. QED BY <3>3
  <2>. QED BY <1>4, <2>1, Fun_IsInj
<1>6. \A i \in 1..K : \E p \in kept : rank[p] = i
  <2>1. IsFiniteSet(1..K) /\ Cardinality(1..K) = K
    BY <1>1, FS_Interval
  <2>2. rank \in Surjection(kept, 1..K)
    BY <1>5, <2>1, FS_Injection
  <2>. QED BY <2>2, Fun_SurjectionProperties
<1>. DEFINE f == [i \in 1..K |-> CHOOSE p \in kept : rank[p] = i]
<1>7. \A i \in 1..K : f[i] \in kept /\ rank[f[i]] = i
  BY <1>6
<1>8. f \in [1..K -> kept]
  BY <1>7
<1>. HIDE DEF f
<1>9. ASSUME NEW i \in 1..K, NEW k \in 1..K, i < k
      PROVE  f[i] < f[k]
  <2>1. f[i] \in 1..n /\ f[k] \in 1..n /\ f[i] \in kept /\ f[k] \in kept
    BY <1>7
  <2>2. CASE f[k] < f[i]
    <3>1. rank[f[k]] < rank[f[i]]
      BY <1>3, <2>1, <2>2
    <3>2. k < i
      BY <1>7, <3>1
    <3>. QED BY <1>1, <1>9, <3>2
  <2>3. CASE f[k] = f[i]
    <3>1. k = i
      BY <1>7, <2>3
    <3>. QED BY <1>1, <1>9, <3>1
  <2>. QED BY <2>1, <2>2, <2>3
<1>. QED BY <1>1, <1>8, <1>9

\* What mm_jpeg_queue_remove_job_by_job_id and _by_session_id leave is of the queue, not
\* of the jobs that are removed, and in the queue no more often than before.
LEMMA WithoutKeeps ==
    ASSUME NEW queue \in Seq(Nat), NEW js
    PROVE  /\ Without(queue, js) \in Seq(Nat)
           /\ \A i \in 1..Len(Without(queue, js)) :
                \E p \in 1..Len(queue) : Without(queue, js)[i] = queue[p] /\ queue[p] \notin js
           /\ (\A i, k \in 1..Len(queue) : queue[i] = queue[k] => i = k)
                => \A i, k \in 1..Len(Without(queue, js)) :
                     Without(queue, js)[i] = Without(queue, js)[k] => i = k
<1>. DEFINE kept == {p \in 1..Len(queue) : queue[p] \notin js}
            K == Cardinality(kept)
            Rises(f) == \A i, k \in 1..K : i < k => f[i] < f[k]
            at == CHOOSE f \in [1..K -> kept] : Rises(f)
<1>1. /\ Len(queue) \in Nat /\ kept \in SUBSET (1..Len(queue))
      /\ \A p \in 1..Len(queue) : queue[p] \in Nat
  OBVIOUS
<1>2. K \in Nat /\ \E f \in [1..K -> kept] : Rises(f)
  BY <1>1, Enumerated
<1>3. Without(queue, js) = [i \in 1..K |-> queue[at[i]]]
  BY DEF Without
<1>. HIDE DEF Rises, K
<1>4. at \in [1..K -> kept] /\ Rises(at)
  BY <1>2
<1>5. \A p \in kept : p \in 1..Len(queue) /\ queue[p] \notin js
  OBVIOUS
<1>. HIDE DEF at, kept
<1>6. /\ \A i \in 1..K : at[i] \in kept /\ queue[at[i]] \in Nat
      /\ Len(Without(queue, js)) = K /\ Without(queue, js) \in Seq(Nat)
  <2>1. \A i \in 1..K : at[i] \in kept
    BY <1>4
  <2>2. \A i \in 1..K : queue[at[i]] \in Nat
    BY <1>1, <1>5, <2>1
  <2>3. [i \in 1..K |-> queue[at[i]]] \in Seq(Nat) /\ Len([i \in 1..K |-> queue[at[i]]]) = K
    BY <1>2, <2>2
  <2>. QED BY <1>3, <2>1, <2>2, <2>3
<1>7. \A i \in 1..K : Without(queue, js)[i] = queue[at[i]]
  BY <1>3
<1>8. ASSUME \A i, k \in 1..Len(queue) : queue[i] = queue[k] => i = k,
             NEW i \in 1..K, NEW k \in 1..K, queue[at[i]] = queue[at[k]]
      PROVE  i = k
  <2>1. at[i] \in 1..Len(queue) /\ at[k] \in 1..Len(queue)
    BY <1>5, <1>6
  <2>2. at[i] = at[k]
    BY <1>8, <2>1
  <2>3. ~(at[i] < at[k]) /\ ~(at[k] < at[i])
    BY <2>1, <2>2
  <2>4. ~(i < k) /\ ~(k < i)
    BY <1>4, <2>3 DEF Rises
  <2>. QED BY <1>2, <2>4
<1>. QED BY <1>5, <1>6, <1>7, <1>8

-----------------------------------------------------------------------------
(* The calls that take jobs off the queues, and those that say they are over *)

\* Jobs that the HAL does not wait for any more are over; nothing else changes.
LEMMA OverEffect ==
    ASSUME TypeInv, NEW js, Over(js)
    PROVE  /\ jobs' \in Seq(JobRec) /\ Len(jobs') = Len(jobs) /\ JobIds' = JobIds
           /\ \A j \in JobIds : /\ jobs'[j].s = jobs[j].s /\ jobs'[j].cbs = jobs[j].cbs
                                /\ j \notin js => jobs'[j] = jobs[j]
                                /\ j \in js => jobs'[j].over
<1>1. JobIds = 1..Len(jobs) /\ Len(jobs) \in Nat
  BY DEF TypeInv, JobIds
<1>2. \A j \in JobIds : jobs[j] \in JobRec
  BY <1>1 DEF TypeInv
<1>. DEFINE new(j) == IF j \in js THEN [jobs[j] EXCEPT !.over = TRUE] ELSE jobs[j]
<1>3. jobs' = [j \in JobIds |-> new(j)]
  BY DEF Over
<1>4. \A j \in JobIds : /\ new(j) \in JobRec
                        /\ new(j).s = jobs[j].s /\ new(j).cbs = jobs[j].cbs
                        /\ j \notin js => new(j) = jobs[j]
                        /\ j \in js => new(j).over
  BY <1>2 DEF JobRec
<1>. HIDE DEF new
<1>5. jobs' \in Seq(JobRec) /\ Len(jobs') = Len(jobs)
  BY <1>1, <1>3, <1>4
<1>6. \A j \in JobIds : jobs'[j] = new(j)
  BY <1>3
<1>7. JobIds' = JobIds
  BY <1>5 DEF JobIds
<1>. QED BY <1>4, <1>5, <1>6, <1>7

\* A step of the HAL thread of s in which only jobs of s leave the queues or are over.
CallsOff(s) ==
    /\ UNCHANGED <<inprogress, omx, move, manager, faults>>
    /\ \A t \in Sessions : t # s => ses'[t] = ses[t] /\ hal'[t] = hal[t]
    /\ ses'[s].active = ses[s].active /\ ses'[s].config = ses[s].config
    /\ ses'[s].job = ses[s].job
    /\ hal[s].pc \notin CreatePcs \cup FreePcs
    /\ hal'[s].pc \notin CreatePcs \cup FreePcs \cup {"open"}
    /\ IntfStep(s) /\ JobLockStep(s)
    /\ JobIds' = JobIds
    /\ \A j \in JobIds :
         /\ jobs'[j].s = jobs[j].s /\ jobs'[j].cbs = jobs[j].cbs
         /\ jobs[j].s # s => jobs'[j] = jobs[j] /\ (j \in ongoing' <=> j \in ongoing)
    /\ \A i, k \in 1..Len(todo') : todo'[i] = todo'[k] => i = k
    /\ Queued' \subseteq Queued /\ ongoing' \subseteq ongoing
    /\ \A j \in JobIds : j \in Queued' \/ j \in ongoing' => jobs'[j] = jobs[j]

\* Such a step keeps the invariant if it leaves a token of job_sem behind, or whoever
\* destroys the session has that still to do.
LEMMA CallsOffInv ==
    ASSUME IInv, NEW s \in Sessions, CallsOff(s),
           sem' > 0 \/ (sem' = sem /\ Stopping(s)' /\ manager.pc \notin ServePcs),
           TypeInv', LifeInv(s)', HealthyInv(s)'
    PROVE  IInv'
<1>1. LocksInv'
  BY LocksKept DEF CallsOff
<1>2. \A t \in Sessions : JobsOf(t)' = JobsOf(t)
  BY DEF JobsOf, CallsOff
<1>3. manager.pc \in ServePcs => manager.job \in JobIds
  BY DEF IInv, JobsInv, TypeInv, ManagerRec, JobIds
<1>4. \A t \in Sessions : Serves(t)' <=> Serves(t)
  BY <1>3 DEF Serves, CallsOff
<1>5. MoveInv'
  <2>1. move.s # NULL => move.s \in Sessions
    BY DEF IInv, TypeInv, MoveRec
  <2>2. \A t \in Sessions : hal[t].pc \in CreatePcs \cup FreePcs => hal'[t].pc = hal[t].pc
    BY DEF CallsOff
  <2>3. MoveInv /\ move' = move /\ manager' = manager /\ inprogress' = inprogress
    BY DEF IInv, CallsOff
  <2>. QED BY <1>4, <2>1, <2>2, <2>3 DEF MoveInv
<1>6. ConfigInv'
  <2>1. \A t \in Sessions : /\ hal'[t].pc \in CreatePcs => hal[t].pc \in CreatePcs
                            /\ ses'[t].config = ses[t].config
    BY DEF CallsOff
  <2>2. ConfigInv /\ manager' = manager /\ inprogress' = inprogress
    BY DEF IInv, CallsOff
  <2>. QED BY <2>1, <2>2 DEF ConfigInv, OneConfigured
<1>7. ongoing \subseteq JobIds /\ \A j \in JobIds : jobs[j].s \in Sessions
  BY JobFacts DEF IInv
<1>8. \A t \in Sessions : ses'[t].job = ses[t].job
  BY DEF CallsOff
<1>9. JobsInv'
  <2>1. JobsInv /\ manager' = manager /\ JobIds' = JobIds
    BY DEF IInv, CallsOff
  <2>2. \A i, k \in 1..Len(todo') : todo'[i] = todo'[k] => i = k
    BY DEF CallsOff
  <2>3. ASSUME NEW j \in Queued'
        PROVE  /\ j \in JobIds /\ j \notin ongoing'
               /\ jobs'[j].cbs = 0 /\ ~jobs'[j].over /\ ses'[jobs'[j].s].job # j
    <3>1. j \in Queued /\ (j \in ongoing' => j \in ongoing)
      BY <2>3 DEF CallsOff
    <3>2. /\ j \in JobIds /\ j \notin ongoing /\ jobs[j].cbs = 0 /\ ~jobs[j].over
          /\ ses[jobs[j].s].job # j
      BY <2>1, <3>1 DEF JobsInv
    <3>3. jobs'[j] = jobs[j]
      BY <2>3, <3>2 DEF CallsOff
    <3>. QED BY <1>7, <1>8, <3>1, <3>2, <3>3
  <2>4. ASSUME NEW j \in ongoing'
        PROVE  ~jobs'[j].over /\ ses'[jobs'[j].s].job = j
    <3>1. j \in ongoing /\ j \in JobIds
      BY <1>7, <2>4 DEF CallsOff
    <3>2. ~jobs[j].over /\ ses[jobs[j].s].job = j
      BY <2>1, <3>1 DEF JobsInv
    <3>3. jobs'[j] = jobs[j]
      BY <2>4, <3>1 DEF CallsOff
    <3>. QED BY <1>7, <1>8, <3>1, <3>2, <3>3
  <2>5. \A t \in Sessions : ses'[t].job # 0 => ses'[t].job \in JobsOf(t)'
    BY <1>2, <1>8, <2>1 DEF JobsInv
  <2>6. ongoing' \subseteq ongoing
    BY DEF CallsOff
  <2>7. manager'.pc \in ServePcs =>
          manager'.job # 0 /\ ongoing' \subseteq {manager'.job} /\ ses'[Serving'].job = manager'.job
    <3>1. manager.pc \in ServePcs => jobs'[manager.job].s = jobs[manager.job].s
                                     /\ jobs[manager.job].s \in Sessions
      BY <1>3, <1>7 DEF CallsOff
    <3>. QED BY <1>8, <2>1, <2>6, <3>1 DEF JobsInv, Serving, Job
  <2>. QED BY <2>1, <2>2, <2>3, <2>4, <2>5, <2>6, <2>7 DEF JobsInv
<1>10. ASSUME NEW t \in Sessions, t # s
       PROVE  LifeInv(t)' /\ HealthyInv(t)'
  <2>1. \A j \in JobsOf(t) : /\ jobs'[j] = jobs[j] /\ (j \in ongoing' <=> j \in ongoing)
                             /\ j \in Queued' => j \in Queued
    BY <1>10 DEF JobsOf, CallsOff
  <2>2. ses'[t] = ses[t] /\ omx' = omx /\ hal'[t] = hal[t] /\ move' = move /\ manager' = manager
    BY <1>10 DEF CallsOff
  <2>3. Untouched(t)
    BY <1>2, <1>4, <1>10, <2>1, <2>2 DEF Untouched
  <2>. QED BY <1>10, <2>3, LifeUntouched, HealthyUntouched DEF IInv
<1>11. WakeInv'
  <2>1. WakeInv /\ manager' = manager /\ omx' = omx
    BY DEF IInv, CallsOff
  <2>2. NoLostWakeup'
    <3>1. Stopping(s)' => \E t \in Sessions : Stopping(t)'
      OBVIOUS
    <3>2. sem' > 0 => sem' # 0
      BY DEF TypeInv
    <3>. QED BY <3>1, <3>2 DEF NoLostWakeup
  <2>3. ASSUME NEW t \in Sessions, hal'[t].pc = "open"
        PROVE  \/ ses'[t].avail > 0 \/ ses'[t].job \in ongoing'
               \/ omx'[t].at \in {"remove", "giveback"}
    <3>1. t # s /\ ses'[t] = ses[t] /\ hal'[t] = hal[t]
      BY <2>3 DEF CallsOff
    <3>2. ses[t].job \in ongoing => ses[t].job \in JobIds /\ ses[t].job \in JobsOf(t)
      <4>1. ses[t].job \in ongoing => ses[t].job \in JobIds /\ ses[t].job # 0
        <5>1. 0 \notin JobIds
          BY DEF IInv, TypeInv, JobIds
        <5>. QED BY <1>7, <5>1
      <4>. QED BY <4>1 DEF IInv, JobsInv
    <3>3. ses[t].job \in ongoing => ses[t].job \in ongoing'
      BY <3>1, <3>2 DEF JobsOf, CallsOff
    <3>. QED BY <2>1, <2>3, <3>1, <3>3 DEF WakeInv
  <2>4. manager'.pc \in ServePcs /\ manager'.job \notin ongoing' => sem' > 0 \/ Returning'
    BY <2>1
  <2>. QED BY <2>2, <2>3, <2>4 DEF WakeInv
<1>. QED BY <1>1, <1>5, <1>6, <1>9, <1>10, <1>11 DEF IInv

\* mm_jpeg_abort_job returns: the job is over.
LEMMA AbortJobEndInv ==
    ASSUME IInv, NEW s \in Sessions, AbortJobEnd(s)
    PROVE  IInv'
<1>1. /\ hal[s].pc = "abort end" /\ hal[s].job # 0 /\ Over({hal[s].job})
      /\ hal' = [hal EXCEPT ![s].pc = "stop", ![s].job = 0] /\ intf' = NULL /\ jobLock' = NULL
      /\ UNCHANGED <<todo, ongoing, sem, ses, inprogress, omx, move, manager, faults>>
  BY DEF AbortJobEnd, At
<1>2. PICK j \in JobsOf(s) : j = hal[s].job /\ j \notin ongoing /\ j \notin Queued
  BY <1>1 DEF IInv, LifeInv, LeftInv, AbortPcs
<1>3. /\ jobs' \in Seq(JobRec) /\ Len(jobs') = Len(jobs) /\ JobIds' = JobIds
      /\ \A i \in JobIds : /\ jobs'[i].s = jobs[i].s /\ jobs'[i].cbs = jobs[i].cbs
                           /\ i # j => jobs'[i] = jobs[i]
                           /\ i = j => jobs'[i].over
  <2>1. Over({j})
    BY <1>1, <1>2
  <2>2. TypeInv
    BY DEF IInv
  <2>. QED BY <2>1, <2>2, OverEffect
<1>4. /\ hal' \in [Sessions -> HalRec] /\ \A t \in Sessions : t # s => hal'[t] = hal[t]
      /\ hal'[s].pc = "stop" /\ hal'[s].job = 0 /\ hal'[s].left = hal[s].left
      /\ \A t \in Sessions : hal'[t].left \subseteq JobIds
  <2>1. "stop" \in HalPcs /\ hal \in [Sessions -> HalRec]
    BY DEF HalPcs, IInv, TypeInv
  <2>2. \A t \in Sessions : hal[t].left \subseteq JobIds
    BY DEF IInv, TypeInv
  <2>. QED BY <1>1, <2>1, <2>2 DEF HalRec
<1>5. hal[s].pc \in LockPcs /\ hal[s].pc \in IntfPcs /\ hal[s].pc \notin CreatePcs \cup FreePcs
  BY <1>1 DEF LockPcs, IntfPcs, AbortPcs, CreatePcs, FreePcs
<1>6. IntfStep(s) /\ JobLockStep(s)
  BY <1>1, <1>4, <1>5 DEF IntfStep, JobLockStep, IntfPcs, LockPcs, CreatePcs, AbortPcs, FreePcs
<1>7. Queued' = Queued
  BY <1>1 DEF Queued
<1>8. CallsOff(s)
  <2>1. \A i \in JobIds : jobs[i].s # s => i # j
    BY <1>2 DEF JobsOf
  <2>2. \A i, k \in 1..Len(todo') : todo'[i] = todo'[k] => i = k
    BY <1>1 DEF IInv, JobsInv
  <2>3. hal'[s].pc \notin CreatePcs \cup FreePcs \cup {"open"}
    BY <1>4 DEF CreatePcs, FreePcs
  <2>. QED BY <1>1, <1>2, <1>3, <1>4, <1>5, <1>6, <1>7, <2>1, <2>2, <2>3 DEF CallsOff
<1>9. TypeInv'
  <2>1. intf' \in Sessions \cup {NULL} /\ jobLock' \in Threads
    BY <1>1 DEF Threads
  <2>. QED BY <1>1, <1>3, <1>4, <2>1 DEF IInv, TypeInv
<1>10. JobsOf(s)' = JobsOf(s)
  BY <1>3 DEF JobsOf
<1>11. LifeInv(s)'
  <2>1. LifeInv(s)
    BY DEF IInv
  <2>2. ActiveInv(s)'
    BY <1>1, <1>4, <2>1 DEF LifeInv, ActiveInv, FreePcs, CreatePcs
  <2>3. GoneInv(s)'
    BY <1>4 DEF GoneInv, Destroyed, GonePcs, IdlePcs, FreePcs, CreatePcs, AbortPcs
  <2>4. LeftInv(s)'
    BY <1>4, <1>10, <2>1 DEF LifeInv, LeftInv, AbortPcs
  <2>. QED BY <2>2, <2>3, <2>4 DEF LifeInv
<1>12. HealthyInv(s)'
  <2>. SUFFICES ASSUME Healthy(s)'
                PROVE  HealthyInv(s)'
    BY DEF HealthyInv
  <2>1. Healthy(s) /\ HealthyInv(s) /\ ActiveInv(s)
    BY <1>1 DEF Healthy, IInv, LifeInv
  <2>2. ~Serves(s) /\ ~Serves(s)'
    <3>1. ~Serves(s) /\ manager.pc \notin ServePcs
      BY <1>5, LockHeld
    <3>. QED BY <1>1, <3>1 DEF Serves
  <2>3. ses[s].abort = "done"
    BY <1>1, <2>1 DEF ActiveInv
  <2>4. move.s # s
    BY <1>1, MoveExcludesAbort DEF AbortPcs
  <2>5. Quiet(s)
    BY <1>1, <2>1, <2>4, MovedQuiet
  <2>6. ~omx[s].busy /\ omx[s].at # "filled" /\ omx[s].at \notin {"remove", "giveback"}
    BY <2>1, <2>3 DEF HealthyInv, EncodingInv, ReturnInv
  <2>7. AskedInv(s)'
    BY <1>1, <2>1, <2>5 DEF HealthyInv, AskedInv, Quiet
  <2>8. MovingInv(s)'
    BY <1>1, <2>4 DEF MovingInv
  <2>9. EncodingInv(s)' /\ ReturnInv(s)'
    BY <1>1, <2>6 DEF EncodingInv, ReturnInv
  <2>10. HandleInv(s)'
    BY <1>1, <2>1, <2>2, <2>3 DEF HealthyInv, HandleInv
  <2>11. ServedInv(s)'
    BY <2>2 DEF ServedInv
  <2>12. AbortingInv(s)'
    BY <1>4 DEF AbortingInv
  <2>13. OnceInv(s)'
    <3>1. \A i \in JobsOf(s) : /\ jobs'[i].cbs = jobs[i].cbs
                               /\ ~jobs'[i].over => ~jobs[i].over
      BY <1>3 DEF JobsOf
    <3>. QED BY <1>10, <2>1, <3>1 DEF HealthyInv, OnceInv
  <2>. QED BY <2>7, <2>8, <2>9, <2>10, <2>11, <2>12, <2>13 DEF HealthyInv
<1>13. Stopping(s)'
  BY <1>4 DEF Stopping
<1>14. manager.pc \notin ServePcs
  BY <1>5, LockHeld
<1>. QED BY <1>1, <1>8, <1>9, <1>11, <1>12, <1>13, <1>14, CallsOffInv

\* mm_jpeg_destroy_session posts job_sem and returns: all jobs of the session are over.
LEMMA DestroyEndInv ==
    ASSUME IInv, NEW s \in Sessions, DestroyEnd(s)
    PROVE  IInv'
<1>1. /\ hal[s].pc = "destroy end" /\ Over(JobsOf(s)) /\ Goto(s, "closed")
      /\ ses' = [ses EXCEPT ![s].avail = 0] /\ sem' = sem + 1 /\ intf' = NULL
      /\ UNCHANGED <<todo, ongoing, jobLock, inprogress, omx, move, manager, faults>>
  BY DEF DestroyEnd, At
<1>2. LifeInv(s) /\ Destroyed(s)
  BY <1>1 DEF IInv, Destroyed, GonePcs
<1>3. NoJobs(s)
  BY <1>2 DEF LifeInv, GoneInv
<1>4. /\ jobs' \in Seq(JobRec) /\ Len(jobs') = Len(jobs) /\ JobIds' = JobIds
      /\ \A i \in JobIds : /\ jobs'[i].s = jobs[i].s /\ jobs'[i].cbs = jobs[i].cbs
                           /\ i \notin JobsOf(s) => jobs'[i] = jobs[i]
                           /\ i \in JobsOf(s) => jobs'[i].over
  BY <1>1, OverEffect DEF IInv
<1>5. /\ hal' \in [Sessions -> HalRec] /\ \A t \in Sessions : t # s => hal'[t] = hal[t]
      /\ \A t \in Sessions : hal'[t].left \subseteq JobIds
      /\ hal'[s].pc = "closed" /\ hal'[s].job = hal[s].job /\ hal'[s].left = hal[s].left
  <2>1. "closed" \in HalPcs
    BY DEF HalPcs
  <2>. QED BY <1>1, <2>1, GotoEffect DEF IInv
<1>6. hal[s].pc \notin LockPcs /\ hal[s].pc \in IntfPcs /\ hal[s].pc \notin CreatePcs \cup FreePcs
  BY <1>1 DEF LockPcs, IntfPcs, AbortPcs, CreatePcs, FreePcs
<1>7. IntfStep(s) /\ JobLockStep(s)
  BY <1>1, <1>5, <1>6 DEF IntfStep, JobLockStep, IntfPcs, LockPcs, CreatePcs, AbortPcs, FreePcs
<1>8. Queued' = Queued
  BY <1>1 DEF Queued
<1>9. ses \in [Sessions -> SessionRec] /\ sem \in Nat
  BY DEF IInv, TypeInv
<1>10. ses' \in [Sessions -> SessionRec]
  BY <1>1, <1>9 DEF SessionRec
<1>11. /\ \A t \in Sessions : t # s => ses'[t] = ses[t]
       /\ ses'[s].active = ses[s].active /\ ses'[s].config = ses[s].config
       /\ ses'[s].job = ses[s].job /\ ses'[s].lock = ses[s].lock /\ ses'[s].abort = ses[s].abort
  BY <1>1, <1>9 DEF SessionRec
<1>12. CallsOff(s)
  <2>1. \A i \in JobIds : /\ jobs[i].s # s => i \notin JobsOf(s)
                          /\ i \in Queued \/ i \in ongoing => i \notin JobsOf(s)
    BY <1>3 DEF JobsOf, NoJobs
  <2>2. \A i, k \in 1..Len(todo') : todo'[i] = todo'[k] => i = k
    BY <1>1 DEF IInv, JobsInv
  <2>3. hal'[s].pc \notin CreatePcs \cup FreePcs \cup {"open"}
    BY <1>5 DEF CreatePcs, FreePcs
  <2>. QED BY <1>1, <1>4, <1>5, <1>6, <1>7, <1>8, <1>11, <2>1, <2>2, <2>3 DEF CallsOff
<1>13. sem' \in Nat /\ sem' > 0
  <2>1. sem' = sem + 1
    BY <1>1
  <2>. QED BY <1>9, <2>1
<1>14. TypeInv'
  <2>1. intf' \in Sessions \cup {NULL} /\ sem' \in Nat
    BY <1>1, <1>13
  <2>. QED BY <1>1, <1>4, <1>5, <1>10, <2>1 DEF IInv, TypeInv
<1>15. JobsOf(s)' = JobsOf(s)
  BY <1>4 DEF JobsOf
<1>16. ~ses'[s].active
  BY <1>1, <1>2, <1>11 DEF LifeInv, ActiveInv
<1>17. LifeInv(s)'
  <2>1. ActiveInv(s)'
    <3>1. ActiveInv(s)
      BY <1>2 DEF LifeInv
    <3>. QED BY <1>1, <1>5, <1>11, <1>16, <3>1 DEF ActiveInv, FreePcs, CreatePcs
  <2>2. GoneInv(s)'
    <3>1. NoJobs(s)'
      <4>1. ~Serves(s)'
        <5>1. manager.pc \in ServePcs => manager.job \in JobIds
          BY DEF IInv, JobsInv, TypeInv, ManagerRec, JobIds
        <5>. QED BY <1>1, <1>3, <1>4, <5>1 DEF NoJobs, Serves
      <4>. QED BY <1>1, <1>3, <1>8, <1>15, <4>1 DEF NoJobs
    <3>2. \A i \in JobsOf(s)' : jobs'[i].over
      BY <1>4, <1>15 DEF JobsOf
    <3>. QED BY <3>1, <3>2 DEF GoneInv
  <2>3. LeftInv(s)'
    BY <1>2, <1>5, <1>15 DEF LifeInv, LeftInv, AbortPcs
  <2>. QED BY <2>1, <2>2, <2>3 DEF LifeInv
<1>18. HealthyInv(s)'
  BY <1>16 DEF HealthyInv, Healthy
<1>. QED BY <1>12, <1>14, <1>17, <1>18, <1>13, CallsOffInv

\* The queue after jobs were taken off it.
LEMMA QueueWithout ==
    ASSUME TypeInv, JobsInv, NEW js, todo' = Without(todo, js)
    PROVE  /\ todo' \in Seq(Nat)
           /\ \A i, k \in 1..Len(todo') : todo'[i] = todo'[k] => i = k
           /\ Queued' \subseteq Queued /\ \A j \in Queued' : j \notin js
<1>. DEFINE rest == Without(todo, js)
<1>1. todo \in Seq(Nat) /\ \A i, k \in 1..Len(todo) : todo[i] = todo[k] => i = k
  BY DEF TypeInv, JobsInv
<1>2. /\ rest \in Seq(Nat)
      /\ \A i \in 1..Len(rest) : \E p \in 1..Len(todo) : rest[i] = todo[p] /\ todo[p] \notin js
      /\ \A i, k \in 1..Len(rest) : rest[i] = rest[k] => i = k
  BY <1>1, WithoutKeeps
<1>. HIDE DEF rest
<1>3. Queued' = {rest[i] : i \in 1..Len(rest)} /\ todo' = rest
  BY DEF Queued, rest
<1>4. \A j \in {rest[i] : i \in 1..Len(rest)} : j \in {todo[i] : i \in 1..Len(todo)} /\ j \notin js
  BY <1>2
<1>. QED BY <1>2, <1>3, <1>4 DEF Queued

\* A session is as healthy as before when jobs of it are called off.
LEMMA CallsOffHealthy ==
    ASSUME IInv, NEW s \in Sessions, CallsOff(s), ses'[s] = ses[s], manager.pc \notin ServePcs,
           hal[s].pc \in {"abort job", "destroy"}, hal'[s].pc \in {"stop", "abort"}, move.s # s,
           ses[s].job \in ongoing => ses[s].job \in ongoing' \/ hal'[s].pc = "abort",
           \A j \in JobsOf(s) : jobs[j].over => jobs'[j].over,
           ses[s].job \in ongoing => jobs'[ses[s].job].over = jobs[ses[s].job].over
    PROVE  HealthyInv(s)'
<1>. SUFFICES ASSUME Healthy(s)'
              PROVE  HealthyInv(s)'
  BY DEF HealthyInv
<1>1. Healthy(s) /\ HealthyInv(s) /\ ActiveInv(s)
  BY DEF Healthy, IInv, LifeInv, CallsOff
<1>2. ~Serves(s) /\ ~Serves(s)'
  BY DEF Serves, CallsOff
<1>3. Quiet(s)
  BY <1>1, MovedQuiet
<1>4. ses[s].abort # "init"
  BY <1>1 DEF ActiveInv
<1>5. JobsOf(s)' = JobsOf(s)
  BY DEF JobsOf, CallsOff
<1>6. omx' = omx /\ move' = move
  BY DEF CallsOff
<1>7. AskedInv(s)'
  BY <1>1, <1>3, <1>6 DEF HealthyInv, AskedInv, Quiet
<1>8. MovingInv(s)'
  BY <1>6 DEF MovingInv
<1>9. ses[s].job # 0 => ses[s].job \in JobIds
  BY DEF IInv, JobsInv, JobsOf
<1>10. EncodingInv(s)'
  <2>. SUFFICES ASSUME omx[s].busy \/ omx[s].at = "filled"
                PROVE  EncodingInv(s)'
    BY <1>6 DEF EncodingInv
  <2>1. /\ ses[s].encoding /\ ses[s].avail = 0
        /\ ses[s].job # 0 /\ jobs[ses[s].job].cbs = 0 /\ ~jobs[ses[s].job].over
        /\ omx[s].state = "Executing" /\ (omx[s].busy => omx[s].at = "idle")
        /\ ses[s].abort # "done"
        /\ ses[s].abort = "none" => ses[s].job \in ongoing \/ hal[s].pc = "abort"
    BY <1>1 DEF HealthyInv, EncodingInv
  <2>2. ses[s].abort = "none"
    <3>1. ses[s].abort \in {"none", "init", "done"}
      BY DEF IInv, TypeInv, SessionRec
    <3>. QED BY <1>4, <2>1, <3>1
  <2>3. ses[s].job \in ongoing
    BY <2>1, <2>2
  <2>4. /\ jobs'[ses[s].job].cbs = jobs[ses[s].job].cbs
        /\ jobs'[ses[s].job].over = jobs[ses[s].job].over
    BY <1>9, <2>1, <2>3 DEF CallsOff
  <2>. QED BY <1>2, <1>6, <2>1, <2>3, <2>4 DEF EncodingInv
<1>11. ReturnInv(s)'
  <2>. SUFFICES ASSUME omx[s].at \in {"remove", "giveback"}
                PROVE  ReturnInv(s)'
    BY <1>6 DEF ReturnInv
  <2>1. /\ ses[s].encoding /\ ses[s].avail = 0 /\ ses[s].job # 0 /\ ses[s].abort = "none"
        /\ omx[s].at = "remove" => ses[s].job \in ongoing \/ hal[s].pc = "abort"
        /\ omx[s].at = "giveback" => ses[s].job \notin ongoing
    BY <1>1 DEF HealthyInv, ReturnInv
  <2>2. ongoing' \subseteq ongoing
    BY DEF CallsOff
  <2>. QED BY <1>2, <1>6, <2>1, <2>2 DEF ReturnInv
<1>12. HandleInv(s)'
  <2>1. ongoing' \subseteq ongoing
    BY DEF CallsOff
  <2>. QED BY <1>1, <1>2, <1>6, <2>1 DEF HealthyInv, HandleInv
<1>13. ServedInv(s)'
  BY <1>2 DEF ServedInv
<1>14. AbortingInv(s)'
  BY DEF AbortingInv
<1>15. OnceInv(s)'
  <2>1. \A i \in JobsOf(s) : /\ jobs'[i].cbs = jobs[i].cbs
                             /\ ~jobs'[i].over => ~jobs[i].over
    BY DEF JobsOf, CallsOff
  <2>. QED BY <1>1, <1>5, <2>1 DEF HealthyInv, OnceInv
<1>. QED BY <1>7, <1>8, <1>10, <1>11, <1>12, <1>13, <1>14, <1>15 DEF HealthyInv

\* mm_jpeg_abort_job takes the job off ongoing_job_q and aborts the session, or takes it
\* off job_queue, or finds it in neither.
LEMMA AbortJobInv ==
    ASSUME IInv, NEW s \in Sessions, AbortJob(s)
    PROVE  IInv'
<1>1. /\ hal[s].pc = "abort job" /\ jobLock = NULL
      /\ UNCHANGED <<sem, ses, inprogress, omx, move, manager, faults>>
  BY DEF AbortJob, At
<1>2. PICK j \in JobsOf(s) : j = hal[s].job
  BY <1>1 DEF IInv, LifeInv, LeftInv
<1>3. /\ j \in JobIds /\ j # 0 /\ jobs[j].s = s
  <2>1. 0 \notin JobIds
    BY DEF IInv, TypeInv, JobIds
  <2>. QED BY <2>1 DEF JobsOf
<1>4. /\ hal[s].pc \notin LockPcs /\ hal[s].pc \in IntfPcs
      /\ hal[s].pc \notin CreatePcs \cup FreePcs
      /\ "stop" \in HalPcs /\ "abort" \in HalPcs
  BY <1>1 DEF LockPcs, IntfPcs, AbortPcs, CreatePcs, FreePcs, HalPcs
<1>5. manager.pc \notin ServePcs /\ move.s = NULL
  BY <1>1, LockFree
<1>6. move.s # s
  BY <1>5, JpegConstants
<1>7. LifeInv(s) /\ JobsInv /\ TypeInv
  BY DEF IInv
<1>8. ses[s].job # 0 => ses[s].job \in JobIds
  BY <1>7 DEF JobsInv, JobsOf
<1>9. CASE j \notin ongoing
  <2>1. /\ todo' = Without(todo, {j}) /\ Over({j}) /\ Goto(s, "stop") /\ intf' = NULL
        /\ UNCHANGED <<ongoing, jobLock>>
    BY <1>2, <1>9 DEF AbortJob
  <2>2. /\ hal' \in [Sessions -> HalRec] /\ \A t \in Sessions : t # s => hal'[t] = hal[t]
        /\ \A t \in Sessions : hal'[t].left \subseteq JobIds
        /\ hal'[s].pc = "stop" /\ hal'[s].job = hal[s].job /\ hal'[s].left = hal[s].left
    BY <1>4, <1>7, <2>1, GotoEffect
  <2>3. /\ jobs' \in Seq(JobRec) /\ Len(jobs') = Len(jobs) /\ JobIds' = JobIds
        /\ \A i \in JobIds : /\ jobs'[i].s = jobs[i].s /\ jobs'[i].cbs = jobs[i].cbs
                             /\ i # j => jobs'[i] = jobs[i]
                             /\ i = j => jobs'[i].over
    BY <1>7, <2>1, OverEffect
  <2>4. /\ todo' \in Seq(Nat)
        /\ \A i, k \in 1..Len(todo') : todo'[i] = todo'[k] => i = k
        /\ Queued' \subseteq Queued /\ j \notin Queued'
    BY <1>7, <2>1, QueueWithout
  <2>5. IntfStep(s) /\ JobLockStep(s)
    BY <1>4, <2>1, <2>2 DEF IntfStep, JobLockStep, IntfPcs, LockPcs, CreatePcs, AbortPcs,
                            FreePcs
  <2>6. hal'[s].pc \notin CreatePcs \cup FreePcs \cup {"open"}
    BY <2>2 DEF CreatePcs, FreePcs
  <2>7. CallsOff(s)
    BY <1>1, <1>3, <1>4, <1>9, <2>1, <2>2, <2>3, <2>4, <2>5, <2>6 DEF CallsOff
  <2>8. TypeInv'
    <3>1. intf' \in Sessions \cup {NULL}
      BY <2>1
    <3>2. ongoing' \subseteq JobIds' /\ jobLock' \in Threads
      BY <1>7, <2>1, <2>3 DEF TypeInv
    <3>3. \A t \in Sessions : hal'[t].left \subseteq JobIds'
      BY <2>2, <2>3
    <3>. QED BY <1>1, <1>7, <2>2, <2>3, <2>4, <3>1, <3>2, <3>3 DEF TypeInv
  <2>9. JobsOf(s)' = JobsOf(s)
    BY <2>3 DEF JobsOf
  <2>10. LifeInv(s)'
    <3>1. ActiveInv(s)'
      BY <1>1, <1>7, <2>2 DEF LifeInv, ActiveInv, FreePcs, CreatePcs
    <3>2. GoneInv(s)'
      BY <2>2 DEF GoneInv, Destroyed, GonePcs, IdlePcs, FreePcs, CreatePcs, AbortPcs
    <3>3. LeftInv(s)'
      BY <1>7, <2>2, <2>9 DEF LifeInv, LeftInv, AbortPcs
    <3>. QED BY <3>1, <3>2, <3>3 DEF LifeInv
  <2>11. HealthyInv(s)'
    <3>1. \A i \in JobsOf(s) : jobs[i].over => jobs'[i].over
      BY <2>3 DEF JobsOf
    <3>2. ses[s].job \in ongoing => jobs'[ses[s].job].over = jobs[ses[s].job].over
      <4>1. ses[s].job \in ongoing => ses[s].job \in JobIds /\ ses[s].job # j
        BY <1>7, <1>9 DEF TypeInv
      <4>. QED BY <2>3, <4>1
    <3>. QED BY <1>1, <1>5, <1>6, <2>1, <2>2, <2>7, <3>1, <3>2, CallsOffHealthy
  <2>12. Stopping(s)'
    BY <2>2 DEF Stopping
  <2>. QED BY <1>1, <1>5, <2>7, <2>8, <2>10, <2>11, <2>12, CallsOffInv
<1>10. CASE j \in ongoing
  <2>1. /\ ongoing' = ongoing \ {j} /\ jobLock' = s /\ Goto(s, "abort")
        /\ UNCHANGED <<jobs, todo, intf>>
    BY <1>2, <1>10 DEF AbortJob
  <2>2. /\ hal' \in [Sessions -> HalRec] /\ \A t \in Sessions : t # s => hal'[t] = hal[t]
        /\ \A t \in Sessions : hal'[t].left \subseteq JobIds
        /\ hal'[s].pc = "abort" /\ hal'[s].job = hal[s].job /\ hal'[s].left = hal[s].left
    BY <1>4, <1>7, <2>1, GotoEffect
  <2>3. JobIds' = JobIds /\ JobsOf(s)' = JobsOf(s) /\ Queued' = Queued
    BY <2>1 DEF JobIds, JobsOf, Queued
  <2>4. IntfStep(s) /\ JobLockStep(s)
    BY <1>1, <1>4, <2>1, <2>2 DEF IntfStep, JobLockStep, IntfPcs, LockPcs, CreatePcs,
                                  AbortPcs, FreePcs
  <2>5. CallsOff(s)
    <3>1. \A i, k \in 1..Len(todo') : todo'[i] = todo'[k] => i = k
      BY <1>7, <2>1 DEF JobsInv
    <3>2. hal'[s].pc \notin CreatePcs \cup FreePcs \cup {"open"}
      BY <2>2 DEF CreatePcs, FreePcs
    <3>. QED BY <1>1, <1>3, <1>4, <2>1, <2>2, <2>3, <2>4, <3>1, <3>2 DEF CallsOff
  <2>6. TypeInv'
    <3>1. ongoing' \subseteq JobIds' /\ jobLock' \in Threads
      BY <1>7, <2>1, <2>3 DEF TypeInv, Threads
    <3>2. \A t \in Sessions : hal'[t].left \subseteq JobIds'
      BY <2>2, <2>3
    <3>. QED BY <1>1, <1>7, <2>1, <2>2, <3>1, <3>2 DEF TypeInv
  <2>7. LifeInv(s)'
    <3>1. ActiveInv(s)'
      BY <1>1, <1>7, <2>2 DEF LifeInv, ActiveInv, FreePcs, CreatePcs
    <3>2. GoneInv(s)'
      BY <1>2, <1>3, <2>2 DEF GoneInv, Destroyed, GonePcs, IdlePcs, FreePcs, CreatePcs
    <3>3. LeftInv(s)'
      <4>1. j \notin Queued' /\ j \notin ongoing'
        BY <1>7, <1>10, <2>1, <2>3 DEF JobsInv
      <4>. QED BY <1>2, <1>7, <2>2, <2>3, <4>1 DEF LifeInv, LeftInv
    <3>. QED BY <3>1, <3>2, <3>3 DEF LifeInv
  <2>8. HealthyInv(s)'
    BY <1>1, <1>5, <1>6, <2>1, <2>2, <2>5, CallsOffHealthy
  <2>9. Stopping(s)'
    BY <2>2 DEF Stopping
  <2>. QED BY <1>1, <1>5, <2>5, <2>6, <2>7, <2>8, <2>9, CallsOffInv
<1>. QED BY <1>9, <1>10

\* mm_jpeg_destroy_session takes the jobs of the session off both queues, then aborts it.
LEMMA DestroyJobsInv ==
    ASSUME IInv, NEW s \in Sessions, DestroyJobs(s)
    PROVE  IInv'
<1>1. /\ hal[s].pc = "destroy" /\ jobLock = NULL /\ jobLock' = s
      /\ todo' = Without(todo, JobsOf(s)) /\ ongoing' = ongoing \ JobsOf(s) /\ Goto(s, "abort")
      /\ UNCHANGED <<jobs, sem, intf, ses, inprogress, omx, move, manager, faults>>
  BY DEF DestroyJobs, At
<1>2. /\ hal[s].pc \notin LockPcs /\ hal[s].pc \in IntfPcs
      /\ hal[s].pc \notin CreatePcs \cup FreePcs
      /\ "abort" \in HalPcs
  BY <1>1 DEF LockPcs, IntfPcs, AbortPcs, CreatePcs, FreePcs, HalPcs
<1>3. manager.pc \notin ServePcs /\ move.s = NULL
  BY <1>1, LockFree
<1>4. move.s # s
  BY <1>3, JpegConstants
<1>5. LifeInv(s) /\ JobsInv /\ TypeInv
  BY DEF IInv
<1>6. /\ hal' \in [Sessions -> HalRec] /\ \A t \in Sessions : t # s => hal'[t] = hal[t]
      /\ \A t \in Sessions : hal'[t].left \subseteq JobIds
      /\ hal'[s].pc = "abort" /\ hal'[s].job = hal[s].job /\ hal'[s].left = hal[s].left
  BY <1>1, <1>2, <1>5, GotoEffect
<1>7. hal[s].job = 0
  BY <1>1, <1>5 DEF LifeInv, LeftInv
<1>8. JobIds' = JobIds /\ JobsOf(s)' = JobsOf(s)
  BY <1>1 DEF JobIds, JobsOf
<1>9. /\ todo' \in Seq(Nat)
      /\ \A i, k \in 1..Len(todo') : todo'[i] = todo'[k] => i = k
      /\ Queued' \subseteq Queued /\ \A j \in Queued' : j \notin JobsOf(s)
  BY <1>1, <1>5, QueueWithout
<1>10. IntfStep(s) /\ JobLockStep(s)
  BY <1>1, <1>2, <1>6 DEF IntfStep, JobLockStep, IntfPcs, LockPcs, CreatePcs, AbortPcs, FreePcs
<1>11. CallsOff(s)
  <2>1. hal'[s].pc \notin CreatePcs \cup FreePcs \cup {"open"}
    BY <1>6 DEF CreatePcs, FreePcs
  <2>2. \A j \in JobIds : jobs[j].s # s => j \notin JobsOf(s)
    BY DEF JobsOf
  <2>. QED BY <1>1, <1>2, <1>6, <1>8, <1>9, <1>10, <2>1, <2>2 DEF CallsOff
<1>12. TypeInv'
  <2>1. ongoing' \subseteq JobIds' /\ jobLock' \in Threads
    BY <1>1, <1>5, <1>8 DEF TypeInv, Threads
  <2>2. \A t \in Sessions : hal'[t].left \subseteq JobIds'
    BY <1>6, <1>8
  <2>. QED BY <1>1, <1>5, <1>6, <1>9, <2>1, <2>2 DEF TypeInv
<1>13. LifeInv(s)'
  <2>1. ActiveInv(s)'
    BY <1>1, <1>5, <1>6 DEF LifeInv, ActiveInv, FreePcs, CreatePcs
  <2>2. GoneInv(s)'
    <3>1. ~Serves(s)'
      BY <1>1, <1>3 DEF Serves
    <3>2. NoJobs(s)'
      BY <1>1, <1>8, <1>9, <3>1 DEF NoJobs
    <3>. QED BY <1>6, <3>2 DEF GoneInv, IdlePcs, CreatePcs
  <2>3. LeftInv(s)'
    BY <1>5, <1>6, <1>7, <1>8 DEF LifeInv, LeftInv
  <2>. QED BY <2>1, <2>2, <2>3 DEF LifeInv
<1>14. HealthyInv(s)'
  BY <1>1, <1>3, <1>4, <1>6, <1>11, CallsOffHealthy
<1>15. Stopping(s)'
  BY <1>6 DEF Stopping
<1>. QED BY <1>1, <1>3, <1>11, <1>12, <1>13, <1>14, <1>15, CallsOffInv

-----------------------------------------------------------------------------
(* The calls that bring something new: a job, a session *)

\* mm_jpeg_start_job appends the job to job_queue and posts job_sem.
LEMMA StartJobInv ==
    ASSUME IInv, NEW s \in Sessions, StartJob(s)
    PROVE  IInv'
<1>. DEFINE n == Len(jobs) + 1
            new == [s |-> s, cbs |-> 0, status |-> "none", over |-> FALSE]
<1>1. /\ hal[s].pc = "open" /\ Len(jobs) < MaxJobs
      /\ jobs' = Append(jobs, new) /\ todo' = Append(todo, n) /\ sem' = sem + 1
      /\ UNCHANGED <<ongoing, intf, jobLock, ses, inprogress, omx, move, manager, hal, faults>>
  BY DEF StartJob, At, locks
<1>2. TypeInv /\ JobsInv /\ LifeInv(s) /\ HealthyInv(s)
  BY DEF IInv
<1>3. /\ jobs \in Seq(JobRec) /\ Len(jobs) \in Nat /\ todo \in Seq(Nat) /\ sem \in Nat
      /\ Len(todo) \in Nat /\ JobIds = 1..Len(jobs)
  BY <1>2 DEF TypeInv, JobIds
<1>4. /\ new \in JobRec /\ new.s = s /\ new.cbs = 0 /\ ~new.over
  BY DEF JobRec
<1>. HIDE DEF new
<1>5. /\ jobs' \in Seq(JobRec) /\ Len(jobs') = n /\ jobs'[n] = new
      /\ \A i \in JobIds : jobs'[i] = jobs[i]
  BY <1>1, <1>3, <1>4
<1>6. n \in Nat /\ n # 0 /\ n \notin JobIds /\ JobIds' = JobIds \cup {n} /\ n <= MaxJobs
  <2>1. JobIds' = 1..n
    BY <1>5 DEF JobIds
  <2>. QED BY <1>1, <1>3, <2>1, JpegConstants
<1>7. /\ todo' \in Seq(Nat) /\ Len(todo') = Len(todo) + 1 /\ todo'[Len(todo) + 1] = n
      /\ \A i \in 1..Len(todo) : todo'[i] = todo[i]
  BY <1>1, <1>3, <1>6
<1>. HIDE DEF n
<1>8. sem' \in Nat /\ sem' > 0
  <2>1. sem' = sem + 1
    BY <1>1
  <2>. QED BY <1>3, <2>1
<1>9. Queued' = Queued \cup {n}
  <2>1. \A i \in 1..Len(todo') : i \in 1..Len(todo) \/ i = Len(todo) + 1
    BY <1>3, <1>7
  <2>2. 1..Len(todo) \subseteq 1..Len(todo') /\ Len(todo) + 1 \in 1..Len(todo')
    BY <1>3, <1>7
  <2>3. Queued' \subseteq Queued \cup {n}
    BY <1>7, <2>1 DEF Queued
  <2>4. Queued \subseteq Queued' /\ n \in Queued'
    BY <1>7, <2>2 DEF Queued
  <2>. QED BY <2>3, <2>4
<1>10. /\ JobsOf(s)' = JobsOf(s) \cup {n}
       /\ \A t \in Sessions : t # s => JobsOf(t)' = JobsOf(t)
  BY <1>4, <1>5, <1>6 DEF JobsOf
<1>11. ongoing \subseteq JobIds /\ \A i \in JobIds : jobs[i].s \in Sessions
  BY <1>2, JobFacts
<1>12. manager.pc \in ServePcs => manager.job \in JobIds
  BY <1>2, <1>3 DEF JobsInv, TypeInv, ManagerRec
<1>13. \A t \in Sessions : Serves(t)' <=> Serves(t)
  BY <1>1, <1>5, <1>12 DEF Serves
<1>14. TypeInv'
  <2>1. ongoing' \subseteq JobIds' /\ \A t \in Sessions : hal'[t].left \subseteq JobIds'
    BY <1>1, <1>2, <1>6 DEF TypeInv
  <2>2. manager'.job <= Len(jobs')
    <3>1. manager.job \in Nat /\ manager.job <= Len(jobs)
      BY <1>2 DEF TypeInv, ManagerRec
    <3>. QED BY <1>1, <1>3, <1>5, <3>1 DEF n
  <2>. QED BY <1>1, <1>2, <1>5, <1>6, <1>7, <1>8, <2>1, <2>2 DEF TypeInv
<1>15. LocksInv'
  BY <1>1 DEF IInv, LocksInv
<1>16. MoveInv'
  <2>1. move.s # NULL => move.s \in Sessions
    BY <1>2 DEF TypeInv, MoveRec
  <2>. QED BY <1>1, <1>13, <2>1 DEF IInv, MoveInv
<1>17. ConfigInv'
  BY <1>1 DEF IInv, ConfigInv, OneConfigured
<1>18. JobsInv'
  <2>1. ASSUME NEW i \in 1..Len(todo'), NEW k \in 1..Len(todo'), todo'[i] = todo'[k]
        PROVE  i = k
    <3>1. \A p \in 1..Len(todo) : todo'[p] \in JobIds
      <4>1. \A p \in 1..Len(todo) : todo[p] \in Queued
        BY DEF Queued
      <4>. QED BY <1>2, <1>7, <4>1 DEF JobsInv
    <3>2. \A p, q \in 1..Len(todo) : todo'[p] = todo'[q] => p = q
      BY <1>2, <1>7 DEF JobsInv
    <3>3. \A p \in 1..Len(todo) : todo'[p] # todo'[Len(todo) + 1]
      BY <1>6, <1>7, <3>1
    <3>4. \A p \in 1..Len(todo') : p \in 1..Len(todo) \/ p = Len(todo) + 1
      BY <1>3, <1>7
    <3>. QED BY <2>1, <3>2, <3>3, <3>4
  <2>2. ASSUME NEW j \in Queued'
        PROVE  /\ j \in JobIds' /\ j \notin ongoing'
               /\ jobs'[j].cbs = 0 /\ ~jobs'[j].over /\ ses'[jobs'[j].s].job # j
    <3>1. CASE j = n
      <4>1. ses[s].job # n
        BY <1>2, <1>6 DEF JobsInv, JobsOf
      <4>. QED BY <1>1, <1>4, <1>5, <1>6, <1>11, <3>1, <4>1
    <3>2. CASE j \in Queued
      <4>1. /\ j \in JobIds /\ j \notin ongoing
            /\ jobs[j].cbs = 0 /\ ~jobs[j].over /\ ses[jobs[j].s].job # j
        BY <1>2, <3>2 DEF JobsInv
      <4>. QED BY <1>1, <1>5, <1>6, <4>1
    <3>. QED BY <1>9, <2>2, <3>1, <3>2
  <2>3. \A j \in ongoing' : ~jobs'[j].over /\ ses'[jobs'[j].s].job = j
    BY <1>1, <1>2, <1>5, <1>11 DEF JobsInv
  <2>4. \A t \in Sessions : ses'[t].job # 0 => ses'[t].job \in JobsOf(t)'
    BY <1>1, <1>2, <1>10 DEF JobsInv
  <2>5. manager'.pc = "lock" => ongoing' = {}
    BY <1>1, <1>2 DEF JobsInv
  <2>6. manager'.pc \in ServePcs =>
          manager'.job # 0 /\ ongoing' \subseteq {manager'.job} /\ ses'[Serving'].job = manager'.job
    BY <1>1, <1>2, <1>5, <1>12 DEF JobsInv, Serving, Job
  <2>. QED BY <2>1, <2>2, <2>3, <2>4, <2>5, <2>6 DEF JobsInv
<1>19. ASSUME NEW t \in Sessions, t # s
       PROVE  LifeInv(t)' /\ HealthyInv(t)'
  <2>1. \A j \in JobsOf(t) : /\ jobs'[j] = jobs[j] /\ (j \in ongoing' <=> j \in ongoing)
                             /\ j \in Queued' => j \in Queued
    BY <1>1, <1>5, <1>6, <1>9 DEF JobsOf
  <2>2. Untouched(t)
    BY <1>1, <1>10, <1>13, <1>19, <2>1 DEF Untouched
  <2>. QED BY <1>14, <2>2, LifeUntouched, HealthyUntouched DEF IInv
<1>20. LifeInv(s)'
  <2>1. ActiveInv(s)'
    BY <1>1, <1>2 DEF LifeInv, ActiveInv
  <2>2. GoneInv(s)'
    BY <1>1 DEF GoneInv, Destroyed, GonePcs, IdlePcs, FreePcs, CreatePcs, AbortPcs
  <2>3. LeftInv(s)'
    BY <1>1, <1>2, <1>10 DEF LifeInv, LeftInv, AbortPcs
  <2>. QED BY <2>1, <2>2, <2>3 DEF LifeInv
<1>21. HealthyInv(s)'
  <2>. SUFFICES ASSUME Healthy(s)'
                PROVE  HealthyInv(s)'
    BY DEF HealthyInv
  <2>1. Healthy(s)
    BY <1>1 DEF Healthy
  <2>2. ses[s].job # 0 => ses[s].job \in JobIds
    BY <1>2 DEF JobsInv, JobsOf
  <2>3. AskedInv(s)'
    <3>1. /\ Quiet(s)' <=> Quiet(s)
          /\ MoveAsked(s)' <=> MoveAsked(s)
          /\ AbortAsked(s)' <=> AbortAsked(s)
      BY <1>1 DEF Quiet, MoveAsked, AbortAsked
    <3>. QED BY <1>1, <1>2, <2>1, <3>1 DEF HealthyInv, AskedInv
  <2>4. MovingInv(s)'
    <3>1. (Quiet(s)' <=> Quiet(s)) /\ (MoveAsked(s)' <=> MoveAsked(s))
      BY <1>1 DEF Quiet, MoveAsked
    <3>. QED BY <1>1, <1>2, <2>1, <3>1 DEF HealthyInv, MovingInv
  <2>5. EncodingInv(s)'
    BY <1>1, <1>2, <1>5, <1>13, <2>1, <2>2 DEF HealthyInv, EncodingInv
  <2>6. ReturnInv(s)' /\ HandleInv(s)'
    BY <1>1, <1>2, <1>13, <2>1 DEF HealthyInv, ReturnInv, HandleInv
  <2>7. ServedInv(s)'
    BY <1>1, <1>2, <1>5, <1>12, <1>13, <2>1 DEF HealthyInv, ServedInv, Serves
  <2>8. AbortingInv(s)'
    BY <1>1 DEF AbortingInv
  <2>9. OnceInv(s)'
    <3>1. \A j \in JobsOf(s) : jobs'[j] = jobs[j]
      BY <1>5 DEF JobsOf
    <3>2. \A j \in JobsOf(s) : ~jobs[j].over => jobs[j].cbs <= 1
      BY <1>2, <2>1 DEF HealthyInv, OnceInv
    <3>3. jobs'[n].cbs <= 1
      BY <1>4, <1>5
    <3>. QED BY <1>10, <3>1, <3>2, <3>3 DEF OnceInv
  <2>. QED BY <2>3, <2>4, <2>5, <2>6, <2>7, <2>8, <2>9 DEF HealthyInv
<1>22. WakeInv'
  <2>1. NoLostWakeup'
    BY <1>8 DEF NoLostWakeup
  <2>2. WakeInv
    BY DEF IInv
  <2>. QED BY <1>1, <1>8, <2>1, <2>2 DEF WakeInv
<1>. QED BY <1>14, <1>15, <1>16, <1>17, <1>18, <1>19, <1>20, <1>21, <1>22 DEF IInv

\* mm_jpeg_create_session: the session is in use, available if nothing failed, and its
\* component is told to go to Idle if no other session is configured.
LEMMA CreateInv ==
    ASSUME IInv, NEW s \in Sessions, Create(s)
    PROVE  IInv'
<1>. DEFINE fresh == [Session EXCEPT !.active = TRUE, !.avail = 1]
<1>1. /\ hal[s].pc = "closed" /\ intf = NULL /\ jobLock = NULL /\ ses' = [ses EXCEPT ![s] = fresh]
      /\ UNCHANGED <<jobs, todo, ongoing, sem, inprogress, manager>>
  BY DEF Create, At, queues
<1>2. TypeInv /\ JobsInv /\ LifeInv(s)
  BY DEF IInv
<1>3. manager.pc \notin ServePcs /\ move.s = NULL /\ \A t \in Sessions : ~Serves(t)
  BY <1>1, LockFree
<1>4. /\ ~ses[s].config /\ omx[s].at = "idle" /\ ~omx[s].busy /\ omx[s].cmds = <<>>
  BY <1>1, <1>2 DEF LifeInv, ActiveInv
<1>5. NoJobs(s) /\ \A j \in JobsOf(s) : jobs[j].over
  BY <1>1, <1>2 DEF LifeInv, GoneInv, Destroyed, GonePcs, IdlePcs
<1>6. /\ fresh \in SessionRec /\ fresh.active /\ fresh.abort = "none" /\ ~fresh.encoding
      /\ ~fresh.config /\ ~fresh.pending /\ ~fresh.err /\ ~fresh.lock
      /\ fresh.avail = 1 /\ fresh.job = 0
  BY DEF Session, SessionRec
<1>. HIDE DEF fresh
<1>7. /\ ses' \in [Sessions -> SessionRec] /\ ses'[s] = fresh
      /\ \A t \in Sessions : t # s => ses'[t] = ses[t]
  BY <1>1, <1>2, <1>6 DEF TypeInv
<1>8. /\ ses'[s].active /\ ses'[s].abort = "none" /\ ~ses'[s].encoding
       /\ ~ses'[s].config /\ ~ses'[s].pending /\ ~ses'[s].err /\ ~ses'[s].lock
       /\ ses'[s].avail = 1 /\ ses'[s].avail > 0 /\ ses'[s].avail <= 1 /\ ses'[s].job = 0
  BY <1>6, <1>7
<1>9. \A t \in Sessions : t # s => ses'[t] = ses[t]
  BY <1>7
<1>10. 0 \notin ongoing
  <2>1. 0 \notin JobIds
    BY <1>2 DEF TypeInv, JobIds
  <2>. QED BY <1>2, <2>1 DEF TypeInv
<1>11. hal[s].lives + 1 \in Nat
  <2>1. hal[s].lives \in Nat
    BY <1>2 DEF TypeInv, HalRec
  <2>. QED BY <2>1
<1>12. PICK pc \in {"open", "create execute", "unusable"} :
        /\ NewLife(s, pc)
        /\ pc = "open" => UNCHANGED <<intf, jobLock, omx, move, faults>>
        /\ pc = "create execute" =>
             /\ inprogress = NULL /\ Moving(s, "Idle", "send") /\ intf' = s /\ jobLock' = s
             /\ UNCHANGED <<omx, faults>>
        /\ pc = "unusable" => Fault(s) /\ UNCHANGED <<intf, jobLock, move>>
  BY DEF Create, locks
<1>13. /\ hal' \in [Sessions -> HalRec] /\ \A t \in Sessions : t # s => hal'[t] = hal[t]
      /\ \A t \in Sessions : hal'[t].left \subseteq JobIds
      /\ hal'[s].pc = pc /\ hal'[s].job = hal[s].job /\ hal'[s].left = hal[s].left
  <2>1. hal \in [Sessions -> HalRec] /\ \A t \in Sessions : hal[t].left \subseteq JobIds
    BY <1>2 DEF TypeInv
  <2>2. pc \in HalPcs
    BY DEF HalPcs, IntfPcs, LockPcs, CreatePcs
  <2>3. hal' = [hal EXCEPT ![s].pc = pc, ![s].lives = @ + 1]
    BY <1>12 DEF NewLife
  <2>4. hal' \in [Sessions -> HalRec]
    BY <1>11, <2>1, <2>2, <2>3 DEF HalRec
  <2>. QED BY <2>1, <2>3, <2>4 DEF HalRec
<1>14. /\ omx' \in [Sessions -> ComponentRec] /\ faults' \in 0..MaxFaults
       /\ \A t \in Sessions : t # s => omx'[t] = omx[t]
       /\ omx'[s].at = "idle" /\ ~omx'[s].busy /\ omx'[s].cmds = <<>>
  <2>1. CASE pc = "unusable"
    BY <1>2, <1>4, <1>12, <2>1, FaultEffect
  <2>2. CASE pc # "unusable"
    BY <1>2, <1>4, <1>12, <2>2 DEF TypeInv
  <2>. QED BY <2>1, <2>2
<1>15. /\ move' \in MoveRec /\ move'.s \in {s, NULL}
       /\ move'.s = s => move'.at = "send" /\ pc = "create execute"
       /\ move'.s = NULL => move' = move
  <2>1. CASE pc = "create execute"
    <3>1. move' = Move(s, "Idle", "send")
      BY <1>12, <2>1 DEF Moving
    <3>2. "Idle" \in States /\ "send" \in {"none", "send", "free"}
      BY DEF States
    <3>3. s # NULL
      BY JpegConstants
    <3>4. /\ Move(s, "Idle", "send") \in MoveRec /\ Move(s, "Idle", "send").s = s
          /\ Move(s, "Idle", "send").at = "send"
      BY <3>2, NewMove, ZenonT(30)
    <3>5. move' \in MoveRec /\ move'.s = s /\ move'.at = "send"
      BY <3>1, <3>4
    <3>. QED BY <2>1, <3>3, <3>5
  <2>2. CASE pc # "create execute"
    BY <1>2, <1>3, <1>12, <2>2, JpegConstants DEF TypeInv
  <2>. QED BY <2>1, <2>2
<1>16. IntfStep(s) /\ JobLockStep(s)
  <2>1. hal[s].pc \notin IntfPcs /\ hal[s].pc \notin LockPcs
    BY <1>1 DEF IntfPcs, LockPcs, CreatePcs, AbortPcs, FreePcs
  <2>2. /\ pc \in IntfPcs <=> pc = "create execute"
        /\ pc \in LockPcs <=> pc = "create execute"
    BY DEF IntfPcs, LockPcs, CreatePcs, AbortPcs, FreePcs
  <2>. QED BY <1>1, <1>12, <1>13, <2>1, <2>2 DEF IntfStep, JobLockStep
<1>17. LocksInv' /\ intf' \in Sessions \cup {NULL} /\ jobLock' \in Threads
  BY <1>1, <1>13, <1>16, LocksKept
<1>18. /\ Queued' = Queued /\ JobIds' = JobIds
       /\ \A t \in Sessions : JobsOf(t)' = JobsOf(t) /\ (Serves(t)' <=> Serves(t))
  BY <1>1, SameQueues
<1>19. TypeInv'
  BY <1>1, <1>2, <1>7, <1>13, <1>14, <1>15, <1>17, <1>18 DEF TypeInv
<1>20. MoveInv'
  <2>1. move'.s = NULL => move'.at \in {"off", "ok"}
    BY <1>3, <1>15 DEF IInv, MoveInv
  <2>2. move'.s # NULL => move'.at # "off" /\ hal'[move'.s].pc \in CreatePcs \cup FreePcs
    BY <1>13, <1>15 DEF CreatePcs
  <2>. QED BY <2>1, <2>2 DEF MoveInv
<1>21. ConfigInv'
  <2>1. ConfigInv
    BY DEF IInv
  <2>2. OneConfigured'
    BY <1>1, <1>4, <1>8, <1>9, <2>1 DEF ConfigInv, OneConfigured
  <2>3. \A t \in Sessions : hal'[t].pc \in CreatePcs => inprogress = NULL
    BY <1>12, <1>13, <2>1 DEF ConfigInv, CreatePcs
  <2>. QED BY <1>1, <1>3, <2>2, <2>3 DEF ConfigInv, ServePcs
<1>22. JobsInv'
  <2>1. \A j \in JobIds : jobs[j].s \in Sessions
    BY <1>2, JobFacts
  <2>2. ASSUME NEW j \in Queued
        PROVE  /\ j \in JobIds /\ j \notin ongoing
               /\ jobs[j].cbs = 0 /\ ~jobs[j].over /\ ses'[jobs[j].s].job # j
    <3>1. /\ j \in JobIds /\ j \notin ongoing
          /\ jobs[j].cbs = 0 /\ ~jobs[j].over /\ ses[jobs[j].s].job # j
      BY <1>2, <2>2 DEF JobsInv
    <3>2. jobs[j].s # s
      BY <1>5, <2>2, <3>1 DEF NoJobs, JobsOf
    <3>. QED BY <1>7, <2>1, <3>1, <3>2
  <2>3. ASSUME NEW j \in ongoing
        PROVE  ~jobs[j].over /\ ses'[jobs[j].s].job = j
    <3>1. ~jobs[j].over /\ ses[jobs[j].s].job = j /\ j \in JobIds
      BY <1>2, <2>3 DEF JobsInv, TypeInv
    <3>2. jobs[j].s # s
      BY <1>5, <2>3, <3>1 DEF NoJobs, JobsOf
    <3>. QED BY <1>7, <2>1, <3>1, <3>2
  <2>4. \A t \in Sessions : ses'[t].job # 0 => ses'[t].job \in JobsOf(t)
    BY <1>2, <1>8, <1>9 DEF JobsInv
  <2>5. /\ \A i, k \in 1..Len(todo) : todo[i] = todo[k] => i = k
        /\ manager.pc = "lock" => ongoing = {}
    BY <1>2 DEF JobsInv
  <2>. QED BY <1>1, <1>3, <1>18, <2>2, <2>3, <2>4, <2>5 DEF JobsInv
<1>23. ASSUME NEW t \in Sessions, t # s
       PROVE  LifeInv(t)' /\ HealthyInv(t)'
  <2>1. move.s = t \/ move'.s = t => move' = move
    BY <1>3, <1>15, <1>23, JpegConstants
  <2>2. Untouched(t)
    BY <1>1, <1>7, <1>13, <1>14, <1>18, <1>23, <2>1 DEF Untouched
  <2>. QED BY <1>19, <2>2, LifeUntouched, HealthyUntouched DEF IInv
<1>24. LifeInv(s)'
  <2>1. ActiveInv(s)'
    <3>1. hal'[s].pc \in {"open", "create execute", "unusable"}
      BY <1>13
    <3>. QED BY <1>14, <1>8, <3>1 DEF ActiveInv, FreePcs, CreatePcs
  <2>2. NoJobs(s)'
    BY <1>1, <1>5, <1>18 DEF NoJobs
  <2>3. GoneInv(s)'
    BY <1>1, <1>5, <1>18, <2>2 DEF GoneInv
  <2>4. LeftInv(s)'
    BY <1>2, <1>13, <1>18 DEF LifeInv, LeftInv, AbortPcs
  <2>. QED BY <2>1, <2>3, <2>4 DEF LifeInv
<1>25. HealthyInv(s)'
  <2>1. Quiet(s)'
    BY <1>14 DEF Quiet
  <2>2. AskedInv(s)'
    BY <1>14, <1>8, <2>1 DEF AskedInv
  <2>3. MovingInv(s)'
    BY <1>14, <1>15, <2>1 DEF MovingInv
  <2>4. EncodingInv(s)' /\ ReturnInv(s)'
    BY <1>14 DEF EncodingInv, ReturnInv
  <2>5. HandleInv(s)'
    <3>1. ~Serves(s)'
      BY <1>3, <1>18
    <3>. QED BY <1>1, <1>8, <1>10, <3>1 DEF HandleInv
  <2>6. ServedInv(s)'
    BY <1>3, <1>18 DEF ServedInv
  <2>7. AbortingInv(s)'
    BY <1>13 DEF AbortingInv
  <2>8. OnceInv(s)'
    BY <1>1, <1>5, <1>18 DEF OnceInv
  <2>. QED BY <2>2, <2>3, <2>4, <2>5, <2>6, <2>7, <2>8 DEF HealthyInv
<1>26. WakeInv'
  <2>1. WakeInv
    BY DEF IInv
  <2>2. ~Stopping(s) /\ omx[s].at \notin {"remove", "giveback"}
    BY <1>1, <1>4 DEF Stopping
  <2>3. NoLostWakeup'
    <3>. SUFFICES ASSUME manager'.pc = "wait", sem' = 0, todo' # <<>>, ongoing' = {}
                  PROVE  \E t \in Sessions : omx'[t].at \in {"remove", "giveback"} \/ Stopping(t)'
      BY DEF NoLostWakeup
    <3>1. PICK t \in Sessions : omx[t].at \in {"remove", "giveback"} \/ Stopping(t)
      BY <1>1, <2>1 DEF WakeInv, NoLostWakeup
    <3>2. t # s
      BY <2>2, <3>1
    <3>3. omx'[t] = omx[t] /\ (Stopping(t)' <=> Stopping(t))
      BY <1>13, <1>14, <3>2 DEF Stopping
    <3>. QED BY <3>1, <3>3
  <2>4. ASSUME NEW t \in Sessions, hal'[t].pc = "open"
        PROVE  \/ ses'[t].avail > 0 \/ ses'[t].job \in ongoing'
               \/ omx'[t].at \in {"remove", "giveback"}
    <3>1. CASE t = s
      BY <1>8, <3>1
    <3>2. CASE t # s
      BY <1>1, <1>7, <1>13, <1>14, <2>1, <2>4, <3>2 DEF WakeInv
    <3>. QED BY <3>1, <3>2
  <2>. QED BY <1>1, <1>3, <2>3, <2>4 DEF WakeInv
<1>. QED BY <1>17, <1>19, <1>20, <1>21, <1>22, <1>23, <1>24, <1>25, <1>26 DEF IInv

-----------------------------------------------------------------------------
(* The invariant, and what it says *)

\* Nothing is created: the library was loaded just now.
LEMMA InitInv ==
    ASSUME Init
    PROVE  IInv
<1>1. /\ jobs = <<>> /\ todo = <<>> /\ ongoing = {} /\ sem = 0
      /\ intf = NULL /\ jobLock = NULL /\ inprogress = NULL
      /\ manager = [pc |-> "wait", job |-> 0] /\ move = NoMove /\ faults = 0
  BY DEF Init
<1>2. \A s \in Sessions :
        /\ ses[s] = Session /\ omx[s] = Component
        /\ hal[s] = [pc |-> "closed", job |-> 0, left |-> {}, lives |-> 0]
  BY DEF Init
<1>3. \A s \in Sessions :
        /\ ~ses[s].active /\ ~ses[s].config /\ ses[s].abort = "none" /\ ~ses[s].lock
        /\ ses[s].job = 0
        /\ omx[s].at = "idle" /\ ~omx[s].busy /\ omx[s].cmds = <<>>
        /\ hal[s].pc = "closed" /\ hal[s].left = {}
  BY <1>2 DEF Session, Component
<1>4. JobIds = {} /\ Queued = {} /\ \A s \in Sessions : JobsOf(s) = {}
  <2>1. JobIds = {}
    BY <1>1 DEF JobIds
  <2>2. Queued = {}
    BY <1>1 DEF Queued
  <2>. QED BY <2>1, <2>2 DEF JobsOf
<1>5. \A s \in Sessions : s # NULL /\ s # mgr
  BY JpegConstants
<1>6. manager.pc = "wait" /\ manager.pc \notin ServePcs /\ manager.job = 0
  BY <1>1 DEF ServePcs
<1>7. \A s \in Sessions : /\ hal[s].pc \notin IntfPcs /\ hal[s].pc \notin LockPcs
                          /\ hal[s].pc \notin CreatePcs \cup AbortPcs \cup FreePcs
  BY <1>3 DEF IntfPcs, LockPcs, CreatePcs, AbortPcs, FreePcs
<1>8. TypeInv
  <2>1. jobs \in Seq(JobRec) /\ Len(jobs) <= MaxJobs /\ todo \in Seq(Nat) /\ Len(jobs) = 0
    BY <1>1, JpegConstants
  <2>2. ses \in [Sessions -> SessionRec]
    BY DEF Init, Session, SessionRec
  <2>3. omx \in [Sessions -> ComponentRec]
    BY DEF Init, Component, ComponentRec, States, AnswerPcs
  <2>4. hal \in [Sessions -> HalRec]
    <3>1. "closed" \in HalPcs
      BY DEF HalPcs
    <3>. QED BY <3>1 DEF Init, HalRec
  <2>5. manager \in ManagerRec /\ manager.job <= Len(jobs)
    BY <1>1, <2>1 DEF ManagerRec
  <2>6. move \in MoveRec
    BY <1>1, NoMoveFacts
  <2>7. faults \in 0..MaxFaults
    BY <1>1, JpegConstants
  <2>8. \A s \in Sessions : hal[s].left \subseteq JobIds
    BY <1>3
  <2>9. ongoing \subseteq JobIds /\ sem \in Nat /\ intf \in Sessions \cup {NULL}
        /\ jobLock \in Threads /\ inprogress \in Sessions \cup {NULL}
    BY <1>1 DEF Threads
  <2>. QED BY <2>1, <2>2, <2>3, <2>4, <2>5, <2>6, <2>7, <2>8, <2>9 DEF TypeInv
<1>9. LocksInv
  BY <1>1, <1>5, <1>6, <1>7, JpegConstants DEF LocksInv
<1>10. MoveInv
  BY <1>1, NoMoveFacts DEF MoveInv
<1>11. ConfigInv
  BY <1>1, <1>3, <1>5, <1>6 DEF ConfigInv, OneConfigured
<1>12. JobsInv
  BY <1>1, <1>3, <1>4, <1>6 DEF JobsInv
<1>13. ASSUME NEW s \in Sessions
       PROVE  LifeInv(s) /\ HealthyInv(s)
  <2>1. ActiveInv(s)
    BY <1>3, <1>7 DEF ActiveInv, FreePcs
  <2>2. GoneInv(s)
    BY <1>1, <1>4, <1>6 DEF GoneInv, NoJobs, Serves
  <2>3. LeftInv(s)
    BY <1>3, <1>7 DEF LeftInv
  <2>. QED BY <1>3, <2>1, <2>2, <2>3 DEF LifeInv, HealthyInv, Healthy
<1>14. WakeInv
  BY <1>1, <1>3, <1>6 DEF WakeInv, NoLostWakeup
<1>. QED BY <1>8, <1>9, <1>10, <1>11, <1>12, <1>13, <1>14 DEF IInv

\* The invariant is about the state only.
LEMMA StutterInv ==
    ASSUME IInv, UNCHANGED vars
    PROVE  IInv'
<1>1. UNCHANGED <<jobs, todo, ongoing, sem, intf, jobLock, ses, inprogress, omx, move,
                  manager, hal, faults>>
  BY DEF vars, queues, locks
<1>2. TypeInv'
  BY <1>1 DEF IInv, TypeInv, JobIds
<1>3. LocksInv' /\ MoveInv' /\ ConfigInv'
  BY <1>1 DEF IInv, LocksInv, MoveInv, ConfigInv, OneConfigured, Serves
<1>4. /\ Queued' = Queued /\ JobIds' = JobIds
      /\ \A t \in Sessions : JobsOf(t)' = JobsOf(t) /\ (Serves(t)' <=> Serves(t))
  BY <1>1, SameQueues
<1>5. JobsInv'
  BY <1>1, <1>4 DEF IInv, JobsInv, Serving, Job
<1>6. ASSUME NEW t \in Sessions
      PROVE  LifeInv(t)' /\ HealthyInv(t)'
  <2>1. Untouched(t)
    BY <1>1, <1>4 DEF Untouched
  <2>. QED BY <1>2, <2>1, LifeUntouched, HealthyUntouched DEF IInv
<1>7. WakeInv'
  BY <1>1 DEF IInv, WakeInv, NoLostWakeup, Stopping, Returning
<1>. QED BY <1>2, <1>3, <1>5, <1>6, <1>7 DEF IInv

\* Every step of the encoder keeps the invariant.
LEMMA NextInv ==
    ASSUME IInv, [Next]_vars
    PROVE  IInv'
<1>1. CASE Manager
  BY <1>1, MgrWaitInv, MgrCheckInv, MgrTakeInv, EncodeInv, UnloadInv, UnloadedInv, ConfigureInv,
     ExecuteInv, ConfiguredInv, JobParamsInv, FeedInv, JobErrorInv, JobErrorDoneInv DEF Manager
<1>2. CASE MoveSend \/ MoveCheck \/ MoveWake
  BY <1>2, MoveSendInv, MoveCheckInv, MoveWakeInv
<1>3. ASSUME NEW s \in Sessions, OmxReports(s)
      PROVE  IInv'
  BY <1>3, ChangeInv, EncodedInv, fbdInv, EventErrorInv, EventCompleteInv, JobRemoveInv,
     JobGiveBackInv DEF OmxReports
<1>4. ASSUME NEW s \in Sessions, HalReturns(s)
      PROVE  IInv'
  BY <1>4, CreateExecuteInv, CreatedInv, NextAbortInv, AbortJobInv, AbortJobEndInv, AbortInv,
     AbortSendInv, AbortWaitInv, AbortedInv, DestroyInv, DestroyJobsInv, DestroyIdleInv,
     DestroyUnloadInv, DestroyFreeInv, DestroyEndInv DEF HalReturns
<1>5. ASSUME NEW s \in Sessions, Create(s) \/ StartJob(s) \/ Stop(s)
      PROVE  IInv'
  BY <1>5, CreateInv, StartJobInv, StopInv
<1>6. CASE UNCHANGED vars
  BY <1>6, StutterInv
<1>. QED BY <1>1, <1>2, <1>3, <1>4, <1>5, <1>6 DEF Next

\* The invariant holds in every state of every execution.
THEOREM Inductive == Spec => []IInv
<1>1. Init => IInv
  BY InitInv
<1>2. IInv /\ [Next]_vars => IInv'
  BY NextInv
<1>. QED BY <1>1, <1>2, PTL DEF Spec

\* What the invariant says of a state is more than EncoderExact.
LEMMA InvExact ==
    ASSUME IInv
    PROVE  EncoderExact
<1>1. TypeInv /\ JobsInv
  BY DEF IInv
<1>2. ongoing \subseteq JobIds /\ \A j \in JobIds : jobs[j] \in JobRec /\ jobs[j].s \in Sessions
  BY <1>1, JobFacts
<1>3. TypeOK
  <2>1. todo \in Seq(JobIds)
    <3>1. \A i \in 1..Len(todo) : todo[i] \in JobIds
      <4>1. \A i \in 1..Len(todo) : todo[i] \in Queued
        BY DEF Queued
      <4>. QED BY <1>1, <4>1 DEF JobsInv
    <3>. QED BY <1>1, <3>1 DEF TypeInv
  <2>2. \A j \in JobIds : jobs[j].s \in Sessions /\ jobs[j].cbs \in Nat /\ jobs[j].over \in BOOLEAN
    BY <1>2 DEF JobRec
  <2>3. intf \in Threads /\ jobLock \in Threads /\ inprogress \in Sessions \cup {NULL}
    BY <1>1 DEF TypeInv, Threads
  <2>4. manager.job \in 0..MaxJobs
    <3>1. /\ manager.job \in Nat /\ manager.job <= Len(jobs)
          /\ Len(jobs) <= MaxJobs /\ Len(jobs) \in Nat
      BY <1>1 DEF TypeInv, ManagerRec
    <3>. QED BY <3>1, JpegConstants
  <2>5. ASSUME NEW s \in Sessions
        PROVE  /\ ses[s].abort \in {"none", "init", "done"} /\ ses[s].avail \in Nat
               /\ omx[s].state \in States /\ omx[s].cmds \in Seq(States)
    BY <1>1 DEF TypeInv, SessionRec, ComponentRec
  <2>6. ASSUME NEW s \in Sessions
        PROVE  ses[s].job \in 0..Len(jobs)
    <3>1. ses[s].job = 0 \/ ses[s].job \in JobIds
      BY <1>1 DEF JobsInv, JobsOf
    <3>2. Len(jobs) \in Nat
      BY <1>1 DEF TypeInv
    <3>. QED BY <3>1, <3>2 DEF JobIds
  <2>. QED BY <1>1, <2>1, <2>2, <2>3, <2>4, <2>5, <2>6 DEF TypeInv, TypeOK
<1>4. \A s \in Sessions : omx[s].busy => ses[s].active
  BY DEF IInv, LifeInv, ActiveInv
<1>5. AnsweredOnce
  <2>1. ASSUME NEW j \in JobIds, Healthy(jobs[j].s), ~jobs[j].over
        PROVE  jobs[j].cbs <= 1
    <3>1. PICK s \in Sessions : s = jobs[j].s
      BY <1>2
    <3>2. OnceInv(s) /\ j \in JobsOf(s)
      BY <2>1, <3>1 DEF IInv, HealthyInv, JobsOf
    <3>. QED BY <2>1, <3>2 DEF OnceInv
  <2>. QED BY <2>1 DEF AnsweredOnce
<1>6. NoStrayEncode
  <2>1. ASSUME NEW s \in Sessions, omx[s].busy, ~omx[s].failed
        PROVE  \E j \in JobsOf(s) : jobs[j].cbs = 0 /\ ~jobs[j].over
    <3>1. EncodingInv(s)
      BY <1>4, <2>1 DEF IInv, HealthyInv, Healthy
    <3>2. ses[s].job # 0 /\ jobs[ses[s].job].cbs = 0 /\ ~jobs[ses[s].job].over
      BY <2>1, <3>1 DEF EncodingInv
    <3>. QED BY <1>1, <3>2 DEF JobsInv
  <2>. QED BY <2>1 DEF NoStrayEncode
<1>7. HandleInOnePlace
  <2>1. ASSUME NEW s \in Sessions, Healthy(s)
        PROVE  /\ ses[s].avail <= 1
               /\ ses[s].avail = 1 => ongoing \cap JobsOf(s) = {} /\ ~omx[s].busy
    <3>1. HandleInv(s) /\ EncodingInv(s)
      BY <2>1 DEF IInv, HealthyInv
    <3>2. \A j \in ongoing : j \in JobsOf(s) => ses[s].job = j
      BY <1>1 DEF JobsInv, JobsOf
    <3>. QED BY <3>1, <3>2 DEF HandleInv, EncodingInv
  <2>. QED BY <2>1 DEF HandleInOnePlace
<1>8. OneConfigured /\ NoLostWakeup
  BY DEF IInv, ConfigInv, WakeInv
<1>. QED BY <1>3, <1>5, <1>6, <1>7, <1>8 DEF EncoderExact

\* For every set of sessions, every number of jobs, lives and failures: no job that the
\* HAL waits for is answered twice and no component encodes without one, unless the
\* component failed; the handle of a session is in one place, one session is configured,
\* and the job manager does not sleep over work (the queues, locks and callbacks of
\* mm_jpeg.c).
THEOREM EncoderStaysExact == Spec => []EncoderExact
<1>1. IInv => EncoderExact
  BY InvExact
<1>. QED BY <1>1, Inductive, PTL

\* Who calls jpeg_cb, and of which job: fbd, event_handler and the error path of the
\* manager; they call for a job that is not over and of a session that is not aborted.
LEMMA AnswerStep ==
    ASSUME IInv, Next, NEW j \in JobIds, jobs'[j].cbs # jobs[j].cbs
    PROVE  omx[jobs[j].s].failed \/ (~jobs[j].over /\ ses[jobs[j].s].abort = "none")
<1>1. PICK s \in Sessions : s = jobs[j].s
  BY JobFacts DEF IInv
<1>2. TypeInv /\ JobsInv /\ LifeInv(s) /\ HealthyInv(s)
  BY DEF IInv
<1>3. omx[s].at # "idle" => ses[s].active
  BY <1>2 DEF LifeInv, ActiveInv
<1>4. jobs' # jobs
  OBVIOUS
<1>5. \A js : ~Over(js)
  BY <1>2, OverEffect
<1>6. ASSUME NEW k, NEW status, CallBack(k, status)
      PROVE  k = j
  BY <1>2, <1>6 DEF CallBack, TypeInv, JobIds
<1>7. CASE Manager
  <2>1. CallBack(Job, "error") /\ manager.pc = "error"
    BY <1>4, <1>7 DEF Manager, MgrWait, MgrCheck, MgrTake, Encode, Unload, Unloaded, Configure,
       Execute, Configured, JobParams, Feed, JobError, JobErrorDone, queues
  <2>2. manager.job = j /\ Serves(s)
    BY <1>1, <1>6, <2>1 DEF Job, Serves, ServePcs
  <2>3. ses[s].active
    BY <1>2, <2>2 DEF LifeInv, ActiveInv, GoneInv, Destroyed, NoJobs, GonePcs, IdlePcs
  <2>4. omx[s].failed \/ (j \in ongoing /\ ses[s].abort = "none")
    BY <1>2, <2>1, <2>2, <2>3 DEF HealthyInv, Healthy, ServedInv
  <2>. QED BY <1>1, <1>2, <2>4 DEF JobsInv
<1>8. CASE MoveSend \/ MoveCheck \/ MoveWake
  BY <1>4, <1>8 DEF MoveSend, MoveCheck, MoveWake, queues
<1>9. ASSUME NEW t \in Sessions, OmxReports(t)
      PROVE  omx[s].failed \/ (~jobs[j].over /\ ses[s].abort = "none")
  <2>1. \/ fbd(t) /\ ses[t].abort = "none" /\ CallBack(ses[t].job, "done")
        \/ EventError(t) /\ CallBack(ses[t].job, "error")
    BY <1>4, <1>9 DEF OmxReports, Change, Encoded, fbd, EventError, EventComplete, JobRemove,
       JobGiveBack, AbortedBy, queues
  <2>2. ses[t].job = j /\ j # 0
    BY <1>2, <1>6, <2>1 DEF TypeInv, JobIds
  <2>3. t = s
    BY <1>1, <1>2, <2>2 DEF JobsInv, JobsOf
  <2>4. CASE fbd(t) /\ ses[t].abort = "none"
    <3>1. omx[s].at = "filled" /\ ses[s].abort = "none"
      BY <2>3, <2>4 DEF fbd
    <3>2. Healthy(s) => ~jobs[j].over
      BY <1>2, <2>2, <2>3, <3>1 DEF HealthyInv, EncodingInv
    <3>. QED BY <1>3, <3>1, <3>2 DEF Healthy
  <2>5. CASE EventError(t)
    <3>1. omx[s].at = "error"
      BY <2>3, <2>5 DEF EventError
    <3>2. ~Healthy(s)
      BY <1>2, <3>1 DEF HealthyInv, AskedInv
    <3>. QED BY <1>3, <3>1, <3>2 DEF Healthy
  <2>. QED BY <2>1, <2>4, <2>5
<1>10. ASSUME NEW t \in Sessions, HalReturns(t)
       PROVE  FALSE
  BY <1>4, <1>5, <1>10 DEF HalReturns, CreateExecute, Created, NextAbort, AbortJob,
                           AbortJobEnd, Abort,
     AbortSend, AbortWait, Aborted, Destroy, DestroyJobs, DestroyIdle, DestroyUnload, DestroyFree,
     DestroyEnd, queues
<1>11. ASSUME NEW t \in Sessions, Create(t) \/ StartJob(t) \/ Stop(t)
       PROVE  FALSE
  <2>1. CASE Create(t) \/ Stop(t)
    BY <1>4, <2>1 DEF Create, Stop, queues
  <2>2. CASE StartJob(t)
    <3>1. jobs' = Append(jobs, [s |-> t, cbs |-> 0, status |-> "none", over |-> FALSE])
      BY <2>2 DEF StartJob
    <3>2. jobs \in Seq(JobRec) /\ j \in 1..Len(jobs)
      BY <1>2 DEF TypeInv, JobIds
    <3>3. jobs'[j] = jobs[j]
      BY <3>1, <3>2
    <3>. QED BY <3>3
  <2>. QED BY <1>11, <2>1, <2>2
<1>. QED BY <1>1, <1>7, <1>8, <1>9, <1>10, <1>11 DEF Next

\* Once mm_jpeg_abort_job or mm_jpeg_destroy_session returned, and from the moment the
\* abort began to wait, the HAL hears nothing more of the job, unless the component
\* failed at something.
THEOREM SilentWhenOver == Spec => SilentOnceOver
<1>1. IInv /\ [Next]_vars =>
        [\A j \in JobIds : jobs'[j].cbs # jobs[j].cbs
           => \/ omx[jobs[j].s].failed
              \/ ~jobs[j].over /\ ses[jobs[j].s].abort = "none"]_vars
  <2>. SUFFICES ASSUME IInv, Next, NEW j \in JobIds, jobs'[j].cbs # jobs[j].cbs
                PROVE  omx[jobs[j].s].failed \/ (~jobs[j].over /\ ses[jobs[j].s].abort = "none")
    OBVIOUS
  <2>. QED BY AnswerStep
<1>. QED BY <1>1, Inductive, PTL DEF Spec, SilentOnceOver
==============================================================================
