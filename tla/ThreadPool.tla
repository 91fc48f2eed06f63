----------------------------- MODULE ThreadPool -----------------------------
(***************************************************************************)
(* A thread pool (libtsload/src/threadpool.c, worker.c): the control thread*)
(* wakes up every quantum, takes the next step of every started workload   *)
(* and deals its requests to the workers' lists; workers run the requests  *)
(* and push the finished chain to the report queue.  Beside them:          *)
(* configuration threads that attach workloads, feeders that provide       *)
(* steps, tsload_unconfigure_workload and tp_destroy.                      *)
(*                                                                         *)
(* One action is what a thread does between two points where another       *)
(* thread can see or change what it works on.  A critical section that no  *)
(* other thread can enter half-way is one action.                          *)
(***************************************************************************)
EXTENDS StepRing, Sequences, FiniteSets

CONSTANTS NThreads,    \* tp_num_threads
          Workloads,
          Rejected,    \* workloads whose parameters do not parse
          Reporting,   \* workloads whose module may report progress while
                       \* it configures them
          Unconfigured,\* workloads that may be unconfigured
          Counts,      \* request counts a feeder may give a step
          MaxSteps,    \* bound: steps provided, by workload
          Destroys     \* whether the pool may be destroyed

ASSUME PoolAssumption ==
  /\ NThreads \in Nat \ {0} /\ MaxSteps \in [Workloads -> Nat]
  /\ Counts \subseteq Nat
  /\ Rejected \subseteq Workloads /\ Reporting \subseteq Workloads
  /\ Unconfigured \subseteq Workloads
  /\ Destroys \in BOOLEAN

Tids == 0 .. NThreads - 1

VARIABLES
  wl,         \* each workload: its structure, how far its configuration has
              \* come (phase), the counts accepted for it (provided, history),
              \* the place in tsload_unconfigure_workload (removal) and
              \* whether its memory is freed
  pool,       \* the pool's structure; mutex is the holder of tp_mutex
  ctl,        \* control thread: its place and its local variables
  worker,     \* each worker: its structure, its place, its local variables,
              \* and what it pushed to the report queue (reported)
  destroyer,  \* place of the thread in tp_destroy
  fault       \* undefined behaviour or a failed assertion was reached

vars == <<wl, pool, ctl, worker, destroyer, fault>>

Free == "free"

(* Slips the runs must notice: a list change not marked, ids numbered      *)
(* without the remainder, new requests put before the old ones, a worker   *)
(* that takes its list without the mutex, one that never sleeps, one that  *)
(* reports what it has run and drops the rest.                             *)
SlipUnmarked == pool.wl_changed
SlipFirstId(n, t) == t * (n \div NThreads)
SlipAtHead(old, new) == new \o old
SlipLockIgnored(t) == TRUE
SlipNeverSleeps(t) == FALSE
SlipOnlyRun(t) == SubSeq(worker[t].chain, 1, worker[t].ran)

Init ==
  /\ wl = [w \in Workloads |->
             [phase |-> "new", notified |-> FALSE, tp |-> TRUE, status |-> "NEW",
              last_step |-> -1, current_step |-> -1,
              rqs_per_step |-> [s \in Slots |-> Unset],
              provided |-> <<>>, removal |-> "none", freed |-> FALSE]]
  /\ pool = [wl_list |-> <<>>, wl_count |-> 0, wl_changed |-> FALSE,
             is_dead |-> FALSE, mutex |-> Free]
  /\ ctl = [pc |-> "top", i |-> 0, step |-> <<>>, wl_count |-> 0]
  /\ worker = [t \in Tids |->
                 [pc |-> "top", state |-> "SLEEPING", requests |-> <<>>,
                  rq_mutex |-> Free, chain |-> <<>>, ran |-> 0,
                  do_sleep |-> FALSE, reported |-> <<>>]]
  /\ destroyer = "idle"
  /\ fault = "none"
-----------------------------------------------------------------------------
(* Configuration threads and feeders.                                      *)

Alive == fault = "none"    \* every thread's step needs a process that runs

ListChanged == TRUE        \* what tp_attach and tp_detach_nolock record

Phase(w, from, to) ==
  wl[w].phase = from /\ wl' = [wl EXCEPT ![w].phase = to]

(* wlt_wl_config calls wl_notify with its progress, or never does.         *)
ReportsProgress(w) ==
  /\ Alive /\ w \in Reporting \ Rejected /\ wl[w].phase = "new" /\ ~wl[w].freed
  /\ wl' = [wl EXCEPT ![w].status = "CONFIGURING"]
  /\ UNCHANGED <<pool, ctl, worker, destroyer, fault>>

(* wl_config_thread attaches the configured workload to its pool: it reads *)
(* wl_tp for the call and the assertion in it, without the mutex ...       *)
ConfigReadsPool(w) ==
  /\ Alive /\ w \notin Rejected /\ ~wl[w].freed /\ wl[w].tp
  /\ Phase(w, "new", "attaching")
  /\ UNCHANGED <<pool, ctl, worker, destroyer, fault>>

(* ... which tp_attach then takes.                                         *)
tp_attach(w) ==
  /\ Alive /\ ~wl[w].freed /\ pool.mutex = Free /\ destroyer # "done"
  /\ Phase(w, "attaching", "attached")
  /\ pool' = [pool EXCEPT !.wl_list = Append(@, w), !.wl_count = @ + 1,
                          !.wl_changed = ListChanged]
  /\ UNCHANGED <<ctl, worker, destroyer, fault>>

(* Then it sets wl_is_configured, from where the workload can be started,  *)
(* and wl_notify sets its status, maybe after the control thread has.      *)
Configured(w) ==
  /\ Alive /\ ~wl[w].freed /\ Phase(w, "attached", "configured")
  /\ UNCHANGED <<pool, ctl, worker, destroyer, fault>>

Unattached == {"new", "attaching", "rejected"}    \* phases before tp_attach

NotifyConfigured(w) ==
  /\ Alive /\ wl[w].phase \notin Unattached \cup {"attached"}
  /\ ~wl[w].notified /\ ~wl[w].freed
  /\ wl' = [wl EXCEPT ![w].notified = TRUE, ![w].status = "SUCCESS"]
  /\ UNCHANGED <<pool, ctl, worker, destroyer, fault>>

(* tp_destroy or tsload_unconfigure_workload has freed the workload under  *)
(* its configuration thread, or the latter has set its wl_tp to NULL.      *)
ConfiguresFreed(w) ==
  /\ Alive /\ w \notin Rejected /\ ~wl[w].notified
  /\ wl[w].freed \/ (wl[w].phase = "new" /\ ~wl[w].tp)
  /\ fault' = IF wl[w].freed THEN "freed_workload" ELSE "detached_workload"
  /\ UNCHANGED <<wl, pool, ctl, worker, destroyer>>

(* json_workload_proc destroys a workload whose parameters do not parse.   *)
(* wl_destroy detaches it from a pool it was never attached to.            *)
RejectParams(w) ==
  /\ Alive /\ wl[w].phase = "new" /\ w \in Rejected
  /\ pool.mutex = Free /\ destroyer # "done"
  /\ wl' = [wl EXCEPT ![w].phase = "rejected", ![w].tp = FALSE]
  /\ pool' = [pool EXCEPT !.wl_count = @ - 1, !.wl_changed = ListChanged]
  /\ UNCHANGED <<ctl, worker, destroyer, fault>>

tsload_start_workload(w) ==
  /\ Alive /\ ~wl[w].freed /\ Phase(w, "configured", "scheduled")
  /\ UNCHANGED <<pool, ctl, worker, destroyer, fault>>

StartTimeComes(w) ==
  /\ Alive /\ Phase(w, "scheduled", "due")
  /\ UNCHANGED <<pool, ctl, worker, destroyer, fault>>

(* An accepted wl_provide_step; a refused one changes nothing.             *)
wl_provide_step(w, n) ==
  LET id == wl[w].last_step + 1
  IN /\ Alive /\ wl[w].phase \notin Unattached /\ ~wl[w].freed
     /\ id < MaxSteps[w]
     /\ ProvideResult(wl[w].last_step, wl[w].current_step, id) = "OK"
     /\ wl' = [wl EXCEPT ![w].last_step = id,
                         ![w].rqs_per_step[Slot(id)] = n,
                         ![w].provided = Append(@, n)]
     /\ UNCHANGED <<pool, ctl, worker, destroyer, fault>>

wl_is_started(w) == wl[w].phase = "due"
-----------------------------------------------------------------------------
(* The control thread.                                                     *)

Ctl(from, to) == ctl.pc = from /\ ctl' = [ctl EXCEPT !.pc = to]

CtlTop ==
  /\ Alive /\ Ctl("top", IF pool.is_dead THEN "exited" ELSE "lock")
  /\ UNCHANGED <<wl, pool, worker, destroyer, fault>>

(* assert(wli < wl_count), for every workload of the list; a negative      *)
(* count is already no size that mp_malloc could serve.                    *)
StepArrayFits == Len(pool.wl_list) <= pool.wl_count

(* Takes tp_mutex and refreshes the step array if the list has changed.    *)
CtlLock ==
  /\ Alive /\ ctl.pc = "lock" /\ pool.mutex = Free
  /\ pool.wl_changed => StepArrayFits
  /\ pool' = [pool EXCEPT !.mutex = "ctl", !.wl_changed = FALSE]
  /\ ctl' = [pc |-> IF pool.wl_count = 0 THEN "release" ELSE "rqlock",
             i |-> 0,
             step |-> IF pool.wl_changed THEN pool.wl_list ELSE ctl.step,
             wl_count |-> pool.wl_count]
  /\ UNCHANGED <<wl, worker, destroyer, fault>>

CtlAssertFails ==
  /\ Alive /\ ctl.pc = "lock" /\ pool.mutex = Free
  /\ pool.wl_changed /\ ~StepArrayFits
  /\ fault' = "step_array"
  /\ UNCHANGED <<wl, pool, ctl, worker, destroyer>>

(* A loop of the control thread over the workers: i counts them, and after *)
(* the last one the thread goes on at another place.                       *)
NextTid(to) ==
  ctl' = IF ctl.i < NThreads - 1 THEN [ctl EXCEPT !.i = @ + 1]
         ELSE [ctl EXCEPT !.i = 0, !.pc = to]

(* Takes the workers' w_rq_mutex one after another.                        *)
CtlLockWorker ==
  /\ Alive /\ ctl.pc = "rqlock" /\ worker[ctl.i].rq_mutex = Free
  /\ worker' = [worker EXCEPT ![ctl.i].rq_mutex = "ctl"]
  /\ NextTid("step")
  /\ UNCHANGED <<wl, pool, destroyer, fault>>

(* The share of worker t in n requests: the quotient, and one of the       *)
(* remainder for each of the first workers.                                *)
Share(n, t) == (n \div NThreads) + (IF t < n % NThreads THEN 1 ELSE 0)

(* The id of worker t's first request: ids are given worker by worker.     *)
FirstId(n, t) ==
  t * (n \div NThreads) + (IF t < n % NThreads THEN t ELSE n % NThreads)

NewRequests(w, s, n, t) ==
  [k \in 1 .. Share(n, t) |-> [wl |-> w, step |-> s, id |-> FirstId(n, t) + k - 1]]

AtTail(old, new) == old \o new        \* list_add_tail, request by request

(* rand() may return 0; then no worker ever gets the remainder.            *)
MayDrawZero(n) == n % NThreads # 0

tp_distribute_requests(w, s, n) ==
  worker' = [t \in Tids |->
               [worker[t] EXCEPT !.requests = AtTail(@, NewRequests(w, s, n, t))]]

(* The workload the control thread looks at, i being wli, and its step.    *)
Current == ctl.step[ctl.i + 1]
NextStep == wl[Current].current_step + 1
AtWorkload == ctl.pc = "step" /\ ctl.i < ctl.wl_count
AtStarted == AtWorkload /\ ~wl[Current].freed /\ wl_is_started(Current)

CtlSkip ==
  /\ Alive /\ AtWorkload /\ ~wl[Current].freed /\ ~wl_is_started(Current)
  /\ ctl' = [ctl EXCEPT !.i = @ + 1]
  /\ UNCHANGED <<wl, pool, worker, destroyer, fault>>

(* A step is left: wl_advance_step, wl_notify, tp_distribute_requests.     *)
CtlRunStep ==
  /\ Alive /\ AtStarted /\ ~NoSteps(wl[Current].last_step, NextStep)
  /\ tp_distribute_requests(Current, NextStep,
                            wl[Current].rqs_per_step[Slot(NextStep)])
  /\ wl' = [wl EXCEPT ![Current].current_step = @ + 1,
                      ![Current].status = "RUNNING"]
  /\ ctl' = [ctl EXCEPT !.i = @ + 1]
  /\ UNCHANGED <<pool, destroyer, fault>>

(* distribute_requests loops for ever, with every mutex of the pool held.  *)
(* The model ends there.                                                   *)
CtlDrawsZero ==
  /\ Alive /\ AtStarted /\ ~NoSteps(wl[Current].last_step, NextStep)
  /\ MayDrawZero(wl[Current].rqs_per_step[Slot(NextStep)])
  /\ fault' = "endless_draw"
  /\ UNCHANGED <<wl, pool, ctl, worker, destroyer>>

(* No step is left: the workload is reported finished ...                  *)
CtlFinish ==
  /\ Alive /\ AtStarted /\ NoSteps(wl[Current].last_step, NextStep)
  /\ wl' = [wl EXCEPT ![Current].current_step = @ + 1,
                      ![Current].status = "FINISHED"]
  /\ Ctl("step", "detach")
  /\ UNCHANGED <<pool, worker, destroyer, fault>>

(* ... and then detached.  The node of a workload that was never attached  *)
(* is linked to itself.                                                    *)
list_del(list, w) ==
  LET At == {j \in DOMAIN list : list[j] = w}
      k == CHOOSE j \in At : TRUE
  IN IF At = {} THEN list
     ELSE SubSeq(list, 1, k - 1) \o SubSeq(list, k + 1, Len(list))

tp_detach_nolock ==
  /\ Alive /\ ctl.pc = "detach"
  /\ ctl' = [ctl EXCEPT !.pc = "step", !.i = @ + 1]
  /\ wl' = [wl EXCEPT ![Current].tp = FALSE]
  /\ pool' = [pool EXCEPT !.wl_list = list_del(@, Current),
                          !.wl_count = @ - 1, !.wl_changed = ListChanged]
  /\ UNCHANGED <<worker, destroyer, fault>>

(* The step array names a workload that was freed.                         *)
CtlUsesFreed ==
  /\ Alive /\ AtWorkload /\ wl[Current].freed
  /\ fault' = "freed_workload"
  /\ UNCHANGED <<wl, pool, ctl, worker, destroyer>>

(* Releases all the workers' mutexes.                                      *)
CtlUnlockWorkers ==
  /\ Alive /\ ctl.pc = "step" /\ ~(ctl.i < ctl.wl_count)
  /\ ctl' = [ctl EXCEPT !.pc = "interrupt", !.i = 0]
  /\ worker' = [t \in Tids |-> [worker[t] EXCEPT !.rq_mutex = Free]]
  /\ UNCHANGED <<wl, pool, destroyer, fault>>

CtlInterrupt ==
  /\ Alive /\ ctl.pc = "interrupt"
  /\ worker' = [worker EXCEPT ![ctl.i].state = "INTERRUPT"]
  /\ NextTid("notify")
  /\ UNCHANGED <<wl, pool, destroyer, fault>>

(* Wakes the workers that wait, and only those.                            *)
event_notify_all ==
  worker' = [t \in Tids |->
    [worker[t] EXCEPT !.pc = IF @ = "waiting" THEN "top" ELSE @]]

CtlNotify ==
  /\ Alive /\ Ctl("notify", "release")
  /\ event_notify_all
  /\ UNCHANGED <<wl, pool, destroyer, fault>>

(* Releases tp_mutex; the quantum's rest is slept.                         *)
CtlRelease ==
  /\ Alive /\ Ctl("release", "top")
  /\ pool' = [pool EXCEPT !.mutex = Free]
  /\ UNCHANGED <<wl, worker, destroyer, fault>>

Control ==
  \/ CtlTop \/ CtlLock \/ CtlAssertFails \/ CtlLockWorker \/ CtlSkip
  \/ CtlRunStep \/ CtlDrawsZero \/ CtlFinish \/ tp_detach_nolock \/ CtlUsesFreed
  \/ CtlUnlockWorkers \/ CtlInterrupt \/ CtlNotify \/ CtlRelease
-----------------------------------------------------------------------------
(* Worker threads.                                                         *)

elsewhere == <<wl, pool, ctl, destroyer>>

WTop(t) ==
  /\ Alive /\ worker[t].pc = "top"
  /\ worker' = [worker EXCEPT ![t].pc = IF pool.is_dead THEN "exited" ELSE "lock"]
  /\ UNCHANGED <<elsewhere, fault>>

CanLock(t) == worker[t].rq_mutex = Free

WLock(t) ==
  /\ Alive /\ worker[t].pc = "lock" /\ CanLock(t)
  /\ worker' = [worker EXCEPT ![t].pc = "take", ![t].rq_mutex = "worker"]
  /\ UNCHANGED <<elsewhere, fault>>

(* Inside w_rq_mutex: the worker's list is spliced into its own chain.     *)
WTake(t) ==
  /\ Alive /\ worker[t].pc = "take"
  /\ worker' = [worker EXCEPT
       ![t].pc = IF worker[t].requests = <<>> THEN "decide" ELSE "run",
       ![t].state = "WORKING", ![t].do_sleep = TRUE,
       ![t].chain = worker[t].requests, ![t].ran = 0,
       ![t].requests = <<>>, ![t].rq_mutex = Free]
  /\ UNCHANGED <<elsewhere, fault>>

RunsOf(t) == wl[worker[t].chain[worker[t].ran + 1].wl]

(* wl_run_request: after the run, the pool is read through wl_tp.          *)
WRun(t) ==
  /\ Alive /\ worker[t].pc = "run" /\ ~RunsOf(t).freed /\ RunsOf(t).tp
  /\ worker' = [worker EXCEPT ![t].pc = "ran", ![t].ran = @ + 1]
  /\ UNCHANGED <<elsewhere, fault>>

(* The workload is freed memory, or its wl_tp is NULL.                     *)
WRunFaults(t) ==
  /\ Alive /\ worker[t].pc = "run" /\ (RunsOf(t).freed \/ ~RunsOf(t).tp)
  /\ fault' = IF RunsOf(t).freed THEN "freed_workload" ELSE "detached_workload"
  /\ UNCHANGED <<elsewhere, worker>>

Interrupted(t) == worker[t].state = "INTERRUPT"

(* An interrupted worker leaves the loop over its chain.                   *)
WAfterRun(t) ==
  /\ Alive /\ worker[t].pc = "ran"
  /\ worker' = [worker EXCEPT
       ![t].pc = IF Interrupted(t) \/ worker[t].ran = Len(worker[t].chain)
                   THEN "push" ELSE "run",
       ![t].do_sleep = @ /\ ~Interrupted(t)]
  /\ UNCHANGED <<elsewhere, fault>>

(* The whole chain is pushed, with what was not run.                       *)
Entries(t) == worker[t].chain

wl_rq_chain_push(t) ==
  /\ Alive /\ worker[t].pc = "push"
  /\ worker' = [worker EXCEPT ![t].pc = "decide", ![t].chain = <<>>,
                              ![t].ran = 0, ![t].reported = @ \o Entries(t)]
  /\ UNCHANGED <<elsewhere, fault>>

GoesToSleep(t) == worker[t].do_sleep

WDecide(t) ==
  /\ Alive /\ worker[t].pc = "decide"
  /\ worker' = IF GoesToSleep(t)
       THEN [worker EXCEPT ![t].pc = "towait", ![t].state = "SLEEPING"]
       ELSE [worker EXCEPT ![t].pc = "top"]
  /\ UNCHANGED <<elsewhere, fault>>

(* event_wait: the worker waits for the next notification, if any comes.   *)
WWait(t) ==
  /\ Alive /\ worker[t].pc = "towait"
  /\ worker' = [worker EXCEPT ![t].pc = "waiting"]
  /\ UNCHANGED <<elsewhere, fault>>

(* pthread_cond_wait may return without a notification.                    *)
WSpurious(t) ==
  /\ Alive /\ worker[t].pc = "waiting"
  /\ worker' = [worker EXCEPT ![t].pc = "top"]
  /\ UNCHANGED <<elsewhere, fault>>

Worker(t) ==
  \/ WTop(t) \/ WLock(t) \/ WTake(t) \/ WRun(t) \/ WRunFaults(t)
  \/ WAfterRun(t) \/ wl_rq_chain_push(t) \/ WDecide(t) \/ WWait(t)
-----------------------------------------------------------------------------
(* tsload_unconfigure_workload, on the thread that also destroys pools.    *)
(* The status is read without a mutex: a workload that is CONFIGURING is   *)
(* refused, one that is RUNNING is detached first.  A workload whose       *)
(* configuration thread has reported nothing yet is NEW, so it is not      *)
(* refused.  A rejected one is in no hash map.                             *)

Idle == destroyer = "idle" /\ \A w \in Workloads : wl[w].removal \in {"none", "done"}

tsload_unconfigure_workload(w) ==
  /\ Alive /\ Idle /\ w \in Unconfigured \ Rejected
  /\ wl[w].removal = "none" /\ wl[w].status # "CONFIGURING"
  /\ wl' = [wl EXCEPT ![w].removal = IF wl[w].status = "RUNNING" THEN "detach" ELSE "destroy"]
  /\ UNCHANGED <<pool, ctl, worker, destroyer, fault>>

(* wl_tp is read, again without a mutex: by wl_destroy to see whether the  *)
(* workload must be detached before it is freed.                           *)
ReadPool(w) ==
  /\ Alive /\ \/ wl[w].removal = "detach" /\ wl[w].tp
              \/ wl[w].removal = "destroy"
  /\ wl' = [wl EXCEPT ![w].removal = IF wl[w].tp THEN "lock" ELSE "done",
                      ![w].freed = ~wl[w].tp]
  /\ UNCHANGED <<pool, ctl, worker, destroyer, fault>>

tp_detach(w) ==
  /\ Alive /\ wl[w].removal = "lock" /\ wl[w].tp /\ pool.mutex = Free
  /\ wl' = [wl EXCEPT ![w].removal = "destroy", ![w].tp = FALSE]
  /\ pool' = [pool EXCEPT !.wl_list = list_del(@, w),
                          !.wl_count = @ - 1, !.wl_changed = ListChanged]
  /\ UNCHANGED <<ctl, worker, destroyer, fault>>

(* The control thread has detached it meanwhile: wl_tp is NULL, or list_del*)
(* meets a node it has poisoned.                                           *)
DetachesTwice(w) ==
  /\ Alive /\ wl[w].removal \in {"detach", "lock"} /\ ~wl[w].tp
  /\ fault' = "detached_workload"
  /\ UNCHANGED <<wl, pool, ctl, worker, destroyer>>

Removal(w) == tsload_unconfigure_workload(w) \/ ReadPool(w) \/ tp_detach(w) \/ DetachesTwice(w)
-----------------------------------------------------------------------------
(* tsload_destroy_threadpool and tp_destroy.                               *)

Destroyer(from, to) == destroyer = from /\ destroyer' = to

(* The pool is refused if it has workloads, read without tp_mutex.         *)
DestroyBegin ==
  /\ Alive /\ Idle /\ Destroys /\ pool.wl_count <= 0
  /\ Destroyer("idle", "clean")
  /\ pool' = [pool EXCEPT !.is_dead = TRUE]
  /\ UNCHANGED <<wl, ctl, worker, fault>>

(* Every workload attached meanwhile is destroyed; the list is left as is. *)
DestroyWorkloads ==
  /\ Alive /\ Destroyer("clean", "notify") /\ pool.mutex = Free
  /\ wl' = [w \in Workloads |->
       [wl[w] EXCEPT !.freed = @ \/ \E k \in 1 .. Len(pool.wl_list) :
                                       pool.wl_list[k] = w]]
  /\ UNCHANGED <<pool, ctl, worker, fault>>

DestroyNotify ==
  /\ Alive /\ Destroyer("notify", "join")
  /\ event_notify_all
  /\ UNCHANGED <<wl, pool, ctl, fault>>

(* t_destroy joins the workers and the control thread.                     *)
DestroyJoin ==
  /\ Alive /\ Destroyer("join", "done")
  /\ ctl.pc = "exited" /\ \A t \in Tids : worker[t].pc = "exited"
  /\ UNCHANGED <<wl, pool, ctl, worker, fault>>
-----------------------------------------------------------------------------
WorkloadStep(w) ==
  \/ ReportsProgress(w) \/ ConfigReadsPool(w) \/ tp_attach(w)
  \/ Configured(w) \/ NotifyConfigured(w) \/ ConfiguresFreed(w) \/ RejectParams(w)
  \/ tsload_start_workload(w) \/ StartTimeComes(w)
  \/ \E n \in Counts : wl_provide_step(w, n)

(* After a fault the process is gone; after tp_destroy the pool is.        *)
Stopped == (~Alive \/ destroyer = "done") /\ UNCHANGED vars

Next ==
  \/ \E w \in Workloads : WorkloadStep(w) \/ Removal(w)
  \/ Control
  \/ \E t \in Tids : Worker(t) \/ WSpurious(t)
  \/ DestroyBegin \/ DestroyWorkloads \/ DestroyNotify \/ DestroyJoin
  \/ Stopped

Spec == Init /\ [][Next]_vars

(* Threads run and time passes; nobody must attach, feed or destroy, and   *)
(* no worker wakes up without a reason for ever.                           *)
FairSpec ==
  /\ Spec
  /\ WF_vars(Control)
  /\ \A t \in Tids : WF_vars(Worker(t))
  /\ \A w \in Workloads : WF_vars(StartTimeComes(w))
  /\ WF_vars(DestroyWorkloads \/ DestroyNotify \/ DestroyJoin)
  /\ <>[][\A t \in Tids : ~WSpurious(t)]_vars
-----------------------------------------------------------------------------
Requests == [wl : Workloads, step : Nat, id : Nat]

WorkloadType ==
  [phase : {"new", "attaching", "attached", "configured", "scheduled", "due", "rejected"},
   notified : BOOLEAN, tp : BOOLEAN,
   status : {"NEW", "CONFIGURING", "SUCCESS", "RUNNING", "FINISHED"},
   last_step : Int, current_step : Int,
   rqs_per_step : [Slots -> Counts \cup {Unset}],
   provided : Seq(Counts), freed : BOOLEAN,
   removal : {"none", "detach", "destroy", "lock", "done"}]

PoolType ==
  [wl_list : Seq(Workloads), wl_count : Int, wl_changed : BOOLEAN,
   is_dead : BOOLEAN, mutex : {Free, "ctl"}]

CtlType ==
  [pc : {"top", "lock", "rqlock", "step", "detach", "interrupt", "notify",
         "release", "exited"},
   i : Nat, step : Seq(Workloads), wl_count : Int]

WorkerType ==
  [pc : {"top", "lock", "take", "run", "ran", "push", "decide", "towait",
         "waiting", "exited"},
   state : {"WORKING", "SLEEPING", "INTERRUPT"},
   requests : Seq(Requests), rq_mutex : {Free, "ctl", "worker"},
   chain : Seq(Requests), ran : Nat, do_sleep : BOOLEAN,
   reported : Seq(Requests)]

(* Types, and the bounds that make every access of the code defined: the   *)
(* step window, a worker's place in its chain.                             *)
TypeOK ==
  /\ wl \in [Workloads -> WorkloadType]
  /\ pool \in PoolType /\ ctl \in CtlType
  /\ worker \in [Tids -> WorkerType]
  /\ destroyer \in {"idle", "clean", "notify", "join", "done"}
  /\ fault \in {"none", "step_array", "detached_workload", "freed_workload", "endless_draw"}
  /\ \A w \in Workloads : wl[w].current_step \in -1 .. wl[w].last_step + 1
  /\ \A t \in Tids : /\ worker[t].ran <= Len(worker[t].chain)
                     /\ worker[t].pc = "run" => worker[t].ran < Len(worker[t].chain)

(* threadpool.c:245 "Called with w_rq_mutex held for all workers": while   *)
(* requests are dealt, no worker is inside the section that takes its list.*)
DealtUnderLocks ==
  ctl.pc \in {"step", "detach"} =>
    \A t \in Tids : worker[t].rq_mutex = "ctl" /\ worker[t].pc # "take"

(* Everything worker t was ever dealt, oldest first: what it pushed, what  *)
(* it is running, what waits in its list.                                  *)
Held(t) ==
  worker[t].reported \o worker[t].chain \o worker[t].requests

Request(p) == Held(p[1])[p[2]]

(* Where the requests of step s of workload w are.                         *)
RequestsOf(w, s) ==
  UNION {LET held == Held(t)
         IN {t} \X {k \in DOMAIN held : held[k].wl = w /\ held[k].step = s} : t \in Tids}

(* The control thread has found no step of the workload.                   *)
Ended(w) == ~wl[w].tp \/ (ctl.pc = "detach" /\ Current = w)

(* The steps for which requests were dealt: the advance that finds no step *)
(* counts one too.                                                         *)
StepsBegun(w) == 0 .. wl[w].current_step - (IF Ended(w) THEN 1 ELSE 0)

(* No request is lost, duplicated or made up between the step the feeder   *)
(* gave and the report: for each step begun, each id below the number of   *)
(* requests provided for it is in exactly one place.                       *)
EachRequestOnce ==
  \A w \in Workloads : \A s \in StepsBegun(w) :
    LET n == wl[w].provided[s + 1]
        places == RequestsOf(w, s)
    IN Cardinality(places) = n /\ {Request(p).id : p \in places} = 0 .. n - 1

(* A worker runs and reports the requests of a workload in the order of    *)
(* their steps and ids, interrupted or not.                                *)
InOrder ==
  \A t \in Tids :
    LET held == Held(t)
    IN \A k \in DOMAIN held : \A j \in 1 .. k - 1 :
         LET a == held[j]
             b == held[k]
         IN a.wl = b.wl => a.step < b.step \/ (a.step = b.step /\ a.id < b.id)

(* The control thread only works on workloads that are attached: the step  *)
(* array it keeps across quanta never names one that was detached in an    *)
(* earlier quantum or whose memory was freed, whatever was attached,       *)
(* detached and unconfigured since (until tp_destroy frees them all).  A   *)
(* workload detached before its configuration thread attaches it gets into *)
(* the list, but not into the array: the count no longer fits the list,    *)
(* and the assertion of the control thread fails first.                    *)
StepArrayFresh ==
  ctl.pc \in {"rqlock", "step", "detach"} =>
    \A k \in (IF ctl.pc = "rqlock" THEN 1 ELSE ctl.i + 1) .. ctl.wl_count :
      /\ k <= Len(ctl.step) /\ wl[ctl.step[k]].tp
      /\ destroyer \in {"idle", "clean"} => ~wl[ctl.step[k]].freed

(* The locks never hang the control thread: quantum after quantum it gets  *)
(* them all and releases them, although workers take and release theirs    *)
(* (a fault ends the model; the endless draw is one).                      *)
ControlKeepsPace ==
  []<>(ctl.pc \in {"release", "exited"} \/ fault # "none")

(* A step provided to a workload that runs is eventually begun while the   *)
(* workload is still attached, unless somebody takes it away.              *)
ProvidedIsBegun ==
  \A w \in Workloads : \A s \in 0 .. MaxSteps[w] - 1 :
    (wl_is_started(w) /\ ~Ended(w) /\ wl[w].last_step >= s)
      ~> \/ ~Ended(w) /\ wl[w].current_step >= s
         \/ wl[w].removal # "none" \/ pool.is_dead \/ fault # "none"

(* What the pool promises (RequestDelivery): a workload's waiting steps are *)
(* those of its ring, the due requests those in the workers' hands.        *)
Waiting(w) ==
  IF Ended(w) THEN <<>>
  ELSE [k \in 1 .. wl[w].last_step - wl[w].current_step |->
          [step |-> wl[w].current_step + k,
           rqs |-> wl[w].rqs_per_step[Slot(wl[w].current_step + k)]]]
Elements(list) == {list[k] : k \in DOMAIN list}
Due == UNION {Elements(worker[t].chain \o worker[t].requests) : t \in Tids}
Reported == UNION {Elements(worker[t].reported) : t \in Tids}

Delivery == INSTANCE RequestDelivery WITH
  Removable <- Unconfigured, Capacity <- QSIZE,
  open <- [w \in Workloads |-> ~Ended(w)],
  accepted <- [w \in Workloads |-> wl[w].last_step + 1],
  waiting <- [w \in Workloads |-> Waiting(w)],
  due <- Due, reported <- Reported

(* The pool implements that promise: steps begin in order with their own   *)
(* counts, every request is reported once, interrupted or not, and the     *)
(* control thread closes no workload that has a step left.                 *)
ImplementsDelivery == Delivery!DeliverySpec

(* load.c:535 "Wait until all workloads are complete or failure will occur"*)
(* takes FINISHED for complete: no request of the workload is left to run. *)
FinishedIsComplete ==
  \A w \in Workloads : wl[w].status = "FINISHED" =>
    \A t \in Tids :
      LET queued == worker[t].chain \o worker[t].requests
      IN \A k \in 1 .. Len(queued) : queued[k].wl = w => k <= worker[t].ran
=============================================================================
