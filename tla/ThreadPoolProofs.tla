-------------------------- MODULE ThreadPoolProofs --------------------------
(***************************************************************************)
(* Proofs about the thread pool for any number of workers, workloads and   *)
(* steps: the discipline of the workers' mutexes, the lists of workloads,  *)
(* the steps' rings, the way of each request from step to report, and that *)
(* the pool implements RequestDelivery.                                    *)
(***************************************************************************)
EXTENDS ThreadPool, FiniteSetTheorems, FunctionTheorems, SequenceTheorems, WellFoundedInduction, TLAPS

(* The parts of the threads' states that the mutexes concern are there.    *)
Fields ==
  /\ DOMAIN worker = Tids
  /\ \A t \in Tids : {"pc", "rq_mutex"} \subseteq DOMAIN worker[t]
  /\ {"pc", "i"} \subseteq DOMAIN ctl

(* A w_rq_mutex is held by its worker exactly while it takes its list, and *)
(* by the control thread from where it has locked it until it unlocks all. *)
CtlHolds(t) ==
  IF ctl.pc = "rqlock" THEN t < ctl.i ELSE ctl.pc \in {"step", "detach"}

LockInv ==
  /\ Fields
  /\ ctl.pc = "rqlock" => ctl.i \in Tids
  /\ \A t \in Tids : /\ worker[t].rq_mutex = "ctl" <=> CtlHolds(t)
                     /\ worker[t].rq_mutex = "worker" <=> worker[t].pc = "take"

(* Steps that leave the mutexes and the places they depend on as they are. *)
LEMMA ElsewhereKeeps ==
  ASSUME LockInv, UNCHANGED <<ctl, worker>>
  PROVE  LockInv'
BY DEF LockInv, Fields, CtlHolds

(* The control thread moves between places at which it holds no mutex.     *)
LEMMA CtlMoves ==
  ASSUME LockInv, {"pc", "i"} \subseteq DOMAIN ctl',
         ctl.pc \notin {"rqlock", "step", "detach"},
         \/ ctl'.pc \notin {"rqlock", "step", "detach"}
         \/ ctl'.pc = "rqlock" /\ ctl'.i = 0,
         worker' = worker
  PROVE  LockInv'
BY PoolAssumption DEF LockInv, Fields, CtlHolds, Tids

(* A worker moves between places at which it does not hold its mutex.      *)
LEMMA WorkerMoves ==
  ASSUME LockInv, UNCHANGED ctl, NEW t \in Tids,
         DOMAIN worker' = Tids, {"pc", "rq_mutex"} \subseteq DOMAIN worker'[t],
         \A u \in Tids \ {t} : worker'[u] = worker[u],
         worker'[t].rq_mutex = worker[t].rq_mutex,
         worker[t].pc # "take", worker'[t].pc # "take"
  PROVE  LockInv'
BY DEF LockInv, Fields, CtlHolds

(* A worker's steps keep the mutex discipline.                             *)
LEMMA WorkerKeeps ==
  ASSUME LockInv, NEW t \in Tids, Worker(t) \/ WSpurious(t)
  PROVE  LockInv'
<1> USE DEF elsewhere
<1>1. ASSUME WTop(t) \/ WRun(t) \/ WAfterRun(t) \/ wl_rq_chain_push(t)
               \/ WDecide(t) \/ WWait(t) \/ WSpurious(t)
      PROVE  LockInv'
  <2>1. UNCHANGED ctl
    BY <1>1 DEF WTop, WRun, WAfterRun, wl_rq_chain_push, WDecide, WWait, WSpurious
  <2>2. /\ DOMAIN worker' = Tids
        /\ {"pc", "rq_mutex"} \subseteq DOMAIN worker'[t]
        /\ \A u \in Tids \ {t} : worker'[u] = worker[u]
        /\ worker'[t].rq_mutex = worker[t].rq_mutex
        /\ worker[t].pc # "take" /\ worker'[t].pc # "take"
    <3>1. DOMAIN worker = Tids /\ {"pc", "rq_mutex"} \subseteq DOMAIN worker[t]
      BY DEF LockInv, Fields
    <3>2. CASE WTop(t) BY <3>1, <3>2 DEF WTop
    <3>3. CASE WRun(t) BY <3>1, <3>3 DEF WRun
    <3>4. CASE WAfterRun(t) BY <3>1, <3>4 DEF WAfterRun
    <3>5. CASE wl_rq_chain_push(t) BY <3>1, <3>5 DEF wl_rq_chain_push
    <3>6. CASE WDecide(t) BY <3>1, <3>6 DEF WDecide
    <3>7. CASE WWait(t) BY <3>1, <3>7 DEF WWait
    <3>8. CASE WSpurious(t) BY <3>1, <3>8 DEF WSpurious
    <3> QED BY <1>1, <3>2, <3>3, <3>4, <3>5, <3>6, <3>7, <3>8
  <2> QED BY <2>1, <2>2, WorkerMoves
<1>2. CASE WLock(t)
  <2>1. /\ DOMAIN worker' = Tids /\ ctl' = ctl
        /\ {"pc", "rq_mutex"} \subseteq DOMAIN worker'[t]
        /\ \A u \in Tids \ {t} : worker'[u] = worker[u]
        /\ worker[t].rq_mutex = Free
        /\ worker'[t].rq_mutex = "worker" /\ worker'[t].pc = "take"
    BY <1>2 DEF WLock, CanLock, LockInv, Fields
  <2> QED BY <2>1 DEF LockInv, Fields, CtlHolds, Free
<1>3. CASE WTake(t)
  <2>1. /\ DOMAIN worker' = Tids /\ ctl' = ctl
        /\ {"pc", "rq_mutex"} \subseteq DOMAIN worker'[t]
        /\ \A u \in Tids \ {t} : worker'[u] = worker[u]
        /\ worker[t].pc = "take"
        /\ worker'[t].rq_mutex = Free /\ worker'[t].pc \in {"decide", "run"}
    BY <1>3 DEF WTake, LockInv, Fields
  <2> QED BY <2>1 DEF LockInv, Fields, CtlHolds, Free
<1>4. CASE WRunFaults(t)
  BY <1>4, ElsewhereKeeps DEF WRunFaults
<1> QED BY <1>1, <1>2, <1>3, <1>4 DEF Worker

(* So do the control thread's.                                             *)
LEMMA ControlKeeps ==
  ASSUME LockInv, Control
  PROVE  LockInv'
<1>0. DOMAIN worker = Tids /\ {"pc", "i"} \subseteq DOMAIN ctl
  BY DEF LockInv, Fields
<1>1. ASSUME CtlTop \/ CtlLock \/ CtlNotify \/ CtlRelease \/ CtlInterrupt
      PROVE  LockInv'
  <2>1. CASE CtlTop
    BY <1>0, <2>1, CtlMoves DEF CtlTop, Ctl
  <2>2. CASE CtlLock
    BY <1>0, <2>2, CtlMoves DEF CtlLock
  <2>3. CASE CtlRelease
    BY <1>0, <2>3, CtlMoves DEF CtlRelease, Ctl
  <2>4. CASE CtlInterrupt
    <3>1. /\ ctl.pc = "interrupt" /\ {"pc", "i"} \subseteq DOMAIN ctl'
          /\ ctl'.pc \in {"interrupt", "notify"}
          /\ DOMAIN worker' = Tids
          /\ \A t \in Tids : /\ {"pc", "rq_mutex"} \subseteq DOMAIN worker'[t]
                             /\ worker'[t].rq_mutex = worker[t].rq_mutex
                             /\ worker'[t].pc = worker[t].pc
      BY <1>0, <2>4 DEF CtlInterrupt, NextTid, LockInv, Fields
    <3> QED BY <3>1 DEF LockInv, Fields, CtlHolds
  <2>5. CASE CtlNotify
    <3>1. /\ ctl.pc = "notify" /\ {"pc", "i"} \subseteq DOMAIN ctl'
          /\ ctl'.pc = "release"
          /\ DOMAIN worker' = Tids
          /\ \A t \in Tids : /\ {"pc", "rq_mutex"} \subseteq DOMAIN worker'[t]
                             /\ worker'[t].rq_mutex = worker[t].rq_mutex
                             /\ worker'[t].pc = worker[t].pc
                                  \/ (worker[t].pc = "waiting" /\ worker'[t].pc = "top")
      BY <1>0, <2>5 DEF CtlNotify, Ctl, event_notify_all, LockInv, Fields
    <3> QED BY <3>1 DEF LockInv, Fields, CtlHolds
  <2> QED BY <1>1, <2>1, <2>2, <2>3, <2>4, <2>5
<1>2. CASE CtlLockWorker
  <2>1. /\ ctl.pc = "rqlock" /\ ctl.i \in Tids /\ worker[ctl.i].rq_mutex = Free
        /\ {"pc", "i"} \subseteq DOMAIN ctl'
        /\ \/ ctl.i < NThreads - 1 /\ ctl'.pc = "rqlock" /\ ctl'.i = ctl.i + 1
           \/ ~(ctl.i < NThreads - 1) /\ ctl'.pc = "step"
    BY <1>0, <1>2 DEF CtlLockWorker, NextTid, LockInv
  <2>2. /\ DOMAIN worker' = Tids
        /\ \A t \in Tids : /\ {"pc", "rq_mutex"} \subseteq DOMAIN worker'[t]
                           /\ worker'[t].pc = worker[t].pc
        /\ \A t \in Tids \ {ctl.i} : worker'[t].rq_mutex = worker[t].rq_mutex
        /\ worker'[ctl.i].rq_mutex = "ctl"
    BY <1>0, <1>2, <2>1 DEF CtlLockWorker, LockInv, Fields
  <2>3. /\ ctl'.pc = "rqlock" => ctl'.i \in Tids
        /\ \A t \in Tids : CtlHolds(t)' <=> CtlHolds(t) \/ t = ctl.i
    BY <2>1, PoolAssumption DEF CtlHolds, Tids
  <2> QED BY <2>1, <2>2, <2>3 DEF LockInv, Fields, Free
<1>3. ASSUME CtlSkip \/ CtlFinish \/ tp_detach_nolock
      PROVE  LockInv'
  <2>1. /\ ctl.pc \in {"step", "detach"} /\ ctl'.pc \in {"step", "detach"}
        /\ {"pc", "i"} \subseteq DOMAIN ctl' /\ worker' = worker
    BY <1>0, <1>3 DEF CtlSkip, CtlFinish, Ctl, tp_detach_nolock, AtStarted, AtWorkload
  <2> QED BY <2>1 DEF LockInv, Fields, CtlHolds
<1>4. CASE CtlRunStep
  <2>1. /\ ctl.pc = "step" /\ ctl'.pc = "step" /\ {"pc", "i"} \subseteq DOMAIN ctl'
    BY <1>0, <1>4 DEF CtlRunStep, AtStarted, AtWorkload
  <2>2. /\ DOMAIN worker' = Tids
        /\ \A t \in Tids : /\ {"pc", "rq_mutex"} \subseteq DOMAIN worker'[t]
                           /\ worker'[t].rq_mutex = worker[t].rq_mutex
                           /\ worker'[t].pc = worker[t].pc
    BY <1>0, <1>4 DEF CtlRunStep, tp_distribute_requests, LockInv, Fields
  <2> QED BY <2>1, <2>2 DEF LockInv, Fields, CtlHolds
<1>5. CASE CtlUnlockWorkers
  <2>1. /\ ctl.pc = "step" /\ ctl'.pc = "interrupt"
        /\ {"pc", "i"} \subseteq DOMAIN ctl'
    BY <1>0, <1>5 DEF CtlUnlockWorkers
  <2>2. /\ DOMAIN worker' = Tids
        /\ \A t \in Tids : /\ {"pc", "rq_mutex"} \subseteq DOMAIN worker'[t]
                           /\ worker'[t].rq_mutex = Free
                           /\ worker'[t].pc = worker[t].pc
    BY <1>0, <1>5 DEF CtlUnlockWorkers, LockInv, Fields
  <2>3. \A t \in Tids : worker[t].pc # "take"
    BY <2>1 DEF LockInv, CtlHolds
  <2> QED BY <2>1, <2>2, <2>3 DEF LockInv, Fields, CtlHolds, Free
<1>6. CASE CtlAssertFails \/ CtlUsesFreed \/ CtlDrawsZero
  BY <1>6, ElsewhereKeeps DEF CtlAssertFails, CtlUsesFreed, CtlDrawsZero
<1> QED BY <1>1, <1>2, <1>3, <1>4, <1>5, <1>6 DEF Control

(* The mutex discipline is inductive.                                      *)
LEMMA LockInvInductive == LockInv /\ [Next]_vars => LockInv'
<1> SUFFICES ASSUME LockInv, [Next]_vars PROVE LockInv'
  OBVIOUS
<1>1. ASSUME NEW w \in Workloads, WorkloadStep(w) PROVE LockInv'
  <2>1. UNCHANGED <<ctl, worker>>
    BY <1>1 DEF WorkloadStep, ReportsProgress, ConfigReadsPool, tp_attach, Configured, NotifyConfigured,
                ConfiguresFreed, RejectParams, tsload_start_workload,
                StartTimeComes, wl_provide_step
  <2> QED BY <2>1, ElsewhereKeeps
<1>2. ASSUME NEW w \in Workloads, Removal(w) PROVE LockInv'
  <2>1. UNCHANGED <<ctl, worker>>
    BY <1>2 DEF Removal, tsload_unconfigure_workload, ReadPool, tp_detach, DetachesTwice
  <2> QED BY <2>1, ElsewhereKeeps
<1>3. CASE Control
  BY <1>3, ControlKeeps
<1>4. ASSUME NEW t \in Tids, Worker(t) \/ WSpurious(t) PROVE LockInv'
  BY <1>4, WorkerKeeps
<1>5. CASE DestroyBegin \/ DestroyWorkloads \/ DestroyJoin
  <2>1. UNCHANGED <<ctl, worker>>
    BY <1>5 DEF DestroyBegin, DestroyWorkloads, DestroyJoin
  <2> QED BY <2>1, ElsewhereKeeps
<1>6. CASE DestroyNotify
  <2>1. /\ ctl' = ctl /\ DOMAIN worker' = Tids
        /\ \A t \in Tids : /\ {"pc", "rq_mutex"} \subseteq DOMAIN worker'[t]
                           /\ worker'[t].rq_mutex = worker[t].rq_mutex
                           /\ worker'[t].pc = worker[t].pc
                                \/ (worker[t].pc = "waiting" /\ worker'[t].pc = "top")
    BY <1>6 DEF DestroyNotify, event_notify_all, LockInv, Fields
  <2> QED BY <2>1 DEF LockInv, Fields, CtlHolds
<1>7. CASE UNCHANGED vars
  BY <1>7, ElsewhereKeeps DEF vars
<1> QED BY <1>1, <1>2, <1>3, <1>4, <1>5, <1>6, <1>7 DEF Next, Stopped

(* threadpool.c:245: for every number of workers, requests are only dealt  *)
(* while the control thread holds every w_rq_mutex and no worker is inside *)
(* the section that takes its list.                                        *)
THEOREM LocksCorrect == Spec => []DealtUnderLocks
<1>1. Init => LockInv
  BY DEF Init, LockInv, Fields, CtlHolds, Free
<1>2. LockInv /\ [Next]_vars => LockInv'
  BY LockInvInductive
<1>3. LockInv => DealtUnderLocks
  BY DEF LockInv, CtlHolds, DealtUnderLocks
<1> QED BY <1>1, <1>2, <1>3, PTL DEF Spec
-----------------------------------------------------------------------------
(* The shares of the workers in a step's requests.                         *)

(* A set of naturals has a least element: its initial segments are finite. *)
LEMMA LeastNatural ==
  ASSUME NEW T \in SUBSET Nat, T # {}
  PROVE  \E x \in T : \A y \in T : ~(y < x)
<1> DEFINE Segments == {0 .. x : x \in T}
<1>1. Segments \subseteq FiniteSubsetsOf(Nat) /\ Segments # {}
  <2>1. \A x \in T : 0 .. x \in SUBSET Nat /\ IsFiniteSet(0 .. x)
    BY FS_Interval
  <2> QED BY <2>1 DEF FiniteSubsetsOf
<1>2. PICK X \in Segments : \A Y \in Segments : ~(<<Y, X>> \in StrictSubsetOrdering(Nat))
  <2> HIDE DEF Segments
  <2> QED BY <1>1, WFMin, FS_StrictSubsetOrderingWellFounded
<1>3. PICK x \in T : X = 0 .. x
  BY <1>2
<1>4. ASSUME NEW y \in T, y < x PROVE FALSE
  <2>1. 0 .. y \subseteq 0 .. x /\ 0 .. y # 0 .. x
    <3>1. x \in 0 .. x /\ x \notin 0 .. y
      BY <1>4
    <3> QED BY <1>4, <3>1
  <2>2. 0 .. y \in SUBSET Nat /\ 0 .. x \in SUBSET Nat
    OBVIOUS
  <2>3. <<0 .. y, 0 .. x>> \in StrictSubsetOrdering(Nat)
    <3>1. \A A, B \in SUBSET Nat : A \subseteq B /\ A # B => <<A, B>> \in StrictSubsetOrdering(Nat)
      BY DEF StrictSubsetOrdering
    <3> QED BY <2>1, <2>2, <3>1
  <2>4. 0 .. y \in Segments
    OBVIOUS
  <2> QED BY <1>2, <1>3, <2>3, <2>4
<1> QED BY <1>4

(* Division with remainder by the number of workers.                       *)
LEMMA Quotient ==
  ASSUME NEW n \in Nat
  PROVE  /\ n \div NThreads \in Nat /\ n % NThreads \in 0 .. NThreads - 1
         /\ n = (NThreads * (n \div NThreads)) + (n % NThreads)
<1>1. PICK d \in Nat : d = NThreads /\ d > 0
  BY PoolAssumption
<1>2. n \div d \in Nat /\ n % d \in 0 .. d - 1
  BY <1>1
<1>3. n = (d * (n \div d)) + (n % d)
  BY <1>1
<1> QED BY <1>1, <1>2, <1>3

(* A worker's ids begin where those of the worker before it end.           *)
LEMMA IdsFollow ==
  ASSUME NEW n \in Nat, NEW t \in Tids
  PROVE  /\ FirstId(n, t) \in Nat /\ Share(n, t) \in Nat
         /\ FirstId(n, t) + Share(n, t) = FirstId(n, t + 1)
<1>1. PICK q \in Nat, r \in Nat : q = n \div NThreads /\ r = n % NThreads
  BY Quotient
<1>2. t \in Nat
  BY PoolAssumption DEF Tids
<1>3. t * q \in Nat /\ (t + 1) * q = t * q + q
  BY <1>1, <1>2
<1>4. /\ FirstId(n, t) = t * q + (IF t < r THEN t ELSE r)
      /\ FirstId(n, t + 1) = (t + 1) * q + (IF t + 1 < r THEN t + 1 ELSE r)
      /\ Share(n, t) = q + (IF t < r THEN 1 ELSE 0)
  BY <1>1 DEF FirstId, Share
<1> HIDE DEF FirstId, Share
<1>5. PICK p \in Nat : p = t * q
  BY <1>3
<1> QED BY <1>1, <1>2, <1>3, <1>4, <1>5

(* The first worker begins with 0 and the last ends with n.                *)
LEMMA IdsEnd ==
  ASSUME NEW n \in Nat
  PROVE  FirstId(n, 0) = 0 /\ FirstId(n, NThreads) = n
<1>1. PICK q \in Nat, r \in 0 .. NThreads - 1 :
        q = n \div NThreads /\ r = n % NThreads /\ n = (NThreads * q) + r
  BY Quotient
<1>2. NThreads \in Nat \ {0}
  BY PoolAssumption
<1> QED BY <1>1, <1>2 DEF FirstId

(* The ids of different workers are apart.                                 *)
LEMMA IdsApart ==
  ASSUME NEW n \in Nat, NEW t \in Tids, NEW u \in 0 .. NThreads, t < u
  PROVE  FirstId(n, t) + Share(n, t) <= FirstId(n, u)
<1>1. PICK q \in Nat, r \in Nat : q = n \div NThreads /\ r = n % NThreads
  BY Quotient
<1>2. t \in Nat /\ u \in Nat /\ u - t - 1 \in Nat
  BY PoolAssumption DEF Tids
<1>3. PICK d \in Nat : u = t + 1 + d
  BY <1>2
<1>4. PICK a \in Nat, b \in Nat : a = (t + 1) * q /\ b = d * q
  BY <1>1, <1>2, <1>3
<1>5. u * q = a + b
  BY <1>1, <1>2, <1>3, <1>4
<1>6. /\ FirstId(n, t + 1) = a + (IF t + 1 < r THEN t + 1 ELSE r)
      /\ FirstId(n, u) = (a + b) + (IF u < r THEN u ELSE r)
  BY <1>1, <1>4, <1>5 DEF FirstId
<1>7. FirstId(n, t + 1) <= FirstId(n, u)
  BY <1>1, <1>2, <1>3, <1>4, <1>6
<1> QED BY <1>7, IdsFollow

(* Each id below n is somebody's.                                          *)
LEMMA IdsCovered ==
  ASSUME NEW n \in Nat, NEW i \in 0 .. n - 1
  PROVE  \E t \in Tids : FirstId(n, t) <= i /\ i < FirstId(n, t) + Share(n, t)
<1> DEFINE Behind == {t \in Nat : t <= NThreads /\ i < FirstId(n, t)}
<1>1. NThreads \in Behind
  BY IdsEnd, PoolAssumption
<1>2. PICK u \in Behind : \A v \in Behind : ~(v < u)
  <2>1. Behind \subseteq Nat /\ Behind # {}
    BY <1>1
  <2>2. \A v \in Behind : v \in Nat
    BY <2>1
  <2> HIDE DEF Behind
  <2> QED BY <2>1, <2>2, LeastNatural
<1>3. u # 0 /\ u - 1 \in Tids /\ u - 1 \notin Behind
  BY <1>2, IdsEnd, PoolAssumption DEF Tids
<1>4. FirstId(n, u - 1) <= i /\ FirstId(n, u - 1) + Share(n, u - 1) = FirstId(n, u)
  <2>1. FirstId(n, u - 1) \in Nat /\ (u - 1) + 1 = u
    BY <1>3, IdsFollow, <1>2
  <2>2. ~(i < FirstId(n, u - 1))
    BY <1>2, <1>3, PoolAssumption DEF Tids
  <2> QED BY <1>3, <2>1, <2>2, IdsFollow
<1> QED BY <1>2, <1>3, <1>4
-----------------------------------------------------------------------------
(* list_del takes an element out of a list that holds it once.             *)
Once(list) == \A j, k \in DOMAIN list : list[j] = list[k] => j = k
In(list, w) == \E k \in DOMAIN list : list[k] = w

(* list_del removes that element and no other (list.h:130).                *)
LEMMA ListDel ==
  ASSUME NEW S, NEW list \in Seq(S), Once(list), NEW w, In(list, w)
  PROVE  /\ list_del(list, w) \in Seq(S)
         /\ Len(list_del(list, w)) = Len(list) - 1
         /\ Once(list_del(list, w))
         /\ \A v : In(list_del(list, w), v) <=> In(list, v) /\ v # w
<1> DEFINE At == {j \in DOMAIN list : list[j] = w}
           k == CHOOSE j \in At : TRUE
           n == Len(list)
           a == SubSeq(list, 1, k - 1)
           b == SubSeq(list, k + 1, n)
           new == a \o b
<1>0. At # {} /\ k \in At
  BY DEF In
<1>1. k \in DOMAIN list /\ list[k] = w /\ n \in Nat /\ DOMAIN list = 1 .. n
  BY <1>0, LenProperties
<1>2. k \in 1 .. n /\ k \in Int
  BY <1>1
<1>a. list_del(list, w) = new
  BY <1>0 DEF list_del
<1> HIDE DEF k, n, At
<1>3. \A i \in 1 .. n : list[i] \in S
  BY ElementOfSeq DEF n
<1>4. /\ a \in Seq(S) /\ Len(a) = k - 1
      /\ \A i \in 1 .. k - 1 : a[i] = list[i]
  BY <1>2, <1>3, <1>1, SubSeqProperties
<1>5. /\ b \in Seq(S) /\ Len(b) = n - k
      /\ \A i \in 1 .. n - k : b[i] = list[k + i]
  BY <1>2, <1>3, <1>1, SubSeqProperties
<1> HIDE DEF a, b
<1>6. /\ new \in Seq(S) /\ Len(new) = n - 1 /\ DOMAIN new = 1 .. n - 1
      /\ \A i \in 1 .. n - 1 : new[i] = IF i < k THEN list[i] ELSE list[i + 1]
  <2>0. /\ new \in Seq(S) /\ Len(new) = Len(a) + Len(b)
        /\ \A i \in 1 .. Len(a) + Len(b) : new[i] = IF i <= Len(a) THEN a[i] ELSE b[i - Len(a)]
    BY <1>4, <1>5, ConcatProperties
  <2>1. /\ new \in Seq(S) /\ Len(new) = (k - 1) + (n - k)
        /\ \A i \in 1 .. (k - 1) + (n - k) : new[i] = IF i <= k - 1 THEN a[i] ELSE b[i - (k - 1)]
    BY <1>4, <1>5, <2>0
  <2>2. Len(new) = n - 1
    BY <2>1, <1>1, <1>2
  <2>3. ASSUME NEW i \in 1 .. n - 1 PROVE new[i] = IF i < k THEN list[i] ELSE list[i + 1]
    <3>1. new[i] = IF i <= k - 1 THEN a[i] ELSE b[i - (k - 1)]
      BY <2>1, <1>1, <1>2
    <3>2. CASE i < k
      BY <3>1, <3>2, <1>2, <1>4
    <3>3. CASE ~(i < k)
      <4>1. i - (k - 1) \in 1 .. n - k /\ k + (i - (k - 1)) = i + 1 /\ ~(i <= k - 1)
        BY <3>3, <1>1, <1>2
      <4> QED BY <3>1, <3>3, <4>1, <1>5
    <3> QED BY <3>2, <3>3
  <2> QED BY <2>1, <2>2, <2>3, LenProperties
<1> HIDE DEF new
<1>7. Once(new)
  <2> SUFFICES ASSUME NEW i \in 1 .. n - 1, NEW j \in 1 .. n - 1, new[i] = new[j]
               PROVE  i = j
    BY <1>6 DEF Once
  <2>1. \A x, y \in 1 .. n : list[x] = list[y] => x = y
    BY <1>1 DEF Once
  <2> QED BY <1>1, <1>2, <1>6, <2>1
<1>8. ASSUME NEW v PROVE In(new, v) <=> In(list, v) /\ v # w
  <2>1. ASSUME In(new, v) PROVE In(list, v) /\ v # w
    <3>1. PICK i \in 1 .. n - 1 : new[i] = v
      BY <2>1, <1>6 DEF In
    <3>2. PICK j \in 1 .. n : j # k /\ list[j] = v
      BY <3>1, <1>1, <1>2, <1>6
    <3> QED BY <3>2, <1>1, <1>2 DEF In, Once
  <2>2. ASSUME In(list, v), v # w PROVE In(new, v)
    <3>1. PICK j \in 1 .. n : list[j] = v /\ j # k
      BY <2>2, <1>1 DEF In
    <3>2. CASE j < k
      <4>1. j \in 1 .. n - 1 /\ new[j] = v
        BY <3>1, <3>2, <1>1, <1>2, <1>6
      <4> QED BY <4>1, <1>6 DEF In
    <3>3. CASE j > k
      <4>1. j - 1 \in 1 .. n - 1 /\ ~(j - 1 < k) /\ (j - 1) + 1 = j
        BY <3>1, <3>3, <1>1, <1>2
      <4>2. new[j - 1] = v
        BY <3>1, <4>1, <1>6
      <4> QED BY <4>1, <4>2, <1>6 DEF In
    <3> QED BY <3>1, <3>2, <3>3, <1>1, <1>2
  <2> QED BY <2>1, <2>2
<1> QED BY <1>a, <1>6, <1>7, <1>8 DEF n

(* It leaves a list alone that does not hold the element.                  *)
LEMMA ListDelAbsent ==
  ASSUME NEW list, NEW w, ~In(list, w)
  PROVE  list_del(list, w) = list
BY DEF list_del, In
-----------------------------------------------------------------------------
(* The invariant.                                                          *)

(* A worker has a chain only while it runs and pushes it.                  *)
ChainsFit ==
  \A t \in Tids : worker[t].pc \notin {"run", "ran", "push"} => worker[t].chain = <<>>

Attached(w) == wl[w].phase \notin Unattached /\ wl[w].tp

(* tp_wl_count is below the length of the list once a workload was rejected*)
(* or detached without being on the list; it stays so.                     *)
Short == pool.wl_count < Len(pool.wl_list)

(* The pool's list holds each attached workload once, and, unless the count*)
(* is short, no other.                                                     *)
Lists ==
  /\ Once(pool.wl_list)
  /\ pool.wl_count <= Len(pool.wl_list)
  /\ \A w \in Workloads :
       /\ Attached(w) => In(pool.wl_list, w)
       /\ In(pool.wl_list, w) => wl[w].phase \notin Unattached
       /\ ~wl[w].tp => Short \/ (wl[w].phase \notin Unattached /\ ~In(pool.wl_list, w))

(* Nobody feeds a workload before it is attached.                          *)
Untouched ==
  \A w \in Workloads :
    wl[w].phase \in Unattached => wl[w].last_step = -1 /\ wl[w].current_step = -1

(* Until tp_destroy comes to the workloads, only detached ones are freed.  *)
NotFreed ==
  /\ destroyer \in {"idle", "clean"} => \A w \in Workloads : wl[w].freed => ~wl[w].tp
  /\ destroyer # "idle" => \A w \in Workloads : wl[w].removal \in {"none", "done"}

(* The step array is the list of the last refresh; during the quantum, the *)
(* workloads the control thread has still to look at are attached.  A short*)
(* count keeps it from a refresh, so from a quantum.                       *)
HasPoolMutex == ctl.pc \in {"rqlock", "step", "detach", "interrupt", "notify", "release"}
AtArray == ctl.pc \in {"rqlock", "step", "detach"}
StillToCome == (IF ctl.pc = "rqlock" THEN 1 ELSE ctl.i + 1) .. ctl.wl_count

StepArray ==
  /\ ~pool.wl_changed => ctl.step = pool.wl_list
  /\ pool.mutex = "ctl" <=> HasPoolMutex
  /\ AtArray => /\ ctl.wl_count <= Len(ctl.step) /\ Once(ctl.step)
                /\ \A k \in StillToCome : Attached(ctl.step[k])
  /\ ctl.pc = "detach" => ctl.i < ctl.wl_count
  /\ Short => pool.wl_changed /\ ~HasPoolMutex

(* The ring of a workload holds the counts of the steps that wait.         *)
RingRight(w) ==
  /\ Len(wl[w].provided) = wl[w].last_step + 1
  /\ wl[w].last_step - wl[w].current_step <= QSIZE
  /\ \A s \in wl[w].current_step + 1 .. wl[w].last_step :
       wl[w].rqs_per_step[Slot(s)] = wl[w].provided[s + 1]
  /\ wl[w].current_step <= wl[w].last_step \/ Ended(w)
Rings == \A w \in Workloads : RingRight(w)

(* Nobody holds a request of a step that was not begun.                    *)
StepsPassed ==
  \A t \in Tids : \A k \in DOMAIN Held(t) :
    Held(t)[k].step <= wl[Held(t)[k].wl].current_step

Inv ==
  /\ TypeOK /\ ChainsFit /\ Lists /\ Untouched /\ NotFreed /\ StepArray /\ Rings
  /\ StepsPassed /\ InOrder /\ EachRequestOnce
-----------------------------------------------------------------------------
(* Types.                                                                  *)

(* TypeOK, part by part.                                                   *)
LEMMA Typed ==
  TypeOK <=>
    /\ wl \in [Workloads -> WorkloadType] /\ pool \in PoolType /\ ctl \in CtlType
    /\ worker \in [Tids -> WorkerType]
    /\ destroyer \in {"idle", "clean", "notify", "join", "done"}
    /\ fault \in {"none", "step_array", "detached_workload", "freed_workload", "endless_draw"}
    /\ \A w \in Workloads : wl[w].current_step \in -1 .. wl[w].last_step + 1
    /\ \A t \in Tids : /\ worker[t].ran <= Len(worker[t].chain)
                       /\ worker[t].pc = "run" => worker[t].ran < Len(worker[t].chain)
BY DEF TypeOK

(* What a step may do to one workload without touching its steps.          *)
SameRing(w) ==
  /\ wl'[w].last_step = wl[w].last_step /\ wl'[w].current_step = wl[w].current_step
  /\ wl'[w].rqs_per_step = wl[w].rqs_per_step /\ wl'[w].provided = wl[w].provided

(* The steps of configuration threads and of the removal: one workload     *)
(* changes, and of the pool the list.                                      *)
WorkloadMoves(w, v) ==
  /\ wl' = [wl EXCEPT ![w] = v] /\ v \in WorkloadType
  /\ v.current_step \in -1 .. v.last_step + 1
  /\ pool' \in PoolType /\ UNCHANGED <<ctl, worker, destroyer>>
  /\ pool'.mutex = pool.mutex /\ pool'.is_dead = pool.is_dead
  /\ fault' \in {"none", "step_array", "detached_workload", "freed_workload", "endless_draw"}

(* A step on one workload keeps the types and leaves the others alone.     *)
LEMMA OneWorkload ==
  ASSUME TypeOK, NEW w \in Workloads, NEW v, WorkloadMoves(w, v)
  PROVE  /\ TypeOK' /\ wl'[w] = v /\ \A u \in Workloads : u # w => wl'[u] = wl[u]
<1>1. wl \in [Workloads -> WorkloadType]
  BY Typed
<1>2. wl' \in [Workloads -> WorkloadType] /\ wl'[w] = v
      /\ \A u \in Workloads : u # w => wl'[u] = wl[u]
  BY <1>1 DEF WorkloadMoves
<1>3. \A u \in Workloads : wl'[u].current_step \in -1 .. wl'[u].last_step + 1
  BY <1>2, Typed DEF WorkloadMoves
<1> QED BY <1>2, <1>3 DEF TypeOK, WorkloadMoves

(* A workload is neither attached nor detached.                            *)
SameHome(w) ==
  /\ wl'[w].tp = wl[w].tp
  /\ wl'[w].phase \in Unattached <=> wl[w].phase \in Unattached

(* Steps that change only phase, status, removal or freed.                 *)
Marked(w, v) ==
  /\ v.last_step = wl[w].last_step /\ v.current_step = wl[w].current_step
  /\ v.rqs_per_step = wl[w].rqs_per_step /\ v.provided = wl[w].provided
  /\ v.tp = wl[w].tp /\ (v.phase \in Unattached <=> wl[w].phase \in Unattached)
  /\ v.freed => wl[w].freed \/ ~v.tp
  /\ v.removal # wl[w].removal =>
       \/ v.removal = "done" \/ destroyer = "idle" \/ wl[w].removal \notin {"none", "done"}

Marks(w, v) ==
  /\ WorkloadMoves(w, v) /\ pool' = pool /\ fault' = fault /\ fault = "none" /\ Marked(w, v)

(* What these steps of a workload are: marks.                              *)
LEMMA MarkSteps ==
  ASSUME TypeOK, NEW w \in Workloads,
         \/ ReportsProgress(w) \/ ConfigReadsPool(w)
         \/ Configured(w) \/ NotifyConfigured(w) \/ tsload_start_workload(w)
         \/ StartTimeComes(w) \/ tsload_unconfigure_workload(w) \/ ReadPool(w)
  PROVE  \E v : Marks(w, v)
<1>1. /\ wl \in [Workloads -> WorkloadType] /\ wl[w] \in WorkloadType
      /\ pool \in PoolType /\ fault \in {"none", "step_array", "detached_workload", "freed_workload", "endless_draw"}
      /\ wl[w].current_step \in -1 .. wl[w].last_step + 1
  BY Typed
<1>0. ASSUME NEW v \in WorkloadType, Marked(w, v), wl' = [wl EXCEPT ![w] = v], fault = "none",
             UNCHANGED <<pool, ctl, worker, destroyer, fault>>
      PROVE  \E u : Marks(w, u)
  <2>1. v.current_step \in -1 .. v.last_step + 1
    BY <1>0, <1>1 DEF Marked
  <2> QED BY <1>0, <1>1, <2>1 DEF Marks, WorkloadMoves
<1>2. CASE Configured(w)
  <2> DEFINE v == [wl[w] EXCEPT !.phase = "configured"]
  <2>1. wl' = [wl EXCEPT ![w] = v] /\ wl[w].phase = "attached" /\ fault = "none"
        /\ UNCHANGED <<pool, ctl, worker, destroyer, fault>>
    BY <1>1, <1>2 DEF Configured, Alive, Phase
  <2>2. v \in WorkloadType
    BY <1>1 DEF WorkloadType
  <2>3. Marked(w, v)
    BY <1>1, <2>1 DEF WorkloadType, Marked, Unattached
  <2> HIDE DEF v
  <2> QED BY <1>0, <2>1, <2>2, <2>3
<1>3. CASE NotifyConfigured(w)
  <2> DEFINE v == [wl[w] EXCEPT !.notified = TRUE, !.status = "SUCCESS"]
  <2>1. wl' = [wl EXCEPT ![w] = v] /\ fault = "none"
        /\ UNCHANGED <<pool, ctl, worker, destroyer, fault>>
    BY <1>1, <1>3 DEF NotifyConfigured, Alive
  <2>2. v \in WorkloadType
    BY <1>1 DEF WorkloadType
  <2>3. Marked(w, v)
    BY <1>1, <2>1 DEF WorkloadType, Marked, Unattached
  <2> HIDE DEF v
  <2> QED BY <1>0, <2>1, <2>2, <2>3
<1>4. CASE tsload_start_workload(w)
  <2> DEFINE v == [wl[w] EXCEPT !.phase = "scheduled"]
  <2>1. wl' = [wl EXCEPT ![w] = v] /\ wl[w].phase = "configured" /\ fault = "none"
        /\ UNCHANGED <<pool, ctl, worker, destroyer, fault>>
    BY <1>1, <1>4 DEF tsload_start_workload, Alive, Phase
  <2>2. v \in WorkloadType
    BY <1>1 DEF WorkloadType
  <2>3. Marked(w, v)
    BY <1>1, <2>1 DEF WorkloadType, Marked, Unattached
  <2> HIDE DEF v
  <2> QED BY <1>0, <2>1, <2>2, <2>3
<1>5. CASE StartTimeComes(w)
  <2> DEFINE v == [wl[w] EXCEPT !.phase = "due"]
  <2>1. wl' = [wl EXCEPT ![w] = v] /\ wl[w].phase = "scheduled" /\ fault = "none"
        /\ UNCHANGED <<pool, ctl, worker, destroyer, fault>>
    BY <1>1, <1>5 DEF StartTimeComes, Alive, Phase
  <2>2. v \in WorkloadType
    BY <1>1 DEF WorkloadType
  <2>3. Marked(w, v)
    BY <1>1, <2>1 DEF WorkloadType, Marked, Unattached
  <2> HIDE DEF v
  <2> QED BY <1>0, <2>1, <2>2, <2>3
<1>6. CASE tsload_unconfigure_workload(w)
  <2>1. PICK r \in {"detach", "destroy"} : wl' = [wl EXCEPT ![w] = [wl[w] EXCEPT !.removal = r]]
    BY <1>1, <1>6 DEF tsload_unconfigure_workload
  <2>2. /\ destroyer = "idle" /\ fault = "none"
        /\ UNCHANGED <<pool, ctl, worker, destroyer, fault>>
    BY <1>1, <1>6 DEF tsload_unconfigure_workload, Idle, Alive
  <2> DEFINE v == [wl[w] EXCEPT !.removal = r]
  <2>3. v \in WorkloadType
    BY <1>1 DEF WorkloadType
  <2>4. Marked(w, v)
    BY <1>1, <2>2 DEF WorkloadType, Marked, Unattached
  <2>5. wl' = [wl EXCEPT ![w] = v]
    BY <2>1
  <2> HIDE DEF v
  <2> QED BY <1>0, <2>2, <2>3, <2>4, <2>5
<1>7. CASE ReadPool(w)
  <2>1. PICK r \in {"lock", "done"}, f \in BOOLEAN :
          /\ wl' = [wl EXCEPT ![w] = [wl[w] EXCEPT !.removal = r, !.freed = f]]
          /\ f => ~wl[w].tp
    <3>1. wl[w].tp \in BOOLEAN
      BY <1>1 DEF WorkloadType
    <3>2. CASE wl[w].tp
      <4>1. wl' = [wl EXCEPT ![w] = [wl[w] EXCEPT !.removal = "lock", !.freed = FALSE]]
        BY <1>1, <1>7, <3>2 DEF ReadPool
      <4> QED BY <4>1
    <3>3. CASE ~wl[w].tp
      <4>1. wl' = [wl EXCEPT ![w] = [wl[w] EXCEPT !.removal = "done", !.freed = TRUE]]
        BY <1>1, <1>7, <3>3 DEF ReadPool
      <4> QED BY <3>3, <4>1
    <3> QED BY <3>2, <3>3
  <2>2. /\ wl[w].removal \in {"detach", "destroy"} /\ fault = "none"
        /\ UNCHANGED <<pool, ctl, worker, destroyer, fault>>
    BY <1>1, <1>7 DEF ReadPool, Alive
  <2> DEFINE v == [wl[w] EXCEPT !.removal = r, !.freed = f]
  <2>3. v \in WorkloadType
    BY <1>1 DEF WorkloadType
  <2>4. Marked(w, v)
    BY <1>1, <2>1, <2>2 DEF WorkloadType, Marked, Unattached
  <2>5. wl' = [wl EXCEPT ![w] = v]
    BY <2>1
  <2> HIDE DEF v
  <2> QED BY <1>0, <2>2, <2>3, <2>4, <2>5
<1>8. CASE ReportsProgress(w)
  <2> DEFINE v == [wl[w] EXCEPT !.status = "CONFIGURING"]
  <2>1. wl' = [wl EXCEPT ![w] = v] /\ fault = "none"
        /\ UNCHANGED <<pool, ctl, worker, destroyer, fault>>
    BY <1>1, <1>8 DEF ReportsProgress, Alive
  <2>2. v \in WorkloadType
    BY <1>1 DEF WorkloadType
  <2>3. Marked(w, v)
    BY <1>1, <2>1 DEF WorkloadType, Marked
  <2> HIDE DEF v
  <2> QED BY <1>0, <2>1, <2>2, <2>3
<1>9. CASE ConfigReadsPool(w)
  <2> DEFINE v == [wl[w] EXCEPT !.phase = "attaching"]
  <2>1. wl' = [wl EXCEPT ![w] = v] /\ wl[w].phase = "new" /\ fault = "none"
        /\ UNCHANGED <<pool, ctl, worker, destroyer, fault>>
    BY <1>1, <1>9 DEF ConfigReadsPool, Alive, Phase
  <2>2. v \in WorkloadType
    BY <1>1 DEF WorkloadType
  <2>3. Marked(w, v)
    BY <1>1, <2>1 DEF WorkloadType, Marked, Unattached
  <2> HIDE DEF v
  <2> QED BY <1>0, <2>1, <2>2, <2>3
<1> QED BY <1>2, <1>3, <1>4, <1>5, <1>6, <1>7, <1>8, <1>9

(* The other steps of a workload: attaching, rejecting, detaching and      *)
(* feeding it, and the faults.                                             *)
Attaches(w, v) ==
  /\ WorkloadMoves(w, v) /\ wl[w].phase = "attaching" /\ v = [wl[w] EXCEPT !.phase = "attached"]
  /\ pool.mutex = Free /\ pool'.wl_changed
  /\ pool'.wl_list = Append(pool.wl_list, w) /\ pool'.wl_count = pool.wl_count + 1
Rejects(w, v) ==
  /\ WorkloadMoves(w, v) /\ wl[w].phase = "new"
  /\ v = [wl[w] EXCEPT !.phase = "rejected", !.tp = FALSE]
  /\ pool.mutex = Free /\ pool'.wl_changed
  /\ pool'.wl_list = pool.wl_list /\ pool'.wl_count = pool.wl_count - 1
Detaches(w, v) ==
  /\ WorkloadMoves(w, v) /\ wl[w].removal = "lock" /\ wl[w].tp
  /\ v = [wl[w] EXCEPT !.removal = "destroy", !.tp = FALSE]
  /\ pool.mutex = Free /\ pool'.wl_changed
  /\ pool'.wl_list = list_del(pool.wl_list, w) /\ pool'.wl_count = pool.wl_count - 1
Provides(w, n, v) ==
  /\ WorkloadMoves(w, v) /\ pool' = pool /\ wl[w].phase \notin Unattached
  /\ wl[w].last_step - wl[w].current_step # QSIZE
  /\ v = [wl[w] EXCEPT !.last_step = @ + 1,
                       !.rqs_per_step = [@ EXCEPT ![Slot(wl[w].last_step + 1)] = n],
                       !.provided = Append(@, n)]
Faults == UNCHANGED <<wl, pool, ctl, worker, destroyer>> /\ TypeOK'

(* A step's slot is a slot of the ring.                                    *)
LEMMA SlotType ==
  ASSUME NEW s \in Int
  PROVE  Slot(s) \in Slots
BY QSizeAssumption DEF Slot, Slots

(* A workload whose ring took a step is a workload.                        *)
LEMMA RingUpdate ==
  ASSUME NEW x \in WorkloadType, NEW l \in Int, NEW r \in [Slots -> Counts \cup {Unset}],
         NEW p \in Seq(Counts), NEW v,
         v = [x EXCEPT !.last_step = l, !.rqs_per_step = r, !.provided = p]
  PROVE  v \in WorkloadType
BY DEF WorkloadType

(* Every step of a configuration thread, a feeder or the removal is one of *)
(* these.                                                                  *)
LEMMA WorkloadSteps ==
  ASSUME TypeOK, Lists, NEW w \in Workloads, WorkloadStep(w) \/ Removal(w)
  PROVE  \E v : \/ Marks(w, v) \/ Attaches(w, v) \/ Rejects(w, v) \/ Detaches(w, v)
                \/ (\E n \in Counts : Provides(w, n, v)) \/ Faults
<1>1. /\ wl \in [Workloads -> WorkloadType] /\ wl[w] \in WorkloadType
      /\ pool \in PoolType /\ fault \in {"none", "step_array", "detached_workload", "freed_workload", "endless_draw"}
      /\ wl[w].current_step \in -1 .. wl[w].last_step + 1
  BY Typed
<1>2. CASE tp_attach(w)
  <2> DEFINE v == [wl[w] EXCEPT !.phase = "attached"]
  <2>1. /\ wl' = [wl EXCEPT ![w] = v] /\ wl[w].phase = "attaching"
        /\ pool' = [pool EXCEPT !.wl_list = Append(@, w), !.wl_count = @ + 1, !.wl_changed = TRUE]
        /\ pool.mutex = Free /\ UNCHANGED <<ctl, worker, destroyer, fault>>
    BY <1>1, <1>2 DEF tp_attach, Phase, ListChanged
  <2>2. v \in WorkloadType /\ v.current_step \in -1 .. v.last_step + 1
    BY <1>1 DEF WorkloadType
  <2>0. pool.wl_list \in Seq(Workloads) /\ pool.wl_count \in Int
    BY <1>1 DEF PoolType
  <2>3. /\ pool' \in PoolType /\ pool'.mutex = pool.mutex /\ pool'.is_dead = pool.is_dead
        /\ pool'.wl_list = Append(pool.wl_list, w) /\ pool'.wl_count = pool.wl_count + 1
        /\ pool'.wl_changed
    <3>0. Append(pool.wl_list, w) \in Seq(Workloads) /\ pool.wl_count + 1 \in Int
      BY <2>0, AppendProperties
    <3>1. PICK l \in Seq(Workloads), c \in Int :
            l = Append(pool.wl_list, w) /\ c = pool.wl_count + 1
      BY <3>0
    <3>2. pool' = [pool EXCEPT !.wl_list = l, !.wl_count = c, !.wl_changed = TRUE]
      BY <2>1, <3>1
    <3>3. /\ pool' \in PoolType /\ pool'.mutex = pool.mutex /\ pool'.is_dead = pool.is_dead
          /\ pool'.wl_list = l /\ pool'.wl_count = c /\ pool'.wl_changed = TRUE
      BY <1>1, <3>2 DEF PoolType
    <3> QED BY <3>1, <3>3
  <2>4. WorkloadMoves(w, v)
    BY <1>1, <2>1, <2>2, <2>3 DEF WorkloadMoves
  <2>5. Attaches(w, v)
    BY <2>1, <2>3, <2>4 DEF Attaches
  <2> QED BY <2>5
<1>3. CASE RejectParams(w)
  <2> DEFINE v == [wl[w] EXCEPT !.phase = "rejected", !.tp = FALSE]
  <2>1. /\ wl' = [wl EXCEPT ![w] = v] /\ wl[w].phase = "new"
        /\ pool' = [pool EXCEPT !.wl_count = @ - 1, !.wl_changed = TRUE]
        /\ pool.mutex = Free /\ UNCHANGED <<ctl, worker, destroyer, fault>>
    BY <1>1, <1>3 DEF RejectParams, ListChanged
  <2>2. v \in WorkloadType /\ v.current_step \in -1 .. v.last_step + 1
    BY <1>1 DEF WorkloadType
  <2>0. pool.wl_list \in Seq(Workloads) /\ pool.wl_count \in Int
    BY <1>1 DEF PoolType
  <2>3. /\ pool' \in PoolType /\ pool'.mutex = pool.mutex /\ pool'.is_dead = pool.is_dead
        /\ pool'.wl_list = pool.wl_list /\ pool'.wl_count = pool.wl_count - 1
        /\ pool'.wl_changed
    <3>1. PICK l \in Seq(Workloads), c \in Int : l = pool.wl_list /\ c = pool.wl_count - 1
      BY <2>0
    <3>2. pool' = [pool EXCEPT !.wl_list = l, !.wl_count = c, !.wl_changed = TRUE]
      BY <1>1, <2>1, <3>1 DEF PoolType
    <3>3. /\ pool' \in PoolType /\ pool'.mutex = pool.mutex /\ pool'.is_dead = pool.is_dead
          /\ pool'.wl_list = l /\ pool'.wl_count = c /\ pool'.wl_changed = TRUE
      BY <1>1, <3>2 DEF PoolType
    <3> QED BY <3>1, <3>3
  <2>4. WorkloadMoves(w, v)
    BY <1>1, <2>1, <2>2, <2>3 DEF WorkloadMoves
  <2>5. Rejects(w, v)
    BY <2>1, <2>3, <2>4 DEF Rejects
  <2> QED BY <2>5
<1>4. CASE tp_detach(w)
  <2> DEFINE v == [wl[w] EXCEPT !.removal = "destroy", !.tp = FALSE]
  <2>1. /\ wl' = [wl EXCEPT ![w] = v] /\ wl[w].removal = "lock" /\ wl[w].tp
        /\ pool' = [pool EXCEPT !.wl_list = list_del(@, w), !.wl_count = @ - 1,
                                !.wl_changed = TRUE]
        /\ pool.mutex = Free /\ UNCHANGED <<ctl, worker, destroyer, fault>>
    BY <1>1, <1>4 DEF tp_detach, ListChanged
  <2>2. v \in WorkloadType /\ v.current_step \in -1 .. v.last_step + 1
    BY <1>1 DEF WorkloadType
  <2>3. list_del(pool.wl_list, w) \in Seq(Workloads)
    <3>1. pool.wl_list \in Seq(Workloads)
      BY <1>1 DEF PoolType
    <3>2. CASE In(pool.wl_list, w)
      BY <3>1, <3>2, ListDel DEF Lists
    <3>3. CASE ~In(pool.wl_list, w)
      BY <3>1, <3>3, ListDelAbsent
    <3> QED BY <3>2, <3>3
  <2>4. /\ pool' \in PoolType /\ pool'.mutex = pool.mutex /\ pool'.is_dead = pool.is_dead
        /\ pool'.wl_list = list_del(pool.wl_list, w) /\ pool'.wl_count = pool.wl_count - 1
        /\ pool'.wl_changed
    <3>1. PICK l \in Seq(Workloads), c \in Int :
            l = list_del(pool.wl_list, w) /\ c = pool.wl_count - 1
      BY <1>1, <2>3 DEF PoolType
    <3>2. pool' = [pool EXCEPT !.wl_list = l, !.wl_count = c, !.wl_changed = TRUE]
      BY <2>1, <3>1
    <3>3. /\ pool' \in PoolType /\ pool'.mutex = pool.mutex /\ pool'.is_dead = pool.is_dead
          /\ pool'.wl_list = l /\ pool'.wl_count = c /\ pool'.wl_changed = TRUE
      BY <1>1, <3>2 DEF PoolType
    <3> QED BY <3>1, <3>3
  <2>5. WorkloadMoves(w, v)
    BY <1>1, <2>1, <2>2, <2>4 DEF WorkloadMoves
  <2>6. Detaches(w, v)
    BY <2>1, <2>4, <2>5 DEF Detaches
  <2> QED BY <2>6
<1>5. ASSUME NEW n \in Counts, wl_provide_step(w, n)
      PROVE  \E v : Provides(w, n, v)
  <2> DEFINE id == wl[w].last_step + 1
             v == [wl[w] EXCEPT !.last_step = @ + 1,
                                !.rqs_per_step = [@ EXCEPT ![Slot(id)] = n],
                                !.provided = Append(@, n)]
  <2>0. wl[w].last_step \in Int /\ Slot(id) \in Slots
        /\ wl[w].rqs_per_step \in [Slots -> Counts \cup {Unset}] /\ wl[w].provided \in Seq(Counts)
    BY <1>1, SlotType DEF WorkloadType
  <2>1. /\ wl' = [wl EXCEPT ![w] = v] /\ wl[w].phase \notin Unattached
        /\ UNCHANGED <<pool, ctl, worker, destroyer, fault>>
    BY <1>1, <1>5 DEF wl_provide_step, WorkloadType
  <2>2. wl[w].last_step - wl[w].current_step # QSIZE
    BY <1>5 DEF wl_provide_step, ProvideResult, IsFull
  <2>3. v \in WorkloadType
    <3>1. [wl[w].rqs_per_step EXCEPT ![Slot(id)] = n] \in [Slots -> Counts \cup {Unset}]
      BY <2>0
    <3>2. Append(wl[w].provided, n) \in Seq(Counts)
      BY <2>0
    <3>3. wl[w].last_step + 1 \in Int
      BY <2>0
    <3> HIDE DEF id
    <3>4. v = [wl[w] EXCEPT !.last_step = wl[w].last_step + 1,
                            !.rqs_per_step = [wl[w].rqs_per_step EXCEPT ![Slot(id)] = n],
                            !.provided = Append(wl[w].provided, n)]
      OBVIOUS
    <3> QED BY <1>1, <3>1, <3>2, <3>3, <3>4, RingUpdate
  <2>4. v.current_step \in -1 .. v.last_step + 1
    <3>1. v.current_step = wl[w].current_step /\ v.last_step = wl[w].last_step + 1
      BY <1>1 DEF WorkloadType
    <3> QED BY <1>1, <2>0, <3>1
  <2>5. WorkloadMoves(w, v)
    BY <1>1, <2>1, <2>3, <2>4 DEF WorkloadMoves
  <2>6. Provides(w, n, v)
    BY <2>1, <2>2, <2>5 DEF Provides
  <2> QED BY <2>6
<1>6. CASE ConfiguresFreed(w) \/ DetachesTwice(w)
  <2>1. UNCHANGED <<wl, pool, ctl, worker, destroyer>>
        /\ fault' \in {"freed_workload", "detached_workload"}
    BY <1>6 DEF ConfiguresFreed, DetachesTwice
  <2> QED BY <2>1 DEF Faults, TypeOK
<1> QED BY <1>2, <1>3, <1>4, <1>5, <1>6, MarkSteps DEF WorkloadStep, Removal

(* What a worker's step does to its own state: it keeps what it was dealt. *)
Keeps(t, u) ==
  /\ u \in WorkerType
  /\ u.ran <= Len(u.chain) /\ (u.pc = "run" => u.ran < Len(u.chain))
  /\ u.pc \notin {"run", "ran", "push"} => u.chain = <<>>
  /\ u.reported \o u.chain \o u.requests = Held(t)
OneWorker(t, u) ==
  /\ worker' = [worker EXCEPT ![t] = u] /\ Keeps(t, u)
  /\ UNCHANGED <<wl, pool, ctl, destroyer, fault>>

(* The types of a worker's parts.                                          *)
LEMMA WorkerTyped ==
  ASSUME TypeOK, NEW t \in Tids
  PROVE  /\ worker \in [Tids -> WorkerType] /\ worker[t] \in WorkerType
         /\ worker[t].ran \in Nat /\ worker[t].ran <= Len(worker[t].chain)
         /\ worker[t].pc = "run" => worker[t].ran < Len(worker[t].chain)
         /\ worker[t].chain \in Seq(Requests) /\ worker[t].requests \in Seq(Requests)
         /\ worker[t].reported \in Seq(Requests) /\ Held(t) \in Seq(Requests)
         /\ Len(worker[t].chain) \in Nat
<1>1. worker \in [Tids -> WorkerType]
  BY Typed
<1>2. worker[t] \in WorkerType
  BY <1>1
<1>3. /\ worker[t].chain \in Seq(Requests) /\ worker[t].requests \in Seq(Requests)
      /\ worker[t].reported \in Seq(Requests) /\ worker[t].ran \in Nat
  BY <1>2 DEF WorkerType
<1>4. Held(t) \in Seq(Requests)
  BY <1>3, ConcatProperties DEF Held
<1> QED BY <1>1, <1>2, <1>3, <1>4, Typed, LenProperties

(* Every step of a worker keeps what it was dealt, or is a fault.          *)
LEMMA WorkerSteps ==
  ASSUME TypeOK, ChainsFit, NEW t \in Tids, Worker(t) \/ WSpurious(t)
  PROVE  \/ \E u : OneWorker(t, u)
         \/ Faults
<1> DEFINE x == worker[t]
<1>1. /\ worker \in [Tids -> WorkerType] /\ x \in WorkerType
      /\ x.chain \in Seq(Requests) /\ x.requests \in Seq(Requests) /\ x.reported \in Seq(Requests)
      /\ x.ran \in Nat /\ Len(x.chain) \in Nat /\ x.ran <= Len(x.chain)
      /\ x.pc = "run" => x.ran < Len(x.chain)
      /\ x.pc \notin {"run", "ran", "push"} => x.chain = <<>>
      /\ Held(t) = x.reported \o x.chain \o x.requests
  BY WorkerTyped DEF ChainsFit, Held
<1> HIDE DEF x
<1>2. CASE WTop(t) \/ WLock(t) \/ WDecide(t) \/ WWait(t) \/ WSpurious(t)
  <2>1. PICK pc \in {"exited", "lock", "take", "top", "towait", "waiting"},
             m \in {x.rq_mutex, "worker"}, s \in {x.state, "SLEEPING"} :
          worker' = [worker EXCEPT ![t] = [x EXCEPT !.pc = pc, !.rq_mutex = m, !.state = s]]
    <3>1. CASE WTop(t)
      <4>1. PICK pc \in {"exited", "lock"} : worker' = [worker EXCEPT ![t].pc = pc]
        BY <3>1 DEF WTop
      <4>2. worker' = [worker EXCEPT ![t] = [x EXCEPT !.pc = pc, !.rq_mutex = x.rq_mutex, !.state = x.state]]
        BY <1>1, <4>1 DEF WorkerType, x
      <4> QED BY <4>2
    <3>2. CASE WLock(t)
      <4>2. worker' = [worker EXCEPT ![t] = [x EXCEPT !.pc = "take", !.rq_mutex = "worker", !.state = x.state]]
        BY <1>1, <3>2 DEF WorkerType, x, WLock
      <4> QED BY <4>2
    <3>3. CASE WDecide(t)
      <4>1. CASE GoesToSleep(t)
        <5>1. worker' = [worker EXCEPT ![t] = [x EXCEPT !.pc = "towait", !.rq_mutex = x.rq_mutex, !.state = "SLEEPING"]]
          BY <1>1, <3>3, <4>1 DEF WorkerType, x, WDecide
        <5> QED BY <5>1
      <4>2. CASE ~GoesToSleep(t)
        <5>1. worker' = [worker EXCEPT ![t] = [x EXCEPT !.pc = "top", !.rq_mutex = x.rq_mutex, !.state = x.state]]
          BY <1>1, <3>3, <4>2 DEF WorkerType, x, WDecide
        <5> QED BY <5>1
      <4> QED BY <4>1, <4>2
    <3>4. CASE WWait(t)
      <4>2. worker' = [worker EXCEPT ![t] = [x EXCEPT !.pc = "waiting", !.rq_mutex = x.rq_mutex, !.state = x.state]]
        BY <1>1, <3>4 DEF WorkerType, x, WWait
      <4> QED BY <4>2
    <3>5. CASE WSpurious(t)
      <4>2. worker' = [worker EXCEPT ![t] = [x EXCEPT !.pc = "top", !.rq_mutex = x.rq_mutex, !.state = x.state]]
        BY <1>1, <3>5 DEF WorkerType, x, WSpurious
      <4> QED BY <4>2
    <3> QED BY <1>2, <3>1, <3>2, <3>3, <3>4, <3>5
  <2>2. x.chain = <<>> /\ UNCHANGED <<wl, pool, ctl, destroyer, fault>>
    <3>1. x.pc \notin {"run", "ran", "push"}
      BY <1>2 DEF WTop, WLock, WDecide, WWait, WSpurious, x
    <3>2. UNCHANGED <<wl, pool, ctl, destroyer, fault>>
      BY <1>2 DEF WTop, WLock, WDecide, WWait, WSpurious, elsewhere
    <3> QED BY <1>1, <3>1, <3>2
  <2> DEFINE u == [x EXCEPT !.pc = pc, !.rq_mutex = m, !.state = s]
  <2>3. /\ u \in WorkerType /\ u.pc = pc /\ u.ran = x.ran /\ u.chain = x.chain
        /\ u.reported = x.reported /\ u.requests = x.requests
    BY <1>1 DEF WorkerType
  <2>4. worker' = [worker EXCEPT ![t] = u]
    BY <2>1
  <2> HIDE DEF u
  <2>5. Keeps(t, u)
    BY <1>1, <2>2, <2>3 DEF Keeps
  <2> QED BY <2>2, <2>4, <2>5 DEF OneWorker
<1>3. CASE WTake(t)
  <2>a. PICK pc \in {"decide", "run"}, q \in Seq(Requests), e \in Seq(Requests) :
          /\ pc = (IF x.requests = <<>> THEN "decide" ELSE "run")
          /\ q = x.requests /\ e = <<>>
    <3>1. <<>> \in Seq(Requests)
      BY EmptySeq
    <3> QED BY <1>1, <3>1, Zenon
  <2> DEFINE u == [x EXCEPT !.pc = pc, !.state = "WORKING", !.do_sleep = TRUE, !.chain = q,
                            !.ran = 0, !.requests = e, !.rq_mutex = "free"]
  <2>1. worker' = [worker EXCEPT ![t] = u] /\ x.pc = "take"
        /\ UNCHANGED <<wl, pool, ctl, destroyer, fault>>
    BY <1>1, <1>3, <2>a DEF WTake, x, elsewhere, Free
  <2>b. /\ u \in WorkerType /\ u.pc = pc
        /\ u.chain = q /\ u.ran = 0 /\ u.requests = e /\ u.reported = x.reported
    BY <1>1 DEF WorkerType, Free
  <2>2. /\ u \in WorkerType /\ u.chain = x.requests /\ u.ran = 0 /\ u.requests = <<>>
        /\ u.reported = x.reported
        /\ (x.requests = <<>> => u.pc = "decide") /\ (x.requests # <<>> => u.pc = "run")
    BY <2>a, <2>b
  <2>3. x.chain = <<>>
    BY <1>1, <2>1
  <2> HIDE DEF u
  <2>4. u.reported \o u.chain \o u.requests = Held(t)
    <3>1. x.reported \o x.chain = x.reported /\ x.reported \o x.requests \in Seq(Requests)
      BY <1>1, <2>3, ConcatEmptySeq, ConcatProperties
    <3>2. (x.reported \o x.requests) \o <<>> = x.reported \o x.requests
      BY <3>1, ConcatEmptySeq
    <3> QED BY <1>1, <2>2, <3>1, <3>2
  <2>5. Len(x.requests) \in Nat /\ (x.requests # <<>> => 0 < Len(x.requests))
    BY <1>1, EmptySeq, LenProperties
  <2>6. Keeps(t, u)
    <3>1. CASE x.requests = <<>>
      BY <2>2, <2>4, <2>5, <3>1 DEF Keeps
    <3>2. CASE x.requests # <<>>
      <4>1. u.pc = "run" /\ 0 < Len(u.chain) /\ u.ran = 0 /\ Len(u.chain) \in Nat
        BY <2>2, <2>5, <3>2
      <4>2. u.ran <= Len(u.chain) /\ u.ran < Len(u.chain)
        BY <4>1
      <4> QED BY <2>2, <2>4, <4>1, <4>2, Zenon DEF Keeps
    <3> QED BY <3>1, <3>2
  <2> QED BY <2>1, <2>6 DEF OneWorker
<1>4. CASE WRun(t)
  <2>a. PICK r \in Nat : r = x.ran + 1
    BY <1>1
  <2> DEFINE u == [x EXCEPT !.pc = "ran", !.ran = r]
  <2>1. worker' = [worker EXCEPT ![t] = u] /\ x.pc = "run"
        /\ UNCHANGED <<wl, pool, ctl, destroyer, fault>>
    BY <1>1, <1>4, <2>a DEF WRun, x, elsewhere
  <2>2. /\ u \in WorkerType /\ u.pc = "ran" /\ u.ran = r /\ u.chain = x.chain
        /\ u.reported = x.reported /\ u.requests = x.requests
    BY <1>1 DEF WorkerType
  <2> HIDE DEF u
  <2>3. Keeps(t, u)
    BY <1>1, <2>a, <2>1, <2>2 DEF Keeps
  <2> QED BY <2>1, <2>3 DEF OneWorker
<1>5. CASE WAfterRun(t)
  <2>1. PICK pc \in {"push", "run"}, b \in BOOLEAN :
          /\ worker' = [worker EXCEPT ![t] = [x EXCEPT !.pc = pc, !.do_sleep = b]]
          /\ pc = "run" => x.ran # Len(x.chain)
    <3>1. Interrupted(t) \in BOOLEAN /\ x.do_sleep \in BOOLEAN
      BY <1>1 DEF Interrupted, WorkerType
    <3>2. PICK pc \in {"push", "run"} :
            pc = IF Interrupted(t) \/ x.ran = Len(x.chain) THEN "push" ELSE "run"
      OBVIOUS
    <3>3. PICK b \in BOOLEAN : b = (x.do_sleep /\ ~Interrupted(t))
      OBVIOUS
    <3>4. worker' = [worker EXCEPT ![t] = [x EXCEPT !.pc = pc, !.do_sleep = b]]
      BY <1>1, <1>5, <3>2, <3>3 DEF WAfterRun, x
    <3> QED BY <3>2, <3>4
  <2>2. x.pc = "ran" /\ UNCHANGED <<wl, pool, ctl, destroyer, fault>>
    BY <1>5 DEF WAfterRun, elsewhere, x
  <2> DEFINE u == [x EXCEPT !.pc = pc, !.do_sleep = b]
  <2>3. /\ u \in WorkerType /\ u.pc = pc /\ u.ran = x.ran /\ u.chain = x.chain
        /\ u.reported = x.reported /\ u.requests = x.requests
    BY <1>1 DEF WorkerType
  <2>4. worker' = [worker EXCEPT ![t] = u]
    BY <2>1
  <2> HIDE DEF u
  <2>5. Keeps(t, u)
    BY <1>1, <2>1, <2>2, <2>3 DEF Keeps
  <2> QED BY <2>2, <2>4, <2>5 DEF OneWorker
<1>6. CASE wl_rq_chain_push(t)
  <2>2. x.reported \o x.chain \in Seq(Requests)
    BY <1>1, ConcatProperties
  <2>a. PICK e \in Seq(Requests), p \in Seq(Requests) : e = <<>> /\ p = x.reported \o x.chain
    <3>1. <<>> \in Seq(Requests)
      BY EmptySeq
    <3> QED BY <2>2, <3>1, Zenon
  <2> DEFINE u == [x EXCEPT !.pc = "decide", !.chain = e, !.ran = 0, !.reported = p]
  <2>1. worker' = [worker EXCEPT ![t] = u] /\ UNCHANGED <<wl, pool, ctl, destroyer, fault>>
    BY <1>1, <1>6, <2>a DEF wl_rq_chain_push, Entries, x, elsewhere
  <2>b. /\ u \in WorkerType /\ u.pc = "decide" /\ u.ran = 0 /\ u.chain = e
        /\ u.reported = p /\ u.requests = x.requests
    BY <1>1 DEF WorkerType
  <2>3. /\ u \in WorkerType /\ u.pc = "decide" /\ u.ran = 0 /\ u.chain = <<>>
        /\ u.reported = x.reported \o x.chain /\ u.requests = x.requests
    BY <2>a, <2>b
  <2> HIDE DEF u
  <2>4. u.reported \o u.chain \o u.requests = Held(t)
    <3>1. u.reported \o <<>> = u.reported
      BY <2>2, <2>3, ConcatEmptySeq
    <3> QED BY <1>1, <2>3, <3>1
  <2>5. Keeps(t, u)
    <3>1. u.ran = 0 /\ Len(u.chain) = 0 /\ u.pc = "decide"
      BY <2>3, EmptySeq
    <3>2. u.ran <= Len(u.chain) /\ u.pc # "run"
      BY <3>1
    <3> QED BY <2>3, <2>4, <3>2, Zenon DEF Keeps
  <2> QED BY <2>1, <2>5 DEF OneWorker
<1>7. CASE WRunFaults(t)
  <2>1. UNCHANGED <<wl, pool, ctl, worker, destroyer>>
        /\ fault' \in {"freed_workload", "detached_workload"}
    BY <1>7 DEF WRunFaults, elsewhere
  <2> QED BY <2>1 DEF Faults, TypeOK
<1> QED BY <1>2, <1>3, <1>4, <1>5, <1>6, <1>7 DEF Worker

(* Such a step keeps the types and what every worker holds.                *)
LEMMA OneWorkerKeeps ==
  ASSUME TypeOK, ChainsFit, NEW t \in Tids, NEW u, OneWorker(t, u)
  PROVE  TypeOK' /\ ChainsFit' /\ \A v \in Tids : Held(v)' = Held(v)
<1>1. worker \in [Tids -> WorkerType]
  BY Typed
<1>2. worker' \in [Tids -> WorkerType] /\ worker'[t] = u
      /\ \A v \in Tids : v # t => worker'[v] = worker[v]
  BY <1>1 DEF OneWorker, Keeps
<1>3. \A v \in Tids : /\ worker'[v].ran <= Len(worker'[v].chain)
                      /\ worker'[v].pc = "run" => worker'[v].ran < Len(worker'[v].chain)
  BY <1>2, Typed DEF OneWorker, Keeps
<1>4. TypeOK'
  BY <1>2, <1>3 DEF TypeOK, OneWorker
<1>5. ChainsFit'
  BY <1>2 DEF ChainsFit, OneWorker, Keeps
<1>6. ASSUME NEW v \in Tids PROVE Held(v)' = Held(v)
  BY <1>2 DEF Held, OneWorker, Keeps
<1> QED BY <1>4, <1>5, <1>6

(* The control thread's and the destroyer's steps that leave every list.   *)
WorkersAlike ==
  /\ worker' \in [Tids -> WorkerType]
  /\ \A t \in Tids :
       /\ worker'[t].chain = worker[t].chain /\ worker'[t].requests = worker[t].requests
       /\ worker'[t].reported = worker[t].reported /\ worker'[t].ran = worker[t].ran
       /\ \/ worker'[t].pc = worker[t].pc
          \/ worker[t].pc = "waiting" /\ worker'[t].pc = "top"

(* Steps that leave the workers' lists keep what they hold.                *)
LEMMA AlikeKeeps ==
  ASSUME TypeOK, ChainsFit, WorkersAlike
  PROVE  /\ ChainsFit' /\ \A v \in Tids : Held(v)' = Held(v)
         /\ \A t \in Tids : /\ worker'[t].ran <= Len(worker'[t].chain)
                            /\ worker'[t].pc = "run" => worker'[t].ran < Len(worker'[t].chain)
<1>1. ChainsFit'
  BY DEF ChainsFit, WorkersAlike
<1>2. \A v \in Tids : Held(v)' = Held(v)
  BY DEF Held, WorkersAlike
<1> QED BY <1>1, <1>2, Typed DEF WorkersAlike

(* A notification is such a step.                                          *)
LEMMA NotifiedAlike ==
  ASSUME TypeOK, event_notify_all
  PROVE  WorkersAlike
<1>1. \A t \in Tids : worker[t] \in WorkerType
  BY Typed
<1>2. ASSUME NEW t \in Tids
      PROVE  /\ worker'[t] \in WorkerType
             /\ worker'[t].chain = worker[t].chain /\ worker'[t].requests = worker[t].requests
             /\ worker'[t].reported = worker[t].reported /\ worker'[t].ran = worker[t].ran
             /\ \/ worker'[t].pc = worker[t].pc
                \/ worker[t].pc = "waiting" /\ worker'[t].pc = "top"
  <2>1. PICK pc : /\ pc = worker[t].pc \/ (worker[t].pc = "waiting" /\ pc = "top")
                  /\ worker'[t] = [worker[t] EXCEPT !.pc = pc]
    BY DEF event_notify_all
  <2> QED BY <1>1, <2>1 DEF WorkerType
<1>3. worker' \in [Tids -> WorkerType]
  <2>1. worker' = [t \in Tids |-> worker'[t]]
    BY DEF event_notify_all
  <2> QED BY <1>2, <2>1
<1> QED BY <1>2, <1>3 DEF WorkersAlike

(* The workload at which the control thread is.                            *)
LEMMA CurrentIs ==
  ASSUME TypeOK, StepArray, AtWorkload \/ ctl.pc = "detach"
  PROVE  /\ ctl.i + 1 \in DOMAIN ctl.step /\ Current \in Workloads /\ Attached(Current)
         /\ ctl.i + 1 \in StillToCome /\ ctl.i < ctl.wl_count
         /\ ctl.pc \in {"step", "detach"} /\ pool.mutex = "ctl"
<1>1. ctl.i \in Nat /\ ctl.wl_count \in Int /\ ctl.step \in Seq(Workloads)
  BY Typed DEF CtlType
<1>2. ctl.i < ctl.wl_count /\ ctl.wl_count <= Len(ctl.step) /\ ctl.pc \in {"step", "detach"}
  BY DEF StepArray, AtWorkload, AtArray
<1>3. Len(ctl.step) \in Nat /\ DOMAIN ctl.step = 1 .. Len(ctl.step)
  BY <1>1, LenProperties
<1>4. ctl.i + 1 \in 1 .. Len(ctl.step) /\ ctl.i + 1 \in ctl.i + 1 .. ctl.wl_count
  BY <1>1, <1>2, <1>3
<1>5. ctl.i + 1 \in StillToCome
  BY <1>2, <1>4 DEF StillToCome
<1> QED BY <1>1, <1>2, <1>3, <1>4, <1>5, ElementOfSeq DEF Current, StepArray, AtArray, HasPoolMutex

(* The steps of the control thread, but for its work on workloads.         *)
QuietControl ==
  \/ CtlTop \/ CtlLock \/ CtlLockWorker \/ CtlSkip \/ CtlUnlockWorkers \/ CtlInterrupt
  \/ CtlNotify \/ CtlRelease

(* The loop over the workers keeps the control thread's types.             *)
LEMMA NextTidType ==
  ASSUME ctl \in CtlType, NEW to \in {"step", "notify"}, NextTid(to)
  PROVE  ctl' \in CtlType /\ ctl'.step = ctl.step /\ ctl'.wl_count = ctl.wl_count
         /\ \/ ctl'.pc = ctl.pc
            \/ ctl'.pc = to /\ ctl'.i = 0
<1>1. PICK j \in Nat : j = ctl.i + 1
  BY DEF CtlType
<1>2. CASE ctl' = [ctl EXCEPT !.i = j]
  BY <1>2 DEF CtlType
<1>3. CASE ctl' = [ctl EXCEPT !.i = 0, !.pc = to]
  BY <1>3 DEF CtlType
<1> QED BY <1>1, <1>2, <1>3 DEF NextTid

(* What the control thread's steps between the workloads do.               *)
LEMMA QuietSteps ==
  ASSUME TypeOK, ChainsFit, QuietControl
  PROVE  /\ WorkersAlike /\ ctl' \in CtlType /\ pool' \in PoolType
         /\ UNCHANGED <<wl, destroyer, fault>> /\ pool'.is_dead = pool.is_dead
         /\ pool'.wl_list = pool.wl_list /\ pool'.wl_count = pool.wl_count
<1>1. worker \in [Tids -> WorkerType] /\ ctl \in CtlType /\ pool \in PoolType
  BY Typed
<1>2. ASSUME UNCHANGED worker PROVE WorkersAlike
  BY <1>1, <1>2 DEF WorkersAlike
<1>3. CASE CtlTop
  <2>1. PICK pc \in {"exited", "lock"} : ctl' = [ctl EXCEPT !.pc = pc]
    BY <1>3 DEF CtlTop, Ctl
  <2>2. ctl' \in CtlType
    BY <1>1, <2>1 DEF CtlType
  <2> QED BY <1>1, <1>2, <1>3, <2>2 DEF CtlTop
<1>4. CASE CtlLock
  <2>1. pool' = [pool EXCEPT !.mutex = "ctl", !.wl_changed = FALSE]
    BY <1>4 DEF CtlLock
  <2>2. /\ pool' \in PoolType /\ pool'.is_dead = pool.is_dead
        /\ pool'.wl_list = pool.wl_list /\ pool'.wl_count = pool.wl_count
    BY <1>1, <2>1 DEF PoolType
  <2>3. PICK pc \in {"release", "rqlock"}, s \in Seq(Workloads), n \in Int :
          ctl' = [pc |-> pc, i |-> 0, step |-> s, wl_count |-> n]
    <3>1. ctl.step \in Seq(Workloads) /\ pool.wl_list \in Seq(Workloads) /\ pool.wl_count \in Int
      BY <1>1 DEF CtlType, PoolType
    <3> QED BY <1>4, <3>1 DEF CtlLock
  <2>4. ctl' \in CtlType
    BY <2>3 DEF CtlType
  <2> QED BY <1>2, <1>4, <2>2, <2>4 DEF CtlLock
<1>5. CASE CtlLockWorker
  <2>1. ctl' \in CtlType
    BY <1>1, <1>5, NextTidType DEF CtlLockWorker
  <2>2. WorkersAlike
    <3>1. worker' = [worker EXCEPT ![ctl.i] = [worker[ctl.i] EXCEPT !.rq_mutex = "ctl"]]
      BY <1>5 DEF CtlLockWorker
    <3>2. ASSUME NEW t \in Tids
          PROVE  /\ worker'[t] \in WorkerType
                 /\ worker'[t].chain = worker[t].chain /\ worker'[t].requests = worker[t].requests
                 /\ worker'[t].reported = worker[t].reported /\ worker'[t].ran = worker[t].ran
                 /\ worker'[t].pc = worker[t].pc
      <4>1. worker[t] \in WorkerType
        BY <1>1
      <4>2. worker'[t] = worker[t] \/ worker'[t] = [worker[t] EXCEPT !.rq_mutex = "ctl"]
        BY <1>1, <3>1
      <4> QED BY <4>1, <4>2 DEF WorkerType
    <3>3. worker' \in [Tids -> WorkerType]
      BY <1>1, <3>1, <3>2
    <3> QED BY <3>2, <3>3 DEF WorkersAlike
  <2> QED BY <1>1, <1>5, <2>1, <2>2 DEF CtlLockWorker
<1>6. CASE CtlSkip
  <2>1. PICK j \in Nat : ctl' = [ctl EXCEPT !.i = j]
    <3>1. ctl.i + 1 \in Nat
      BY <1>1 DEF CtlType
    <3> QED BY <1>6, <3>1 DEF CtlSkip
  <2>2. ctl' \in CtlType
    BY <1>1, <2>1 DEF CtlType
  <2> QED BY <1>1, <1>2, <1>6, <2>2 DEF CtlSkip
<1>7. CASE CtlUnlockWorkers
  <2>1. ctl' \in CtlType
    BY <1>1, <1>7 DEF CtlType, CtlUnlockWorkers
  <2>2. WorkersAlike
    <3>1. worker' = [t \in Tids |-> [worker[t] EXCEPT !.rq_mutex = "free"]]
      BY <1>7 DEF CtlUnlockWorkers, Free
    <3>2. ASSUME NEW t \in Tids
          PROVE  /\ worker'[t] \in WorkerType
                 /\ worker'[t].chain = worker[t].chain /\ worker'[t].requests = worker[t].requests
                 /\ worker'[t].reported = worker[t].reported /\ worker'[t].ran = worker[t].ran
                 /\ worker'[t].pc = worker[t].pc
      <4>1. worker[t] \in WorkerType /\ worker'[t] = [worker[t] EXCEPT !.rq_mutex = "free"]
        BY <1>1, <3>1
      <4> QED BY <4>1 DEF WorkerType, Free
    <3>3. worker' \in [Tids -> WorkerType]
      BY <3>1, <3>2
    <3> QED BY <3>2, <3>3 DEF WorkersAlike
  <2> QED BY <1>1, <1>7, <2>1, <2>2 DEF CtlUnlockWorkers
<1>8. CASE CtlInterrupt
  <2>1. ctl' \in CtlType
    BY <1>1, <1>8, NextTidType DEF CtlInterrupt
  <2>2. WorkersAlike
    <3>1. worker' = [worker EXCEPT ![ctl.i] = [worker[ctl.i] EXCEPT !.state = "INTERRUPT"]]
      BY <1>8 DEF CtlInterrupt
    <3>2. ASSUME NEW t \in Tids
          PROVE  /\ worker'[t] \in WorkerType
                 /\ worker'[t].chain = worker[t].chain /\ worker'[t].requests = worker[t].requests
                 /\ worker'[t].reported = worker[t].reported /\ worker'[t].ran = worker[t].ran
                 /\ worker'[t].pc = worker[t].pc
      <4>1. worker[t] \in WorkerType
        BY <1>1
      <4>2. worker'[t] = worker[t] \/ worker'[t] = [worker[t] EXCEPT !.state = "INTERRUPT"]
        BY <1>1, <3>1
      <4> QED BY <4>1, <4>2 DEF WorkerType
    <3>3. worker' \in [Tids -> WorkerType]
      BY <1>1, <3>1, <3>2
    <3> QED BY <3>2, <3>3 DEF WorkersAlike
  <2> QED BY <1>1, <1>8, <2>1, <2>2 DEF CtlInterrupt
<1>9. CASE CtlNotify
  <2>1. ctl' \in CtlType
    BY <1>1, <1>9 DEF CtlType, CtlNotify, Ctl
  <2> QED BY <1>1, <1>9, <2>1, NotifiedAlike DEF CtlNotify
<1>10. CASE CtlRelease
  <2>1. ctl' = [ctl EXCEPT !.pc = "top"] /\ pool' = [pool EXCEPT !.mutex = "free"]
    BY <1>10 DEF CtlRelease, Ctl, Free
  <2>2. /\ pool' \in PoolType /\ pool'.is_dead = pool.is_dead
        /\ pool'.wl_list = pool.wl_list /\ pool'.wl_count = pool.wl_count
    BY <1>1, <2>1 DEF PoolType, Free
  <2>3. ctl' \in CtlType
    BY <1>1, <2>1 DEF CtlType
  <2> QED BY <1>2, <1>10, <2>2, <2>3 DEF CtlRelease
<1> QED BY <1>3, <1>4, <1>5, <1>6, <1>7, <1>8, <1>9, <1>10 DEF QuietControl

(* The new requests of a worker.                                           *)
LEMMA NewRequestsAre ==
  ASSUME NEW w \in Workloads, NEW s \in Nat, NEW n \in Nat, NEW t \in Tids
  PROVE  /\ NewRequests(w, s, n, t) \in Seq(Requests)
         /\ Len(NewRequests(w, s, n, t)) = Share(n, t)
         /\ \A k \in 1 .. Share(n, t) :
              NewRequests(w, s, n, t)[k] = [wl |-> w, step |-> s, id |-> FirstId(n, t) + k - 1]
<1>1. Share(n, t) \in Nat /\ FirstId(n, t) \in Nat
  BY IdsFollow
<1>2. PICK m \in Nat, f \in Nat : m = Share(n, t) /\ f = FirstId(n, t)
  BY <1>1
<1>3. NewRequests(w, s, n, t) = [k \in 1 .. m |-> [wl |-> w, step |-> s, id |-> f + k - 1]]
  BY <1>2 DEF NewRequests
<1>4. \A k \in 1 .. m : [wl |-> w, step |-> s, id |-> f + k - 1] \in Requests
  BY DEF Requests
<1> HIDE DEF Requests
<1>5. NewRequests(w, s, n, t) \in [1 .. m -> Requests]
  BY <1>3, <1>4
<1>6. NewRequests(w, s, n, t) \in Seq(Requests) /\ DOMAIN NewRequests(w, s, n, t) = 1 .. m
  BY <1>5, SeqDef
<1>7. Len(NewRequests(w, s, n, t)) = m
  BY <1>6, LenProperties
<1> QED BY <1>2, <1>3, <1>6, <1>7

(* Taking a step from the ring and dealing its requests.                   *)
RunsStep(w, n) ==
  /\ w \in Workloads /\ Attached(w) /\ w = Current /\ ~wl[w].freed
  /\ wl[w].current_step < wl[w].last_step /\ n = wl[w].provided[wl[w].current_step + 2]
  /\ n \in Counts
  /\ wl' \in [Workloads -> WorkloadType] /\ \A u \in Workloads : u # w => wl'[u] = wl[u]
  /\ wl'[w].last_step = wl[w].last_step /\ wl'[w].current_step = wl[w].current_step + 1
  /\ wl'[w].rqs_per_step = wl[w].rqs_per_step /\ wl'[w].provided = wl[w].provided
  /\ wl'[w].tp = wl[w].tp /\ wl'[w].phase = wl[w].phase /\ wl'[w].freed = wl[w].freed
  /\ wl'[w].removal = wl[w].removal
  /\ ctl' = [ctl EXCEPT !.i = ctl.i + 1] /\ ctl.pc = "step"
  /\ \A t \in Tids :
       worker'[t] = [worker[t] EXCEPT !.requests =
                       worker[t].requests \o NewRequests(w, wl[w].current_step + 1, n, t)]
  /\ worker' \in [Tids -> WorkerType]
  /\ UNCHANGED <<pool, destroyer, fault>>

(* CtlRunStep takes the count that was provided for the step.              *)
LEMMA RunStepIs ==
  ASSUME TypeOK, StepArray, Rings, CtlRunStep
  PROVE  RunsStep(Current, wl[Current].provided[wl[Current].current_step + 2])
<1> DEFINE w == Current
           n == wl[w].rqs_per_step[Slot(NextStep)]
<1>1. w \in Workloads /\ Attached(w) /\ ctl.pc = "step" /\ ~wl[w].freed
  BY CurrentIs DEF CtlRunStep, AtStarted, AtWorkload
<1>2. /\ worker \in [Tids -> WorkerType] /\ wl \in [Workloads -> WorkloadType]
      /\ wl[w] \in WorkloadType /\ ctl \in CtlType
  BY <1>1, Typed
<1>3. /\ wl[w].current_step \in -1 .. wl[w].last_step + 1 /\ wl[w].last_step \in Int
      /\ wl[w].current_step \in Int /\ wl[w].provided \in Seq(Counts)
  BY <1>1, <1>2, Typed DEF WorkloadType
<1>4. NextStep = wl[w].current_step + 1 /\ NextStep \in Nat /\ NextStep <= wl[w].last_step
  BY <1>3 DEF CtlRunStep, NextStep, NoSteps
<1>5. n = wl[w].provided[NextStep + 1] /\ Len(wl[w].provided) = wl[w].last_step + 1
  <2>1. RingRight(w)
    BY <1>1 DEF Rings
  <2>2. PICK c \in Nat : c = NextStep
    BY <1>4
  <2>3. c \in wl[w].current_step + 1 .. wl[w].last_step
    BY <1>3, <1>4, <2>2
  <2>4. wl[w].rqs_per_step[Slot(c)] = wl[w].provided[c + 1]
    BY <2>1, <2>3 DEF RingRight
  <2> QED BY <2>1, <2>2, <2>4 DEF RingRight
<1>6. n \in Counts /\ n \in Nat
  <2>1. NextStep + 1 \in 1 .. Len(wl[w].provided)
    BY <1>3, <1>4, <1>5
  <2> QED BY <1>3, <1>5, <2>1, ElementOfSeq, PoolAssumption
<1>7. NextStep + 1 = wl[w].current_step + 2
  BY <1>3, <1>4
<1>8. wl' = [wl EXCEPT ![w] = [wl[w] EXCEPT !.current_step = NextStep, !.status = "RUNNING"]]
      /\ ctl' = [ctl EXCEPT !.i = ctl.i + 1] /\ UNCHANGED <<pool, destroyer, fault>>
  BY <1>2, <1>4 DEF CtlRunStep
<1>9. /\ tp_distribute_requests(w, NextStep, n)
  BY DEF CtlRunStep
<1> HIDE DEF w, n
<1>10. /\ wl' \in [Workloads -> WorkloadType] /\ \A u \in Workloads : u # w => wl'[u] = wl[u]
       /\ wl'[w].last_step = wl[w].last_step /\ wl'[w].current_step = NextStep
       /\ wl'[w].rqs_per_step = wl[w].rqs_per_step /\ wl'[w].provided = wl[w].provided
       /\ wl'[w].tp = wl[w].tp /\ wl'[w].phase = wl[w].phase /\ wl'[w].freed = wl[w].freed
       /\ wl'[w].removal = wl[w].removal
  <2>0. PICK c \in Int : c = NextStep
    BY <1>4
  <2>1. PICK v : v = [wl[w] EXCEPT !.current_step = c, !.status = "RUNNING"]
    OBVIOUS
  <2>2. /\ v \in WorkloadType
        /\ v.last_step = wl[w].last_step /\ v.current_step = c
        /\ v.rqs_per_step = wl[w].rqs_per_step /\ v.provided = wl[w].provided
        /\ v.tp = wl[w].tp /\ v.phase = wl[w].phase /\ v.freed = wl[w].freed
        /\ v.removal = wl[w].removal
    BY <1>2, <2>1 DEF WorkloadType
  <2>3. wl' = [wl EXCEPT ![w] = v]
    BY <1>8, <2>0, <2>1
  <2> QED BY <1>1, <1>2, <2>0, <2>2, <2>3
<1>11. /\ \A t \in Tids : worker'[t] = [worker[t] EXCEPT !.requests =
                              worker[t].requests \o NewRequests(w, NextStep, n, t)]
       /\ worker' \in [Tids -> WorkerType]
  <2>1. worker' = [t \in Tids |-> [worker[t] EXCEPT !.requests =
                                     worker[t].requests \o NewRequests(w, NextStep, n, t)]]
    BY <1>9 DEF tp_distribute_requests, AtTail
  <2>2. ASSUME NEW t \in Tids
        PROVE  [worker[t] EXCEPT !.requests =
                  worker[t].requests \o NewRequests(w, NextStep, n, t)] \in WorkerType
    <3>1. worker[t] \in WorkerType /\ worker[t].requests \in Seq(Requests)
      BY <1>2 DEF WorkerType
    <3>2. worker[t].requests \o NewRequests(w, NextStep, n, t) \in Seq(Requests)
      BY <1>1, <1>4, <1>6, <3>1, NewRequestsAre, ConcatProperties
    <3> QED BY <3>1, <3>2 DEF WorkerType
  <2> QED BY <2>1, <2>2
<1>12. wl[w].current_step < wl[w].last_step
  BY <1>3, <1>4
<1>13. w = Current
  BY DEF w
<1> QED BY ZenonT(60), <1>1, <1>4, <1>5, <1>6, <1>7, <1>8, <1>10, <1>11, <1>12, <1>13 DEF RunsStep

(* Finding no step, and detaching the workload.                            *)
EndsWorkload(w, v) ==
  /\ w \in Workloads /\ w = Current /\ Attached(w)
  /\ wl' = [wl EXCEPT ![w] = v] /\ v \in WorkloadType
  /\ v.last_step = wl[w].last_step /\ v.rqs_per_step = wl[w].rqs_per_step
  /\ v.provided = wl[w].provided /\ v.phase = wl[w].phase /\ v.freed = wl[w].freed
  /\ v.removal = wl[w].removal
  /\ ctl' \in CtlType /\ ctl'.step = ctl.step /\ ctl'.wl_count = ctl.wl_count
  /\ pool' \in PoolType /\ pool'.mutex = pool.mutex /\ pool'.is_dead = pool.is_dead
  /\ UNCHANGED <<worker, destroyer, fault>>
Finishes(w, v) ==
  /\ EndsWorkload(w, v) /\ ctl.pc = "step" /\ ctl'.pc = "detach" /\ ctl'.i = ctl.i /\ pool' = pool
  /\ v.tp = wl[w].tp /\ v.current_step = wl[w].current_step + 1
  /\ wl[w].current_step >= wl[w].last_step
TakenOff(w, v) ==
  /\ EndsWorkload(w, v) /\ ctl.pc = "detach" /\ ctl'.pc = "step" /\ ctl'.i = ctl.i + 1
  /\ v.tp = FALSE /\ v.current_step = wl[w].current_step
  /\ pool'.wl_list = list_del(pool.wl_list, w) /\ pool'.wl_count = pool.wl_count - 1
  /\ pool'.wl_changed

(* CtlFinish finds no step and goes to the detach.                         *)
LEMMA FinishIs ==
  ASSUME TypeOK, StepArray, CtlFinish
  PROVE  \E v : Finishes(Current, v)
<1> DEFINE w == Current
<1>1. w \in Workloads /\ Attached(w) /\ ctl.pc = "step"
  BY CurrentIs DEF CtlFinish, AtStarted, AtWorkload
<1>2. /\ wl \in [Workloads -> WorkloadType]
      /\ wl[w] \in WorkloadType /\ ctl \in CtlType /\ pool \in PoolType
  BY <1>1, Typed
<1>3. wl[w].last_step \in Int /\ wl[w].current_step \in Int
  BY <1>2 DEF WorkloadType
<1>4. PICK c \in Int : c = wl[w].current_step + 1
  BY <1>3
<1> DEFINE v == [wl[w] EXCEPT !.current_step = c, !.status = "FINISHED"]
<1>5. wl' = [wl EXCEPT ![w] = v] /\ ctl' = [ctl EXCEPT !.pc = "detach"]
      /\ UNCHANGED <<pool, worker, destroyer, fault>>
  BY <1>2, <1>4 DEF CtlFinish, Ctl
<1>6. wl[w].current_step >= wl[w].last_step
  BY <1>3 DEF CtlFinish, NoSteps, NextStep
<1>7. w = Current
  OBVIOUS
<1> HIDE DEF w
<1>8. /\ v \in WorkloadType
      /\ v.last_step = wl[w].last_step /\ v.rqs_per_step = wl[w].rqs_per_step
      /\ v.provided = wl[w].provided /\ v.phase = wl[w].phase /\ v.freed = wl[w].freed
      /\ v.removal = wl[w].removal /\ v.tp = wl[w].tp /\ v.current_step = c
  BY <1>2 DEF WorkloadType
<1>9. /\ ctl' \in CtlType /\ ctl'.step = ctl.step /\ ctl'.wl_count = ctl.wl_count
      /\ ctl'.pc = "detach" /\ ctl'.i = ctl.i
  BY <1>2, <1>5 DEF CtlType
<1> HIDE DEF v
<1>10. Finishes(w, v)
  BY <1>1, <1>2, <1>4, <1>5, <1>6, <1>7, <1>8, <1>9 DEF Finishes, EndsWorkload
<1> QED BY <1>7, <1>10

(* tp_detach_nolock takes the workload off the list.                       *)
LEMMA DetachIs ==
  ASSUME TypeOK, StepArray, Lists, tp_detach_nolock
  PROVE  \E v : TakenOff(Current, v)
<1> DEFINE w == Current
<1>1. w \in Workloads /\ Attached(w) /\ ctl.pc = "detach"
  BY CurrentIs DEF tp_detach_nolock
<1>2. /\ wl \in [Workloads -> WorkloadType]
      /\ wl[w] \in WorkloadType /\ ctl \in CtlType /\ pool \in PoolType
  BY <1>1, Typed
<1> DEFINE v == [wl[w] EXCEPT !.tp = FALSE]
<1>3. pool.wl_list \in Seq(Workloads) /\ pool.wl_count \in Int /\ ctl.i \in Nat
  BY <1>2 DEF PoolType, CtlType
<1>4. list_del(pool.wl_list, w) \in Seq(Workloads)
  BY <1>1, <1>3, ListDel DEF Lists
<1>5. PICK l \in Seq(Workloads), c \in Int, j \in Nat :
        l = list_del(pool.wl_list, w) /\ c = pool.wl_count - 1 /\ j = ctl.i + 1
  <2>1. pool.wl_count - 1 \in Int /\ ctl.i + 1 \in Nat
    BY <1>3
  <2> QED BY <1>4, <2>1, Zenon
<1>6. /\ wl' = [wl EXCEPT ![w] = v] /\ ctl' = [ctl EXCEPT !.pc = "step", !.i = j]
      /\ pool' = [pool EXCEPT !.wl_list = l, !.wl_count = c, !.wl_changed = TRUE]
      /\ UNCHANGED <<worker, destroyer, fault>>
  BY <1>2, <1>5 DEF tp_detach_nolock, ListChanged
<1>7. w = Current
  OBVIOUS
<1> HIDE DEF w
<1>8. /\ v \in WorkloadType
      /\ v.last_step = wl[w].last_step /\ v.rqs_per_step = wl[w].rqs_per_step
      /\ v.provided = wl[w].provided /\ v.phase = wl[w].phase /\ v.freed = wl[w].freed
      /\ v.removal = wl[w].removal /\ v.tp = FALSE /\ v.current_step = wl[w].current_step
  BY <1>2 DEF WorkloadType
<1>9. /\ ctl' \in CtlType /\ ctl'.step = ctl.step /\ ctl'.wl_count = ctl.wl_count
      /\ ctl'.pc = "step" /\ ctl'.i = j
  BY <1>2, <1>6 DEF CtlType
<1>10. /\ pool' \in PoolType /\ pool'.mutex = pool.mutex /\ pool'.is_dead = pool.is_dead
       /\ pool'.wl_list = l /\ pool'.wl_count = c /\ pool'.wl_changed = TRUE
  BY <1>2, <1>6 DEF PoolType
<1> HIDE DEF v
<1>11. TakenOff(w, v)
  BY <1>1, <1>2, <1>5, <1>6, <1>7, <1>8, <1>9, <1>10 DEF TakenOff, EndsWorkload
<1> QED BY <1>7, <1>11
-----------------------------------------------------------------------------
(* Frames: what keeps each part of the invariant.                          *)

(* The lists of requests, the steps and the rings stay.                    *)
LEMMA RingFrame ==
  ASSUME Inv, \A t \in Tids : Held(t)' = Held(t),
         \A u \in Workloads : SameRing(u) /\ (Ended(u) => Ended(u)')
  PROVE  Rings' /\ StepsPassed' /\ InOrder' /\ EachRequestOnce'
<1>1. Rings'
  <2> SUFFICES ASSUME NEW u \in Workloads PROVE RingRight(u)'
    BY DEF Rings
  <2>1. SameRing(u) /\ RingRight(u) /\ (Ended(u) => Ended(u)')
    BY DEF Inv, Rings
  <2> QED BY <2>1 DEF RingRight, SameRing
<1>2. \A t \in Tids : Held(t) \in Seq(Requests)
  BY WorkerTyped DEF Inv
<1>3. StepsPassed'
  <2> SUFFICES ASSUME NEW t \in Tids, NEW k \in DOMAIN Held(t)
               PROVE  Held(t)[k].step <= wl'[Held(t)[k].wl].current_step
    BY DEF StepsPassed
  <2>1. Held(t)[k] \in Requests
    BY <1>2, ElementOfSeq, LenProperties
  <2>2. Held(t)[k].wl \in Workloads
    BY <2>1 DEF Requests
  <2> QED BY <2>2 DEF Inv, StepsPassed, SameRing
<1>4. InOrder'
  BY DEF Inv, InOrder
<1>5. EachRequestOnce'
  <2>1. \A u, s : RequestsOf(u, s)' = RequestsOf(u, s)
    BY DEF RequestsOf
  <2>2. ASSUME NEW u \in Workloads, NEW s \in StepsBegun(u)'
        PROVE  s \in StepsBegun(u) /\ wl'[u].provided[s + 1] = wl[u].provided[s + 1]
    <3>1. /\ wl'[u].current_step = wl[u].current_step /\ wl'[u].provided = wl[u].provided
          /\ Ended(u) => Ended(u)'
      BY DEF SameRing
    <3>2. PICK c \in Int : c = wl[u].current_step
      BY Typed DEF Inv, WorkloadType
    <3> QED BY <3>1, <3>2 DEF StepsBegun
  <2>3. ASSUME NEW u \in Workloads, NEW s
        PROVE  {Request(p).id : p \in RequestsOf(u, s)}' = {Request(p).id : p \in RequestsOf(u, s)}
    <3>1. \A p \in RequestsOf(u, s) : p[1] \in Tids
      BY DEF RequestsOf
    <3> QED BY <2>1, <3>1 DEF Request
  <2>4. ASSUME NEW u \in Workloads, NEW s \in StepsBegun(u)'
        PROVE  /\ Cardinality(RequestsOf(u, s)') = wl'[u].provided[s + 1]
               /\ {Request(p).id : p \in RequestsOf(u, s)}' = 0 .. wl'[u].provided[s + 1] - 1
    <3>1. /\ Cardinality(RequestsOf(u, s)) = wl[u].provided[s + 1]
          /\ {Request(p).id : p \in RequestsOf(u, s)} = 0 .. wl[u].provided[s + 1] - 1
      BY <2>2 DEF Inv, EachRequestOnce
    <3> QED BY <2>1, <2>2, <2>3, <3>1
  <2> QED BY <2>4 DEF EachRequestOnce
<1> QED BY <1>1, <1>3, <1>4, <1>5

(* The same workloads are attached and listed.                             *)
LEMMA ListFrame ==
  ASSUME Lists, pool'.wl_list = pool.wl_list, pool'.wl_count = pool.wl_count,
         \A u \in Workloads : SameHome(u)
  PROVE  Lists'
BY DEF Lists, SameHome, Attached, Short

(* Neither the pool nor the control thread moved.                          *)
LEMMA ArrayFrame ==
  ASSUME TypeOK, StepArray, pool'.wl_list = pool.wl_list, pool'.wl_changed = pool.wl_changed,
         pool'.wl_count = pool.wl_count, pool'.mutex = pool.mutex, UNCHANGED ctl,
         \A u \in Workloads : SameHome(u)
  PROVE  StepArray'
<1>1. StillToCome' = StillToCome /\ (AtArray' <=> AtArray) /\ (HasPoolMutex' <=> HasPoolMutex)
  BY DEF StillToCome, AtArray, HasPoolMutex
<1>2. ASSUME AtArray, NEW k \in StillToCome PROVE ctl.step[k] \in Workloads
  <2>1. /\ ctl.step \in Seq(Workloads) /\ ctl.i \in Nat /\ ctl.wl_count \in Int
        /\ ctl.wl_count <= Len(ctl.step) /\ Len(ctl.step) \in Nat
    BY <1>2, Typed, LenProperties DEF CtlType, StepArray
  <2>2. k \in 1 .. Len(ctl.step)
    BY <2>1 DEF StillToCome
  <2> QED BY <2>1, <2>2, ElementOfSeq
<1>3. (Short' <=> Short) /\ \A u \in Workloads : Attached(u)' <=> Attached(u)
  BY DEF Short, SameHome, Attached
<1> QED BY <1>1, <1>2, <1>3 DEF StepArray
-----------------------------------------------------------------------------
(* The steps of configuration threads and of the removal keep the          *)
(* invariant.                                                              *)

(* A step that leaves the workers alone leaves what they hold.             *)
LEMMA WorkersApart ==
  ASSUME Inv, UNCHANGED worker
  PROVE  ChainsFit' /\ \A t \in Tids : Held(t)' = Held(t)
BY DEF Inv, ChainsFit, Held

(* What only one workload's step changes, when the rings stay.             *)
LEMMA OneWorkloadRings ==
  ASSUME Inv, NEW w \in Workloads, NEW v, WorkloadMoves(w, v),
         v.last_step = wl[w].last_step, v.current_step = wl[w].current_step,
         v.rqs_per_step = wl[w].rqs_per_step, v.provided = wl[w].provided,
         ~wl[w].tp => ~v.tp
  PROVE  TypeOK' /\ ChainsFit' /\ Rings' /\ StepsPassed' /\ InOrder' /\ EachRequestOnce'
<1>1. /\ TypeOK' /\ wl'[w] = v /\ \A u \in Workloads : u # w => wl'[u] = wl[u]
      /\ UNCHANGED <<ctl, worker>>
  BY OneWorkload DEF Inv, WorkloadMoves
<1>2. ASSUME NEW u \in Workloads PROVE SameRing(u) /\ (Ended(u) => Ended(u)')
  BY <1>1 DEF SameRing, Ended, Current
<1> QED BY <1>1, <1>2, WorkersApart, RingFrame

(* Marks keep the invariant.                                               *)
LEMMA MarksKeep ==
  ASSUME Inv, NEW w \in Workloads, NEW v, Marks(w, v)
  PROVE  Inv'
<1>1. /\ wl'[w] = v /\ \A u \in Workloads : u # w => wl'[u] = wl[u]
      /\ UNCHANGED <<pool, ctl, worker, destroyer>>
  BY OneWorkload DEF Inv, Marks, WorkloadMoves
<1>2. TypeOK' /\ ChainsFit' /\ Rings' /\ StepsPassed' /\ InOrder' /\ EachRequestOnce'
  BY OneWorkloadRings DEF Marks, Marked
<1>3. \A u \in Workloads : SameHome(u)
  BY <1>1 DEF SameHome, Marks, Marked
<1>4. Lists' /\ StepArray'
  BY <1>1, <1>3, ListFrame, ArrayFrame DEF Inv
<1>5. Untouched'
  BY <1>1 DEF Inv, Untouched, Marks, Marked
<1>6. NotFreed'
  BY <1>1 DEF Inv, NotFreed, Marks, Marked
<1> QED BY <1>2, <1>4, <1>5, <1>6 DEF Inv

(* tp_attach puts a workload on the list that was not there.               *)
LEMMA AttachesKeeps ==
  ASSUME Inv, NEW w \in Workloads, NEW v, Attaches(w, v)
  PROVE  Inv'
<1>0. wl[w] \in WorkloadType /\ pool.wl_list \in Seq(Workloads) /\ pool.wl_count \in Int
  BY Typed DEF Inv, PoolType
<1>1. /\ v.last_step = wl[w].last_step /\ v.current_step = wl[w].current_step
      /\ v.rqs_per_step = wl[w].rqs_per_step /\ v.provided = wl[w].provided
      /\ v.tp = wl[w].tp /\ v.phase = "attached" /\ v.freed = wl[w].freed
      /\ v.removal = wl[w].removal
  BY <1>0 DEF Attaches, WorkloadType
<1>2. /\ wl'[w] = v /\ \A u \in Workloads : u # w => wl'[u] = wl[u]
      /\ UNCHANGED <<ctl, worker, destroyer>>
  BY OneWorkload DEF Inv, Attaches, WorkloadMoves
<1>3. TypeOK' /\ ChainsFit' /\ Rings' /\ StepsPassed' /\ InOrder' /\ EachRequestOnce'
  BY <1>1, OneWorkloadRings DEF Attaches
<1>4. /\ wl[w].phase \in Unattached /\ ~(wl'[w].phase \in Unattached) /\ wl'[w].tp = wl[w].tp
      /\ \A u \in Workloads : u # w => SameHome(u)
  BY <1>1, <1>2 DEF Unattached, Attaches, SameHome
<1>5. Lists'
  <2>1. PICK l, n : l = pool.wl_list /\ n = Len(l)
    OBVIOUS
  <2>2. n \in Nat /\ DOMAIN l = 1 .. n /\ Once(l) /\ pool.wl_count <= n /\ ~In(l, w)
    BY <1>0, <1>4, <2>1, LenProperties DEF Inv, Lists
  <2>3. /\ pool'.wl_list = Append(l, w) /\ Append(l, w) \in Seq(Workloads)
        /\ Len(Append(l, w)) = n + 1 /\ pool'.wl_count = pool.wl_count + 1
    BY <1>0, <2>1, AppendProperties DEF Attaches
  <2>4. /\ DOMAIN Append(l, w) = 1 .. n + 1 /\ Append(l, w)[n + 1] = w
        /\ \A i \in 1 .. n : Append(l, w)[i] = l[i]
    BY <1>0, <2>1, <2>3, AppendProperties, LenProperties
  <2>5. Once(Append(l, w))
    BY <2>2, <2>4 DEF Once, In
  <2>6. \A u \in Workloads : In(Append(l, w), u) <=> In(l, u) \/ u = w
    BY <2>2, <2>4 DEF In
  <2>7. pool'.wl_count <= n + 1 /\ (Short' <=> Short)
    BY <1>0, <2>1, <2>2, <2>3 DEF Short
  <2>8. ASSUME NEW u \in Workloads
        PROVE  /\ Attached(u)' => In(pool'.wl_list, u)
               /\ In(pool'.wl_list, u) => ~(wl'[u].phase \in Unattached)
               /\ ~wl'[u].tp => Short' \/ (~(wl'[u].phase \in Unattached) /\ ~In(pool'.wl_list, u))
    <3>1. /\ Attached(u) => In(l, u)
          /\ In(l, u) => ~(wl[u].phase \in Unattached)
          /\ ~wl[u].tp => Short \/ (~(wl[u].phase \in Unattached) /\ ~In(l, u))
      BY <2>1 DEF Inv, Lists
    <3>2. CASE u = w
      BY <1>4, <2>3, <2>6, <2>7, <3>1, <3>2
    <3>3. CASE u # w
      BY <1>4, <2>3, <2>6, <2>7, <3>1, <3>3 DEF SameHome, Attached
    <3> QED BY <3>2, <3>3
  <2> QED BY <2>3, <2>5, <2>7, <2>8 DEF Lists
<1>6. Untouched'
  BY <1>1, <1>2, <1>4 DEF Inv, Untouched
<1>7. NotFreed'
  BY <1>1, <1>2 DEF Inv, NotFreed
<1>8. StepArray'
  <2>1. ~HasPoolMutex /\ pool'.mutex = Free /\ pool'.wl_changed
    BY DEF Inv, StepArray, Attaches, WorkloadMoves, Free
  <2>2. ~HasPoolMutex'
    BY <1>2, <2>1 DEF HasPoolMutex
  <2> QED BY <2>1, <2>2 DEF StepArray, HasPoolMutex, AtArray, Free
<1> QED BY <1>3, <1>5, <1>6, <1>7, <1>8 DEF Inv

(* Rejecting a workload makes tp_wl_count too small, never too large.      *)
LEMMA RejectsKeeps ==
  ASSUME Inv, NEW w \in Workloads, NEW v, Rejects(w, v)
  PROVE  Inv'
<1>0. wl[w] \in WorkloadType /\ pool.wl_list \in Seq(Workloads) /\ pool.wl_count \in Int
  BY Typed DEF Inv, PoolType
<1>1. /\ v.last_step = wl[w].last_step /\ v.current_step = wl[w].current_step
      /\ v.rqs_per_step = wl[w].rqs_per_step /\ v.provided = wl[w].provided
      /\ v.tp = FALSE /\ v.phase = "rejected" /\ v.freed = wl[w].freed
      /\ v.removal = wl[w].removal /\ v.status = wl[w].status
  BY <1>0 DEF Rejects, WorkloadType
<1>2. /\ wl'[w] = v /\ \A u \in Workloads : u # w => wl'[u] = wl[u]
      /\ UNCHANGED <<ctl, worker, destroyer>>
  BY OneWorkload DEF Inv, Rejects, WorkloadMoves
<1>3. TypeOK' /\ ChainsFit' /\ Rings' /\ StepsPassed' /\ InOrder' /\ EachRequestOnce'
  BY <1>1, OneWorkloadRings DEF Rejects
<1>4. /\ wl[w].phase \in Unattached /\ wl'[w].phase \in Unattached /\ ~wl'[w].tp
      /\ \A u \in Workloads : u # w => SameHome(u)
  BY <1>1, <1>2 DEF Unattached, Rejects, SameHome
<1>5. Lists'
  <2>1. pool'.wl_list = pool.wl_list /\ pool'.wl_count <= Len(pool.wl_list) /\ Short'
    <3>1. Len(pool.wl_list) \in Nat /\ pool.wl_count <= Len(pool.wl_list)
          /\ pool'.wl_count = pool.wl_count - 1 /\ pool'.wl_list = pool.wl_list
      BY <1>0, LenProperties DEF Inv, Lists, Rejects
    <3> QED BY <1>0, <3>1 DEF Short
  <2> QED BY <1>4, <2>1 DEF Inv, Lists, SameHome, Attached
<1>6. Untouched'
  BY <1>1, <1>2, <1>4 DEF Inv, Untouched
<1>7. NotFreed'
  BY <1>1, <1>2 DEF Inv, NotFreed
<1>8. StepArray'
  <2>1. ~HasPoolMutex /\ pool'.mutex = Free /\ pool'.wl_changed
    BY DEF Inv, StepArray, Rejects, WorkloadMoves, Free
  <2>2. ~HasPoolMutex'
    BY <1>2, <2>1 DEF HasPoolMutex
  <2> QED BY <2>1, <2>2 DEF StepArray, HasPoolMutex, AtArray, Free
<1> QED BY <1>3, <1>5, <1>6, <1>7, <1>8 DEF Inv

(* Taking an attached workload off the list.                               *)
LEMMA DelistedKeeps ==
  ASSUME Lists, NEW w \in Workloads, Attached(w), pool.wl_list \in Seq(Workloads),
         pool.wl_count \in Int, pool'.wl_list = list_del(pool.wl_list, w),
         pool'.wl_count = pool.wl_count - 1, ~wl'[w].tp, wl'[w].phase = wl[w].phase,
         \A u \in Workloads : u # w => SameHome(u)
  PROVE  Lists' /\ (Short' <=> Short)
<1>1. Once(pool.wl_list) /\ In(pool.wl_list, w) /\ wl[w].phase \notin Unattached
  BY DEF Lists, Attached
<1>2. /\ Len(pool'.wl_list) = Len(pool.wl_list) - 1 /\ Once(pool'.wl_list)
      /\ \A u : In(pool'.wl_list, u) <=> In(pool.wl_list, u) /\ u # w
  BY <1>1, ListDel
<1>3. pool'.wl_count <= Len(pool'.wl_list) /\ (Short' <=> Short)
  BY <1>2, LenProperties DEF Lists, Short
<1>4. ASSUME NEW u \in Workloads
      PROVE  /\ Attached(u)' => In(pool'.wl_list, u)
             /\ In(pool'.wl_list, u) => ~(wl'[u].phase \in Unattached)
             /\ ~wl'[u].tp => Short' \/ (~(wl'[u].phase \in Unattached) /\ ~In(pool'.wl_list, u))
  <2>1. /\ Attached(u) => In(pool.wl_list, u)
        /\ In(pool.wl_list, u) => ~(wl[u].phase \in Unattached)
        /\ ~wl[u].tp => Short \/ (~(wl[u].phase \in Unattached) /\ ~In(pool.wl_list, u))
    BY DEF Lists
  <2>2. CASE u = w
    BY <1>1, <1>2, <2>2 DEF Attached
  <2>3. CASE u # w
    BY <1>2, <1>3, <2>1, <2>3 DEF SameHome, Attached
  <2> QED BY <2>2, <2>3
<1> QED BY <1>2, <1>3, <1>4 DEF Lists

(* tp_detach keeps the invariant: tp_mutex keeps the control thread away   *)
(* from the list.                                                          *)
LEMMA DetachesKeeps ==
  ASSUME Inv, NEW w \in Workloads, NEW v, Detaches(w, v)
  PROVE  Inv'
<1>0. wl[w] \in WorkloadType /\ pool.wl_list \in Seq(Workloads) /\ pool.wl_count \in Int
  BY Typed DEF Inv, PoolType
<1>1. /\ v.last_step = wl[w].last_step /\ v.current_step = wl[w].current_step
      /\ v.rqs_per_step = wl[w].rqs_per_step /\ v.provided = wl[w].provided
      /\ v.tp = FALSE /\ v.phase = wl[w].phase /\ v.freed = wl[w].freed
      /\ v.removal = "destroy" /\ wl[w].removal = "lock" /\ wl[w].tp
  BY <1>0 DEF Detaches, WorkloadType
<1>2. /\ wl'[w] = v /\ \A u \in Workloads : u # w => wl'[u] = wl[u]
      /\ UNCHANGED <<ctl, worker, destroyer>>
  BY OneWorkload DEF Inv, Detaches, WorkloadMoves
<1>3. TypeOK' /\ ChainsFit' /\ Rings' /\ StepsPassed' /\ InOrder' /\ EachRequestOnce'
  BY <1>1, OneWorkloadRings DEF Detaches
<1>4. \A u \in Workloads : u # w => SameHome(u)
  BY <1>1, <1>2 DEF SameHome
<1>5. Lists'
  <2>1. CASE Attached(w)
    BY <1>0, <1>1, <1>2, <1>4, <2>1, DelistedKeeps DEF Inv, Detaches
  <2>2. CASE ~Attached(w)
    <3>1. wl[w].phase \in Unattached /\ ~In(pool.wl_list, w)
      BY <1>1, <2>2 DEF Attached, Inv, Lists
    <3>2. pool'.wl_list = pool.wl_list /\ pool'.wl_count = pool.wl_count - 1
      BY <3>1, ListDelAbsent DEF Detaches
    <3>3. pool'.wl_count <= Len(pool.wl_list) /\ Short'
      <4>1. Len(pool.wl_list) \in Nat /\ pool.wl_count <= Len(pool.wl_list)
        BY <1>0, LenProperties DEF Inv, Lists
      <4> QED BY <1>0, <3>2, <4>1 DEF Short
    <3> QED BY <1>1, <1>2, <1>4, <3>1, <3>2, <3>3 DEF Inv, Lists, SameHome, Attached
  <2> QED BY <2>1, <2>2
<1>6. Untouched'
  BY <1>1, <1>2 DEF Inv, Untouched
<1>7. NotFreed'
  BY <1>1, <1>2 DEF Inv, NotFreed
<1>8. StepArray'
  <2>1. ~HasPoolMutex /\ pool'.mutex = Free /\ pool'.wl_changed
    BY DEF Inv, StepArray, Detaches, WorkloadMoves, Free
  <2>2. ~HasPoolMutex'
    BY <1>2, <2>1 DEF HasPoolMutex
  <2> QED BY <2>1, <2>2 DEF StepArray, HasPoolMutex, AtArray, Free
<1> QED BY <1>3, <1>5, <1>6, <1>7, <1>8 DEF Inv

(* A new step's slot is not that of a step that waits.                     *)
LEMMA SlotsApart ==
  ASSUME NEW a \in Int, NEW b \in Int, a < b, b - a < QSIZE
  PROVE  Slot(a) # Slot(b)
<1>1. PICK q \in Nat : q = QSIZE /\ q > 0
  BY QSizeAssumption
<1>2. /\ a = (q * (a \div q)) + (a % q) /\ b = (q * (b \div q)) + (b % q)
      /\ a \div q \in Int /\ b \div q \in Int
  BY <1>1
<1>3. PICK x \in Int, y \in Int : x = a \div q /\ y = b \div q
  BY <1>2
<1>4. SUFFICES ASSUME a % q = b % q PROVE FALSE
  BY <1>1 DEF Slot
<1>5. PICK z \in Int : z = y - x
  BY <1>3
<1>6. b - a = q * z
  <2>1. b - a = (q * y) - (q * x)
    BY <1>1, <1>2, <1>3, <1>4
  <2>2. (q * y) - (q * x) = q * (y - x)
    BY <1>1, <1>3
  <2> QED BY <2>1, <2>2, <1>5
<1>7. b - a > 0 /\ b - a < q
  BY <1>1
<1>8. CASE z <= 0
  <2>1. q * z <= 0
    BY <1>1, <1>8
  <2> QED BY <1>6, <1>7, <2>1
<1>9. CASE z >= 1
  <2>1. q * z >= q
    BY <1>1, <1>9
  <2> QED BY <1>1, <1>6, <1>7, <2>1
<1> QED BY <1>5, <1>8, <1>9

(* EachRequestOnce stays when requests do and no other step is begun.      *)
LEMMA OnceFrame ==
  ASSUME EachRequestOnce, \A t \in Tids : Held(t)' = Held(t),
         \A u \in Workloads : \A s \in StepsBegun(u)' :
           s \in StepsBegun(u) /\ wl'[u].provided[s + 1] = wl[u].provided[s + 1]
  PROVE  EachRequestOnce'
<1>1. \A u, s : RequestsOf(u, s)' = RequestsOf(u, s)
  BY DEF RequestsOf
<1>2. ASSUME NEW u \in Workloads, NEW s
      PROVE  {Request(p).id : p \in RequestsOf(u, s)}' = {Request(p).id : p \in RequestsOf(u, s)}
  <2>1. \A p \in RequestsOf(u, s) : p[1] \in Tids
    BY DEF RequestsOf
  <2> QED BY <1>1, <2>1 DEF Request
<1>3. ASSUME NEW u \in Workloads, NEW s \in StepsBegun(u)'
      PROVE  /\ Cardinality(RequestsOf(u, s)') = wl'[u].provided[s + 1]
             /\ {Request(p).id : p \in RequestsOf(u, s)}' = 0 .. wl'[u].provided[s + 1] - 1
  <2>1. /\ Cardinality(RequestsOf(u, s)) = wl[u].provided[s + 1]
        /\ {Request(p).id : p \in RequestsOf(u, s)} = 0 .. wl[u].provided[s + 1] - 1
    BY <1>3 DEF EachRequestOnce
  <2> QED BY <1>1, <1>2, <2>1
<1> QED BY <1>3 DEF EachRequestOnce

(* Nothing is held of a workload's steps later than its current one.       *)
LEMMA PassedFrame ==
  ASSUME TypeOK, StepsPassed, \A t \in Tids : Held(t)' = Held(t),
         \A u \in Workloads : /\ wl[u].current_step \in Int /\ wl'[u].current_step \in Int
                              /\ wl[u].current_step <= wl'[u].current_step
  PROVE  StepsPassed'
<1> SUFFICES ASSUME NEW t \in Tids, NEW k \in DOMAIN Held(t)
             PROVE  Held(t)[k].step <= wl'[Held(t)[k].wl].current_step
  BY DEF StepsPassed
<1>1. Held(t) \in Seq(Requests)
  BY WorkerTyped
<1>2. Held(t)[k] \in Requests
  BY <1>1, ElementOfSeq, LenProperties
<1>3. Held(t)[k].wl \in Workloads /\ Held(t)[k].step \in Nat
  BY <1>2 DEF Requests
<1>4. Held(t)[k].step <= wl[Held(t)[k].wl].current_step
  BY DEF StepsPassed
<1> QED BY <1>3, <1>4

(* wl_provide_step writes a slot that no waiting step has.                 *)
LEMMA ProvidesKeeps ==
  ASSUME Inv, NEW w \in Workloads, NEW n \in Counts, NEW v, Provides(w, n, v)
  PROVE  Inv'
<1>0. /\ wl \in [Workloads -> WorkloadType] /\ wl[w] \in WorkloadType /\ n \in Nat
      /\ wl[w].current_step \in -1 .. wl[w].last_step + 1
      /\ \A u \in Workloads : wl[u].last_step \in Int /\ wl[u].current_step \in Int
                              /\ wl[u].provided \in Seq(Counts)
                              /\ wl[u].rqs_per_step \in [Slots -> Counts \cup {Unset}]
  BY Typed, PoolAssumption DEF Inv, WorkloadType
<1>1. PICK l \in Int, c \in Int, p \in Seq(Counts), r \in [Slots -> Counts \cup {Unset}] :
        l = wl[w].last_step /\ c = wl[w].current_step /\ p = wl[w].provided
        /\ r = wl[w].rqs_per_step
  BY <1>0
<1>2. /\ v.last_step = l + 1 /\ v.current_step = c /\ v.phase = wl[w].phase
      /\ v.rqs_per_step = [r EXCEPT ![Slot(l + 1)] = n] /\ v.provided = Append(p, n)
      /\ v.tp = wl[w].tp /\ v.freed = wl[w].freed /\ v.removal = wl[w].removal
      /\ l - c # QSIZE /\ wl[w].phase \notin Unattached
  BY <1>0, <1>1 DEF Provides, WorkloadType
<1>3. /\ TypeOK' /\ wl'[w] = v /\ \A u \in Workloads : u # w => wl'[u] = wl[u]
      /\ UNCHANGED <<pool, ctl, worker, destroyer>>
  BY OneWorkload DEF Inv, Provides, WorkloadMoves
<1>4. ChainsFit' /\ \A t \in Tids : Held(t)' = Held(t)
  BY <1>3, WorkersApart
<1>5. \A u \in Workloads : /\ Ended(u)' <=> Ended(u)
                           /\ SameHome(u)
  BY <1>2, <1>3 DEF Ended, Current, SameHome
<1>6. /\ \A s \in 1 .. l + 1 : Append(p, n)[s] = p[s]
      /\ Append(p, n)[l + 2] = n /\ Len(p) = l + 1 /\ Len(Append(p, n)) = l + 2
      /\ l - c <= QSIZE /\ (c <= l \/ Ended(w))
      /\ \A s \in c + 1 .. l : r[Slot(s)] = p[s + 1]
  <2>1. RingRight(w)
    BY DEF Inv, Rings
  <2>2. Len(p) = l + 1 /\ l - c <= QSIZE /\ (c <= l \/ Ended(w))
        /\ \A s \in c + 1 .. l : r[Slot(s)] = p[s + 1]
    BY <1>1, <2>1 DEF RingRight
  <2> QED BY <2>2, AppendProperties
<1>7. Rings'
  <2> SUFFICES ASSUME NEW u \in Workloads PROVE RingRight(u)'
    BY DEF Rings
  <2>1. CASE u # w
    BY <1>3, <1>5, <2>1 DEF RingRight, Inv, Rings
  <2>2. CASE u = w
    <3>1. Len(Append(p, n)) = (l + 1) + 1 /\ (l + 1) - c <= QSIZE /\ (c <= l + 1 \/ Ended(w))
      BY <1>2, <1>6, QSizeAssumption
    <3>2. ASSUME NEW s \in c + 1 .. l + 1
          PROVE  [r EXCEPT ![Slot(l + 1)] = n][Slot(s)] = Append(p, n)[s + 1]
      <4>1. Slot(s) \in Slots /\ Slot(l + 1) \in Slots /\ s \in Int
        BY SlotType
      <4>2. CASE s = l + 1
        BY <4>1, <4>2, <1>6
      <4>3. CASE s < l + 1
        <5>1. Slot(s) # Slot(l + 1)
          <6>1. (l + 1) - s < QSIZE
            BY <1>2, <1>6, QSizeAssumption
          <6> QED BY <4>1, <4>3, <6>1, SlotsApart
        <5>2. s \in c + 1 .. l /\ s + 1 \in 1 .. l + 1
          BY <4>3, <1>0, <1>1
        <5> QED BY <4>1, <5>1, <5>2, <1>6
      <4>4. s = l + 1 \/ s < l + 1
        BY <4>1
      <4> QED BY <4>2, <4>3, <4>4
    <3> QED BY ZenonT(60), <1>2, <1>3, <1>5, <2>2, <3>1, <3>2 DEF RingRight
  <2> QED BY <2>1, <2>2
<1>8. \A u \in Workloads : wl'[u].current_step = wl[u].current_step
  BY <1>1, <1>2, <1>3
<1>9. StepsPassed'
  BY <1>0, <1>4, <1>8, PassedFrame DEF Inv
<1>10. InOrder'
  BY <1>4 DEF Inv, InOrder
<1>11. EachRequestOnce'
  <2>1. ASSUME NEW u \in Workloads, NEW s \in StepsBegun(u)'
        PROVE  s \in StepsBegun(u) /\ wl'[u].provided[s + 1] = wl[u].provided[s + 1]
    <3>1. s \in StepsBegun(u)
      BY <1>5, <1>8 DEF StepsBegun
    <3>2. CASE u # w
      BY <1>3, <3>1, <3>2
    <3>3. CASE u = w
      <4>1. s \in 0 .. c - (IF Ended(w) THEN 1 ELSE 0)
        BY <1>1, <3>1, <3>3 DEF StepsBegun
      <4>2. s + 1 \in 1 .. l + 1
        BY SMTT(30), <4>1, <1>0, <1>1, <1>6
      <4> QED BY SMTT(30), <1>1, <1>2, <1>3, <1>6, <3>1, <3>3, <4>2
    <3> QED BY <3>2, <3>3
  <2> QED BY <1>4, <2>1, OnceFrame DEF Inv
<1>12. Lists' /\ StepArray'
  BY <1>3, <1>5, ListFrame, ArrayFrame DEF Inv
<1>13. Untouched'
  BY <1>2, <1>3 DEF Inv, Untouched
<1>14. NotFreed'
  BY <1>2, <1>3 DEF Inv, NotFreed
<1> QED BY <1>3, <1>4, <1>7, <1>9, <1>10, <1>11, <1>12, <1>13, <1>14 DEF Inv

(* A fault, or a step that changes nothing.                                *)
LEMMA FaultsKeep ==
  ASSUME Inv, Faults
  PROVE  Inv'
<1>1. \A t \in Tids : Held(t)' = Held(t)
  BY DEF Faults, Held
<1>2. \A u \in Workloads : SameRing(u) /\ (Ended(u)' <=> Ended(u)) /\ SameHome(u)
  BY DEF Faults, SameRing, Ended, Current, SameHome
<1>3. Rings' /\ StepsPassed' /\ InOrder' /\ EachRequestOnce'
  BY <1>1, <1>2, RingFrame
<1>4. Lists' /\ StepArray'
  BY <1>2, ListFrame, ArrayFrame DEF Inv, Faults
<1>5. ChainsFit' /\ Untouched' /\ NotFreed'
  BY DEF Inv, Faults, ChainsFit, Untouched, NotFreed
<1> QED BY <1>3, <1>4, <1>5 DEF Inv, Faults

(* The steps of configuration threads, feeders and the removal keep the    *)
(* invariant.                                                              *)
LEMMA WorkloadKeeps ==
  ASSUME Inv, NEW w \in Workloads, WorkloadStep(w) \/ Removal(w)
  PROVE  Inv'
<1>1. PICK v : \/ Marks(w, v) \/ Attaches(w, v) \/ Rejects(w, v) \/ Detaches(w, v)
               \/ (\E n \in Counts : Provides(w, n, v)) \/ Faults
  BY WorkloadSteps DEF Inv
<1> QED BY <1>1, MarksKeep, AttachesKeeps, RejectsKeeps, DetachesKeeps, ProvidesKeeps, FaultsKeep

(* The workers' steps keep the invariant.                                  *)
LEMMA AnyWorkerKeeps ==
  ASSUME Inv, NEW t \in Tids, Worker(t) \/ WSpurious(t)
  PROVE  Inv'
<1>1. CASE Faults
  BY <1>1, FaultsKeep
<1>2. ASSUME NEW u, OneWorker(t, u) PROVE Inv'
  <2>1. TypeOK' /\ ChainsFit' /\ \A x \in Tids : Held(x)' = Held(x)
    BY <1>2, OneWorkerKeeps DEF Inv
  <2>2. UNCHANGED <<wl, pool, ctl, destroyer>>
    BY <1>2 DEF OneWorker
  <2>3. \A x \in Workloads : SameRing(x) /\ (Ended(x)' <=> Ended(x)) /\ SameHome(x)
    BY <2>2 DEF SameRing, Ended, Current, SameHome
  <2>4. Rings' /\ StepsPassed' /\ InOrder' /\ EachRequestOnce'
    BY <2>1, <2>3, RingFrame
  <2>5. Lists' /\ StepArray'
    BY <2>2, <2>3, ListFrame, ArrayFrame DEF Inv
  <2>6. Untouched' /\ NotFreed'
    BY <2>2 DEF Inv, Untouched, NotFreed
  <2> QED BY <2>1, <2>4, <2>5, <2>6 DEF Inv
<1> QED BY <1>1, <1>2, WorkerSteps DEF Inv
-----------------------------------------------------------------------------
(* The control thread's steps between its visits to the workloads.         *)

(* The step array across the control thread's quiet steps: CtlLock         *)
(* refreshes it if the list has changed.                                   *)
LEMMA QuietArray ==
  ASSUME TypeOK, Lists, StepArray, QuietControl
  PROVE  StepArray'
<1>0. /\ ctl \in CtlType /\ ctl.i \in Nat /\ ctl.wl_count \in Int /\ ctl.step \in Seq(Workloads)
      /\ pool \in PoolType /\ pool.wl_list \in Seq(Workloads) /\ pool.wl_count \in Int
      /\ pool.wl_changed \in BOOLEAN
  BY Typed DEF CtlType, PoolType
<1>1. CASE CtlTop
  <2>1. /\ ctl.pc = "top" /\ ctl'.pc \in {"exited", "lock"} /\ ctl'.step = ctl.step
        /\ UNCHANGED <<wl, pool>>
    BY <1>0, <1>1 DEF CtlTop, Ctl, CtlType
  <2> QED BY <2>1 DEF StepArray, HasPoolMutex, AtArray, Short
<1>2. CASE CtlLock
  <2>1. /\ ctl'.pc \in {"release", "rqlock"} /\ ctl'.i = 0 /\ ctl'.wl_count = pool.wl_count
        /\ ctl'.step = IF pool.wl_changed THEN pool.wl_list ELSE ctl.step
        /\ UNCHANGED wl
    BY <1>2 DEF CtlLock
  <2>2. /\ pool'.mutex = "ctl" /\ pool'.wl_changed = FALSE /\ pool'.wl_list = pool.wl_list
    BY <1>0, <1>2 DEF CtlLock, PoolType
  <2>3. ctl'.step = pool.wl_list
    BY <2>1 DEF StepArray
  <2>7. ~Short
    <3>1. Len(pool.wl_list) \in Nat
      BY <1>0, LenProperties
    <3>2. pool.wl_changed => ~Short
      BY <1>0, <1>2, <3>1 DEF CtlLock, StepArrayFits, Short
    <3> QED BY <3>2 DEF StepArray
  <2>8. pool'.wl_count = pool.wl_count /\ ~Short'
    <3>1. pool'.wl_count = pool.wl_count
      BY <1>0, <1>2 DEF CtlLock, PoolType
    <3> QED BY <2>2, <2>7, <3>1 DEF Short
  <2>4. /\ Once(pool.wl_list) /\ pool.wl_count <= Len(pool.wl_list)
        /\ \A k \in 1 .. pool.wl_count : Attached(pool.wl_list[k])
    <3>1. Once(pool.wl_list) /\ pool.wl_count <= Len(pool.wl_list)
      BY DEF Lists
    <3>2. ASSUME NEW k \in 1 .. pool.wl_count PROVE Attached(pool.wl_list[k])
      <4>1. k \in 1 .. Len(pool.wl_list) /\ DOMAIN pool.wl_list = 1 .. Len(pool.wl_list)
        BY <1>0, <3>1, LenProperties
      <4>2. pool.wl_list[k] \in Workloads /\ In(pool.wl_list, pool.wl_list[k])
        BY <1>0, <4>1, ElementOfSeq DEF In
      <4> QED BY <2>7, <4>2 DEF Lists, Attached
    <3> QED BY <3>1, <3>2
  <2>5. \A u : Attached(u)' <=> Attached(u)
    BY <2>1 DEF Attached
  <2>6. ctl'.pc = "rqlock" => (\A k \in StillToCome : Attached(ctl.step[k]))'
    <3>1. ctl'.pc = "rqlock" => StillToCome' = 1 .. pool.wl_count
      BY <2>1 DEF StillToCome
    <3>2. ASSUME NEW k \in 1 .. pool.wl_count PROVE Attached(ctl.step[k])'
      <4>1. Attached(pool.wl_list[k])
        BY <2>4
      <4> QED BY <2>1, <2>3, <4>1 DEF Attached
    <3> QED BY <3>1, <3>2
  <2> QED BY <2>1, <2>2, <2>3, <2>4, <2>6, <2>8 DEF StepArray, HasPoolMutex, AtArray
<1>3. CASE CtlLockWorker
  <2>1. /\ ctl.pc = "rqlock" /\ UNCHANGED <<wl, pool>> /\ NextTid("step")
    BY <1>3 DEF CtlLockWorker
  <2>2. /\ ctl' \in CtlType /\ ctl'.step = ctl.step /\ ctl'.wl_count = ctl.wl_count
        /\ \/ ctl'.pc = "rqlock"
           \/ ctl'.pc = "step" /\ ctl'.i = 0
    BY <1>0, <2>1, NextTidType
  <2>3. StillToCome' = StillToCome
    BY <2>1, <2>2 DEF StillToCome
  <2>4. \A u : Attached(u)' <=> Attached(u)
    BY <2>1 DEF Attached
  <2> QED BY <2>1, <2>2, <2>3, <2>4 DEF StepArray, HasPoolMutex, AtArray, Short
<1>4. CASE CtlSkip
  <2>1. /\ ctl.pc = "step" /\ ctl'.pc = "step" /\ ctl'.i = ctl.i + 1 /\ ctl'.step = ctl.step
        /\ ctl'.wl_count = ctl.wl_count /\ UNCHANGED <<wl, pool>>
    BY <1>0, <1>4 DEF CtlSkip, AtWorkload, CtlType
  <2>2. StillToCome' \subseteq StillToCome
    BY <1>0, <2>1 DEF StillToCome
  <2>3. \A u : Attached(u)' <=> Attached(u)
    BY <2>1 DEF Attached
  <2> QED BY <2>1, <2>2, <2>3 DEF StepArray, HasPoolMutex, AtArray, Short
<1>5. CASE CtlUnlockWorkers
  <2>1. /\ ctl.pc = "step" /\ ctl'.pc = "interrupt" /\ ctl'.step = ctl.step /\ UNCHANGED pool
    BY <1>0, <1>5 DEF CtlUnlockWorkers, CtlType
  <2> QED BY <2>1 DEF StepArray, HasPoolMutex, AtArray, Short
<1>6. CASE CtlInterrupt
  <2>1. ctl.pc = "interrupt" /\ NextTid("notify") /\ UNCHANGED pool
    BY <1>6 DEF CtlInterrupt
  <2>2. ctl'.step = ctl.step /\ ctl'.pc \in {"interrupt", "notify"}
    BY <1>0, <2>1, NextTidType
  <2> QED BY <2>1, <2>2 DEF StepArray, HasPoolMutex, AtArray, Short
<1>7. CASE CtlNotify
  <2>1. ctl.pc = "notify" /\ ctl'.pc = "release" /\ ctl'.step = ctl.step /\ UNCHANGED pool
    BY <1>0, <1>7 DEF CtlNotify, Ctl, CtlType
  <2> QED BY <2>1 DEF StepArray, HasPoolMutex, AtArray, Short
<1>8. CASE CtlRelease
  <2>1. ctl.pc = "release" /\ ctl'.pc = "top" /\ ctl'.step = ctl.step
    BY <1>0, <1>8 DEF CtlRelease, Ctl, CtlType
  <2>2. /\ pool'.mutex = "free" /\ pool'.wl_list = pool.wl_list /\ pool'.wl_count = pool.wl_count
        /\ pool'.wl_changed = pool.wl_changed
    BY <1>0, <1>8 DEF CtlRelease, Free, PoolType
  <2> QED BY <2>1, <2>2 DEF StepArray, HasPoolMutex, AtArray, Short
<1> QED BY <1>1, <1>2, <1>3, <1>4, <1>5, <1>6, <1>7, <1>8 DEF QuietControl

(* The control thread's quiet steps keep the invariant.                    *)
LEMMA QuietKeeps ==
  ASSUME Inv, QuietControl
  PROVE  Inv'
<1>1. /\ WorkersAlike /\ ctl' \in CtlType /\ pool' \in PoolType
      /\ UNCHANGED <<wl, destroyer, fault>>
      /\ pool'.wl_list = pool.wl_list /\ pool'.wl_count = pool.wl_count
  BY QuietSteps DEF Inv
<1>2. ChainsFit' /\ \A t \in Tids : Held(t)' = Held(t)
  BY <1>1, AlikeKeeps DEF Inv
<1>3. TypeOK'
  BY <1>1, AlikeKeeps, Typed DEF Inv, TypeOK, WorkersAlike
<1>4. ctl.pc # "detach"
  BY DEF QuietControl, CtlTop, CtlLock, CtlLockWorker, CtlSkip, CtlUnlockWorkers, CtlInterrupt,
         CtlNotify, CtlRelease, Ctl, AtWorkload
<1>5. \A u \in Workloads : SameRing(u) /\ (Ended(u) => Ended(u)') /\ SameHome(u)
  BY <1>1, <1>4 DEF SameRing, Ended, SameHome
<1>6. Rings' /\ StepsPassed' /\ InOrder' /\ EachRequestOnce'
  BY <1>2, <1>5, RingFrame
<1>7. Lists' /\ StepArray'
  BY <1>1, <1>5, ListFrame, QuietArray DEF Inv
<1>8. Untouched' /\ NotFreed'
  BY <1>1 DEF Inv, Untouched, NotFreed
<1> QED BY <1>2, <1>3, <1>6, <1>7, <1>8 DEF Inv

(* The destroyer's steps.                                                  *)
LEMMA DestroyerKeeps ==
  ASSUME Inv, DestroyBegin \/ DestroyNotify \/ DestroyJoin
  PROVE  Inv'
<1>1. UNCHANGED <<wl, ctl, fault>>
  BY DEF DestroyBegin, DestroyNotify, DestroyJoin
<1>2. /\ pool' \in PoolType /\ pool'.wl_list = pool.wl_list /\ pool'.wl_count = pool.wl_count
      /\ pool'.wl_changed = pool.wl_changed /\ pool'.mutex = pool.mutex
  <2>1. pool \in PoolType
    BY Typed DEF Inv
  <2>2. pool' = pool \/ pool' = [pool EXCEPT !.is_dead = TRUE]
    BY DEF DestroyBegin, DestroyNotify, DestroyJoin
  <2> QED BY <2>1, <2>2 DEF PoolType
<1>3. WorkersAlike
  <2>1. CASE worker' = worker
    BY <2>1, Typed DEF Inv, WorkersAlike
  <2> QED BY <2>1, NotifiedAlike DEF Inv, DestroyBegin, DestroyNotify, DestroyJoin
<1>4. ChainsFit' /\ \A t \in Tids : Held(t)' = Held(t)
  BY <1>3, AlikeKeeps DEF Inv
<1>5. TypeOK'
  <2>1. destroyer' \in {"idle", "clean", "notify", "join", "done"}
    BY DEF DestroyBegin, DestroyNotify, DestroyJoin, Destroyer
  <2> QED BY <1>1, <1>2, <1>3, <2>1, AlikeKeeps, Typed DEF Inv, TypeOK, WorkersAlike
<1>6. \A u \in Workloads : SameRing(u) /\ (Ended(u) => Ended(u)') /\ SameHome(u)
  BY <1>1 DEF SameRing, Ended, SameHome, Current
<1>7. Rings' /\ StepsPassed' /\ InOrder' /\ EachRequestOnce'
  BY <1>4, <1>6, RingFrame
<1>8. Lists' /\ StepArray'
  BY <1>1, <1>2, <1>6, ListFrame, ArrayFrame DEF Inv
<1>9. Untouched'
  BY <1>1 DEF Inv, Untouched
<1>10. NotFreed'
  <2>1. CASE DestroyBegin
    BY <1>1, <2>1 DEF Inv, NotFreed, DestroyBegin, Destroyer, Idle
  <2>2. CASE DestroyNotify \/ DestroyJoin
    BY <1>1, <2>2 DEF Inv, NotFreed, DestroyNotify, DestroyJoin, Destroyer
  <2> QED BY <2>1, <2>2
<1> QED BY <1>4, <1>5, <1>7, <1>8, <1>9, <1>10 DEF Inv

(* tp_destroy frees the workloads on the list.                             *)
LEMMA DestroyWorkloadsKeeps ==
  ASSUME Inv, DestroyWorkloads
  PROVE  Inv'
<1>1. /\ UNCHANGED <<pool, ctl, worker, fault>> /\ destroyer = "clean" /\ destroyer' = "notify"
  BY DEF DestroyWorkloads, Destroyer
<1>2. wl \in [Workloads -> WorkloadType]
  BY Typed DEF Inv
<1>3. /\ wl' = [w \in Workloads |-> wl'[w]]
      /\ \A w \in Workloads : \E f \in BOOLEAN :
           /\ wl'[w] = [wl[w] EXCEPT !.freed = f]
           /\ f => wl[w].freed \/ In(pool.wl_list, w)
  <2>1. ASSUME NEW w \in Workloads
        PROVE  \E f \in BOOLEAN : /\ wl'[w] = [wl[w] EXCEPT !.freed = f]
                                  /\ f => wl[w].freed \/ In(pool.wl_list, w)
    <3>1. wl[w].freed \in BOOLEAN
      BY <1>2 DEF WorkloadType
    <3> DEFINE f == wl[w].freed \/ \E k \in 1 .. Len(pool.wl_list) : pool.wl_list[k] = w
    <3>2. wl'[w] = [wl[w] EXCEPT !.freed = f] /\ f \in BOOLEAN
      BY <3>1 DEF DestroyWorkloads
    <3>3. f => wl[w].freed \/ In(pool.wl_list, w)
      <4>1. pool.wl_list \in Seq(Workloads)
        BY Typed DEF Inv, PoolType
      <4> QED BY <4>1, LenProperties DEF In
    <3> HIDE DEF f
    <3> QED BY <3>2, <3>3
  <2> QED BY <2>1 DEF DestroyWorkloads
<1>4. ASSUME NEW w \in Workloads
      PROVE  /\ wl'[w] \in WorkloadType /\ SameRing(w) /\ wl'[w].tp = wl[w].tp
             /\ wl'[w].phase = wl[w].phase /\ wl'[w].status = wl[w].status
             /\ wl'[w].removal = wl[w].removal
             /\ wl'[w].freed => wl[w].freed \/ In(pool.wl_list, w)
  <2>1. PICK f \in BOOLEAN : /\ wl'[w] = [wl[w] EXCEPT !.freed = f]
                             /\ f => wl[w].freed \/ In(pool.wl_list, w)
    BY <1>3
  <2>2. wl[w] \in WorkloadType
    BY <1>2
  <2> QED BY <2>1, <2>2 DEF WorkloadType, SameRing
<1>5. TypeOK'
  <2>1. wl' \in [Workloads -> WorkloadType]
    BY <1>3, <1>4
  <2> QED BY <1>1, <1>4, <2>1, Typed DEF Inv, TypeOK, SameRing
<1>6. \A u \in Workloads : (Ended(u)' <=> Ended(u)) /\ SameHome(u)
  BY <1>1, <1>4 DEF Ended, SameHome, Current
<1>7. ChainsFit' /\ Rings' /\ StepsPassed' /\ InOrder' /\ EachRequestOnce'
  BY <1>1, <1>4, <1>6, WorkersApart, RingFrame
<1>8. Lists' /\ StepArray'
  BY <1>1, <1>6, ListFrame, ArrayFrame DEF Inv
<1>9. Untouched'
  BY <1>4 DEF Inv, Untouched, SameRing
<1>10. NotFreed'
  BY <1>1, <1>4 DEF Inv, NotFreed
<1> QED BY <1>5, <1>7, <1>8, <1>9, <1>10 DEF Inv
-----------------------------------------------------------------------------
(* Dealing a step's requests: h is what the workers held, g what they hold *)
(* then.                                                                   *)
Dealt(w, s, n, h, g) ==
  /\ w \in Workloads /\ s \in Nat /\ n \in Nat
  /\ h \in [Tids -> Seq(Requests)]
  /\ \A t \in Tids : g[t] = h[t] \o NewRequests(w, s, n, t)

PlacesIn(h, w, s) ==
  UNION {{t} \X {k \in DOMAIN h[t] : h[t][k].wl = w /\ h[t][k].step = s} : t \in Tids}

(* What a place of a step's requests is.                                   *)
LEMMA InPlaces ==
  ASSUME NEW h, NEW w, NEW s, NEW p
  PROVE  p \in PlacesIn(h, w, s) <=>
           \E t \in Tids : \E k \in DOMAIN h[t] :
             p = <<t, k>> /\ h[t][k].wl = w /\ h[t][k].step = s
BY DEF PlacesIn

(* A worker's list is the old one and then the new requests.               *)
LEMMA DealtList ==
  ASSUME NEW w, NEW s, NEW n, NEW h, NEW g, Dealt(w, s, n, h, g), NEW t \in Tids
  PROVE  /\ Len(h[t]) \in Nat /\ Share(n, t) \in Nat /\ FirstId(n, t) \in Nat
         /\ DOMAIN h[t] = 1 .. Len(h[t]) /\ DOMAIN g[t] = 1 .. Len(h[t]) + Share(n, t)
         /\ g[t] \in Seq(Requests)
         /\ \A k \in 1 .. Len(h[t]) : g[t][k] = h[t][k] /\ h[t][k] \in Requests
         /\ \A j \in 1 .. Share(n, t) :
              g[t][Len(h[t]) + j] = [wl |-> w, step |-> s, id |-> FirstId(n, t) + j - 1]
<1> DEFINE new == NewRequests(w, s, n, t)
<1>1. h[t] \in Seq(Requests) /\ w \in Workloads /\ s \in Nat /\ n \in Nat
      /\ g[t] = h[t] \o new
  BY DEF Dealt
<1>2. /\ new \in Seq(Requests) /\ Len(new) = Share(n, t)
      /\ \A k \in 1 .. Share(n, t) : new[k] = [wl |-> w, step |-> s, id |-> FirstId(n, t) + k - 1]
  BY <1>1, NewRequestsAre
<1>3. Share(n, t) \in Nat /\ FirstId(n, t) \in Nat
  BY <1>1, IdsFollow
<1>4. Len(h[t]) \in Nat /\ DOMAIN h[t] = 1 .. Len(h[t])
  BY <1>1, LenProperties
<1> HIDE DEF new
<1>5. /\ g[t] \in Seq(Requests) /\ Len(g[t]) = Len(h[t]) + Share(n, t)
      /\ \A i \in 1 .. Len(h[t]) + Share(n, t) :
           g[t][i] = IF i <= Len(h[t]) THEN h[t][i] ELSE new[i - Len(h[t])]
  <2>1. /\ h[t] \o new \in Seq(Requests) /\ Len(h[t] \o new) = Len(h[t]) + Len(new)
        /\ \A i \in 1 .. Len(h[t]) + Len(new) :
             (h[t] \o new)[i] = IF i <= Len(h[t]) THEN h[t][i] ELSE new[i - Len(h[t])]
    BY <1>1, <1>2, ConcatProperties
  <2>2. Len(new) = Share(n, t) /\ g[t] = h[t] \o new
    BY <1>1, <1>2
  <2> HIDE DEF Dealt
  <2> QED BY <2>1, <2>2, Zenon
<1>6. DOMAIN g[t] = 1 .. Len(h[t]) + Share(n, t)
  BY <1>5, LenProperties
<1>7. PICK a \in Nat, b \in Nat : a = Len(h[t]) /\ b = Share(n, t)
  BY <1>3, <1>4
<1>8. ASSUME NEW k \in 1 .. a PROVE g[t][k] = h[t][k] /\ h[t][k] \in Requests
  <2>1. k \in 1 .. a + b /\ k <= a
    OBVIOUS
  <2> QED BY <1>1, <1>5, <1>7, <2>1, ElementOfSeq
<1>9. ASSUME NEW j \in 1 .. b PROVE g[t][a + j] = new[j]
  <2>1. a + j \in 1 .. a + b /\ ~(a + j <= a) /\ (a + j) - a = j
    OBVIOUS
  <2> QED BY <1>5, <1>7, <2>1
<1> QED BY <1>2, <1>3, <1>4, <1>5, <1>6, <1>7, <1>8, <1>9

(* The requests of other steps stay where they are.                        *)
LEMMA OthersStay ==
  ASSUME NEW w, NEW s, NEW n, NEW h, NEW g, Dealt(w, s, n, h, g), NEW u, NEW x, u # w \/ x # s
  PROVE  /\ PlacesIn(g, u, x) = PlacesIn(h, u, x)
         /\ \A p \in PlacesIn(h, u, x) : g[p[1]][p[2]] = h[p[1]][p[2]]
<1>1. ASSUME NEW p \in PlacesIn(h, u, x)
      PROVE  p \in PlacesIn(g, u, x) /\ g[p[1]][p[2]] = h[p[1]][p[2]]
  <2>1. PICK t \in Tids : \E k \in DOMAIN h[t] :
               p = <<t, k>> /\ h[t][k].wl = u /\ h[t][k].step = x
    BY <1>1, InPlaces
  <2>2. PICK k \in DOMAIN h[t] : p = <<t, k>> /\ h[t][k].wl = u /\ h[t][k].step = x
    BY <2>1
  <2>3. k \in DOMAIN g[t] /\ g[t][k] = h[t][k]
    <3>1. PICK a \in Nat, b \in Nat :
            /\ a = Len(h[t]) /\ b = Share(n, t) /\ DOMAIN h[t] = 1 .. a
            /\ DOMAIN g[t] = 1 .. a + b /\ \A i \in 1 .. a : g[t][i] = h[t][i]
      <4>1. /\ Len(h[t]) \in Nat /\ Share(n, t) \in Nat /\ DOMAIN h[t] = 1 .. Len(h[t])
            /\ DOMAIN g[t] = 1 .. Len(h[t]) + Share(n, t)
            /\ \A i \in 1 .. Len(h[t]) : g[t][i] = h[t][i]
        BY DealtList
      <4> QED BY <4>1, Zenon
    <3>2. k \in 1 .. a /\ k \in 1 .. a + b
      BY <2>2, <3>1
    <3> QED BY <3>1, <3>2
  <2> QED BY <2>2, <2>3, InPlaces
<1>2. ASSUME NEW p \in PlacesIn(g, u, x) PROVE p \in PlacesIn(h, u, x)
  <2>1. PICK t \in Tids : \E k \in DOMAIN g[t] :
               p = <<t, k>> /\ g[t][k].wl = u /\ g[t][k].step = x
    BY <1>2, InPlaces
  <2>2. PICK k \in DOMAIN g[t] : p = <<t, k>> /\ g[t][k].wl = u /\ g[t][k].step = x
    BY <2>1
  <2>3. PICK a \in Nat, b \in Nat :
          /\ a = Len(h[t]) /\ b = Share(n, t) /\ k \in 1 .. a + b /\ DOMAIN h[t] = 1 .. a
          /\ \A i \in 1 .. a : g[t][i] = h[t][i]
          /\ \A j \in 1 .. b : g[t][a + j].wl = w /\ g[t][a + j].step = s
    <3>1. PICK a \in Nat, b \in Nat :
            /\ a = Len(h[t]) /\ b = Share(n, t) /\ DOMAIN h[t] = 1 .. a
            /\ DOMAIN g[t] = 1 .. a + b /\ \A i \in 1 .. a : g[t][i] = h[t][i]
            /\ \A j \in 1 .. b :
                 g[t][a + j] = [wl |-> w, step |-> s, id |-> FirstId(n, t) + j - 1]
      <4>1. /\ Len(h[t]) \in Nat /\ Share(n, t) \in Nat /\ DOMAIN h[t] = 1 .. Len(h[t])
            /\ DOMAIN g[t] = 1 .. Len(h[t]) + Share(n, t)
            /\ \A i \in 1 .. Len(h[t]) : g[t][i] = h[t][i]
            /\ \A j \in 1 .. Share(n, t) :
                 g[t][Len(h[t]) + j] = [wl |-> w, step |-> s, id |-> FirstId(n, t) + j - 1]
        BY DealtList
      <4> QED BY <4>1, Zenon
    <3>2. \A j \in 1 .. b : g[t][a + j].wl = w /\ g[t][a + j].step = s
      <4> SUFFICES ASSUME NEW j \in 1 .. b
                   PROVE  g[t][a + j].wl = w /\ g[t][a + j].step = s
        OBVIOUS
      <4>1. PICK i : i = FirstId(n, t) + j - 1
        OBVIOUS
      <4>2. g[t][a + j] = [wl |-> w, step |-> s, id |-> i]
        BY <3>1, <4>1
      <4> QED BY <4>2
    <3>3. k \in 1 .. a + b
      BY <2>2, <3>1
    <3> QED BY <3>1, <3>2, <3>3
  <2>4. k \in 1 .. a
    <3> SUFFICES ASSUME k \notin 1 .. a PROVE FALSE
      OBVIOUS
    <3>1. k - a \in 1 .. b /\ a + (k - a) = k
      BY <2>3
    <3>2. g[t][k].wl = w /\ g[t][k].step = s
      BY <2>3, <3>1
    <3> QED BY <2>2, <3>2
  <2> QED BY <2>2, <2>3, <2>4, InPlaces
<1> QED BY <1>1, <1>2

(* The new requests have the ids below n, each once.                       *)
LEMMA DealtOnce ==
  ASSUME NEW w, NEW s, NEW n, NEW h, NEW g, Dealt(w, s, n, h, g), PlacesIn(h, w, s) = {}
  PROVE  /\ Cardinality(PlacesIn(g, w, s)) = n
         /\ {g[p[1]][p[2]].id : p \in PlacesIn(g, w, s)} = 0 .. n - 1
<1> DEFINE P == PlacesIn(g, w, s)
           Place(t, j) == <<t, Len(h[t]) + j>>
           Id(p) == g[p[1]][p[2]].id
<1>0. n \in Nat
  BY DEF Dealt
<1>1. ASSUME NEW t \in Tids, NEW j \in 1 .. Share(n, t)
      PROVE  Place(t, j) \in P /\ Id(Place(t, j)) = FirstId(n, t) + j - 1
  <2>1. /\ Len(h[t]) + j \in DOMAIN g[t]
        /\ g[t][Len(h[t]) + j] = [wl |-> w, step |-> s, id |-> FirstId(n, t) + j - 1]
    BY DealtList
  <2> QED BY <2>1, InPlaces
<1>2. ASSUME NEW p \in P
      PROVE  \E t \in Tids : \E j \in 1 .. Share(n, t) : p = Place(t, j)
  <2>1. PICK t \in Tids : \E k \in DOMAIN g[t] :
               p = <<t, k>> /\ g[t][k].wl = w /\ g[t][k].step = s
    BY <1>2, InPlaces
  <2>2. PICK k \in DOMAIN g[t] : p = <<t, k>> /\ g[t][k].wl = w /\ g[t][k].step = s
    BY <2>1
  <2>3. PICK a \in Nat, b \in Nat :
          /\ a = Len(h[t]) /\ b = Share(n, t) /\ k \in 1 .. a + b /\ DOMAIN h[t] = 1 .. a
          /\ \A i \in 1 .. a : g[t][i] = h[t][i]
    BY SMTT(30), DealtList
  <2>4. k \notin 1 .. a
    <3> SUFFICES ASSUME k \in 1 .. a PROVE FALSE
      OBVIOUS
    <3>1. k \in DOMAIN h[t] /\ h[t][k].wl = w /\ h[t][k].step = s
      BY <2>2, <2>3
    <3>2. <<t, k>> \in PlacesIn(h, w, s)
      BY <3>1, InPlaces
    <3> QED BY <3>2
  <2>5. k - a \in 1 .. b /\ a + (k - a) = k
    BY <2>3, <2>4
  <2> QED BY <2>2, <2>3, <2>5
<1> HIDE DEF P, Id
<1>3. \A t \in Tids : FirstId(n, t) \in Nat /\ Share(n, t) \in Nat
                      /\ FirstId(n, t) + Share(n, t) <= n
  <2> SUFFICES ASSUME NEW t \in Tids
               PROVE  FirstId(n, t) \in Nat /\ Share(n, t) \in Nat
                      /\ FirstId(n, t) + Share(n, t) <= n
    OBVIOUS
  <2>1. t < NThreads /\ NThreads \in 0 .. NThreads
    BY PoolAssumption DEF Tids
  <2> QED BY <1>0, <2>1, IdsFollow, IdsEnd, IdsApart
<1>4. \A p \in P : Id(p) \in 0 .. n - 1
  <2> SUFFICES ASSUME NEW p \in P PROVE Id(p) \in 0 .. n - 1
    OBVIOUS
  <2>1. PICK t \in Tids : \E j \in 1 .. Share(n, t) : p = Place(t, j)
    BY <1>2
  <2>2. PICK j \in 1 .. Share(n, t) : p = Place(t, j)
    BY <2>1
  <2>3. Id(p) = FirstId(n, t) + j - 1
    BY <1>1, <2>2
  <2> QED BY <1>0, <1>3, <2>3
<1>5. \A i \in 0 .. n - 1 : \E p \in P : Id(p) = i
  <2> SUFFICES ASSUME NEW i \in 0 .. n - 1 PROVE \E p \in P : Id(p) = i
    OBVIOUS
  <2>1. PICK t \in Tids : FirstId(n, t) <= i /\ i < FirstId(n, t) + Share(n, t)
    BY <1>0, IdsCovered
  <2>2. PICK j \in Int : j = i - FirstId(n, t) + 1
    BY <1>3
  <2>3. j \in 1 .. Share(n, t) /\ FirstId(n, t) + j - 1 = i
    BY <1>3, <2>1, <2>2
  <2> QED BY <1>1, <2>3
<1>6. \A p, q \in P : Id(p) = Id(q) => p = q
  <2> SUFFICES ASSUME NEW p \in P, NEW q \in P, Id(p) = Id(q) PROVE p = q
    OBVIOUS
  <2>1. PICK t \in Tids : \E j \in 1 .. Share(n, t) : p = Place(t, j)
    BY <1>2
  <2>2. PICK j \in 1 .. Share(n, t) : p = Place(t, j)
    BY <2>1
  <2>3. PICK u \in Tids : \E k \in 1 .. Share(n, u) : q = Place(u, k)
    BY <1>2
  <2>4. PICK k \in 1 .. Share(n, u) : q = Place(u, k)
    BY <2>3
  <2>5. FirstId(n, t) + j - 1 = FirstId(n, u) + k - 1
    BY <1>1, <2>2, <2>4
  <2>6. t \in 0 .. NThreads /\ u \in 0 .. NThreads /\ t \in Int /\ u \in Int
    BY PoolAssumption DEF Tids
  <2>7. ~(t < u)
    <3> SUFFICES ASSUME t < u PROVE FALSE
      OBVIOUS
    <3>1. FirstId(n, t) + Share(n, t) <= FirstId(n, u)
      BY <1>0, <2>6, IdsApart
    <3> QED BY <1>3, <2>5, <3>1
  <2>8. ~(u < t)
    <3> SUFFICES ASSUME u < t PROVE FALSE
      OBVIOUS
    <3>1. FirstId(n, u) + Share(n, u) <= FirstId(n, t)
      BY <1>0, <2>6, IdsApart
    <3> QED BY <1>3, <2>5, <3>1
  <2>9. t = u
    BY <2>6, <2>7, <2>8
  <2>10. j = k
    BY <1>3, <2>5, <2>9
  <2> QED BY <2>2, <2>4, <2>9, <2>10
<1>7. {Id(p) : p \in P} = 0 .. n - 1
  BY <1>4, <1>5
<1>8. Cardinality(P) = n
  <2> DEFINE f == [p \in P |-> Id(p)]
  <2>1. f \in Bijection(P, 0 .. n - 1)
    <3>1. f \in [P -> 0 .. n - 1]
      BY <1>4
    <3>2. f \in Injection(P, 0 .. n - 1)
      BY <3>1, <1>6 DEF Injection, IsInjective
    <3>3. f \in Surjection(P, 0 .. n - 1)
      BY <3>1, <1>5 DEF Surjection
    <3> QED BY <3>2, <3>3 DEF Bijection
  <2>2. ExistsBijection(0 .. n - 1, P)
    BY <2>1, Fun_ExistsBijSymmetric DEF ExistsBijection
  <2>3. IsFiniteSet(0 .. n - 1) /\ Cardinality(0 .. n - 1) = n
    BY <1>0, FS_Interval
  <2> QED BY <2>2, <2>3, FS_Bijection
<1> QED BY <1>7, <1>8 DEF P, Id

Holds == [t \in Tids |-> Held(t)]

(* The places of a step's requests, now and after the step, in terms of    *)
(* the workers' lists.                                                     *)
LEMMA HoldsPlaces ==
  ASSUME NEW w, NEW s
  PROVE  /\ RequestsOf(w, s) = PlacesIn(Holds, w, s)
         /\ RequestsOf(w, s)' = PlacesIn(Holds', w, s)
         /\ {Request(p).id : p \in RequestsOf(w, s)}
              = {Holds[p[1]][p[2]].id : p \in PlacesIn(Holds, w, s)}
         /\ {Request(p).id : p \in RequestsOf(w, s)}'
              = {Holds'[p[1]][p[2]].id : p \in PlacesIn(Holds', w, s)}
<1>1. RequestsOf(w, s) = PlacesIn(Holds, w, s)
  BY DEF RequestsOf, PlacesIn, Holds
<1>2. RequestsOf(w, s)' = PlacesIn(Holds', w, s)
  BY DEF RequestsOf, PlacesIn, Holds
<1>3. \A p \in PlacesIn(Holds, w, s) : Request(p) = Holds[p[1]][p[2]]
  <2> SUFFICES ASSUME NEW p \in PlacesIn(Holds, w, s) PROVE Request(p) = Holds[p[1]][p[2]]
    OBVIOUS
  <2>1. p[1] \in Tids
    BY InPlaces
  <2> QED BY <2>1 DEF Request, Holds
<1>4. \A p \in PlacesIn(Holds', w, s) : Request(p)' = Holds'[p[1]][p[2]]
  <2> SUFFICES ASSUME NEW p \in PlacesIn(Holds', w, s) PROVE Request(p)' = Holds'[p[1]][p[2]]
    OBVIOUS
  <2>1. p[1] \in Tids
    BY InPlaces
  <2> QED BY <2>1 DEF Request, Holds
<1> HIDE DEF Request, Holds, PlacesIn
<1>5. {Request(p).id : p \in RequestsOf(w, s)}
        = {Holds[p[1]][p[2]].id : p \in PlacesIn(Holds, w, s)}
  BY <1>1, <1>3
<1>6. {Request(p).id : p \in RequestsOf(w, s)}'
        = {Holds'[p[1]][p[2]].id : p \in PlacesIn(Holds', w, s)}
  BY <1>2, <1>4
<1> QED BY <1>1, <1>2, <1>5, <1>6

(* What the control thread deals is what the workers hold more.            *)
LEMMA RunsStepDeals ==
  ASSUME Inv, NEW w, NEW n, RunsStep(w, n)
  PROVE  /\ Dealt(w, wl[w].current_step + 1, n, Holds, Holds')
         /\ ChainsFit' /\ TypeOK'
<1>1. /\ w \in Workloads /\ n \in Nat
      /\ worker' \in [Tids -> WorkerType] /\ wl' \in [Workloads -> WorkloadType]
      /\ \A t \in Tids : worker[t] \in WorkerType
      /\ wl[w].current_step \in -1 .. wl[w].last_step + 1 /\ wl[w].last_step \in Int
      /\ wl[w].current_step < wl[w].last_step
  BY Typed, PoolAssumption DEF RunsStep, Inv, WorkloadType
<1>2. PICK s \in Nat : s = wl[w].current_step + 1
  BY <1>1
<1>3. ASSUME NEW t \in Tids
      PROVE  /\ worker'[t].requests = worker[t].requests \o NewRequests(w, s, n, t)
             /\ worker'[t].chain = worker[t].chain /\ worker'[t].reported = worker[t].reported
             /\ worker'[t].pc = worker[t].pc /\ worker'[t].ran = worker[t].ran
  <2>1. worker'[t] = [worker[t] EXCEPT !.requests = worker[t].requests \o NewRequests(w, s, n, t)]
    BY <1>2 DEF RunsStep
  <2>2. PICK r : r = worker[t].requests \o NewRequests(w, s, n, t)
    OBVIOUS
  <2>3. worker'[t] = [worker[t] EXCEPT !.requests = r] /\ worker[t] \in WorkerType
    BY <1>1, <2>1, <2>2
  <2> QED BY <2>2, <2>3 DEF WorkerType
<1>4. ASSUME NEW t \in Tids
      PROVE  /\ Held(t) \in Seq(Requests)
             /\ Held(t)' = Held(t) \o NewRequests(w, s, n, t)
  <2>1. /\ worker[t].chain \in Seq(Requests) /\ worker[t].requests \in Seq(Requests)
        /\ worker[t].reported \in Seq(Requests) /\ Held(t) \in Seq(Requests)
    BY WorkerTyped DEF Inv
  <2>2. NewRequests(w, s, n, t) \in Seq(Requests)
    BY <1>1, NewRequestsAre
  <2>3. Held(t)' = (worker[t].reported \o worker[t].chain)
                     \o (worker[t].requests \o NewRequests(w, s, n, t))
    BY <1>3 DEF Held
  <2>4. worker[t].reported \o worker[t].chain \in Seq(Requests)
    BY <2>1, ConcatProperties
  <2>5. (worker[t].reported \o worker[t].chain) \o (worker[t].requests \o NewRequests(w, s, n, t))
          = ((worker[t].reported \o worker[t].chain) \o worker[t].requests) \o NewRequests(w, s, n, t)
    <3>1. PICK a \in Seq(Requests), b \in Seq(Requests), c \in Seq(Requests) :
            /\ a = worker[t].reported \o worker[t].chain
            /\ b = worker[t].requests /\ c = NewRequests(w, s, n, t)
      BY <2>1, <2>2, <2>4, Zenon
    <3>2. a \o (b \o c) = (a \o b) \o c
      BY SMTT(30), ConcatAssociative
    <3> QED BY <3>1, <3>2, Zenon
  <2> QED BY <2>1, <2>3, <2>5 DEF Held
<1>5. Dealt(w, s, n, Holds, Holds')
  <2>1. Holds \in [Tids -> Seq(Requests)]
    BY <1>4 DEF Holds
  <2>2. \A t \in Tids : Holds'[t] = Holds[t] \o NewRequests(w, s, n, t)
    BY <1>4 DEF Holds
  <2> QED BY <1>1, <2>1, <2>2 DEF Dealt
<1>6. ChainsFit'
  BY <1>3 DEF Inv, ChainsFit
<1>7. TypeOK'
  <2>1. \A u \in Workloads : wl'[u].current_step \in -1 .. wl'[u].last_step + 1
    <3>1. wl'[w].current_step \in -1 .. wl'[w].last_step + 1
      BY <1>1 DEF RunsStep
    <3> QED BY <3>1, Typed DEF Inv, RunsStep
  <2>2. \A t \in Tids : /\ worker'[t].ran <= Len(worker'[t].chain)
                        /\ worker'[t].pc = "run" => worker'[t].ran < Len(worker'[t].chain)
    BY <1>3, Typed DEF Inv
  <2>3. ctl' \in CtlType
    <3>1. PICK j \in Nat : j = ctl.i + 1
      BY Typed DEF Inv, CtlType
    <3>2. ctl' = [ctl EXCEPT !.i = j] /\ ctl \in CtlType
      BY <3>1, Typed DEF RunsStep, Inv
    <3> QED BY <3>2 DEF CtlType
  <2>4. /\ pool' \in PoolType /\ destroyer' \in {"idle", "clean", "notify", "join", "done"}
        /\ fault' \in {"none", "step_array", "detached_workload", "freed_workload", "endless_draw"}
    BY Typed DEF Inv, RunsStep
  <2> QED BY <1>1, <2>1, <2>2, <2>3, <2>4 DEF TypeOK
<1> QED BY <1>2, <1>5, <1>6, <1>7

(* Dealing keeps the order, and every request in its place.                *)
LEMMA DealtInOrder ==
  ASSUME Inv, NEW w, NEW n, RunsStep(w, n)
  PROVE  InOrder' /\ StepsPassed' /\ EachRequestOnce'
<1>1. /\ w \in Workloads /\ \A u \in Workloads : wl[u].current_step \in Int
      /\ wl'[w].current_step = wl[w].current_step + 1
      /\ \A u \in Workloads : u # w => wl'[u] = wl[u]
      /\ \A u \in Workloads : wl'[u].provided = wl[u].provided
      /\ n = wl[w].provided[wl[w].current_step + 2] /\ n \in Nat
  BY Typed, PoolAssumption DEF RunsStep, Inv, WorkloadType
<1>2. PICK s \in Int : s = wl[w].current_step + 1
  BY <1>1
<1>3. Dealt(w, s, n, Holds, Holds') /\ s \in Nat
  BY <1>2, RunsStepDeals DEF Dealt
<1> DEFINE h == Holds
           g == Holds'
<1>4. \A t \in Tids : h[t] = Held(t) /\ g[t] = Held(t)'
  BY DEF Holds
<1>5. \A t \in Tids : \A k \in DOMAIN h[t] : h[t][k].step <= wl[h[t][k].wl].current_step
  BY <1>4 DEF Inv, StepsPassed
<1>6. \A t \in Tids : \A k \in DOMAIN h[t] : \A j \in 1 .. k - 1 :
        h[t][j].wl = h[t][k].wl =>
          h[t][j].step < h[t][k].step \/ (h[t][j].step = h[t][k].step /\ h[t][j].id < h[t][k].id)
  BY <1>4 DEF Inv, InOrder
<1>7. \A u, x :
        /\ RequestsOf(u, x) = PlacesIn(h, u, x)
        /\ RequestsOf(u, x)' = PlacesIn(g, u, x)
        /\ {Request(p).id : p \in RequestsOf(u, x)}
             = {h[p[1]][p[2]].id : p \in PlacesIn(h, u, x)}
        /\ {Request(p).id : p \in RequestsOf(u, x)}'
             = {g[p[1]][p[2]].id : p \in PlacesIn(g, u, x)}
  BY HoldsPlaces
<1>8. ASSUME NEW t \in Tids
      PROVE  \E a \in Nat, b \in Nat, f \in Nat :
               /\ DOMAIN h[t] = 1 .. a /\ DOMAIN g[t] = 1 .. a + b
               /\ \A k \in 1 .. a : g[t][k] = h[t][k] /\ h[t][k] \in Requests
               /\ \A j \in 1 .. b : /\ g[t][a + j].wl = w /\ g[t][a + j].step = s
                                    /\ g[t][a + j].id = f + j - 1
  <2>1. /\ Len(h[t]) \in Nat /\ Share(n, t) \in Nat /\ FirstId(n, t) \in Nat
        /\ DOMAIN h[t] = 1 .. Len(h[t]) /\ DOMAIN g[t] = 1 .. Len(h[t]) + Share(n, t)
        /\ \A k \in 1 .. Len(h[t]) : g[t][k] = h[t][k] /\ h[t][k] \in Requests
        /\ \A j \in 1 .. Share(n, t) :
             g[t][Len(h[t]) + j] = [wl |-> w, step |-> s, id |-> FirstId(n, t) + j - 1]
    BY <1>3, DealtList
  <2>2. ASSUME NEW j \in 1 .. Share(n, t)
        PROVE  /\ g[t][Len(h[t]) + j].wl = w /\ g[t][Len(h[t]) + j].step = s
               /\ g[t][Len(h[t]) + j].id = FirstId(n, t) + j - 1
    <3>1. PICK i : i = FirstId(n, t) + j - 1
      OBVIOUS
    <3>2. PICK e : e = g[t][Len(h[t]) + j]
      OBVIOUS
    <3>3. e = [wl |-> w, step |-> s, id |-> i]
      BY <2>1, <3>1, <3>2
    <3>4. e.wl = w /\ e.step = s /\ e.id = i
      BY <3>3
    <3> QED BY <3>1, <3>2, <3>4, Zenon
  <2> HIDE DEF h, g
  <2> QED BY <2>1, <2>2, Zenon
<1> HIDE DEF h, g
<1>9. InOrder'
  <2>1. ASSUME NEW t \in Tids, NEW k \in DOMAIN g[t], NEW j \in 1 .. k - 1,
               g[t][j].wl = g[t][k].wl
        PROVE  g[t][j].step < g[t][k].step \/ (g[t][j].step = g[t][k].step /\ g[t][j].id < g[t][k].id)
    <3>1. PICK a \in Nat, b \in Nat, f \in Nat :
               /\ DOMAIN h[t] = 1 .. a /\ DOMAIN g[t] = 1 .. a + b
               /\ \A i \in 1 .. a : g[t][i] = h[t][i] /\ h[t][i] \in Requests
               /\ \A i \in 1 .. b : /\ g[t][a + i].wl = w /\ g[t][a + i].step = s
                                    /\ g[t][a + i].id = f + i - 1
      BY <1>8
    <3>2. k \in 1 .. a + b /\ j \in 1 .. a + b /\ j < k
      BY <3>1
    <3>3. CASE k <= a
      <4>1. k \in 1 .. a /\ j \in 1 .. a
        BY <3>2, <3>3
      <4>2. g[t][k] = h[t][k] /\ g[t][j] = h[t][j] /\ k \in DOMAIN h[t]
        BY <3>1, <4>1
      <4> QED BY <1>6, <2>1, <4>2
    <3>4. CASE ~(k <= a)
      <4>1. k - a \in 1 .. b /\ a + (k - a) = k
        BY <3>2, <3>4
      <4>2. g[t][k].wl = w /\ g[t][k].step = s /\ g[t][k].id = f + (k - a) - 1
        BY <3>1, <4>1
      <4>3. CASE j <= a
        <5>1. j \in 1 .. a
          BY <3>2, <4>3
        <5>2. g[t][j] = h[t][j] /\ h[t][j] \in Requests /\ j \in DOMAIN h[t]
          BY <3>1, <5>1
        <5>3. h[t][j].wl = w /\ h[t][j].step \in Int /\ h[t][j].step <= wl[h[t][j].wl].current_step
          BY <1>5, <2>1, <4>2, <5>2 DEF Requests
        <5>4. h[t][j].step < s
          BY <1>1, <1>2, <5>3
        <5> QED BY <4>2, <5>2, <5>4
      <4>4. CASE ~(j <= a)
        <5>1. j - a \in 1 .. b /\ a + (j - a) = j
          BY <3>2, <4>4
        <5>2. g[t][j].step = s /\ g[t][j].id = f + (j - a) - 1
          BY <3>1, <5>1
        <5>3. f + (j - a) - 1 < f + (k - a) - 1
          BY <3>2
        <5> QED BY <4>2, <5>2, <5>3
      <4> QED BY <4>3, <4>4
    <3> QED BY <3>3, <3>4
  <2> QED BY <1>4, <2>1 DEF InOrder
<1>10. StepsPassed'
  <2>1. ASSUME NEW t \in Tids, NEW k \in DOMAIN g[t]
        PROVE  g[t][k].step <= wl'[g[t][k].wl].current_step
    <3>1. PICK a \in Nat, b \in Nat, f \in Nat :
               /\ DOMAIN h[t] = 1 .. a /\ DOMAIN g[t] = 1 .. a + b
               /\ \A i \in 1 .. a : g[t][i] = h[t][i] /\ h[t][i] \in Requests
               /\ \A i \in 1 .. b : /\ g[t][a + i].wl = w /\ g[t][a + i].step = s
                                    /\ g[t][a + i].id = f + i - 1
      BY <1>8
    <3>2. k \in 1 .. a + b
      BY <3>1
    <3>3. CASE k <= a
      <4>1. k \in DOMAIN h[t] /\ g[t][k] = h[t][k] /\ h[t][k] \in Requests
        BY <3>1, <3>2, <3>3
      <4>2. h[t][k].wl \in Workloads /\ h[t][k].step \in Int
            /\ h[t][k].step <= wl[h[t][k].wl].current_step
        BY <1>5, <4>1 DEF Requests
      <4>3. PICK u \in Workloads, x \in Int : u = h[t][k].wl /\ x = h[t][k].step
        BY <4>2
      <4>4. x <= wl'[u].current_step
        <5>1. CASE u = w
          BY <1>1, <1>2, <4>2, <4>3, <5>1
        <5>2. CASE u # w
          BY <1>1, <4>2, <4>3, <5>2
        <5> QED BY <5>1, <5>2
      <4> QED BY <4>1, <4>3, <4>4
    <3>4. CASE ~(k <= a)
      <4>1. k - a \in 1 .. b /\ a + (k - a) = k
        BY <3>2, <3>4
      <4>2. g[t][k].wl = w /\ g[t][k].step = s
        BY <3>1, <4>1
      <4> QED BY <1>1, <1>2, <4>2
    <3> QED BY <3>3, <3>4
  <2> QED BY <1>4, <2>1 DEF StepsPassed
<1>11. PlacesIn(h, w, s) = {}
  <2> SUFFICES ASSUME NEW p \in PlacesIn(h, w, s) PROVE FALSE
    OBVIOUS
  <2>1. PICK t \in Tids : \E k \in DOMAIN h[t] :
               p = <<t, k>> /\ h[t][k].wl = w /\ h[t][k].step = s
    BY InPlaces
  <2>2. PICK k \in DOMAIN h[t] : h[t][k].wl = w /\ h[t][k].step = s
    BY <2>1
  <2>3. s <= wl[w].current_step
    BY <1>5, <2>2
  <2> QED BY <1>1, <1>2, <2>3
<1>12. EachRequestOnce'
  <2>1. ASSUME NEW u \in Workloads, NEW x \in StepsBegun(u)'
        PROVE  /\ Cardinality(PlacesIn(g, u, x)) = wl'[u].provided[x + 1]
               /\ {g[p[1]][p[2]].id : p \in PlacesIn(g, u, x)} = 0 .. wl'[u].provided[x + 1] - 1
    <3>1. /\ ctl.pc = "step" /\ ctl'.pc = "step" /\ wl[w].tp /\ wl'[w].tp = wl[w].tp
      BY Typed DEF RunsStep, Attached, Inv, CtlType
    <3>2. /\ ~Ended(w) /\ ~Ended(w)' /\ (u # w => (Ended(u)' <=> Ended(u)))
      BY <1>1, <3>1 DEF Ended
    <3>3. CASE u = w /\ x = s
      <4>1. /\ Cardinality(PlacesIn(g, w, s)) = n
            /\ {g[p[1]][p[2]].id : p \in PlacesIn(g, w, s)} = 0 .. n - 1
        BY <1>3, <1>11, DealtOnce DEF h, g
      <4>2. wl'[w].provided[s + 1] = n
        <5>1. s + 1 = wl[w].current_step + 2
          BY <1>1, <1>2
        <5> QED BY <1>1, <5>1
      <4> QED BY <3>3, <4>1, <4>2
    <3>4. CASE u # w \/ x # s
      <4>1. x \in StepsBegun(u)
        <5>1. CASE u # w
          BY <1>1, <2>1, <3>2, <5>1 DEF StepsBegun
        <5>2. CASE u = w
          <6>1. x \in 0 .. s - 0
            BY <1>1, <1>2, <2>1, <3>2, <5>2 DEF StepsBegun
          <6>2. x \in 0 .. wl[w].current_step - 0
            BY <1>1, <1>2, <3>4, <5>2, <6>1
          <6> QED BY <3>2, <5>2, <6>2 DEF StepsBegun
        <5> QED BY <5>1, <5>2
      <4>2. /\ Cardinality(PlacesIn(h, u, x)) = wl[u].provided[x + 1]
            /\ {h[p[1]][p[2]].id : p \in PlacesIn(h, u, x)} = 0 .. wl[u].provided[x + 1] - 1
        <5>1. /\ Cardinality(RequestsOf(u, x)) = wl[u].provided[x + 1]
              /\ {Request(p).id : p \in RequestsOf(u, x)} = 0 .. wl[u].provided[x + 1] - 1
          BY <4>1 DEF Inv, EachRequestOnce
        <5> QED BY <1>7, <5>1
      <4>3. /\ PlacesIn(g, u, x) = PlacesIn(h, u, x)
            /\ \A p \in PlacesIn(h, u, x) : g[p[1]][p[2]] = h[p[1]][p[2]]
        BY <1>3, <3>4, OthersStay DEF h, g
      <4>4. {g[p[1]][p[2]].id : p \in PlacesIn(g, u, x)}
              = {h[p[1]][p[2]].id : p \in PlacesIn(h, u, x)}
        BY <4>3
      <4> QED BY <1>1, <4>2, <4>3, <4>4
    <3> QED BY <3>3, <3>4
  <2>2. ASSUME NEW u \in Workloads, NEW x \in StepsBegun(u)'
        PROVE  /\ Cardinality(RequestsOf(u, x)') = wl'[u].provided[x + 1]
               /\ {Request(p).id : p \in RequestsOf(u, x)}' = 0 .. wl'[u].provided[x + 1] - 1
    BY <1>7, <2>1
  <2> QED BY <2>2 DEF EachRequestOnce
<1> QED BY <1>9, <1>10, <1>12

(* Running a step keeps the invariant.                                     *)
LEMMA RunsStepKeeps ==
  ASSUME Inv, NEW w, NEW n, RunsStep(w, n), AtWorkload
  PROVE  Inv'
<1>0. /\ w \in Workloads /\ ctl.pc = "step" /\ wl[w].tp /\ wl[w].phase \notin Unattached
      /\ wl[w].current_step \in Int /\ wl[w].last_step \in Int
      /\ wl[w].current_step < wl[w].last_step
      /\ ctl \in CtlType /\ ctl.i \in Nat /\ ctl.wl_count \in Int
  BY Typed DEF RunsStep, Attached, Inv, WorkloadType, CtlType
<1>1. TypeOK' /\ ChainsFit' /\ InOrder' /\ StepsPassed' /\ EachRequestOnce'
  BY RunsStepDeals, DealtInOrder
<1>2. /\ wl'[w].last_step = wl[w].last_step /\ wl'[w].current_step = wl[w].current_step + 1
      /\ wl'[w].rqs_per_step = wl[w].rqs_per_step /\ wl'[w].provided = wl[w].provided
      /\ wl'[w].tp = wl[w].tp /\ wl'[w].phase = wl[w].phase /\ wl'[w].freed = wl[w].freed
      /\ wl'[w].removal = wl[w].removal
      /\ \A u \in Workloads : u # w => wl'[u] = wl[u]
      /\ UNCHANGED <<pool, destroyer>>
  BY DEF RunsStep
<1>3. /\ ctl'.pc = "step" /\ ctl'.i = ctl.i + 1 /\ ctl'.step = ctl.step
      /\ ctl'.wl_count = ctl.wl_count
  BY <1>0 DEF RunsStep, CtlType
<1>4. \A u \in Workloads : SameHome(u) /\ (Attached(u)' <=> Attached(u)) /\ (Ended(u)' <=> Ended(u))
  BY <1>0, <1>2, <1>3 DEF SameHome, Attached, Ended
<1>5. Lists'
  BY <1>2, <1>4, ListFrame DEF Inv
<1>6. Untouched'
  BY <1>0, <1>2 DEF Inv, Untouched
<1>7. NotFreed'
  BY <1>2 DEF Inv, NotFreed
<1>8. StepArray'
  <2>1. StillToCome' \subseteq StillToCome
    BY <1>0, <1>3 DEF StillToCome
  <2>2. \A k \in StillToCome : ctl.step[k] \in Workloads
    <3>1. ctl.step \in Seq(Workloads) /\ Len(ctl.step) \in Nat /\ ctl.wl_count <= Len(ctl.step)
      BY <1>0, LenProperties DEF CtlType, Inv, StepArray, AtArray
    <3>2. \A k \in StillToCome : k \in 1 .. Len(ctl.step)
      BY <1>0, <3>1 DEF StillToCome
    <3> QED BY <3>1, <3>2, ElementOfSeq
  <2> QED BY <1>0, <1>2, <1>3, <1>4, <2>1, <2>2 DEF Inv, StepArray, HasPoolMutex, AtArray, Short
<1>9. Rings'
  <2> SUFFICES ASSUME NEW u \in Workloads PROVE RingRight(u)'
    BY DEF Rings
  <2>1. RingRight(u)
    BY DEF Inv, Rings
  <2>2. CASE u # w
    BY <1>2, <1>4, <2>1, <2>2 DEF RingRight
  <2>3. CASE u = w
    <3>1. PICK c \in Int, l \in Int : c = wl[w].current_step /\ l = wl[w].last_step /\ c < l
      BY <1>0
    <3>2. /\ l - c <= QSIZE /\ Len(wl[w].provided) = l + 1
          /\ \A s \in c + 1 .. l : wl[w].rqs_per_step[Slot(s)] = wl[w].provided[s + 1]
      BY <2>1, <2>3, <3>1 DEF RingRight
    <3>3. /\ l - (c + 1) <= QSIZE /\ c + 1 <= l
          /\ \A s \in (c + 1) + 1 .. l : wl[w].rqs_per_step[Slot(s)] = wl[w].provided[s + 1]
      BY SMTT(30), <3>1, <3>2, QSizeAssumption
    <3> QED BY <1>2, <2>3, <3>1, <3>2, <3>3 DEF RingRight
  <2> QED BY <2>2, <2>3
<1> QED BY <1>1, <1>5, <1>6, <1>7, <1>8, <1>9 DEF Inv

(* The end of a workload keeps the types.                                  *)
LEMMA EndsTyped ==
  ASSUME Inv, NEW w, NEW v, EndsWorkload(w, v), v.current_step \in -1 .. v.last_step + 1
  PROVE  TypeOK' /\ wl'[w] = v /\ \A u \in Workloads : u # w => wl'[u] = wl[u]
<1>1. wl \in [Workloads -> WorkloadType] /\ w \in Workloads
  BY Typed DEF Inv, EndsWorkload
<1>2. wl' \in [Workloads -> WorkloadType] /\ wl'[w] = v
      /\ \A u \in Workloads : u # w => wl'[u] = wl[u]
  BY <1>1 DEF EndsWorkload
<1>3. \A u \in Workloads : wl'[u].current_step \in -1 .. wl'[u].last_step + 1
  BY <1>2, Typed DEF Inv
<1> QED BY <1>2, <1>3, Typed DEF Inv, TypeOK, EndsWorkload

(* Finding no step keeps the invariant: the advance goes one beyond the    *)
(* last step.                                                              *)
LEMMA FinishesKeeps ==
  ASSUME Inv, NEW w, NEW v, Finishes(w, v), AtWorkload
  PROVE  Inv'
<1>0. /\ w \in Workloads /\ ctl.pc = "step" /\ wl[w].tp /\ wl[w].phase \notin Unattached
      /\ \A u \in Workloads : wl[u].current_step \in Int /\ wl[u].last_step \in Int
      /\ w = Current /\ ctl.i < ctl.wl_count
  BY Typed DEF Finishes, EndsWorkload, Attached, Inv, WorkloadType, AtWorkload
<1>1. PICK c \in Int : c = wl[w].current_step /\ c = wl[w].last_step
  <2>1. ~Ended(w) /\ RingRight(w)
    BY <1>0 DEF Ended, Inv, Rings
  <2>2. wl[w].current_step <= wl[w].last_step /\ wl[w].current_step >= wl[w].last_step
    BY <2>1 DEF RingRight, Finishes
  <2> QED BY <1>0, <2>2
<1>2. /\ v.last_step = c /\ v.current_step = c + 1 /\ v.rqs_per_step = wl[w].rqs_per_step
      /\ v.provided = wl[w].provided /\ v.phase = wl[w].phase /\ v.freed = wl[w].freed
      /\ v.removal = wl[w].removal /\ v.tp = wl[w].tp
      /\ UNCHANGED <<pool, worker, destroyer>>
      /\ ctl'.pc = "detach" /\ ctl'.i = ctl.i /\ ctl'.step = ctl.step
      /\ ctl'.wl_count = ctl.wl_count
  BY <1>1 DEF Finishes, EndsWorkload
<1>3. c >= -1
  <2>1. wl[w].current_step \in -1 .. wl[w].last_step + 1
    BY <1>0, Typed DEF Inv
  <2> QED BY <1>0, <1>1, <2>1
<1>4. v.current_step \in -1 .. v.last_step + 1
  BY <1>2, <1>3
<1>5. TypeOK' /\ wl'[w] = v /\ \A u \in Workloads : u # w => wl'[u] = wl[u]
  BY <1>4, EndsTyped DEF Finishes
<1>6. ChainsFit' /\ \A t \in Tids : Held(t)' = Held(t)
  BY <1>2, WorkersApart
<1>7. /\ \A u \in Workloads : SameHome(u) /\ (Attached(u)' <=> Attached(u))
      /\ ~Ended(w) /\ Ended(w)' /\ \A u \in Workloads : Ended(u) => Ended(u)'
  BY <1>0, <1>2, <1>5 DEF SameHome, Attached, Ended, Current
<1>8. Lists'
  BY <1>2, <1>7, ListFrame DEF Inv
<1>9. Untouched'
  BY <1>0, <1>2, <1>5 DEF Inv, Untouched
<1>10. NotFreed'
  BY <1>2, <1>5 DEF Inv, NotFreed
<1>11. StepArray'
  <2>1. StillToCome' = StillToCome
    BY <1>0, <1>2 DEF StillToCome
  <2>2. \A k \in StillToCome : ctl.step[k] \in Workloads
    <3>1. ctl.step \in Seq(Workloads) /\ Len(ctl.step) \in Nat /\ ctl.wl_count <= Len(ctl.step)
          /\ ctl.i \in Nat /\ ctl.wl_count \in Int
      BY <1>0, Typed, LenProperties DEF CtlType, Inv, StepArray, AtArray
    <3>2. \A k \in StillToCome : k \in 1 .. Len(ctl.step)
      BY <1>0, <3>1 DEF StillToCome
    <3> QED BY <3>1, <3>2, ElementOfSeq
  <2> QED BY <1>0, <1>2, <1>7, <2>1, <2>2 DEF Inv, StepArray, HasPoolMutex, AtArray, Short
<1>12. Rings'
  <2> SUFFICES ASSUME NEW u \in Workloads PROVE RingRight(u)'
    BY DEF Rings
  <2>1. RingRight(u)
    BY DEF Inv, Rings
  <2>2. CASE u # w
    BY <1>5, <1>7, <2>1, <2>2 DEF RingRight
  <2>3. CASE u = w
    <3>1. c - (c + 1) <= QSIZE /\ (c + 1) + 1 .. c = {}
      BY QSizeAssumption
    <3>2. Len(wl[w].provided) = c + 1
      BY <1>1, <2>1, <2>3 DEF RingRight
    <3> QED BY <1>2, <1>5, <1>7, <2>3, <3>1, <3>2 DEF RingRight
  <2> QED BY <2>2, <2>3
<1>13. StepsPassed'
  <2>1. \A u \in Workloads : /\ wl[u].current_step \in Int /\ wl'[u].current_step \in Int
                             /\ wl[u].current_step <= wl'[u].current_step
    <3> SUFFICES ASSUME NEW u \in Workloads
                 PROVE  /\ wl[u].current_step \in Int /\ wl'[u].current_step \in Int
                        /\ wl[u].current_step <= wl'[u].current_step
      OBVIOUS
    <3>1. CASE u = w
      <4>1. wl[u].current_step = c /\ wl'[u].current_step = c + 1
        BY <1>1, <1>2, <1>5, <3>1
      <4> QED BY <4>1
    <3>2. CASE u # w
      BY <1>0, <1>5, <3>2
    <3> QED BY <3>1, <3>2
  <2> QED BY <1>6, <2>1, PassedFrame DEF Inv
<1>14. InOrder'
  BY <1>6 DEF Inv, InOrder
<1>15. EachRequestOnce'
  <2>1. ASSUME NEW u \in Workloads, NEW s \in StepsBegun(u)'
        PROVE  s \in StepsBegun(u) /\ wl'[u].provided[s + 1] = wl[u].provided[s + 1]
    <3>1. CASE u # w
      <4>1. Ended(u)' => Ended(u)
        BY <1>0, <1>2, <1>5, <3>1 DEF Ended, Current
      <4> QED BY <1>5, <1>7, <2>1, <3>1, <4>1 DEF StepsBegun
    <3>2. CASE u = w
      <4>1. s \in 0 .. (c + 1) - 1
        BY <1>2, <1>5, <1>7, <2>1, <3>2 DEF StepsBegun
      <4>2. s \in 0 .. c - 0
        BY <4>1
      <4> QED BY <1>1, <1>2, <1>5, <1>7, <3>2, <4>2 DEF StepsBegun
    <3> QED BY <3>1, <3>2
  <2> QED BY <1>6, <2>1, OnceFrame DEF Inv
<1> QED BY <1>5, <1>6, <1>8, <1>9, <1>10, <1>11, <1>12, <1>13, <1>14, <1>15 DEF Inv

(* The detach after it keeps the invariant.                                *)
LEMMA TakenOffKeeps ==
  ASSUME Inv, NEW w, NEW v, TakenOff(w, v)
  PROVE  Inv'
<1>0. /\ w \in Workloads /\ ctl.pc = "detach" /\ Attached(w) /\ w = Current
      /\ ctl \in CtlType /\ ctl.i \in Nat /\ ctl.wl_count \in Int /\ ctl.step \in Seq(Workloads)
      /\ pool.wl_list \in Seq(Workloads) /\ pool.wl_count \in Int
      /\ wl[w].current_step \in -1 .. wl[w].last_step + 1
  BY Typed DEF TakenOff, EndsWorkload, Inv, CtlType, PoolType
<1>1. /\ v.last_step = wl[w].last_step /\ v.current_step = wl[w].current_step
      /\ v.rqs_per_step = wl[w].rqs_per_step
      /\ v.provided = wl[w].provided /\ v.phase = wl[w].phase /\ v.freed = wl[w].freed
      /\ v.removal = wl[w].removal /\ v.tp = FALSE
      /\ UNCHANGED <<worker, destroyer>>
      /\ ctl'.pc = "step" /\ ctl'.i = ctl.i + 1 /\ ctl'.step = ctl.step
      /\ ctl'.wl_count = ctl.wl_count /\ pool'.mutex = pool.mutex
  BY DEF TakenOff, EndsWorkload
<1>2. TypeOK' /\ wl'[w] = v /\ \A u \in Workloads : u # w => wl'[u] = wl[u]
  BY <1>0, <1>1, EndsTyped DEF TakenOff
<1>3. /\ ~Attached(w)' /\ \A u \in Workloads : u # w => (Attached(u)' <=> Attached(u))
      /\ \A u \in Workloads : Ended(u) => Ended(u)'
      /\ \A u \in Workloads : SameRing(u)
      /\ \A u \in Workloads : u # w => SameHome(u)
  BY <1>0, <1>1, <1>2 DEF Attached, Ended, SameRing, SameHome
<1>4. ChainsFit' /\ Rings' /\ StepsPassed' /\ InOrder' /\ EachRequestOnce'
  BY <1>1, <1>3, WorkersApart, RingFrame
<1>5. Lists' /\ (Short' <=> Short)
  BY <1>0, <1>1, <1>2, <1>3, DelistedKeeps DEF Inv, TakenOff
<1>6. Untouched'
  BY <1>0, <1>1, <1>2 DEF Inv, Untouched, Attached
<1>7. NotFreed'
  BY <1>1, <1>2 DEF Inv, NotFreed
<1>8. StepArray'
  <2>1. /\ ctl.wl_count <= Len(ctl.step) /\ Once(ctl.step) /\ pool.mutex = "ctl"
        /\ \A k \in StillToCome : Attached(ctl.step[k])
        /\ Len(ctl.step) \in Nat /\ DOMAIN ctl.step = 1 .. Len(ctl.step)
        /\ ctl.i < ctl.wl_count
    BY <1>0, LenProperties DEF Inv, StepArray, AtArray, HasPoolMutex
  <2>2. ASSUME NEW k \in StillToCome' PROVE Attached(ctl.step[k])'
    <3>1. k \in ctl.i + 2 .. ctl.wl_count /\ k \in StillToCome
      BY <1>0, <1>1 DEF StillToCome
    <3>2. k \in DOMAIN ctl.step /\ ctl.i + 1 \in DOMAIN ctl.step /\ k # ctl.i + 1
      BY <1>0, <2>1, <3>1
    <3>3. ctl.step[k] # w
      BY <1>0, <2>1, <3>2 DEF Once, Current
    <3>4. ctl.step[k] \in Workloads
      BY <1>0, <2>1, <3>2, ElementOfSeq
    <3>5. PICK u \in Workloads : u = ctl.step[k]
      BY <3>4
    <3>6. Attached(u)'
      BY <1>3, <2>1, <3>1, <3>3, <3>5
    <3> QED BY <1>1, <3>5, <3>6
  <2>3. pool'.wl_changed /\ pool'.mutex = "ctl"
    BY <1>1, <2>1 DEF TakenOff
  <2>4. ~Short'
    BY <1>0, <1>5 DEF Inv, StepArray, HasPoolMutex
  <2> QED BY <1>1, <2>1, <2>2, <2>3, <2>4 DEF StepArray, HasPoolMutex, AtArray
<1> QED BY <1>2, <1>4, <1>5, <1>6, <1>7, <1>8 DEF Inv

(* The control thread's steps keep the invariant.                          *)
LEMMA WholeControlKeeps ==
  ASSUME Inv, Control
  PROVE  Inv'
<1>1. CASE QuietControl
  BY <1>1, QuietKeeps
<1>2. CASE CtlRunStep
  <2>1. AtWorkload
    BY <1>2 DEF CtlRunStep, AtStarted
  <2> QED BY <1>2, <2>1, RunStepIs, RunsStepKeeps DEF Inv
<1>3. CASE CtlFinish
  <2>1. AtWorkload
    BY <1>3 DEF CtlFinish, AtStarted
  <2> QED BY <1>3, <2>1, FinishIs, FinishesKeeps DEF Inv
<1>4. CASE tp_detach_nolock
  BY <1>4, DetachIs, TakenOffKeeps DEF Inv
<1>5. CASE CtlAssertFails \/ CtlUsesFreed \/ CtlDrawsZero
  <2>1. UNCHANGED <<wl, pool, ctl, worker, destroyer>>
        /\ fault' \in {"step_array", "freed_workload", "endless_draw"}
    BY <1>5 DEF CtlAssertFails, CtlUsesFreed, CtlDrawsZero
  <2>2. Faults
    BY <2>1 DEF Faults, Inv, TypeOK
  <2> QED BY <2>2, FaultsKeep
<1> QED BY <1>1, <1>2, <1>3, <1>4, <1>5 DEF Control, QuietControl

(* The invariant holds initially ...                                       *)
LEMMA InvInit == Init => Inv
<1> SUFFICES ASSUME Init PROVE Inv
  OBVIOUS
<1>0. /\ <<>> \in Seq(Counts) /\ <<>> \in Seq(Workloads) /\ <<>> \in Seq(Requests)
      /\ Len(<<>>) = 0 /\ DOMAIN <<>> = {}
  BY EmptySeq
<1>1. /\ \A w \in Workloads :
           /\ wl[w].phase = "new" /\ wl[w].tp /\ wl[w].status = "NEW" /\ wl[w].removal = "none"
           /\ ~wl[w].freed /\ wl[w].last_step = -1 /\ wl[w].current_step = -1
           /\ wl[w].provided = <<>>
      /\ pool.wl_list = <<>> /\ pool.wl_count = 0 /\ ~pool.wl_changed /\ pool.mutex = Free
      /\ ctl.pc = "top" /\ ctl.step = <<>>
      /\ \A t \in Tids : /\ worker[t].pc = "top" /\ worker[t].chain = <<>> /\ worker[t].ran = 0
                         /\ worker[t].requests = <<>> /\ worker[t].reported = <<>>
      /\ destroyer = "idle" /\ fault = "none"
  BY DEF Init
<1>2. TypeOK
  <2>1. wl \in [Workloads -> WorkloadType]
    <3>1. [s \in Slots |-> Unset] \in [Slots -> Counts \cup {Unset}]
      OBVIOUS
    <3> HIDE DEF Slots, Unset
    <3> QED BY <1>0, <3>1 DEF Init, WorkloadType
  <2>2. pool \in PoolType /\ ctl \in CtlType
    BY <1>0 DEF Init, PoolType, CtlType
  <2>3. worker \in [Tids -> WorkerType]
    BY <1>0 DEF Init, WorkerType
  <2>4. \A w \in Workloads : wl[w].current_step \in -1 .. wl[w].last_step + 1
    BY <1>1
  <2>5. \A t \in Tids : /\ worker[t].ran <= Len(worker[t].chain)
                        /\ worker[t].pc = "run" => worker[t].ran < Len(worker[t].chain)
    BY <1>0, <1>1
  <2> QED BY <1>1, <2>1, <2>2, <2>3, <2>4, <2>5 DEF TypeOK
<1>3. \A t \in Tids : Held(t) = <<>>
  <2>1. <<>> \o <<>> = <<>>
    BY <1>0, ConcatEmptySeq
  <2> QED BY <1>1, <2>1 DEF Held
<1>4. ChainsFit /\ Untouched /\ NotFreed
  BY <1>1 DEF ChainsFit, Untouched, NotFreed
<1>5. Lists
  BY <1>0, <1>1 DEF Lists, Once, In, Attached, Unattached
<1>6. StepArray
  BY <1>0, <1>1 DEF StepArray, HasPoolMutex, AtArray, Free, Short
<1>7. Rings
  <2>1. -1 - (-1) <= QSIZE /\ -1 + 1 .. -1 = {} /\ -1 + 1 = 0 /\ -1 <= -1
    BY QSizeAssumption
  <2> QED BY <1>0, <1>1, <2>1 DEF Rings, RingRight
<1>8. StepsPassed /\ InOrder
  BY <1>0, <1>3 DEF StepsPassed, InOrder
<1>9. EachRequestOnce
  <2>1. \A w \in Workloads : StepsBegun(w) = {}
    BY <1>1 DEF StepsBegun
  <2> QED BY <2>1 DEF EachRequestOnce
<1> QED BY <1>2, <1>4, <1>5, <1>6, <1>7, <1>8, <1>9 DEF Inv

(* ... is kept by every step ...                                           *)
LEMMA InvNext == Inv /\ [Next]_vars => Inv'
<1> SUFFICES ASSUME Inv, [Next]_vars PROVE Inv'
  OBVIOUS
<1>1. ASSUME NEW w \in Workloads, WorkloadStep(w) \/ Removal(w) PROVE Inv'
  BY <1>1, WorkloadKeeps
<1>2. CASE Control
  BY <1>2, WholeControlKeeps
<1>3. ASSUME NEW t \in Tids, Worker(t) \/ WSpurious(t) PROVE Inv'
  BY <1>3, AnyWorkerKeeps
<1>4. CASE DestroyBegin \/ DestroyNotify \/ DestroyJoin
  BY <1>4, DestroyerKeeps
<1>5. CASE DestroyWorkloads
  BY <1>5, DestroyWorkloadsKeeps
<1>6. CASE UNCHANGED vars
  <2>1. Faults
    BY <1>6 DEF vars, Faults, Inv, TypeOK
  <2> QED BY <2>1, FaultsKeep
<1> QED BY <1>1, <1>2, <1>3, <1>4, <1>5, <1>6 DEF Next, Stopped

(* ... and so holds of every behaviour.                                    *)
LEMMA InvHolds == Spec => []Inv
BY InvInit, InvNext, PTL DEF Spec

(* Every variable keeps its type, every step stays within the step window, *)
(* and no worker runs past the end of its chain (worker.c:160-190).        *)
THEOREM TypeCorrect == Spec => []TypeOK
<1>1. Inv => TypeOK
  BY DEF Inv
<1> QED BY <1>1, InvHolds, PTL

(* A worker runs and reports a workload's requests in the order of their   *)
(* steps and ids, for any number of workers, workloads and requests and    *)
(* however the control thread interrupts it.                               *)
THEOREM RequestsInOrder == Spec => []InOrder
<1>1. Inv => InOrder
  BY DEF Inv
<1> QED BY <1>1, InvHolds, PTL

(* The control thread only works on attached workloads: the step array it  *)
(* keeps never names one that was detached or freed in an earlier quantum, *)
(* though tsload_unconfigure_workload may run from the moment the workload *)
(* exists.  One that it detaches before tp_attach leaves the count short of*)
(* the list, so that the assertion at the next refresh fails before the    *)
(* array can name it (threadpool.c:169-187; worker.c:68-74; tsload.c:108). *)
THEOREM ArrayFresh == Spec => []StepArrayFresh
<1>1. Inv => StepArrayFresh
  <2> SUFFICES ASSUME Inv, AtArray, NEW k \in StillToCome
               PROVE  /\ k <= Len(ctl.step) /\ wl[ctl.step[k]].tp
                      /\ destroyer \in {"idle", "clean"} => ~wl[ctl.step[k]].freed
    BY DEF StepArrayFresh, AtArray, StillToCome
  <2>1. /\ ctl.step \in Seq(Workloads) /\ ctl.i \in Nat /\ ctl.wl_count \in Int
        /\ ctl.wl_count <= Len(ctl.step) /\ Len(ctl.step) \in Nat
        /\ Attached(ctl.step[k])
    BY Typed, LenProperties DEF Inv, CtlType, StepArray
  <2>2. k \in 1 .. Len(ctl.step)
    BY <2>1 DEF StillToCome
  <2>3. ctl.step[k] \in Workloads
    BY <2>1, <2>2, ElementOfSeq
  <2> QED BY <2>1, <2>2, <2>3 DEF Attached, Inv, NotFreed
<1> QED BY <1>1, InvHolds, PTL

(* No request is lost, duplicated or made up on its way from the step a    *)
(* feeder provided to the report: tp_distribute_requests gives each id of  *)
(* the step to exactly one worker, and no splice, run, interruption, push  *)
(* or sleep of a worker loses or repeats one.                              *)
THEOREM RequestsOnce == Spec => []EachRequestOnce
<1>1. Inv => EachRequestOnce
  BY DEF Inv
<1> QED BY <1>1, InvHolds, PTL
-----------------------------------------------------------------------------
(* The refinement of RequestDelivery.                                      *)

(* No request is in the hands of two workers, and only a workload that may *)
(* be unconfigured is on the way out.                                      *)
Apart ==
  \A t, u \in Tids : \A j \in DOMAIN Held(t) : \A k \in DOMAIN Held(u) :
    Held(t)[j] = Held(u)[k] => t = u
OnlyUnconfigured ==
  \A w \in Workloads : wl[w].removal # "none" => w \in Unconfigured

(* A step without dealing leaves every worker what it holds.               *)
LEMMA HeldUnlessDealt ==
  ASSUME Inv, [Next]_vars
  PROVE  (\A t \in Tids : Held(t)' = Held(t)) \/ CtlRunStep
<1>1. ASSUME UNCHANGED worker PROVE \A t \in Tids : Held(t)' = Held(t)
  BY <1>1 DEF Held
<1>2. ASSUME WorkersAlike PROVE \A t \in Tids : Held(t)' = Held(t)
  BY <1>2, AlikeKeeps DEF Inv
<1>3. ASSUME NEW w \in Workloads, WorkloadStep(w) \/ Removal(w) PROVE UNCHANGED worker
  <2>1. PICK v : \/ Marks(w, v) \/ Attaches(w, v) \/ Rejects(w, v) \/ Detaches(w, v)
                 \/ (\E n \in Counts : Provides(w, n, v)) \/ Faults
    BY <1>3, WorkloadSteps DEF Inv
  <2> QED BY <2>1 DEF Marks, Attaches, Rejects, Detaches, Provides, Faults, WorkloadMoves
<1>4. CASE Control
  <2>1. CASE QuietControl
    BY <1>2, <2>1, QuietSteps DEF Inv
  <2>2. CASE CtlFinish \/ tp_detach_nolock \/ CtlAssertFails \/ CtlUsesFreed \/ CtlDrawsZero
    BY <1>1, <2>2 DEF CtlFinish, tp_detach_nolock, CtlAssertFails, CtlUsesFreed, CtlDrawsZero
  <2> QED BY <1>4, <2>1, <2>2 DEF Control, QuietControl
<1>5. ASSUME NEW t \in Tids, Worker(t) \/ WSpurious(t) PROVE \A u \in Tids : Held(u)' = Held(u)
  <2>1. CASE Faults
    BY <1>1, <2>1 DEF Faults
  <2>2. ASSUME NEW u, OneWorker(t, u) PROVE \A x \in Tids : Held(x)' = Held(x)
    BY <2>2, OneWorkerKeeps DEF Inv
  <2> QED BY <1>5, <2>1, <2>2, WorkerSteps DEF Inv
<1>6. CASE DestroyNotify
  BY <1>2, <1>6, NotifiedAlike DEF DestroyNotify, Inv
<1>7. CASE DestroyBegin \/ DestroyWorkloads \/ DestroyJoin \/ UNCHANGED vars
  BY <1>1, <1>7 DEF DestroyBegin, DestroyWorkloads, DestroyJoin, vars
<1> QED BY <1>1, <1>3, <1>4, <1>5, <1>6, <1>7 DEF Next, Stopped

(* Dealing gives different workers different ids of a new step.            *)
LEMMA DealtApart ==
  ASSUME Inv, Apart, NEW w, NEW n, RunsStep(w, n)
  PROVE  Apart'
<1>1. /\ w \in Workloads /\ wl[w].current_step \in Int
  BY Typed DEF RunsStep, Inv, WorkloadType
<1>2. PICK s \in Int : s = wl[w].current_step + 1
  BY <1>1
<1>3. Dealt(w, s, n, Holds, Holds') /\ n \in Nat
  BY <1>2, RunsStepDeals DEF Dealt
<1> DEFINE h == Holds
           g == Holds'
<1>4. \A t \in Tids : h[t] = Held(t) /\ g[t] = Held(t)'
  BY DEF Holds
<1>5. \A t \in Tids : \A k \in DOMAIN h[t] : h[t][k].step <= wl[h[t][k].wl].current_step
  BY <1>4 DEF Inv, StepsPassed
<1>6. \A t, u \in Tids : \A j \in DOMAIN h[t] : \A k \in DOMAIN h[u] : h[t][j] = h[u][k] => t = u
  BY <1>4 DEF Apart
<1>7. ASSUME NEW t \in Tids
      PROVE  \E a \in Nat :
               /\ DOMAIN h[t] = 1 .. a /\ DOMAIN g[t] = 1 .. a + Share(n, t)
               /\ \A k \in 1 .. a : g[t][k] = h[t][k]
               /\ \A j \in 1 .. Share(n, t) :
                    g[t][a + j] = [wl |-> w, step |-> s, id |-> FirstId(n, t) + j - 1]
  <2>1. /\ Len(h[t]) \in Nat /\ DOMAIN h[t] = 1 .. Len(h[t])
        /\ DOMAIN g[t] = 1 .. Len(h[t]) + Share(n, t)
        /\ \A k \in 1 .. Len(h[t]) : g[t][k] = h[t][k]
        /\ \A j \in 1 .. Share(n, t) :
             g[t][Len(h[t]) + j] = [wl |-> w, step |-> s, id |-> FirstId(n, t) + j - 1]
    BY <1>3, DealtList
  <2> QED BY <2>1
<1> HIDE DEF h, g
(* An element of the new list: an old one or a new one.                    *)
<1>8. ASSUME NEW t \in Tids, NEW k \in DOMAIN g[t]
      PROVE  \/ k \in DOMAIN h[t] /\ g[t][k] = h[t][k] /\ ~(h[t][k].wl = w /\ h[t][k].step = s)
             \/ \E i \in Int : /\ g[t][k] = [wl |-> w, step |-> s, id |-> i]
                               /\ FirstId(n, t) <= i /\ i < FirstId(n, t) + Share(n, t)
  <2>1. PICK a \in Nat :
          /\ DOMAIN h[t] = 1 .. a /\ DOMAIN g[t] = 1 .. a + Share(n, t)
          /\ \A i \in 1 .. a : g[t][i] = h[t][i]
          /\ \A j \in 1 .. Share(n, t) :
               g[t][a + j] = [wl |-> w, step |-> s, id |-> FirstId(n, t) + j - 1]
    BY <1>7
  <2>2. PICK b \in Nat, f \in Nat : b = Share(n, t) /\ f = FirstId(n, t)
    BY <1>3, IdsFollow
  <2>3. k \in 1 .. a + b
    BY <1>8, <2>1, <2>2
  <2>4. CASE k <= a
    <3>1. k \in DOMAIN h[t] /\ g[t][k] = h[t][k]
      BY <2>1, <2>3, <2>4
    <3>2. h[t][k].wl = w => h[t][k].step <= wl[w].current_step
      BY <1>5, <3>1
    <3> QED BY <1>1, <1>2, <3>1, <3>2
  <2>5. CASE k > a
    <3>1. PICK j \in 1 .. b : k = a + j
      BY <2>3, <2>5
    <3>2. PICK i \in Int : i = f + j - 1
      OBVIOUS
    <3>3. g[t][k] = [wl |-> w, step |-> s, id |-> i]
      BY <2>1, <2>2, <3>1, <3>2
    <3>4. f <= i /\ i < f + b
      BY <3>2
    <3> QED BY <2>2, <3>3, <3>4
  <2> QED BY <2>3, <2>4, <2>5
<1>9. ASSUME NEW t \in Tids, NEW u \in Tids, NEW j \in DOMAIN g[t], NEW k \in DOMAIN g[u],
             g[t][j] = g[u][k]
      PROVE  t = u
  <2>1. CASE /\ k \in DOMAIN h[u] /\ g[u][k] = h[u][k] /\ ~(h[u][k].wl = w /\ h[u][k].step = s)
    <3>1. ~ \E i \in Int : g[t][j] = [wl |-> w, step |-> s, id |-> i]
      <4> SUFFICES ASSUME NEW i \in Int, g[t][j] = [wl |-> w, step |-> s, id |-> i] PROVE FALSE
        OBVIOUS
      <4>1. h[u][k] = [wl |-> w, step |-> s, id |-> i]
        BY <1>9, <2>1
      <4> QED BY <2>1, <4>1
    <3>2. j \in DOMAIN h[t] /\ g[t][j] = h[t][j]
      BY <1>8, <3>1
    <3> QED BY <1>6, <1>9, <2>1, <3>2
  <2>2. ASSUME NEW i \in Int, g[u][k] = [wl |-> w, step |-> s, id |-> i],
               FirstId(n, u) <= i, i < FirstId(n, u) + Share(n, u)
        PROVE  t = u
    <3>1. g[t][j].wl = w /\ g[t][j].step = s
      BY <1>9, <2>2
    <3>2. PICK x \in Int : /\ g[t][j] = [wl |-> w, step |-> s, id |-> x]
                           /\ FirstId(n, t) <= x /\ x < FirstId(n, t) + Share(n, t)
      BY <1>8, <3>1
    <3>3. x = i
      BY <1>9, <2>2, <3>2
    <3>4. /\ FirstId(n, t) \in Nat /\ Share(n, t) \in Nat /\ FirstId(n, u) \in Nat
          /\ Share(n, u) \in Nat /\ t \in Nat /\ u \in Nat /\ t \in 0 .. NThreads
          /\ u \in 0 .. NThreads
      <4>1. /\ FirstId(n, t) \in Nat /\ Share(n, t) \in Nat
            /\ FirstId(n, u) \in Nat /\ Share(n, u) \in Nat
        BY <1>3, IdsFollow
      <4>2. t \in Nat /\ u \in Nat /\ t \in 0 .. NThreads /\ u \in 0 .. NThreads
        BY PoolAssumption DEF Tids
      <4> QED BY <4>1, <4>2
    <3>5. ~(t < u)
      <4> SUFFICES ASSUME t < u PROVE FALSE
        OBVIOUS
      <4>1. FirstId(n, t) + Share(n, t) <= FirstId(n, u)
        BY <1>3, <3>4, IdsApart
      <4> QED BY <2>2, <3>2, <3>3, <3>4, <4>1
    <3>6. ~(u < t)
      <4> SUFFICES ASSUME u < t PROVE FALSE
        OBVIOUS
      <4>1. FirstId(n, u) + Share(n, u) <= FirstId(n, t)
        BY <1>3, <3>4, IdsApart
      <4> QED BY <2>2, <3>2, <3>3, <3>4, <4>1
    <3> QED BY <3>4, <3>5, <3>6
  <2> QED BY <1>8, <2>1, <2>2
<1>10. ASSUME NEW t \in Tids, NEW u \in Tids, NEW j \in DOMAIN Held(t)', NEW k \in DOMAIN Held(u)',
              Held(t)'[j] = Held(u)'[k]
       PROVE  t = u
  BY <1>4, <1>9, <1>10
<1> QED BY <1>10 DEF Apart

(* These two hold, too.                                                    *)
LEMMA ApartNext ==
  ASSUME Inv, Apart, OnlyUnconfigured, [Next]_vars
  PROVE  Apart' /\ OnlyUnconfigured'
<1>1. Apart'
  <2>1. CASE \A t \in Tids : Held(t)' = Held(t)
    BY <2>1 DEF Apart
  <2>2. CASE CtlRunStep
    BY <2>2, RunStepIs, DealtApart DEF Inv
  <2> QED BY <2>1, <2>2, HeldUnlessDealt
<1>2. ASSUME NEW u \in Workloads
      PROVE  wl'[u].removal # "none" => wl[u].removal # "none" \/ u \in Unconfigured
  <2>0. wl \in [Workloads -> WorkloadType] /\ wl[u] \in WorkloadType
    BY Typed DEF Inv
  <2>1. ASSUME UNCHANGED wl PROVE wl'[u].removal = wl[u].removal
    BY <2>1
  <2>2. ASSUME NEW w \in Workloads, NEW p,
               wl' = [wl EXCEPT ![w].phase = p] \/ wl' = [wl EXCEPT ![w].phase = p, ![w].tp = FALSE]
        PROVE  wl'[u].removal = wl[u].removal
    <3>1. CASE wl' = [wl EXCEPT ![w].phase = p]
      BY <2>0, <3>1 DEF WorkloadType
    <3>2. CASE wl' = [wl EXCEPT ![w].phase = p, ![w].tp = FALSE]
      BY <2>0, <3>2 DEF WorkloadType
    <3> QED BY <2>2, <3>1, <3>2
  <2>3. ASSUME NEW w \in Workloads, WorkloadStep(w)
        PROVE  wl'[u].removal = wl[u].removal
    <3>1. CASE ConfigReadsPool(w) \/ tp_attach(w) \/ Configured(w) \/ tsload_start_workload(w) \/ StartTimeComes(w)
               \/ RejectParams(w)
      <4>1. PICK p : wl' = [wl EXCEPT ![w].phase = p]
                     \/ wl' = [wl EXCEPT ![w].phase = p, ![w].tp = FALSE]
        BY <3>1 DEF ConfigReadsPool, tp_attach, Configured, tsload_start_workload, StartTimeComes, RejectParams, Phase
      <4> QED BY <2>2, <4>1
    <3>2. CASE NotifyConfigured(w)
      <4>1. wl' = [wl EXCEPT ![w].notified = TRUE, ![w].status = "SUCCESS"]
        BY <3>2 DEF NotifyConfigured
      <4> QED BY <2>0, <4>1 DEF WorkloadType
    <3>3. CASE ConfiguresFreed(w)
      BY <2>1, <3>3 DEF ConfiguresFreed
    <3>4. ASSUME NEW n \in Counts, wl_provide_step(w, n) PROVE wl'[u].removal = wl[u].removal
      <4>1. PICK id : wl' = [wl EXCEPT ![w].last_step = id, ![w].rqs_per_step[Slot(id)] = n,
                                       ![w].provided = Append(@, n)]
        BY <3>4 DEF wl_provide_step
      <4> QED BY <2>0, <4>1 DEF WorkloadType
    <3>5. CASE ReportsProgress(w)
      <4>1. wl' = [wl EXCEPT ![w].status = "CONFIGURING"]
        BY <3>5 DEF ReportsProgress
      <4> QED BY <2>0, <4>1 DEF WorkloadType
    <3> QED BY <2>3, <3>1, <3>2, <3>3, <3>4, <3>5 DEF WorkloadStep
  <2>4. ASSUME NEW w \in Workloads, Removal(w)
        PROVE  wl'[u].removal # "none" => wl[u].removal # "none" \/ u \in Unconfigured
    <3>1. CASE tsload_unconfigure_workload(w)
      <4>1. w \in Unconfigured /\ \E r : wl' = [wl EXCEPT ![w].removal = r]
        BY <3>1 DEF tsload_unconfigure_workload
      <4> QED BY <2>0, <4>1 DEF WorkloadType
    <3>2. CASE ReadPool(w) \/ tp_detach(w)
      <4>1. /\ wl[w].removal \in {"detach", "destroy", "lock"}
            /\ \E r, f, p : \/ wl' = [wl EXCEPT ![w].removal = r, ![w].freed = f]
                           \/ wl' = [wl EXCEPT ![w].removal = r, ![w].tp = p]
        BY <3>2 DEF ReadPool, tp_detach
      <4> QED BY <2>0, <4>1 DEF WorkloadType
    <3>3. CASE DetachesTwice(w)
      BY <2>1, <3>3 DEF DetachesTwice
    <3> QED BY <2>4, <3>1, <3>2, <3>3 DEF Removal
  <2>5. CASE Control
    <3>1. CASE QuietControl
      BY <2>1, <3>1, QuietSteps DEF Inv
    <3>2. CASE CtlRunStep
      BY <3>2, RunStepIs DEF Inv, RunsStep
    <3>3. CASE CtlFinish
      <4>1. PICK v : Finishes(Current, v)
        BY <3>3, FinishIs DEF Inv
      <4> QED BY <2>0, <4>1 DEF Finishes, EndsWorkload
    <3>4. CASE tp_detach_nolock
      <4>1. PICK v : TakenOff(Current, v)
        BY <3>4, DetachIs DEF Inv
      <4> QED BY <2>0, <4>1 DEF TakenOff, EndsWorkload
    <3>5. CASE CtlAssertFails \/ CtlUsesFreed \/ CtlDrawsZero
      BY <2>1, <3>5 DEF CtlAssertFails, CtlUsesFreed, CtlDrawsZero
    <3> QED BY <2>5, <3>1, <3>2, <3>3, <3>4, <3>5 DEF Control, QuietControl
  <2>6. ASSUME NEW t \in Tids, Worker(t) \/ WSpurious(t) PROVE UNCHANGED wl
    BY <2>6, WorkerSteps DEF Inv, OneWorker, Faults
  <2>7. CASE DestroyWorkloads
    <3>1. PICK f : wl'[u] = [wl[u] EXCEPT !.freed = f]
      BY <2>7 DEF DestroyWorkloads
    <3> QED BY <2>0, <3>1 DEF WorkloadType
  <2>8. CASE DestroyBegin \/ DestroyNotify \/ DestroyJoin \/ UNCHANGED vars
    BY <2>1, <2>8 DEF DestroyBegin, DestroyNotify, DestroyJoin, vars
  <2> QED BY <2>1, <2>3, <2>4, <2>5, <2>6, <2>7, <2>8 DEF Next, Stopped
<1> QED BY <1>1, <1>2 DEF OnlyUnconfigured

(* What waits in a ring, in terms of what was provided.                    *)
LEMMA WaitingIs ==
  ASSUME TypeOK, NEW w \in Workloads, RingRight(w), ~Ended(w)
  PROVE  \E c, l \in Int :
           /\ c = wl[w].current_step /\ l = wl[w].last_step /\ l - c \in Nat
           /\ Waiting(w) = [k \in 1 .. l - c |->
                              [step |-> c + k, rqs |-> wl[w].provided[c + k + 1]]]
           /\ Len(Waiting(w)) = l - c /\ DOMAIN Waiting(w) = 1 .. l - c
<1>1. wl[w] \in WorkloadType
  BY Typed
<1>2. PICK c, l \in Int : c = wl[w].current_step /\ l = wl[w].last_step /\ l - c \in Nat
  BY <1>1 DEF WorkloadType, RingRight
<1>3. \A k \in 1 .. l - c : wl[w].rqs_per_step[Slot(c + k)] = wl[w].provided[c + k + 1]
  <2> SUFFICES ASSUME NEW k \in 1 .. l - c
               PROVE  wl[w].rqs_per_step[Slot(c + k)] = wl[w].provided[c + k + 1]
    OBVIOUS
  <2>1. c + k \in c + 1 .. l
    BY <1>2
  <2> QED BY <1>2, <2>1 DEF RingRight
<1>4. Waiting(w) = [k \in 1 .. l - c |-> [step |-> c + k, rqs |-> wl[w].provided[c + k + 1]]]
  BY <1>2, <1>3 DEF Waiting
<1>5. Len(Waiting(w)) = l - c /\ DOMAIN Waiting(w) = 1 .. l - c
  BY <1>2, <1>4
<1> QED BY <1>2, <1>4, <1>5

(* A step that opens, closes, fills and takes nothing is a stutter.        *)
SameSteps(w) ==
  /\ SameRing(w) /\ (Ended(w)' <=> Ended(w))
LEMMA SameStepsWait ==
  ASSUME NEW w \in Workloads, SameSteps(w)
  PROVE  Waiting(w)' = Waiting(w)
BY DEF SameSteps, SameRing, Waiting

SameLists ==
  \A t \in Tids : /\ worker'[t].chain = worker[t].chain
                  /\ worker'[t].requests = worker[t].requests
                  /\ worker'[t].reported = worker[t].reported
LEMMA SameListsDue ==
  ASSUME SameLists
  PROVE  Due' = Due /\ Reported' = Reported
<1>1. \A t \in Tids :
        /\ Elements(worker[t].chain \o worker[t].requests)'
             = Elements(worker[t].chain \o worker[t].requests)
        /\ Elements(worker[t].reported)' = Elements(worker[t].reported)
  BY DEF SameLists, Elements
<1> QED BY <1>1, Zenon DEF Due, Reported

LEMMA Stutters ==
  ASSUME \A w \in Workloads : SameSteps(w), Due' = Due, Reported' = Reported
  PROVE  UNCHANGED Delivery!deliveryVars
<1>1. \A w \in Workloads : /\ Waiting(w)' = Waiting(w) /\ (~Ended(w)' <=> ~Ended(w))
                           /\ wl'[w].last_step = wl[w].last_step
  BY SameStepsWait DEF SameSteps, SameRing
<1>2. [w \in Workloads |-> ~Ended(w)]' = [w \in Workloads |-> ~Ended(w)]
  BY <1>1
<1>3. [w \in Workloads |-> wl[w].last_step + 1]' = [w \in Workloads |-> wl[w].last_step + 1]
  BY <1>1
<1>4. [w \in Workloads |-> Waiting(w)]' = [w \in Workloads |-> Waiting(w)]
  BY <1>1
<1> QED BY <1>2, <1>3, <1>4 DEF Delivery!deliveryVars

(* A worker's step takes over what it was dealt, pushes its chain, or      *)
(* touches none of its lists.                                              *)
LEMMA WorkerLists ==
  ASSUME TypeOK, NEW t \in Tids, Worker(t) \/ WSpurious(t)
  PROVE  /\ UNCHANGED <<wl, ctl>>
         /\ SameLists \/ WTake(t) \/ wl_rq_chain_push(t)
<1>1. worker \in [Tids -> WorkerType] /\ worker[t] \in WorkerType
  BY Typed
<1>2. PICK x : x = worker[t] /\ x \in WorkerType
  BY <1>1
<1>3. ASSUME NEW y, worker' = [worker EXCEPT ![t] = y],
             y.chain = x.chain, y.requests = x.requests, y.reported = x.reported
      PROVE  SameLists
  BY <1>1, <1>2, <1>3 DEF SameLists
<1>4. CASE WTop(t) \/ WWait(t) \/ WSpurious(t)
  <2>1. PICK pc : worker' = [worker EXCEPT ![t].pc = pc]
    BY <1>4 DEF WTop, WWait, WSpurious
  <2>2. PICK y : y = [x EXCEPT !.pc = pc]
    OBVIOUS
  <2>3. y.chain = x.chain /\ y.requests = x.requests /\ y.reported = x.reported
    BY <1>2, <2>2 DEF WorkerType
  <2>4. worker' = [worker EXCEPT ![t] = y]
    BY <1>2, <2>1, <2>2
  <2> QED BY <1>3, <1>4, <2>3, <2>4 DEF WTop, WWait, WSpurious, elsewhere
<1>5. CASE WLock(t)
  <2>1. PICK y : y = [x EXCEPT !.pc = "take", !.rq_mutex = "worker"]
    OBVIOUS
  <2>2. y.chain = x.chain /\ y.requests = x.requests /\ y.reported = x.reported
    BY <1>2, <2>1 DEF WorkerType
  <2>3. worker' = [worker EXCEPT ![t] = y]
    BY <1>2, <1>5, <2>1 DEF WLock
  <2> QED BY <1>3, <1>5, <2>2, <2>3 DEF WLock, elsewhere
<1>6. CASE WDecide(t)
  <2>1. PICK y : y = IF GoesToSleep(t) THEN [x EXCEPT !.pc = "towait", !.state = "SLEEPING"]
                     ELSE [x EXCEPT !.pc = "top"]
    OBVIOUS
  <2>2. y.chain = x.chain /\ y.requests = x.requests /\ y.reported = x.reported
    BY <1>2, <2>1 DEF WorkerType
  <2>3. worker' = [worker EXCEPT ![t] = y]
    BY <1>2, <1>6, <2>1 DEF WDecide
  <2> QED BY <1>3, <1>6, <2>2, <2>3 DEF WDecide, elsewhere
<1>7. CASE WRun(t)
  <2>1. PICK y : y = [x EXCEPT !.pc = "ran", !.ran = x.ran + 1]
    OBVIOUS
  <2>2. y.chain = x.chain /\ y.requests = x.requests /\ y.reported = x.reported
    BY <1>2, <2>1 DEF WorkerType
  <2>3. worker' = [worker EXCEPT ![t] = y]
    BY <1>2, <1>7, <2>1 DEF WRun
  <2> QED BY <1>3, <1>7, <2>2, <2>3 DEF WRun, elsewhere
<1>8. CASE WAfterRun(t)
  <2>1. PICK pc, d : worker' = [worker EXCEPT ![t].pc = pc, ![t].do_sleep = d]
    BY <1>8 DEF WAfterRun
  <2>2. PICK y : y = [x EXCEPT !.pc = pc, !.do_sleep = d]
    OBVIOUS
  <2>3. y.chain = x.chain /\ y.requests = x.requests /\ y.reported = x.reported
    BY <1>2, <2>2 DEF WorkerType
  <2>4. worker' = [worker EXCEPT ![t] = y]
    BY <1>2, <2>1, <2>2
  <2> QED BY <1>3, <1>8, <2>3, <2>4 DEF WAfterRun, elsewhere
<1>9. CASE WRunFaults(t)
  BY <1>9 DEF WRunFaults, elsewhere, SameLists
<1>10. CASE WTake(t) \/ wl_rq_chain_push(t)
  BY <1>10 DEF WTake, wl_rq_chain_push, elsewhere
<1> QED BY <1>4, <1>5, <1>6, <1>7, <1>8, <1>9, <1>10 DEF Worker

(* What two lists hold together.                                           *)
LEMMA ElementsJoined ==
  ASSUME NEW S, NEW a \in Seq(S), NEW b \in Seq(S)
  PROVE  Elements(a \o b) = Elements(a) \cup Elements(b)
<1>1. PICK m \in Nat, n \in Nat : m = Len(a) /\ n = Len(b)
  OBVIOUS
<1>2. /\ DOMAIN a = 1 .. m /\ DOMAIN b = 1 .. n /\ DOMAIN (a \o b) = 1 .. m + n
      /\ \A k \in 1 .. m : (a \o b)[k] = a[k]
      /\ \A k \in 1 .. n : (a \o b)[m + k] = b[k]
  BY <1>1
<1>3. ASSUME NEW x \in Elements(a \o b) PROVE x \in Elements(a) \cup Elements(b)
  <2>1. PICK k \in 1 .. m + n : x = (a \o b)[k]
    BY <1>2, <1>3 DEF Elements
  <2>2. CASE k <= m
    BY <1>2, <2>1, <2>2 DEF Elements
  <2>3. CASE k > m
    <3>1. PICK j \in 1 .. n : k = m + j
      BY <2>3
    <3> QED BY <1>2, <2>1, <3>1 DEF Elements
  <2> QED BY <2>2, <2>3
<1>4. ASSUME NEW x \in Elements(a) \cup Elements(b) PROVE x \in Elements(a \o b)
  <2>1. CASE x \in Elements(a)
    <3>1. PICK k \in 1 .. m : x = a[k]
      BY <1>2, <2>1 DEF Elements
    <3>2. k \in 1 .. m + n
      OBVIOUS
    <3> QED BY <1>2, <3>1, <3>2 DEF Elements
  <2>2. CASE x \in Elements(b)
    <3>1. PICK k \in 1 .. n : x = b[k]
      BY <1>2, <2>2 DEF Elements
    <3>2. m + k \in 1 .. m + n
      OBVIOUS
    <3> QED BY <1>2, <3>1, <3>2 DEF Elements
  <2> QED BY <1>4, <2>1, <2>2
<1> QED BY <1>3, <1>4

LEMMA HeldElements ==
  ASSUME TypeOK, NEW t \in Tids
  PROVE  /\ worker[t].chain \in Seq(Requests) /\ worker[t].requests \in Seq(Requests)
         /\ Elements(worker[t].chain \o worker[t].requests)
              = Elements(worker[t].chain) \cup Elements(worker[t].requests)
         /\ Elements(Held(t)) = Elements(worker[t].reported) \cup Elements(worker[t].chain)
                                  \cup Elements(worker[t].requests)
<1>1. PICK a \in Seq(Requests), b \in Seq(Requests), c \in Seq(Requests) :
        a = worker[t].reported /\ b = worker[t].chain /\ c = worker[t].requests
  BY WorkerTyped
<1>2. a \o b \in Seq(Requests)
  OBVIOUS
<1>3. Elements((a \o b) \o c) = Elements(a) \cup Elements(b) \cup Elements(c)
  <2>1. PICK d \in Seq(Requests) : d = a \o b
    BY <1>2
  <2>2. Elements(d \o c) = Elements(d) \cup Elements(c)
    BY ElementsJoined
  <2>3. Elements(a \o b) = Elements(a) \cup Elements(b)
    BY ElementsJoined
  <2> QED BY <2>1, <2>2, <2>3
<1>4. Elements(b \o c) = Elements(b) \cup Elements(c)
  BY ElementsJoined
<1>5. Held(t) = (a \o b) \o c
  BY <1>1 DEF Held
<1> QED BY <1>1, <1>3, <1>4, <1>5

(* A worker's chain and its list have no request in common.                *)
LEMMA ChainApart ==
  ASSUME TypeOK, InOrder, NEW t \in Tids,
         NEW r \in Elements(worker[t].chain)
  PROVE  r \notin Elements(worker[t].requests)
<1> SUFFICES ASSUME r \in Elements(worker[t].requests) PROVE FALSE
  OBVIOUS
<1>1. PICK a \in Seq(Requests), b \in Seq(Requests), c \in Seq(Requests) :
        a = worker[t].reported /\ b = worker[t].chain /\ c = worker[t].requests
  BY WorkerTyped
<1>2. PICK h : h = Held(t)
  OBVIOUS
<1>3. h = (a \o b) \o c
  BY <1>1, <1>2 DEF Held
<1>4. PICK l \in Nat, m \in Nat, n \in Nat : l = Len(a) /\ m = Len(b) /\ n = Len(c)
  OBVIOUS
<1>5. PICK j \in 1 .. m : r = b[j]
  BY <1>1, <1>4 DEF Elements
<1>6. PICK k \in 1 .. n : r = c[k]
  BY <1>1, <1>4 DEF Elements
<1>7. DOMAIN h = 1 .. l + m + n /\ h[l + j] = r /\ h[l + m + k] = r
  <2>1. a \o b \in Seq(Requests) /\ Len(a \o b) = l + m /\ (a \o b)[l + j] = r
    BY <1>4, <1>5
  <2> QED BY <1>3, <1>4, <1>5, <1>6, <2>1
<1>8. l + m + k \in DOMAIN h /\ l + j \in 1 .. (l + m + k) - 1
  BY <1>7
<1>9. r \in Requests
  BY <1>4, <1>5
<1>10. r.step < r.step \/ r.id < r.id
  BY <1>2, <1>7, <1>8 DEF InOrder
<1> QED BY <1>9, <1>10 DEF Requests

(* Taking over the list is nothing to the outside.                         *)
LEMMA TakeIsQuiet ==
  ASSUME TypeOK, ChainsFit, NEW t \in Tids, WTake(t)
  PROVE  Due' = Due /\ Reported' = Reported
<1>1. PICK x : x = worker[t] /\ x \in WorkerType
  BY Typed
<1>2. x.chain = <<>> /\ x.requests \in Seq(Requests)
  BY <1>1 DEF WTake, ChainsFit, WorkerType
<1>3. PICK y : y = [x EXCEPT
       !.pc = IF x.requests = <<>> THEN "decide" ELSE "run",
       !.state = "WORKING", !.do_sleep = TRUE, !.chain = x.requests, !.ran = 0,
       !.requests = <<>>, !.rq_mutex = Free]
  OBVIOUS
<1>4. y.chain = x.requests /\ y.requests = <<>> /\ y.reported = x.reported
  BY <1>1, <1>3 DEF WorkerType
<1>5. worker' = [worker EXCEPT ![t] = y]
  BY <1>1, <1>3 DEF WTake
<1>6. x.chain \o x.requests = y.chain \o y.requests
  BY <1>2, <1>4
<1>7. \A u \in Tids :
        /\ Elements(worker[u].chain \o worker[u].requests)'
             = Elements(worker[u].chain \o worker[u].requests)
        /\ Elements(worker[u].reported)' = Elements(worker[u].reported)
  <2> SUFFICES ASSUME NEW u \in Tids
               PROVE  /\ worker'[u].chain \o worker'[u].requests
                           = worker[u].chain \o worker[u].requests
                      /\ worker'[u].reported = worker[u].reported
    BY DEF Elements
  <2>1. CASE u = t
    <3>1. worker'[t] = y
      BY <1>5, Typed
    <3> QED BY <1>1, <1>4, <1>6, <2>1, <3>1
  <2>2. CASE u # t
    BY <1>5, <2>2, Typed
  <2> QED BY <2>1, <2>2
<1> QED BY <1>7, Zenon DEF Due, Reported

(* Pushing the chain reports its requests, which nobody else has.          *)
LEMMA PushReports ==
  ASSUME Inv, Apart, NEW t \in Tids, wl_rq_chain_push(t)
  PROVE  Delivery!Report
<1>0. TypeOK /\ InOrder
  BY DEF Inv
<1>1. PICK x : x = worker[t] /\ x \in WorkerType
  BY <1>0, Typed
<1>2. PICK y : y = [x EXCEPT !.pc = "decide", !.chain = <<>>, !.ran = 0,
                            !.reported = x.reported \o x.chain]
  OBVIOUS
<1>3. y.chain = <<>> /\ y.requests = x.requests /\ y.reported = x.reported \o x.chain
  BY <1>1, <1>2 DEF WorkerType
<1>4. worker' = [worker EXCEPT ![t] = y]
  BY <1>1, <1>2 DEF wl_rq_chain_push, Entries
<1>5. worker'[t] = y /\ \A u \in Tids : u # t => worker'[u] = worker[u]
  BY <1>0, <1>4, Typed
<1>6. PICK S : S = Elements(x.chain)
  OBVIOUS
<1>7. \A u \in Tids : Elements(worker[u].chain \o worker[u].requests)
                        = Elements(worker[u].chain) \cup Elements(worker[u].requests)
  BY <1>0, HeldElements
<1>8. /\ Elements(worker'[t].chain \o worker'[t].requests) = Elements(x.requests)
      /\ Elements(worker'[t].reported) = Elements(x.reported) \cup S
  <2>1. PICK a \in Seq(Requests), b \in Seq(Requests), c \in Seq(Requests) :
          a = x.reported /\ b = x.chain /\ c = x.requests
    BY <1>1 DEF WorkerType
  <2>2. <<>> \o c = c
    OBVIOUS
  <2>3. Elements(a \o b) = Elements(a) \cup Elements(b)
    BY ElementsJoined
  <2> QED BY <1>3, <1>5, <1>6, <2>1, <2>2, <2>3
<1>9. \A u \in Tids : u # t => S \cap Elements(worker[u].chain \o worker[u].requests) = {}
  <2> SUFFICES ASSUME NEW u \in Tids, NEW r \in S,
                      r \in Elements(worker[u].chain \o worker[u].requests)
               PROVE  u = t
    OBVIOUS
  <2>1. r \in Elements(Held(t)) /\ r \in Elements(Held(u))
    BY <1>0, <1>1, <1>6, HeldElements
  <2> QED BY <2>1 DEF Apart, Elements
<1>10. S \cap Elements(x.requests) = {}
  BY <1>0, <1>1, <1>6, ChainApart
<1>11. Due' = UNION {Elements(worker'[u].chain \o worker'[u].requests) : u \in Tids}
  BY DEF Due, Elements
<1>12. Reported' = UNION {Elements(worker'[u].reported) : u \in Tids}
  BY DEF Reported, Elements
<1>13. S \subseteq Due
  <2>1. S \subseteq Elements(worker[t].chain \o worker[t].requests)
    BY <1>1, <1>6, <1>7
  <2> QED BY <2>1 DEF Due
<1>14. Due' = Due \ S
  <2>1. ASSUME NEW r \in Due' PROVE r \in Due \ S
    <3>1. PICK u \in Tids : r \in Elements(worker'[u].chain \o worker'[u].requests)
      BY <1>11, <2>1
    <3>2. CASE u = t
      <4>1. r \in Elements(x.requests)
        BY <1>8, <3>1, <3>2
      <4>2. r \in Elements(worker[t].chain \o worker[t].requests)
        BY <1>1, <1>7, <4>1
      <4> QED BY <1>10, <4>1, <4>2 DEF Due
    <3>3. CASE u # t
      <4>1. r \in Elements(worker[u].chain \o worker[u].requests)
        BY <1>5, <3>1, <3>3
      <4> QED BY <1>9, <3>3, <4>1 DEF Due
    <3> QED BY <3>2, <3>3
  <2>2. ASSUME NEW r \in Due \ S PROVE r \in Due'
    <3>1. PICK u \in Tids : r \in Elements(worker[u].chain \o worker[u].requests)
      BY <2>2 DEF Due
    <3>2. CASE u = t
      <4>1. r \in Elements(x.requests)
        BY <1>1, <1>6, <1>7, <2>2, <3>1, <3>2
      <4> QED BY <1>8, <1>11, <4>1
    <3>3. CASE u # t
      <4>1. r \in Elements(worker'[u].chain \o worker'[u].requests)
        BY <1>5, <3>1, <3>3
      <4> QED BY <1>11, <4>1
    <3> QED BY <3>2, <3>3
  <2> QED BY <2>1, <2>2
<1>15. Reported' = Reported \cup S
  <2>1. \A u \in Tids : u # t => Elements(worker'[u].reported) = Elements(worker[u].reported)
    BY <1>5
  <2>2. Elements(worker'[t].reported) = Elements(worker[t].reported) \cup S
    BY <1>1, <1>8
  <2> QED BY <1>12, <2>1, <2>2 DEF Reported
<1>16. UNCHANGED <<wl, ctl>>
  BY DEF wl_rq_chain_push, elsewhere
<1>17. \A w \in Workloads : SameSteps(w)
  BY <1>16 DEF SameSteps, SameRing, Ended, Current
<1>18. \A w \in Workloads : /\ Waiting(w)' = Waiting(w) /\ (~Ended(w)' <=> ~Ended(w))
                            /\ wl'[w].last_step = wl[w].last_step
  BY <1>17, SameStepsWait DEF SameSteps, SameRing
<1>19. [w \in Workloads |-> ~Ended(w)]' = [w \in Workloads |-> ~Ended(w)]
  BY <1>18
<1>20. [w \in Workloads |-> wl[w].last_step + 1]' = [w \in Workloads |-> wl[w].last_step + 1]
  BY <1>18
<1>21. [w \in Workloads |-> Waiting(w)]' = [w \in Workloads |-> Waiting(w)]
  BY <1>18
<1> QED BY <1>13, <1>14, <1>15, <1>19, <1>20, <1>21 DEF Delivery!Report

(* The steps in a ring whose slots hold what was provided.                 *)
StepsIn(x) ==
  [k \in 1 .. x.last_step - x.current_step |->
     [step |-> x.current_step + k, rqs |-> x.rqs_per_step[Slot(x.current_step + k)]]]

LEMMA StepsAre ==
  ASSUME NEW x \in WorkloadType, NEW c \in Int, NEW l \in Int,
         c = x.current_step, l = x.last_step, c <= l,
         \A s \in c + 1 .. l : x.rqs_per_step[Slot(s)] = x.provided[s + 1]
  PROVE  /\ StepsIn(x) = [k \in 1 .. l - c |-> [step |-> c + k, rqs |-> x.provided[c + k + 1]]]
         /\ l - c \in Nat /\ Len(StepsIn(x)) = l - c /\ DOMAIN StepsIn(x) = 1 .. l - c
<1>1. \A k \in 1 .. l - c : x.rqs_per_step[Slot(c + k)] = x.provided[c + k + 1]
  <2> SUFFICES ASSUME NEW k \in 1 .. l - c
               PROVE  x.rqs_per_step[Slot(c + k)] = x.provided[c + k + 1]
    OBVIOUS
  <2>1. c + k \in c + 1 .. l
    OBVIOUS
  <2> QED BY <2>1
<1>2. StepsIn(x) = [k \in 1 .. l - c |-> [step |-> c + k, rqs |-> x.provided[c + k + 1]]]
  BY <1>1 DEF StepsIn
<1> QED BY <1>2

LEMMA WaitingSteps ==
  ASSUME NEW w \in Workloads
  PROVE  /\ Waiting(w) = IF Ended(w) THEN <<>> ELSE StepsIn(wl[w])
         /\ Waiting(w)' = IF Ended(w)' THEN <<>> ELSE StepsIn(wl'[w])
BY DEF Waiting, StepsIn

(* The abstract variables, workload by workload.                           *)
LEMMA OpenIs ==
  ASSUME NEW w \in Workloads, NEW n,
         \A u \in Workloads : u # w => SameSteps(u)
  PROVE  /\ (Ended(w)' <=> Ended(w)) =>
              [u \in Workloads |-> ~Ended(u)]' = [u \in Workloads |-> ~Ended(u)]
         /\ Ended(w)' => [u \in Workloads |-> ~Ended(u)]'
                           = [[u \in Workloads |-> ~Ended(u)] EXCEPT ![w] = FALSE]
         /\ wl'[w].last_step + 1 = n =>
              [u \in Workloads |-> wl[u].last_step + 1]'
                = [[u \in Workloads |-> wl[u].last_step + 1] EXCEPT ![w] = n]
         /\ Waiting(w)' = n =>
              [u \in Workloads |-> Waiting(u)]'
                = [[u \in Workloads |-> Waiting(u)] EXCEPT ![w] = n]
<1>1. \A u \in Workloads : u # w => /\ Waiting(u)' = Waiting(u) /\ (~Ended(u)' <=> ~Ended(u))
                                    /\ wl'[u].last_step = wl[u].last_step
  BY SameStepsWait DEF SameSteps, SameRing
<1>2. (Ended(w)' <=> Ended(w)) =>
        [u \in Workloads |-> ~Ended(u)]' = [u \in Workloads |-> ~Ended(u)]
  BY <1>1
<1>3. Ended(w)' => [u \in Workloads |-> ~Ended(u)]'
                     = [[u \in Workloads |-> ~Ended(u)] EXCEPT ![w] = FALSE]
  BY <1>1
<1>4. wl'[w].last_step + 1 = n =>
        [u \in Workloads |-> wl[u].last_step + 1]'
          = [[u \in Workloads |-> wl[u].last_step + 1] EXCEPT ![w] = n]
  BY <1>1
<1>5. Waiting(w)' = n =>
        [u \in Workloads |-> Waiting(u)]' = [[u \in Workloads |-> Waiting(u)] EXCEPT ![w] = n]
  BY <1>1
<1> QED BY <1>2, <1>3, <1>4, <1>5

(* One workload's step leaves the other workloads' as they are.            *)
LEMMA OthersSame ==
  ASSUME TypeOK, NEW w \in Workloads, NEW v, WorkloadMoves(w, v)
  PROVE  /\ \A u \in Workloads : u # w => SameSteps(u)
         /\ wl'[w] = v /\ Due' = Due /\ Reported' = Reported
         /\ (Ended(w)' <=> ~v.tp \/ (ctl.pc = "detach" /\ Current = w))
<1>1. wl'[w] = v /\ \A u \in Workloads : u # w => wl'[u] = wl[u]
  BY OneWorkload
<1>2. SameLists /\ UNCHANGED ctl
  BY DEF WorkloadMoves, SameLists
<1>3. \A u \in Workloads : u # w => SameSteps(u)
  BY <1>1, <1>2 DEF SameSteps, SameRing, Ended, Current
<1>4. Ended(w)' <=> ~v.tp \/ (ctl.pc = "detach" /\ Current = w)
  BY <1>1, <1>2 DEF Ended, Current
<1> QED BY <1>1, <1>2, <1>3, <1>4, SameListsDue

(* What is provided waits at the end; nothing more waits for a workload    *)
(* that has ended.                                                         *)
LEMMA ProvideAccepted ==
  ASSUME Inv, Rings', NEW w \in Workloads, NEW n \in Counts, NEW v, Provides(w, n, v)
  PROVE  Delivery!Accept(w, n) \/ Delivery!TooLate(w)
<1>1. /\ wl[w] \in WorkloadType /\ v \in WorkloadType /\ WorkloadMoves(w, v)
      /\ TypeOK
  BY Typed DEF Inv, Provides, WorkloadMoves
<1>0. PICK x : x = wl[w] /\ x \in WorkloadType
  BY <1>1
<1>2. PICK c \in Int, l \in Int, p \in Seq(Counts) :
        x = wl[w] /\ c = x.current_step /\ l = x.last_step /\ p = x.provided
  BY <1>0 DEF WorkloadType
<1>3. /\ v.last_step = l + 1 /\ v.current_step = c /\ v.provided = Append(p, n) /\ v.tp = x.tp
      /\ l - c # QSIZE
  BY <1>1, <1>2 DEF Provides, WorkloadType
<1>4. /\ \A u \in Workloads : u # w => SameSteps(u)
      /\ wl'[w] = v /\ Due' = Due /\ Reported' = Reported
      /\ (Ended(w)' <=> Ended(w))
  BY <1>1, <1>2, <1>3, OthersSame DEF Ended
<1>5. PICK a : a = wl[w].last_step + 1
  OBVIOUS
<1>6. wl'[w].last_step + 1 = a + 1 /\ a = l + 1
  BY <1>2, <1>3, <1>4, <1>5
<1>7. [u \in Workloads |-> wl[u].last_step + 1]'
        = [[u \in Workloads |-> wl[u].last_step + 1] EXCEPT ![w] = a + 1]
  BY <1>4, <1>6, OpenIs
<1>8. [u \in Workloads |-> ~Ended(u)]' = [u \in Workloads |-> ~Ended(u)]
  BY <1>4, OpenIs
<1>9. CASE Ended(w)
  <2>1. \A u \in Workloads : Waiting(u)' = Waiting(u)
    BY <1>4, <1>9, SameStepsWait, WaitingSteps
  <2>2. [u \in Workloads |-> Waiting(u)]' = [u \in Workloads |-> Waiting(u)]
    BY <2>1
  <2> QED BY <1>4, <1>5, <1>7, <1>8, <1>9, <2>2 DEF Delivery!TooLate
<1>10. CASE ~Ended(w)
  <2>1. c <= l /\ Len(p) = l + 1 /\ -1 <= c
        /\ \A s \in c + 1 .. l : x.rqs_per_step[Slot(s)] = p[s + 1]
    BY <1>1, <1>2, <1>10, Typed DEF Inv, Rings, RingRight
  <2>2. \A s \in c + 1 .. l + 1 : v.rqs_per_step[Slot(s)] = v.provided[s + 1]
    BY <1>3, <1>4 DEF Rings, RingRight
  <2>3. PICK q : q = StepsIn(x)
    OBVIOUS
  <2>4. /\ q = [k \in 1 .. l - c |-> [step |-> c + k, rqs |-> p[c + k + 1]]]
        /\ l - c \in Nat /\ Len(q) = l - c
    <3>1. \A s \in c + 1 .. l : x.rqs_per_step[Slot(s)] = x.provided[s + 1]
      BY <1>2, <2>1
    <3>2. /\ StepsIn(x) = [k \in 1 .. l - c |->
                             [step |-> c + k, rqs |-> x.provided[c + k + 1]]]
          /\ l - c \in Nat /\ Len(StepsIn(x)) = l - c
      <4>1. x \in WorkloadType /\ c \in Int /\ l \in Int /\ c = x.current_step /\ l = x.last_step
        BY <1>0, <1>2
      <4>2. c <= l
        BY <2>1
      <4> QED BY <3>1, <4>1, <4>2, StepsAre
    <3> QED BY <1>2, <2>3, <3>2
  <2>5. StepsIn(v) = [k \in 1 .. (l + 1) - c |-> [step |-> c + k, rqs |-> Append(p, n)[c + k + 1]]]
    <3>1. PICK d \in Int : d = l + 1 /\ c <= d
      BY <2>1
    <3>2. \A s \in c + 1 .. d : v.rqs_per_step[Slot(s)] = v.provided[s + 1]
      BY <2>2, <3>1
    <3>3. StepsIn(v) = [k \in 1 .. d - c |-> [step |-> c + k, rqs |-> v.provided[c + k + 1]]]
      <4>1. v \in WorkloadType /\ c = v.current_step /\ d = v.last_step
        BY <1>1, <1>3, <3>1
      <4> QED BY <3>1, <3>2, <4>1, StepsAre
    <3> QED BY <1>3, <3>1, <3>3
  <2>6. PICK m \in Nat : l = c + m
    BY <2>4
  <2>7. \A k \in 1 .. m : Append(p, n)[c + k + 1] = p[c + k + 1]
    BY <2>1, <2>6
  <2>8. Append(p, n)[c + (m + 1) + 1] = n /\ c + (m + 1) = a
    BY <1>6, <2>1, <2>6
  <2>9. StepsIn(v) = Append(q, [step |-> a, rqs |-> n])
    <3>1. /\ q = [k \in 1 .. m |-> [step |-> c + k, rqs |-> p[c + k + 1]]]
          /\ StepsIn(v) = [k \in 1 .. m + 1 |->
                             [step |-> c + k, rqs |-> Append(p, n)[c + k + 1]]]
      <4>1. l - c = m /\ (l + 1) - c = m + 1
        BY <2>6
      <4> QED BY <2>4, <2>5, <4>1
    <3>2. PICK e : e = [step |-> a, rqs |-> n]
      OBVIOUS
    <3>3. Append(q, e) = [k \in 1 .. m + 1 |-> IF k = m + 1 THEN e ELSE q[k]]
      BY <3>1
    <3>4. \A k \in 1 .. m + 1 :
            [step |-> c + k, rqs |-> Append(p, n)[c + k + 1]] = IF k = m + 1 THEN e ELSE q[k]
      <4> SUFFICES ASSUME NEW k \in 1 .. m + 1
                   PROVE  [step |-> c + k, rqs |-> Append(p, n)[c + k + 1]]
                            = IF k = m + 1 THEN e ELSE q[k]
        OBVIOUS
      <4>1. CASE k = m + 1
        <5>1. c + k = a /\ Append(p, n)[c + k + 1] = n
          BY <2>8, <4>1
        <5> QED BY <3>2, <4>1, <5>1
      <4>2. CASE k # m + 1
        <5>1. k \in 1 .. m
          BY <4>2
        <5> QED BY <2>7, <3>1, <4>2, <5>1
      <4> QED BY <4>1, <4>2
    <3> QED BY <3>1, <3>2, <3>3, <3>4
  <2>10. Waiting(w) = q /\ Waiting(w)' = Append(q, [step |-> a, rqs |-> n])
    BY <1>2, <1>4, <1>10, <2>3, <2>9, WaitingSteps
  <2>11. [u \in Workloads |-> Waiting(u)]'
           = [[u \in Workloads |-> Waiting(u)] EXCEPT ![w] = Append(q, [step |-> a, rqs |-> n])]
    BY <1>4, <2>10, OpenIs
  <2>12. Len(q) # QSIZE
    BY <1>3, <2>4
  <2> QED BY <1>4, <1>5, <1>7, <1>8, <1>10, <2>10, <2>11, <2>12 DEF Delivery!Accept
<1> QED BY <1>9, <1>10

(* A workload that may be unconfigured, or that has no step, is closed.    *)
LEMMA Closes ==
  ASSUME NEW w \in Workloads, ~Ended(w), Ended(w)', w \in Unconfigured \/ Waiting(w) = <<>>,
         \A u \in Workloads : u # w => SameSteps(u),
         wl'[w].last_step = wl[w].last_step, Due' = Due, Reported' = Reported
  PROVE  Delivery!Close(w)
<1>1. Waiting(w)' = <<>>
  BY WaitingSteps
<1>2. [u \in Workloads |-> Waiting(u)]' = [[u \in Workloads |-> Waiting(u)] EXCEPT ![w] = <<>>]
  BY <1>1, OpenIs
<1>3. [u \in Workloads |-> ~Ended(u)]' = [[u \in Workloads |-> ~Ended(u)] EXCEPT ![w] = FALSE]
  BY OpenIs
<1>4. [u \in Workloads |-> wl[u].last_step + 1]' = [u \in Workloads |-> wl[u].last_step + 1]
  BY DEF SameSteps, SameRing
<1> QED BY <1>2, <1>3, <1>4 DEF Delivery!Close

LEMMA NothingIn ==
  ASSUME NEW x \in WorkloadType, x.last_step <= x.current_step
  PROVE  StepsIn(x) = <<>>
<1>1. PICK n \in Int : n = x.last_step - x.current_step /\ n <= 0
  BY DEF WorkloadType
<1>2. 1 .. n = {}
  BY <1>1
<1> QED BY <1>1, <1>2 DEF StepsIn

(* The steps of the configuration threads, the feeders and the remover.    *)
LEMMA WorkloadRefines ==
  ASSUME Inv, OnlyUnconfigured, Rings', NEW w \in Workloads, WorkloadStep(w) \/ Removal(w)
  PROVE  \/ \E n \in Counts : Delivery!Accept(w, n) \/ Delivery!TooLate(w)
         \/ Delivery!Close(w)
         \/ UNCHANGED Delivery!deliveryVars
<1>0. TypeOK /\ StepArray /\ Untouched
  BY DEF Inv
<1>1. PICK v : \/ Marks(w, v) \/ Attaches(w, v) \/ Rejects(w, v) \/ Detaches(w, v)
               \/ (\E n \in Counts : Provides(w, n, v)) \/ Faults
  BY WorkloadSteps DEF Inv
<1>2. PICK x : x = wl[w] /\ x \in WorkloadType
  BY <1>0, Typed
<1>3. pool.mutex = Free => ctl.pc # "detach"
  BY <1>0 DEF StepArray, HasPoolMutex, Free
<1>4. CASE Marks(w, v) \/ Attaches(w, v)
  <2>1. /\ WorkloadMoves(w, v) /\ v.tp = x.tp
        /\ v.last_step = x.last_step /\ v.current_step = x.current_step
        /\ v.rqs_per_step = x.rqs_per_step /\ v.provided = x.provided
    <3>1. CASE Marks(w, v)
      BY <1>2, <3>1 DEF Marks, Marked
    <3>2. CASE Attaches(w, v)
      BY <1>2, <3>2 DEF Attaches, WorkloadType
    <3> QED BY <1>4, <3>1, <3>2
  <2>2. /\ \A u \in Workloads : u # w => SameSteps(u)
        /\ wl'[w] = v /\ Due' = Due /\ Reported' = Reported /\ (Ended(w)' <=> Ended(w))
    BY <1>0, <1>2, <2>1, OthersSame DEF Ended
  <2>3. SameSteps(w)
    BY <1>2, <2>1, <2>2 DEF SameSteps, SameRing
  <2> QED BY <2>2, <2>3, Stutters
<1>5. CASE Rejects(w, v)
  <2>1. /\ WorkloadMoves(w, v) /\ pool.mutex = Free /\ x.phase = "new"
        /\ ~v.tp /\ v.last_step = x.last_step
    BY <1>2, <1>5 DEF Rejects, WorkloadType
  <2>2. x.last_step = -1 /\ x.current_step = -1
    BY <1>0, <1>2, <2>1 DEF Untouched, Unattached
  <2>4. /\ \A u \in Workloads : u # w => SameSteps(u)
        /\ wl'[w] = v /\ Due' = Due /\ Reported' = Reported /\ Ended(w)'
    BY <1>0, <2>1, OthersSame
  <2>5. CASE x.tp
    <3>1. ~Ended(w)
      BY <1>2, <1>3, <2>1, <2>5 DEF Ended
    <3>2. Waiting(w) = <<>>
      BY <1>2, <2>2, <3>1, NothingIn, WaitingSteps
    <3> QED BY <1>2, <2>1, <2>4, <3>1, <3>2, Closes
  <2>6. CASE ~x.tp
    <3>1. Ended(w)
      BY <1>2, <2>6 DEF Ended
    <3>2. v.current_step = x.current_step /\ v.rqs_per_step = x.rqs_per_step
          /\ v.provided = x.provided
      BY <1>2, <1>5 DEF Rejects, WorkloadType
    <3>3. SameSteps(w)
      BY <1>2, <2>1, <2>4, <3>1, <3>2 DEF SameSteps, SameRing
    <3> QED BY <2>4, <3>3, Stutters
  <2> QED BY <2>5, <2>6
<1>6. CASE Detaches(w, v)
  <2>1. /\ WorkloadMoves(w, v) /\ pool.mutex = Free /\ x.removal = "lock" /\ x.tp
        /\ ~v.tp /\ v.last_step = x.last_step
    BY <1>2, <1>6 DEF Detaches, WorkloadType
  <2>2. ~Ended(w) /\ w \in Unconfigured
    BY <1>2, <1>3, <2>1 DEF Ended, OnlyUnconfigured
  <2>3. /\ \A u \in Workloads : u # w => SameSteps(u)
        /\ wl'[w] = v /\ Due' = Due /\ Reported' = Reported /\ Ended(w)'
    BY <1>0, <2>1, OthersSame
  <2> QED BY <1>2, <2>1, <2>2, <2>3, Closes
<1>7. ASSUME NEW n \in Counts, Provides(w, n, v)
      PROVE  \E m \in Counts : Delivery!Accept(w, m) \/ Delivery!TooLate(w)
  BY <1>7, ProvideAccepted
<1>8. CASE Faults
  <2>1. UNCHANGED <<wl, worker, ctl>>
    BY <1>8 DEF Faults
  <2>2. SameLists /\ \A u \in Workloads : SameSteps(u)
    BY <2>1 DEF SameLists, SameSteps, SameRing, Ended, Current
  <2> QED BY <2>2, SameListsDue, Stutters
<1> QED BY <1>1, <1>4, <1>5, <1>6, <1>7, <1>8

(* The ids that are dealt are those below the step's count.                *)
LEMMA DealtIds ==
  ASSUME NEW w \in Workloads, NEW s \in Nat, NEW n \in Nat
  PROVE  UNION {Elements(NewRequests(w, s, n, t)) : t \in Tids}
           = {[wl |-> w, step |-> s, id |-> i] : i \in 0 .. n - 1}
<1>1. \A t \in Tids : Elements(NewRequests(w, s, n, t))
        = {[wl |-> w, step |-> s, id |-> FirstId(n, t) + k - 1] : k \in 1 .. Share(n, t)}
  BY DEF Elements, NewRequests
<1>2. ASSUME NEW t \in Tids, NEW k \in 1 .. Share(n, t)
      PROVE  FirstId(n, t) + k - 1 \in 0 .. n - 1
  <2>1. /\ FirstId(n, t) \in Nat /\ Share(n, t) \in Nat
    BY IdsFollow
  <2>2. NThreads \in 0 .. NThreads /\ t < NThreads
    BY PoolAssumption DEF Tids
  <2>3. FirstId(n, t) + Share(n, t) <= n
    BY <2>2, IdsApart, IdsEnd
  <2> QED BY <2>1, <2>3
<1>3. ASSUME NEW i \in 0 .. n - 1
      PROVE  \E t \in Tids : \E k \in 1 .. Share(n, t) : i = FirstId(n, t) + k - 1
  <2>1. PICK t \in Tids : FirstId(n, t) <= i /\ i < FirstId(n, t) + Share(n, t)
    BY IdsCovered
  <2>2. PICK f \in Nat, h \in Nat : f = FirstId(n, t) /\ h = Share(n, t)
    BY IdsFollow
  <2>3. i - f + 1 \in 1 .. h /\ i = f + (i - f + 1) - 1
    BY <2>1, <2>2
  <2> QED BY <2>2, <2>3
<1>4. ASSUME NEW r \in UNION {Elements(NewRequests(w, s, n, t)) : t \in Tids}
      PROVE  r \in {[wl |-> w, step |-> s, id |-> i] : i \in 0 .. n - 1}
  <2>1. PICK t \in Tids : r \in Elements(NewRequests(w, s, n, t))
    BY <1>4
  <2>2. PICK k \in 1 .. Share(n, t) : r = [wl |-> w, step |-> s, id |-> FirstId(n, t) + k - 1]
    BY <1>1, <2>1
  <2> QED BY <1>2, <2>2
<1>5. ASSUME NEW r \in {[wl |-> w, step |-> s, id |-> i] : i \in 0 .. n - 1}
      PROVE  r \in UNION {Elements(NewRequests(w, s, n, t)) : t \in Tids}
  <2>1. PICK i \in 0 .. n - 1 : r = [wl |-> w, step |-> s, id |-> i]
    BY <1>5
  <2>2. PICK t \in Tids : \E k \in 1 .. Share(n, t) : i = FirstId(n, t) + k - 1
    BY <1>3
  <2>3. r \in Elements(NewRequests(w, s, n, t))
    BY <1>1, <2>1, <2>2
  <2> QED BY <2>3
<1> QED BY <1>4, <1>5

(* Dealing a step's requests makes them due, and no others.                *)
LEMMA DealtDue ==
  ASSUME Inv, NEW w, NEW n, RunsStep(w, n)
  PROVE  /\ Reported' = Reported
         /\ Due' = Due \cup {[wl |-> w, step |-> wl[w].current_step + 1, id |-> i] : i \in 0 .. n - 1}
<1>0. TypeOK
  BY DEF Inv
<1>1. w \in Workloads /\ n \in Nat /\ wl[w].current_step + 1 \in Nat
  <2>1. Dealt(w, wl[w].current_step + 1, n, Holds, Holds')
    BY RunsStepDeals
  <2> QED BY <2>1 DEF Dealt
<1>2. PICK s \in Nat : s = wl[w].current_step + 1
  BY <1>1
<1>3. ASSUME NEW t \in Tids
      PROVE  /\ worker'[t].reported = worker[t].reported
             /\ Elements(worker'[t].chain \o worker'[t].requests)
                  = Elements(worker[t].chain \o worker[t].requests)
                      \cup Elements(NewRequests(w, s, n, t))
  <2>1. PICK x : x = worker[t] /\ x \in WorkerType
    BY <1>0, Typed
  <2>2. PICK a \in Seq(Requests), b \in Seq(Requests), d \in Seq(Requests) :
          a = x.chain /\ b = x.requests /\ d = NewRequests(w, s, n, t)
    <3>1. NewRequests(w, s, n, t) \in Seq(Requests)
      BY <1>1, NewRequestsAre
    <3> QED BY <2>1, <3>1 DEF WorkerType
  <2>3. worker'[t] = [x EXCEPT !.requests = b \o d]
    BY <1>2, <2>1, <2>2 DEF RunsStep
  <2>4. worker'[t].chain = a /\ worker'[t].requests = b \o d /\ worker'[t].reported = x.reported
    BY <2>1, <2>2, <2>3 DEF WorkerType
  <2>5. PICK e \in Seq(Requests) : e = b \o d
    <3>1. b \o d \in Seq(Requests)
      BY <2>2
    <3> QED BY <3>1
  <2>6. Elements(a \o e) = Elements(a) \cup Elements(e)
    BY ElementsJoined
  <2>7. Elements(b \o d) = Elements(b) \cup Elements(d)
    BY ElementsJoined
  <2>8. Elements(a \o b) = Elements(a) \cup Elements(b)
    BY ElementsJoined
  <2>9. Elements(a \o e) = Elements(a \o b) \cup Elements(d)
    BY <2>5, <2>6, <2>7, <2>8
  <2> QED BY <2>1, <2>2, <2>4, <2>5, <2>9
<1>4. Reported' = Reported
  <2>1. \A t \in Tids : Elements(worker[t].reported)' = Elements(worker[t].reported)
    BY <1>3 DEF Elements
  <2> QED BY <2>1, Zenon DEF Reported
<1>5. PICK N : N = UNION {Elements(NewRequests(w, s, n, t)) : t \in Tids}
  OBVIOUS
<1>6. Due' = UNION {Elements(worker'[t].chain \o worker'[t].requests) : t \in Tids}
  BY DEF Due, Elements
<1>7. Due' = Due \cup N
  <2>1. ASSUME NEW r \in Due' PROVE r \in Due \cup N
    <3>1. PICK t \in Tids : r \in Elements(worker'[t].chain \o worker'[t].requests)
      BY <1>6, <2>1
    <3>2. \/ r \in Elements(worker[t].chain \o worker[t].requests)
          \/ r \in Elements(NewRequests(w, s, n, t))
      BY <1>3, <3>1
    <3> QED BY <1>5, <3>2 DEF Due
  <2>2. ASSUME NEW r \in Due \cup N PROVE r \in Due'
    <3>1. PICK t \in Tids : \/ r \in Elements(worker[t].chain \o worker[t].requests)
                            \/ r \in Elements(NewRequests(w, s, n, t))
      BY <1>5, <2>2 DEF Due
    <3>2. r \in Elements(worker'[t].chain \o worker'[t].requests)
      BY <1>3, <3>1
    <3> QED BY <1>6, <3>2
  <2> QED BY <2>1, <2>2
<1>8. N = {[wl |-> w, step |-> s, id |-> i] : i \in 0 .. n - 1}
  BY <1>1, <1>5, DealtIds
<1> QED BY <1>2, <1>4, <1>7, <1>8

(* The oldest waiting step begins.                                         *)
LEMMA RunStepBegins ==
  ASSUME Inv, Rings', NEW w, NEW n, RunsStep(w, n)
  PROVE  Delivery!Begin(w)
<1>0. TypeOK /\ w \in Workloads /\ RingRight(w) /\ RingRight(w)'
  BY DEF Inv, Rings, RunsStep
<1>1. PICK x, y : x = wl[w] /\ x \in WorkloadType /\ y = wl'[w] /\ y \in WorkloadType
  BY <1>0, Typed DEF RunsStep
<1>2. PICK c \in Int, l \in Int, p \in Seq(Counts) :
        x = wl[w] /\ c = x.current_step /\ l = x.last_step /\ p = x.provided
  BY <1>1 DEF WorkloadType
<1>3. /\ y.last_step = l /\ y.current_step = c + 1 /\ y.provided = p /\ y.tp = x.tp /\ x.tp
      /\ c < l /\ n = p[c + 2]
  BY <1>1, <1>2 DEF RunsStep, Attached
<1>4. /\ \A u \in Workloads : u # w => SameSteps(u)
      /\ ~Ended(w) /\ ~Ended(w)'
  <2>1. ctl.pc = "step" /\ ctl'.pc = "step"
    <3>1. ctl \in CtlType
      BY <1>0, Typed
    <3> QED BY <3>1 DEF RunsStep, CtlType
  <2>2. \A u \in Workloads : u # w => wl'[u] = wl[u]
    BY DEF RunsStep
  <2> QED BY <1>1, <1>3, <2>1, <2>2 DEF SameSteps, SameRing, Ended
<1>5. PICK q, z : q = StepsIn(x) /\ z = StepsIn(y)
  OBVIOUS
<1>6. /\ q = [k \in 1 .. l - c |-> [step |-> c + k, rqs |-> p[c + k + 1]]]
      /\ l - c \in Nat /\ Len(q) = l - c
  <2>1. \A s \in c + 1 .. l : x.rqs_per_step[Slot(s)] = x.provided[s + 1]
    BY <1>0, <1>1, <1>2 DEF RingRight
  <2>2. x \in WorkloadType /\ c = x.current_step /\ l = x.last_step /\ c <= l
    BY <1>1, <1>2, <1>3
  <2>3. /\ StepsIn(x) = [k \in 1 .. l - c |-> [step |-> c + k, rqs |-> x.provided[c + k + 1]]]
        /\ l - c \in Nat /\ Len(StepsIn(x)) = l - c
    BY <2>1, <2>2, StepsAre
  <2> QED BY <1>2, <1>5, <2>3
<1>7. PICK d \in Int : d = c + 1 /\ d <= l
  BY <1>3
<1>8. z = [k \in 1 .. l - d |-> [step |-> d + k, rqs |-> p[d + k + 1]]]
  <2>1. y \in WorkloadType /\ d = y.current_step /\ l = y.last_step
    BY <1>1, <1>3, <1>7
  <2>2. \A s \in d + 1 .. l : y.rqs_per_step[Slot(s)] = y.provided[s + 1]
    BY <1>0, <1>1, <2>1 DEF RingRight
  <2>3. StepsIn(y) = [k \in 1 .. l - d |-> [step |-> d + k, rqs |-> y.provided[d + k + 1]]]
    BY <1>7, <2>1, <2>2, StepsAre
  <2> QED BY <1>3, <1>5, <2>3
<1>9. PICK m \in Nat : l - c = m + 1 /\ l - d = m
  BY <1>6, <1>7
<1>10. q # <<>> /\ Head(q) = [step |-> d, rqs |-> n]
  <2>1. q[1] = [step |-> c + 1, rqs |-> p[c + 1 + 1]] /\ Len(q) = m + 1
    BY <1>6, <1>9
  <2>2. c + 1 + 1 = c + 2 /\ Len(q) # 0
    BY <1>2, <2>1
  <2> QED BY <1>3, <1>7, <2>1, <2>2
<1>11. z = Tail(q)
  <2>1. q = [k \in 1 .. m + 1 |-> [step |-> c + k, rqs |-> p[c + k + 1]]]
    BY <1>6, <1>9
  <2>2. z = [k \in 1 .. m |-> [step |-> d + k, rqs |-> p[d + k + 1]]]
    BY <1>8, <1>9
  <2>3. Tail(q) = [k \in 1 .. m |-> q[k + 1]]
    BY <2>1
  <2>4. \A k \in 1 .. m : q[k + 1] = [step |-> d + k, rqs |-> p[d + k + 1]]
    <3> SUFFICES ASSUME NEW k \in 1 .. m
                 PROVE  q[k + 1] = [step |-> d + k, rqs |-> p[d + k + 1]]
      OBVIOUS
    <3>1. PICK j \in 1 .. m + 1 : j = k + 1 /\ c + j = d + k
      BY <1>7
    <3> QED BY <2>1, <3>1
  <2> QED BY <2>2, <2>3, <2>4
<1>12. Waiting(w) = q /\ Waiting(w)' = Tail(q)
  BY <1>0, <1>1, <1>4, <1>5, <1>11, WaitingSteps
<1>13. [u \in Workloads |-> Waiting(u)]' = [[u \in Workloads |-> Waiting(u)] EXCEPT ![w] = Tail(q)]
  BY <1>0, <1>4, <1>12, OpenIs
<1>14. [u \in Workloads |-> ~Ended(u)]' = [u \in Workloads |-> ~Ended(u)]
  BY <1>0, <1>4, OpenIs
<1>15. [u \in Workloads |-> wl[u].last_step + 1]' = [u \in Workloads |-> wl[u].last_step + 1]
  <2>1. \A u \in Workloads : wl'[u].last_step = wl[u].last_step
    BY <1>1, <1>2, <1>3, <1>4 DEF SameSteps, SameRing
  <2> QED BY <2>1
<1>16. /\ Reported' = Reported
       /\ Due' = Due \cup {[wl |-> w, step |-> d, id |-> i] : i \in 0 .. n - 1}
  BY <1>1, <1>2, <1>7, DealtDue
<1>17. Due' = Due \cup Delivery!RequestsOfStep(w, Head(q))
  BY <1>10, <1>16 DEF Delivery!RequestsOfStep
<1> QED BY <1>0, <1>4, <1>10, <1>12, <1>13, <1>14, <1>15, <1>16, <1>17 DEF Delivery!Begin

(* The control thread closes a workload that has no step left.             *)
LEMMA FinishCloses ==
  ASSUME Inv, NEW w, NEW v, Finishes(w, v)
  PROVE  Delivery!Close(w)
<1>0. TypeOK /\ EndsWorkload(w, v) /\ w \in Workloads /\ w = Current /\ wl[w].tp
  BY DEF Inv, Finishes, EndsWorkload, Attached
<1>1. /\ wl'[w] = v /\ \A u \in Workloads : u # w => wl'[u] = wl[u]
  BY <1>0, Typed DEF EndsWorkload
<1>2. ctl.pc = "step" /\ ctl'.pc = "detach" /\ Current' = Current /\ UNCHANGED worker
  BY DEF Finishes, EndsWorkload, Current
<1>3. ~Ended(w) /\ Ended(w)'
  BY <1>0, <1>2 DEF Ended
<1>4. \A u \in Workloads : u # w => SameSteps(u)
  <2> SUFFICES ASSUME NEW u \in Workloads, u # w PROVE SameSteps(u)
    OBVIOUS
  <2>1. wl'[u] = wl[u]
    BY <1>1
  <2>2. Ended(u)' <=> ~wl'[u].tp \/ (ctl'.pc = "detach" /\ Current' = u)
    BY DEF Ended
  <2>3. Ended(u) <=> ~wl[u].tp
    BY <1>2 DEF Ended
  <2>4. Ended(u)' <=> Ended(u)
    BY <1>0, <1>2, <2>1, <2>2, <2>3
  <2> QED BY <2>1, <2>4 DEF SameSteps, SameRing
<1>5. Waiting(w) = <<>>
  <2>1. wl[w] \in WorkloadType /\ wl[w].last_step <= wl[w].current_step
    <3>1. wl[w] \in WorkloadType
      BY <1>0, Typed
    <3> QED BY <3>1 DEF Finishes, WorkloadType
  <2> QED BY <1>0, <1>3, <2>1, NothingIn, WaitingSteps
<1>6. SameLists
  BY <1>2 DEF SameLists
<1>7. wl'[w].last_step = wl[w].last_step
  BY <1>0, <1>1 DEF EndsWorkload
<1> QED BY <1>0, <1>3, <1>4, <1>5, <1>6, <1>7, SameListsDue, Closes

(* Then it takes it off the list.                                          *)
LEMMA TakenOffStutters ==
  ASSUME Inv, NEW w, NEW v, TakenOff(w, v)
  PROVE  UNCHANGED Delivery!deliveryVars
<1>0. TypeOK /\ EndsWorkload(w, v) /\ w \in Workloads /\ w = Current
  BY DEF Inv, TakenOff, EndsWorkload
<1>1. /\ wl'[w] = v /\ \A u \in Workloads : u # w => wl'[u] = wl[u]
  BY <1>0, Typed DEF EndsWorkload
<1>2. ctl.pc = "detach" /\ ctl'.pc = "step" /\ UNCHANGED worker
  BY DEF TakenOff, EndsWorkload
<1>3. \A u \in Workloads : Ended(u)' <=> ~wl'[u].tp
  BY <1>2 DEF Ended
<1>4. SameSteps(w)
  <2>1. SameRing(w) /\ ~wl'[w].tp
    BY <1>0, <1>1 DEF SameRing, TakenOff, EndsWorkload
  <2>2. Ended(w)
    BY <1>0, <1>2 DEF Ended
  <2> QED BY <1>0, <1>3, <2>1, <2>2 DEF SameSteps
<1>5. \A u \in Workloads : u # w => SameSteps(u)
  <2> SUFFICES ASSUME NEW u \in Workloads, u # w PROVE SameSteps(u)
    OBVIOUS
  <2>1. wl'[u] = wl[u] /\ (Ended(u) <=> ~wl[u].tp)
    BY <1>0, <1>1 DEF Ended
  <2> QED BY <1>3, <2>1 DEF SameSteps, SameRing
<1>6. SameLists
  BY <1>2 DEF SameLists
<1> QED BY <1>4, <1>5, <1>6, SameListsDue, Stutters

(* What leaves workloads, lists and the control thread's place alone.      *)
LEMMA QuietStutters ==
  ASSUME SameLists, \A w \in Workloads : SameRing(w) /\ wl'[w].tp = wl[w].tp,
         \/ UNCHANGED ctl
         \/ ctl.pc # "detach" /\ ctl'.pc # "detach"
  PROVE  UNCHANGED Delivery!deliveryVars
<1>1. \A w \in Workloads : SameSteps(w)
  BY DEF SameSteps, Ended, Current
<1> QED BY <1>1, SameListsDue, Stutters

LEMMA ControlRefines ==
  ASSUME Inv, Rings', Control
  PROVE  \/ \E w \in Workloads : Delivery!Begin(w) \/ Delivery!Close(w)
         \/ UNCHANGED Delivery!deliveryVars
<1>0. TypeOK /\ StepArray /\ ctl \in CtlType
  BY Typed DEF Inv
<1>1. CASE QuietControl
  <2>1. WorkersAlike /\ UNCHANGED wl
    BY <1>1, QuietSteps DEF Inv
  <2>2. SameLists /\ \A w \in Workloads : SameRing(w) /\ wl'[w].tp = wl[w].tp
    BY <2>1 DEF WorkersAlike, SameLists, SameRing
  <2>3. ctl.pc # "detach" /\ ctl'.pc # "detach"
    <3>1. CASE CtlTop \/ CtlLock \/ CtlNotify \/ CtlRelease \/ CtlUnlockWorkers
      <4>1. CASE CtlTop
        BY <1>0, <4>1 DEF CtlTop, Ctl, CtlType
      <4>2. CASE CtlLock
        BY <4>2 DEF CtlLock
      <4>3. CASE CtlNotify
        BY <1>0, <4>3 DEF CtlNotify, Ctl, CtlType
      <4>4. CASE CtlRelease
        BY <1>0, <4>4 DEF CtlRelease, Ctl, CtlType
      <4>5. CASE CtlUnlockWorkers
        BY <1>0, <4>5 DEF CtlUnlockWorkers, CtlType
      <4> QED BY <3>1, <4>1, <4>2, <4>3, <4>4, <4>5
    <3>2. CASE CtlSkip
      BY <1>0, <3>2 DEF CtlSkip, AtWorkload, CtlType
    <3>3. CASE CtlLockWorker
      BY <1>0, <3>3, NextTidType DEF CtlLockWorker
    <3>4. CASE CtlInterrupt
      BY <1>0, <3>4, NextTidType DEF CtlInterrupt
    <3> QED BY <1>1, <3>1, <3>2, <3>3, <3>4 DEF QuietControl
  <2> QED BY <2>2, <2>3, QuietStutters
<1>2. CASE CtlRunStep
  <2>1. PICK w, n : RunsStep(w, n) /\ w \in Workloads
    BY <1>2, RunStepIs DEF Inv, RunsStep
  <2> QED BY <2>1, RunStepBegins
<1>3. CASE CtlFinish
  <2>1. PICK w, v : Finishes(w, v) /\ w \in Workloads
    BY <1>3, FinishIs DEF Inv, Finishes, EndsWorkload
  <2> QED BY <2>1, FinishCloses
<1>4. CASE tp_detach_nolock
  BY <1>4, DetachIs, TakenOffStutters DEF Inv
<1>5. CASE CtlAssertFails \/ CtlUsesFreed \/ CtlDrawsZero
  <2>1. UNCHANGED <<wl, ctl, worker>>
    BY <1>5 DEF CtlAssertFails, CtlUsesFreed, CtlDrawsZero
  <2> QED BY <2>1, QuietStutters DEF SameLists, SameRing
<1> QED BY <1>1, <1>2, <1>3, <1>4, <1>5 DEF Control, QuietControl

LEMMA WorkerRefines ==
  ASSUME Inv, Apart, NEW t \in Tids, Worker(t) \/ WSpurious(t)
  PROVE  Delivery!Report \/ UNCHANGED Delivery!deliveryVars
<1>1. UNCHANGED <<wl, ctl>> /\ (SameLists \/ WTake(t) \/ wl_rq_chain_push(t))
  BY WorkerLists DEF Inv
<1>2. CASE SameLists
  BY <1>1, <1>2, QuietStutters DEF SameRing
<1>3. CASE WTake(t)
  <2>1. Due' = Due /\ Reported' = Reported
    BY <1>3, TakeIsQuiet DEF Inv
  <2>2. \A w \in Workloads : SameSteps(w)
    BY <1>1 DEF SameSteps, SameRing, Ended, Current
  <2> QED BY <2>1, <2>2, Stutters
<1>4. CASE wl_rq_chain_push(t)
  BY <1>4, PushReports
<1> QED BY <1>1, <1>2, <1>3, <1>4

LEMMA DestroyerRefines ==
  ASSUME Inv, DestroyBegin \/ DestroyWorkloads \/ DestroyNotify \/ DestroyJoin
  PROVE  UNCHANGED Delivery!deliveryVars
<1>0. TypeOK /\ wl \in [Workloads -> WorkloadType]
  BY Typed DEF Inv
<1>1. UNCHANGED ctl
  BY DEF DestroyBegin, DestroyWorkloads, DestroyNotify, DestroyJoin
<1>2. SameLists
  <2>1. CASE DestroyNotify
    BY <1>0, <2>1, NotifiedAlike DEF DestroyNotify, WorkersAlike, SameLists
  <2>2. CASE UNCHANGED worker
    BY <2>2 DEF SameLists
  <2> QED BY <2>1, <2>2 DEF DestroyBegin, DestroyWorkloads, DestroyJoin
<1>3. \A w \in Workloads : SameRing(w) /\ wl'[w].tp = wl[w].tp
  <2>1. CASE UNCHANGED wl
    BY <2>1 DEF SameRing
  <2>2. CASE DestroyWorkloads
    <3> SUFFICES ASSUME NEW w \in Workloads PROVE SameRing(w) /\ wl'[w].tp = wl[w].tp
      OBVIOUS
    <3>1. PICK x : x = wl[w] /\ x \in WorkloadType
      BY <1>0
    <3>2. PICK f : wl'[w] = [x EXCEPT !.freed = f]
      BY <2>2, <3>1 DEF DestroyWorkloads
    <3> QED BY <3>1, <3>2 DEF SameRing, WorkloadType
  <2> QED BY <2>1, <2>2 DEF DestroyBegin, DestroyNotify, DestroyJoin
<1> QED BY <1>1, <1>2, <1>3, QuietStutters

(* Every step of the pool is a step of the delivery, or none.              *)
LEMMA StepRefines ==
  ASSUME Inv, Rings', Apart, OnlyUnconfigured, [Next]_vars
  PROVE  [Delivery!DeliveryNext]_(Delivery!deliveryVars)
<1>1. ASSUME NEW w \in Workloads, WorkloadStep(w) \/ Removal(w)
      PROVE  Delivery!DeliveryNext \/ UNCHANGED Delivery!deliveryVars
  BY <1>1, WorkloadRefines DEF Delivery!DeliveryNext
<1>2. CASE Control
  BY <1>2, ControlRefines DEF Delivery!DeliveryNext
<1>3. ASSUME NEW t \in Tids, Worker(t) \/ WSpurious(t)
      PROVE  Delivery!DeliveryNext \/ UNCHANGED Delivery!deliveryVars
  BY <1>3, WorkerRefines DEF Delivery!DeliveryNext
<1>4. CASE DestroyBegin \/ DestroyWorkloads \/ DestroyNotify \/ DestroyJoin
  BY <1>4, DestroyerRefines
<1>5. CASE UNCHANGED vars
  <2>1. UNCHANGED <<wl, ctl, worker>>
    BY <1>5 DEF vars
  <2> QED BY <2>1, QuietStutters DEF SameLists, SameRing
<1> QED BY <1>1, <1>2, <1>3, <1>4, <1>5 DEF Next, Stopped

LEMMA DeliveryStart == Init => Delivery!DeliveryInit /\ Apart /\ OnlyUnconfigured
<1> SUFFICES ASSUME Init PROVE Delivery!DeliveryInit /\ Apart /\ OnlyUnconfigured
  OBVIOUS
<1>1. /\ \A w \in Workloads : /\ wl[w].tp /\ wl[w].last_step = -1 /\ wl[w].current_step = -1
                              /\ wl[w].removal = "none"
      /\ ctl.pc = "top"
  BY DEF Init
<1>2. \A t \in Tids : /\ worker[t].chain = <<>> /\ worker[t].requests = <<>>
                      /\ worker[t].reported = <<>>
  BY DEF Init
<1>3. \A w \in Workloads : ~Ended(w) /\ Waiting(w) = <<>> /\ wl[w].last_step + 1 = 0
  <2> SUFFICES ASSUME NEW w \in Workloads
               PROVE  ~Ended(w) /\ Waiting(w) = <<>> /\ wl[w].last_step + 1 = 0
    OBVIOUS
  <2>1. ~Ended(w)
    BY <1>1 DEF Ended
  <2>2. 1 .. wl[w].last_step - wl[w].current_step = {}
    BY <1>1
  <2> QED BY <1>1, <2>1, <2>2 DEF Waiting
<1>4. \A t \in Tids : /\ Elements(worker[t].chain \o worker[t].requests) = {}
                      /\ Elements(worker[t].reported) = {}
  <2>1. <<>> \o <<>> = <<>> /\ Elements(<<>>) = {}
    BY DEF Elements
  <2> QED BY <1>2, <2>1
<1>5. Due = {} /\ Reported = {}
  BY <1>4 DEF Due, Reported
<1>6. Apart
  <2>1. \A t \in Tids : DOMAIN Held(t) = {}
    <3>1. (<<>> \o <<>>) \o <<>> = <<>>
      OBVIOUS
    <3>2. \A t \in Tids : Held(t) = <<>>
      BY <1>2, <3>1 DEF Held
    <3> QED BY <3>2
  <2> QED BY <2>1 DEF Apart
<1>7. OnlyUnconfigured
  BY <1>1 DEF OnlyUnconfigured
<1> QED BY <1>3, <1>5, <1>6, <1>7 DEF Delivery!DeliveryInit

(* threadpool.c:236, worker.c:130, workload.c:325: for every number of     *)
(* workers, workloads and steps the pool delivers what it promises: the    *)
(* steps of a workload begin in their order, each with its own count of    *)
(* requests; every request of a begun step is reported once and none that  *)
(* was not due; and the control thread closes no workload that has a step  *)
(* left.                                                                   *)
THEOREM PoolImplementsDelivery == Spec => ImplementsDelivery
<1>1. Init => Delivery!DeliveryInit /\ Apart /\ OnlyUnconfigured
  BY DeliveryStart
<1>2. Inv /\ Apart /\ OnlyUnconfigured /\ [Next]_vars => Apart' /\ OnlyUnconfigured'
  BY ApartNext
<1>3. Inv /\ Inv' /\ Apart /\ OnlyUnconfigured /\ [Next]_vars
        => [Delivery!DeliveryNext]_(Delivery!deliveryVars)
  BY StepRefines DEF Inv
<1> QED BY <1>1, <1>2, <1>3, InvInit, InvNext, PTL
        DEF Spec, ImplementsDelivery, Delivery!DeliverySpec
=============================================================================
