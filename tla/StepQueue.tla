------------------------------ MODULE StepQueue -----------------------------
(***************************************************************************)
(* The step queue of one workload (libtsload/src/workload.c): a ring of    *)
(* WLSTEPQSIZE request counts between the last step a feeder provided and  *)
(* the step the control thread runs.  wl_provide_step and wl_advance_step  *)
(* hold wl_rq_mutex from their first access to the queue to their last, so *)
(* each is one action.                                                     *)
(***************************************************************************)
EXTENDS StepRing

CONSTANTS StepIds,    \* step ids a feeder may send: any long
          Counts      \* request counts a step may carry: any unsigned

ASSUME InputAssumption == StepIds \subseteq Int /\ Counts \subseteq Nat

VARIABLES last_step,       \* wl_last_step: latest defined step
          current_step,    \* wl_current_step
          rqs_per_step,    \* wl_rqs_per_step: number of requests per step
          on_pool,         \* the workload is in its thread pool's list
          rq_count,        \* wls_rq_count of the control thread's step
          reply            \* what the last wl_provide_step returned

stepVars == <<last_step, current_step, rqs_per_step, on_pool, rq_count, reply>>

(* wl_create; wl_rqs_per_step is left as the allocator returned it.        *)
StepInit ==
  /\ last_step = -1 /\ current_step = -1
  /\ rqs_per_step = [s \in Slots |-> Unset]
  /\ on_pool = TRUE
  /\ rq_count = Unset
  /\ reply = "NONE"

wl_provide_step(id, n) ==
  /\ reply' = ProvideResult(last_step, current_step, id)
  /\ IF reply' = "OK"
       THEN /\ last_step' = id
            /\ rqs_per_step' = [rqs_per_step EXCEPT ![Slot(id)] = n]
       ELSE UNCHANGED <<last_step, rqs_per_step>>
  /\ UNCHANGED <<current_step, on_pool, rq_count>>

(* The control thread advances a workload of its list that has started.    *)
(* When no step is left it detaches the workload, for good.                *)
wl_advance_step ==
  /\ on_pool
  /\ current_step' = current_step + 1
  /\ IF NoSteps(last_step, current_step + 1)
       THEN on_pool' = FALSE /\ UNCHANGED rq_count
       ELSE /\ rq_count' = rqs_per_step[Slot(current_step + 1)]
            /\ UNCHANGED on_pool
  /\ UNCHANGED <<last_step, rqs_per_step, reply>>

StepNext ==
  \/ \E id \in StepIds, n \in Counts : wl_provide_step(id, n)
  \/ wl_advance_step

StepSpec == StepInit /\ [][StepNext]_stepVars

(* The control thread wakes up every quantum and advances every started    *)
(* workload of its list.                                                   *)
StepFairSpec == StepSpec /\ WF_stepVars(wl_advance_step)
-----------------------------------------------------------------------------
(* Types: the queue's fields stay in their ranges.                         *)
StepTypeOK ==
  /\ last_step \in Int /\ last_step >= -1
  /\ current_step \in Int /\ current_step >= -1
  /\ rqs_per_step \in [Slots -> Counts \cup {Unset}]
  /\ on_pool \in BOOLEAN
  /\ rq_count \in Counts \cup {Unset}
  /\ reply \in {"NONE", "OK", "QUEUE_FULL", "INVALID"}

(* While the control thread still runs the workload, the current step      *)
(* never passes the last provided one and at most QSIZE steps wait; only   *)
(* the advance that finds no step puts it one past, and detaches.          *)
WindowInv ==
  /\ on_pool => last_step - current_step \in 0 .. QSIZE
  /\ ~on_pool => last_step - current_step \in -1 .. QSIZE

(* A step is never delivered with a count no feeder gave it: every slot    *)
(* between the current and the last step was written since the ring was    *)
(* allocated.                                                              *)
NoUnsetStep ==
  on_pool => \A i \in current_step + 1 .. last_step :
               rqs_per_step[Slot(i)] # Unset

Waiting ==
  IF on_pool
    THEN [i \in 1 .. (last_step - current_step) |->
            rqs_per_step[Slot(current_step + i)]]
    ELSE <<>>

Bounded == INSTANCE StepFifo WITH
          Capacity <- QSIZE, waiting <- Waiting, next <- last_step + 1,
          finished <- ~on_pool, taken <- rq_count, reply <- reply

(* The ring implements the FIFO: each accepted step is delivered once,     *)
(* with its own count, in order, and QUEUE_FULL is answered exactly when   *)
(* QSIZE accepted steps wait.                                              *)
StepsImplementFifo == Bounded!FifoSpec

(* Every step accepted while the workload runs eventually becomes the      *)
(* current step of a workload that still runs: the detach never swallows   *)
(* an accepted step.                                                       *)
AcceptedIsTaken ==
  \A i \in StepIds :
    (on_pool /\ last_step >= i) ~> (on_pool /\ current_step >= i)
=============================================================================
