--------------------------- MODULE RequestDelivery ---------------------------
(***************************************************************************)
(* What a thread pool promises the feeders and the readers of the report   *)
(* queue: the steps accepted for a workload begin in their order; with a   *)
(* step, the requests it was provided with become due, numbered from 0;    *)
(* each due request is reported once.  A workload is only closed when no   *)
(* accepted step waits, unless somebody may remove it.  How the requests   *)
(* are dealt to workers, and when they are run, is not said.               *)
(***************************************************************************)
EXTENDS Integers, Sequences

CONSTANTS Workloads,
          Removable,   \* workloads somebody may remove
          Counts,      \* request counts a step may carry
          Capacity     \* steps of a workload that may wait

VARIABLES open,        \* by workload: its steps are still promised to begin
          accepted,    \* by workload: number of steps accepted
          waiting,     \* by workload: the steps not yet begun, in order
          due,         \* requests of begun steps that were not reported
          reported     \* requests that were reported

deliveryVars == <<open, accepted, waiting, due, reported>>

DeliveryInit ==
  /\ open = [w \in Workloads |-> TRUE]
  /\ accepted = [w \in Workloads |-> 0]
  /\ waiting = [w \in Workloads |-> <<>>]
  /\ due = {}
  /\ reported = {}

Accept(w, n) ==
  /\ open[w] /\ Len(waiting[w]) # Capacity
  /\ waiting' = [waiting EXCEPT ![w] = Append(@, [step |-> accepted[w], rqs |-> n])]
  /\ accepted' = [accepted EXCEPT ![w] = @ + 1]
  /\ UNCHANGED <<open, due, reported>>

(* A closed workload takes steps like any other, but promises nothing.     *)
TooLate(w) ==
  /\ ~open[w]
  /\ accepted' = [accepted EXCEPT ![w] = @ + 1]
  /\ UNCHANGED <<open, waiting, due, reported>>

RequestsOfStep(w, s) == {[wl |-> w, step |-> s.step, id |-> i] : i \in 0 .. s.rqs - 1}

Begin(w) ==
  /\ open[w] /\ waiting[w] # <<>>
  /\ due' = due \cup RequestsOfStep(w, Head(waiting[w]))
  /\ waiting' = [waiting EXCEPT ![w] = Tail(@)]
  /\ UNCHANGED <<open, accepted, reported>>

Report ==
  \E S \in SUBSET due :
    /\ due' = due \ S
    /\ reported' = reported \cup S
    /\ UNCHANGED <<open, accepted, waiting>>

Close(w) ==
  /\ open[w] /\ (waiting[w] = <<>> \/ w \in Removable)
  /\ open' = [open EXCEPT ![w] = FALSE]
  /\ waiting' = [waiting EXCEPT ![w] = <<>>]
  /\ UNCHANGED <<accepted, due, reported>>

DeliveryNext ==
  \/ \E w \in Workloads : \/ \E n \in Counts : Accept(w, n)
                          \/ TooLate(w) \/ Begin(w) \/ Close(w)
  \/ Report

DeliverySpec == DeliveryInit /\ [][DeliveryNext]_deliveryVars
=============================================================================
