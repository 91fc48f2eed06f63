------------------------------ MODULE SyncQueue -----------------------------
(***************************************************************************)
(* The synchronized queue (libtscommon/src/syncqueue.c) with the event it  *)
(* blocks on.  It carries request chains from workers to the report thread *)
(* and status messages to the notification thread: any thread pushes, the  *)
(* consumers loop on squeue_pop until it returns NULL.  Critical sections  *)
(* of sq_mutex are single actions; waiting on the event releases the mutex *)
(* and starts to wait in one step, and may end spuriously.                 *)
(***************************************************************************)
EXTENDS Integers, Sequences

CONSTANTS Items,      \* elements, each pushed at most once
          Consumers,  \* threads that loop on squeue_pop
          NULL

ASSUME QueueAssumption == NULL \notin Items /\ Consumers # {}

VARIABLES sq_head, sq_tail,
          s_next,             \* the link of each element
          sq_is_destroyed,
          freed,              \* elements whose memory was released
          pc,                 \* where each consumer is
          got,                \* what its last pop returned
          pushed,             \* history: the elements in the order pushed
          popped              \* history: how many were popped

queueVars == <<sq_head, sq_tail, s_next, sq_is_destroyed, freed>>
vars == <<queueVars, pc, got, pushed, popped>>

Pushed == {pushed[k] : k \in 1 .. Len(pushed)}

Init ==
  /\ sq_head = NULL /\ sq_tail = NULL
  /\ s_next = [i \in Items |-> NULL]
  /\ sq_is_destroyed = FALSE
  /\ freed = {}
  /\ pc = [c \in Consumers |-> "pop"]
  /\ got = [c \in Consumers |-> NULL]
  /\ pushed = <<>> /\ popped = 0

(* Slips the runs must notice: no wake-up, a tail kept by pop, the wrong   *)
(* element freed, a destroy loop that tests its condition last, a woken    *)
(* pop that gives up.                                                      *)
SlipNoWake == UNCHANGED pc
SlipTailKept(next) == sq_tail
SlipFreesNext(el) == s_next[el]
SlipDoWhile == {sq_head}
SlipGivesUp(c) ==
  /\ pc[c] = "woken"
  /\ pc' = [pc EXCEPT ![c] = "exited"]
  /\ UNCHANGED <<queueVars, got, pushed, popped>>

(* Wakes one waiting thread, if there is one.                              *)
event_notify_one ==
  LET waiting == {c \in Consumers : pc[c] = "waiting"}
  IN IF waiting = {} THEN UNCHANGED pc
     ELSE \E c \in waiting : pc' = [pc EXCEPT ![c] = "woken"]

event_notify_all ==
  pc' = [c \in Consumers |-> IF pc[c] = "waiting" THEN "woken" ELSE pc[c]]

(* An empty queue gets its head, a single head its tail, and a longer one  *)
(* a new tail.  Only the first case notifies.                              *)
squeue_push(i) ==
  /\ ~sq_is_destroyed /\ i \notin Pushed
  /\ pushed' = Append(pushed, i)
  /\ \/ /\ sq_head = NULL
        /\ sq_head' = i
        /\ event_notify_one
        /\ UNCHANGED <<sq_tail, s_next>>
     \/ /\ sq_head # NULL /\ sq_tail = NULL
        /\ sq_tail' = i
        /\ s_next' = [s_next EXCEPT ![sq_head] = i]
        /\ UNCHANGED <<sq_head, pc>>
     \/ /\ sq_head # NULL /\ sq_tail # NULL
        /\ s_next' = [s_next EXCEPT ![sq_tail] = i]
        /\ sq_tail' = i
        /\ UNCHANGED <<sq_head, pc>>
  /\ UNCHANGED <<sq_is_destroyed, freed, got, popped>>

(* The element squeue_pop gives to mp_free.                                *)
FreedByPop(el) == el

(* One element left and it is the head: no tail.                           *)
TailAfterPop(next) == IF sq_tail = next THEN NULL ELSE sq_tail

(* squeue_pop finds an element: it leaves the queue and is freed.          *)
PopTakes(c) ==
  /\ pc[c] = "pop" /\ sq_head # NULL /\ sq_head \notin freed
  /\ sq_head' = s_next[sq_head]
  /\ sq_tail' = TailAfterPop(s_next[sq_head])
  /\ freed' = freed \cup {FreedByPop(sq_head)}
  /\ got' = [got EXCEPT ![c] = sq_head]
  /\ pc' = [pc EXCEPT ![c] = "busy"]
  /\ popped' = popped + 1
  /\ UNCHANGED <<s_next, sq_is_destroyed, pushed>>

(* squeue_pop follows a head that squeue_destroy has freed: the outcome is *)
(* undefined, and the thread goes no further in this model.                *)
PopDangling(c) ==
  /\ pc[c] = "pop" /\ sq_head \in freed
  /\ pc' = [pc EXCEPT ![c] = "lost"]
  /\ UNCHANGED <<queueVars, got, pushed, popped>>

(* squeue_pop finds nothing and waits, whether or not the queue has been   *)
(* destroyed.                                                              *)
PopWaits(c) ==
  /\ pc[c] = "pop" /\ sq_head = NULL
  /\ pc' = [pc EXCEPT ![c] = "waiting"]
  /\ UNCHANGED <<queueVars, got, pushed, popped>>

(* After the wait, NULL is returned if the queue is destroyed and the      *)
(* consumer's loop ends; otherwise the pop starts again.                   *)
PopRetries(c) ==
  /\ pc[c] = "woken"
  /\ pc' = [pc EXCEPT ![c] = IF sq_is_destroyed THEN "exited" ELSE "pop"]
  /\ UNCHANGED <<queueVars, got, pushed, popped>>

SpuriousWake(c) ==
  /\ pc[c] = "waiting"
  /\ pc' = [pc EXCEPT ![c] = "woken"]
  /\ UNCHANGED <<queueVars, got, pushed, popped>>

(* The consumer is done with the item (reported, written) and pops again.  *)
Consume(c) ==
  /\ pc[c] = "busy"
  /\ pc' = [pc EXCEPT ![c] = "pop"]
  /\ UNCHANGED <<queueVars, got, pushed, popped>>

(* The loop "while(el != sq_tail)": the elements from the head along the   *)
(* links, the tail excluded.                                               *)
FreedByDestroy ==
  LET Closed(S) == /\ sq_head # sq_tail => sq_head \in S
                   /\ \A i \in S : s_next[i] \in S \cup {sq_tail}
  IN {i \in Items : \A S \in SUBSET Items : Closed(S) => i \in S}

squeue_destroy ==
  /\ ~sq_is_destroyed
  /\ freed' = freed \cup FreedByDestroy
  /\ sq_is_destroyed' = TRUE
  /\ event_notify_all
  /\ UNCHANGED <<sq_head, sq_tail, s_next, got, pushed, popped>>

Consumer(c) ==
  \/ PopTakes(c)
  \/ PopDangling(c)
  \/ PopWaits(c)
  \/ PopRetries(c)
  \/ Consume(c)

Next ==
  \/ \E i \in Items : squeue_push(i)
  \/ \E c \in Consumers : Consumer(c)
  \/ \E c \in Consumers : SpuriousWake(c)
  \/ squeue_destroy

Spec == Init /\ [][Next]_vars

(* Consumers are running threads: a step they can take is taken in the     *)
(* end.  Nothing forces a push, a destroy or a spurious wake-up.           *)
FairSpec == Spec /\ \A c \in Consumers : WF_vars(Consumer(c))
-----------------------------------------------------------------------------
Places == {"pop", "waiting", "woken", "busy", "exited", "lost"}

TypeOK ==
  /\ sq_head \in Items \cup {NULL} /\ sq_tail \in Items \cup {NULL}
  /\ s_next \in [Items -> Items \cup {NULL}]
  /\ sq_is_destroyed \in BOOLEAN
  /\ freed \subseteq Items
  /\ pc \in [Consumers -> Places]
  /\ got \in [Consumers -> Items \cup {NULL}]
  /\ pushed \in Seq(Items)
  /\ popped \in Nat /\ popped <= Len(pushed)

(* The three shapes squeue_push and squeue_pop tell apart by head and tail *)
(* alone: empty, a single head without tail, and a chain that ends in the  *)
(* tail (the assertion in squeue_push is a part of it).                    *)
Shape ==
  LET first == popped + 1
      last == Len(pushed)
  IN /\ \A j, k \in 1 .. last : pushed[j] = pushed[k] => j = k
     /\ first > last => sq_head = NULL /\ sq_tail = NULL
     /\ first = last => sq_head = pushed[first] /\ sq_tail = NULL
     /\ first < last => sq_head = pushed[first] /\ sq_tail = pushed[last]
     /\ \A k \in first .. last - 1 : s_next[pushed[k]] = pushed[k + 1]
     /\ first <= last => s_next[pushed[last]] = NULL

(* Nothing is freed twice or used after it is freed while the queue lives. *)
NoFreedInQueue ==
  ~sq_is_destroyed =>
    \A k \in popped + 1 .. Len(pushed) : pushed[k] \notin freed

(* Although only a push to an empty queue notifies, and notifies one       *)
(* thread, a queued element always has a consumer that is not asleep.      *)
NoStrandedElement ==
  (~sq_is_destroyed /\ sq_head # NULL) =>
    \E c \in Consumers : pc[c] \in {"pop", "woken", "busy"}

Fifo == INSTANCE SyncFifo WITH
          queue <- IF sq_is_destroyed THEN <<>>
                   ELSE SubSeq(pushed, popped + 1, Len(pushed)),
          closed <- sq_is_destroyed, None <- NULL

(* Every pop that returns an element returns the oldest one still queued,  *)
(* and no two pops return the same one.                                    *)
ImplementsFifo == Fifo!SyncSpec

(* Every pushed element is popped, unless the queue is destroyed first.    *)
EventuallyPopped ==
  \A i \in Items :
    i \in Pushed ~> (sq_is_destroyed \/ \E k \in 1 .. popped : pushed[k] = i)
=============================================================================
