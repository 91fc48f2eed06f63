----------------------------- MODULE QueueProofs ----------------------------
(***************************************************************************)
(* Proofs about the two queues, a component after the other.  The step     *)
(* queue, for every ring size and every input: its type invariant, the     *)
(* window between current and last step, that no unwritten slot is         *)
(* delivered, and that the ring implements the FIFO.  The synchronized     *)
(* queue, for any elements and consumers: its fields always form one of    *)
(* the three shapes, no element is freed twice, and it implements the      *)
(* closable FIFO.                                                          *)
(***************************************************************************)
EXTENDS StepQueue, SyncQueue, SequenceTheorems, TLAPS

(* Less than a turn of the ring apart, two steps have different slots.     *)
LEMMA SlotsDiffer ==
  ASSUME NEW i \in Int, NEW j \in Int, i < j, j < i + QSIZE
  PROVE  Slot(i) # Slot(j)
<1>1. QSIZE \in Int /\ QSIZE > 0
  BY QSizeAssumption
<1>2. ASSUME NEW k \in Int
      PROVE  k = QSIZE * (k \div QSIZE) + (k % QSIZE) /\ k \div QSIZE \in Int
  BY <1>1
<1>3. SUFFICES ASSUME i % QSIZE = j % QSIZE PROVE FALSE
  BY DEF Slot
<1> DEFINE d == (j \div QSIZE) - (i \div QSIZE)
<1>4. d \in Int
  BY <1>2
<1>5. j - i = QSIZE * d
  <2>1. j = QSIZE * (j \div QSIZE) + (j % QSIZE) BY <1>2
  <2>2. i = QSIZE * (i \div QSIZE) + (i % QSIZE) BY <1>2
  <2> QED BY <2>1, <2>2, <1>1, <1>2, <1>3
<1> HIDE DEF d
<1>6. CASE d <= 0
  <2>1. QSIZE * d <= 0 BY <1>6, <1>4, <1>1
  <2> QED BY <2>1, <1>5
<1>7. CASE d >= 1
  <2>1. QSIZE * d >= QSIZE BY <1>7, <1>4, <1>1
  <2> QED BY <2>1, <1>5, <1>1
<1> QED BY <1>4, <1>6, <1>7

(* Every step has a slot of the ring.                                      *)
LEMMA SlotInRing == ASSUME NEW i \in Int PROVE Slot(i) \in Slots
BY QSizeAssumption DEF Slot, Slots
-----------------------------------------------------------------------------
(* The queue's fields stay in their ranges: wl_last_step is only set to    *)
(* its successor, wl_current_step only grows.                              *)
THEOREM StepTypeCorrect == StepSpec => []StepTypeOK
<1> USE QSizeAssumption, InputAssumption
<1>1. StepInit => StepTypeOK
  BY DEF StepInit, StepTypeOK, Unset
<1>2. StepTypeOK /\ [StepNext]_stepVars => StepTypeOK'
  <2> SUFFICES ASSUME StepTypeOK, [StepNext]_stepVars PROVE StepTypeOK'
    OBVIOUS
  <2>1. ASSUME NEW id \in StepIds, NEW n \in Counts, wl_provide_step(id, n)
        PROVE  StepTypeOK'
    <3>1. reply' \in {"OK", "QUEUE_FULL", "INVALID"}
      BY <2>1 DEF wl_provide_step, ProvideResult
    <3>2. CASE reply' = "OK"
      <4>1. id = last_step + 1
        BY <2>1, <3>2 DEF wl_provide_step, ProvideResult, IsNext, IsFull
      <4> QED BY <2>1, <3>2, <4>1 DEF wl_provide_step, StepTypeOK
    <3>3. CASE reply' # "OK"
      BY <2>1, <3>1, <3>3 DEF wl_provide_step, StepTypeOK
    <3> QED BY <3>2, <3>3
  <2>2. CASE wl_advance_step
    <3>1. current_step + 1 \in Int BY DEF StepTypeOK
    <3>2. Slot(current_step + 1) \in Slots BY <3>1, SlotInRing
    <3>3. rqs_per_step[Slot(current_step + 1)] \in Counts \cup {Unset}
      BY <3>2 DEF StepTypeOK
    <3>4. rq_count' \in Counts \cup {Unset} /\ on_pool' \in BOOLEAN
      BY <2>2, <3>3 DEF wl_advance_step, StepTypeOK
    <3> QED BY <2>2, <3>4 DEF wl_advance_step, StepTypeOK
  <2>3. CASE UNCHANGED stepVars
    BY <2>3 DEF stepVars, StepTypeOK
  <2> QED BY <2>1, <2>2, <2>3 DEF StepNext
<1> QED BY <1>1, <1>2, PTL DEF StepSpec

(* At most QSIZE steps wait, and the current step passes the last provided *)
(* one only by the advance that detaches the workload.                     *)
THEOREM WindowCorrect == StepSpec => []WindowInv
<1> USE QSizeAssumption, InputAssumption
<1>1. StepInit => WindowInv
  BY DEF StepInit, WindowInv
<1>2. StepTypeOK /\ WindowInv /\ [StepNext]_stepVars => WindowInv'
  <2> SUFFICES ASSUME StepTypeOK, WindowInv, [StepNext]_stepVars PROVE WindowInv'
    OBVIOUS
  <2>1. ASSUME NEW id \in StepIds, NEW n \in Counts, wl_provide_step(id, n)
        PROVE  WindowInv'
    <3>1. CASE reply' = "OK"
      <4>1. id = last_step + 1 /\ last_step - current_step # QSIZE
        BY <2>1, <3>1 DEF wl_provide_step, ProvideResult, IsNext, IsFull
      <4> QED BY <2>1, <3>1, <4>1 DEF wl_provide_step, WindowInv, StepTypeOK
    <3>2. CASE reply' # "OK"
      BY <2>1, <3>2 DEF wl_provide_step, WindowInv
    <3> QED BY <3>1, <3>2
  <2>2. CASE wl_advance_step
    <3>1. /\ on_pool /\ last_step - current_step \in 0 .. QSIZE
          /\ current_step' = current_step + 1 /\ last_step' = last_step
      BY <2>2 DEF wl_advance_step, WindowInv
    <3>2. CASE current_step + 1 > last_step
      <4>1. ~on_pool'
        BY <2>2, <3>2 DEF wl_advance_step, NoSteps
      <4> QED BY <3>1, <3>2, <4>1 DEF WindowInv, StepTypeOK
    <3>3. CASE ~(current_step + 1 > last_step)
      BY <2>2, <3>1, <3>3 DEF wl_advance_step, NoSteps, WindowInv, StepTypeOK
    <3> QED BY <3>2, <3>3
  <2>3. CASE UNCHANGED stepVars
    BY <2>3 DEF stepVars, WindowInv
  <2> QED BY <2>1, <2>2, <2>3 DEF StepNext
<1> QED BY <1>1, <1>2, StepTypeCorrect, PTL DEF StepSpec

(* No slot the control thread still has to read is unwritten: providing a  *)
(* step writes a slot none of the waiting steps uses.                      *)
THEOREM NeverUnset == StepSpec => []NoUnsetStep
<1> USE QSizeAssumption, InputAssumption
<1>1. StepInit => NoUnsetStep
  BY DEF StepInit, NoUnsetStep
<1>2. StepTypeOK /\ WindowInv /\ NoUnsetStep /\ [StepNext]_stepVars => NoUnsetStep'
  <2> SUFFICES ASSUME StepTypeOK, WindowInv, NoUnsetStep, [StepNext]_stepVars,
                      on_pool',
                      NEW i \in current_step' + 1 .. last_step'
               PROVE  rqs_per_step'[Slot(i)] # Unset
    BY DEF NoUnsetStep
  <2>1. ASSUME NEW id \in StepIds, NEW n \in Counts, wl_provide_step(id, n)
        PROVE  rqs_per_step'[Slot(i)] # Unset
    <3>0. on_pool /\ i \in Int /\ i >= current_step + 1
      BY <2>1 DEF wl_provide_step, StepTypeOK
    <3>1. CASE reply' = "OK" /\ i = id
      <4>1. Slot(i) \in Slots BY <3>0, SlotInRing
      <4>2. rqs_per_step'[Slot(i)] = n
        BY <2>1, <3>1, <4>1 DEF wl_provide_step, StepTypeOK
      <4> QED BY <4>2 DEF Unset
    <3>2. CASE reply' = "OK" /\ i # id
      <4>1. id = last_step + 1 /\ last_step - current_step # QSIZE
        BY <2>1, <3>2 DEF wl_provide_step, ProvideResult, IsNext, IsFull
      <4>2. i < id /\ id < i + QSIZE /\ i \in current_step + 1 .. last_step
        BY <2>1, <3>0, <3>2, <4>1 DEF wl_provide_step, StepTypeOK, WindowInv
      <4>3. Slot(i) # Slot(id) /\ Slot(i) \in Slots
        BY <3>0, <4>2, SlotsDiffer, SlotInRing
      <4>4. rqs_per_step'[Slot(i)] = rqs_per_step[Slot(i)]
        BY <2>1, <3>2, <4>3 DEF wl_provide_step, StepTypeOK
      <4> QED BY <3>0, <4>2, <4>4 DEF NoUnsetStep
    <3>3. CASE reply' # "OK"
      BY <2>1, <3>0, <3>3 DEF wl_provide_step, NoUnsetStep
    <3> QED BY <3>1, <3>2, <3>3
  <2>2. CASE wl_advance_step
    BY <2>2 DEF wl_advance_step, NoUnsetStep, StepTypeOK
  <2>3. CASE UNCHANGED stepVars
    BY <2>3 DEF stepVars, NoUnsetStep
  <2> QED BY <2>1, <2>2, <2>3 DEF StepNext
<1> QED BY <1>1, <1>2, StepTypeCorrect, WindowCorrect, PTL DEF StepSpec
-----------------------------------------------------------------------------
(* The waiting steps, as a sequence of counts.                             *)
LEMMA WaitingIsSeq ==
  ASSUME StepTypeOK, WindowInv, on_pool
  PROVE  /\ Waiting \in Seq(Counts \cup {Unset})
         /\ Len(Waiting) = last_step - current_step
         /\ \A i \in 1 .. (last_step - current_step) :
               Waiting[i] = rqs_per_step[Slot(current_step + i)]
<1> USE QSizeAssumption
<1> DEFINE n == last_step - current_step
<1>1. n \in Nat
  BY DEF StepTypeOK, WindowInv
<1>2. ASSUME NEW i \in 1 .. n
      PROVE  rqs_per_step[Slot(current_step + i)] \in Counts \cup {Unset}
  <2>1. current_step + i \in Int BY <1>1 DEF StepTypeOK
  <2>2. Slot(current_step + i) \in Slots BY <2>1, SlotInRing
  <2> QED BY <2>2 DEF StepTypeOK
<1>3. Waiting = [i \in 1 .. n |-> rqs_per_step[Slot(current_step + i)]]
  BY DEF Waiting
<1> HIDE DEF n
<1>4. Waiting \in Seq(Counts \cup {Unset}) /\ Len(Waiting) = n
  BY <1>1, <1>2, <1>3
<1> QED BY <1>3, <1>4 DEF n

(* Providing a step appends its count to the waiting ones or refuses it.   *)
LEMMA ProvideRefines ==
  ASSUME StepTypeOK, WindowInv, StepTypeOK', WindowInv', NEW id \in StepIds,
         NEW n \in Counts, wl_provide_step(id, n), on_pool
  PROVE  Bounded!Accept(id, n) \/ Bounded!Refuse(id)
<1> USE QSizeAssumption, InputAssumption
<1>0. on_pool' = on_pool /\ current_step' = current_step /\ rq_count' = rq_count
  BY DEF wl_provide_step
<1>1. /\ Waiting \in Seq(Counts \cup {Unset})
      /\ Len(Waiting) = last_step - current_step
      /\ \A i \in 1 .. (last_step - current_step) :
            Waiting[i] = rqs_per_step[Slot(current_step + i)]
  BY WaitingIsSeq
<1>2. CASE reply' = "OK"
  <2>1. id = last_step + 1 /\ last_step - current_step # QSIZE
    BY <1>2 DEF wl_provide_step, ProvideResult, IsNext, IsFull
  <2>2. last_step' = id /\ rqs_per_step' = [rqs_per_step EXCEPT ![Slot(id)] = n]
    BY <1>2 DEF wl_provide_step
  <2>3. Waiting' = [i \in 1 .. (id - current_step) |->
                      rqs_per_step'[Slot(current_step + i)]]
    BY <1>0, <2>2 DEF Waiting
  <2>4. ASSUME NEW i \in 1 .. (last_step - current_step)
        PROVE  rqs_per_step'[Slot(current_step + i)] = Waiting[i]
    <3>1. /\ current_step + i \in Int /\ id \in Int
          /\ current_step + i < id /\ id < current_step + i + QSIZE
      BY <2>1 DEF StepTypeOK, WindowInv
    <3>2. Slot(current_step + i) # Slot(id) /\ Slot(current_step + i) \in Slots
      BY <3>1, SlotsDiffer, SlotInRing
    <3> QED BY <1>1, <2>2, <3>2 DEF StepTypeOK
  <2>5. rqs_per_step'[Slot(id)] = n
    <3>1. Slot(id) \in Slots BY <2>1, SlotInRing DEF StepTypeOK
    <3> QED BY <2>2, <3>1 DEF StepTypeOK
  <2>6. Waiting' = Append(Waiting, n)
    <3>1. id - current_step = (last_step - current_step) + 1
          /\ last_step - current_step \in Nat
      BY <2>1 DEF StepTypeOK, WindowInv
    <3>2. current_step + ((last_step - current_step) + 1) = id
      BY <2>1 DEF StepTypeOK
    <3> DEFINE k == last_step - current_step
               w == Waiting
               f(i) == rqs_per_step'[Slot(current_step + i)]
    <3>3. Waiting' = [i \in 1 .. k + 1 |-> f(i)] BY <2>3, <3>1
    <3>4. \A i \in 1 .. k : f(i) = w[i] BY <2>4
    <3>5. f(k + 1) = n BY <2>5, <3>2
    <3>6. w \in Seq(Counts \cup {Unset}) /\ Len(w) = k BY <1>1
    <3> HIDE DEF k, w, f
    <3>7. [i \in 1 .. k + 1 |-> f(i)] = Append(w, n)
      <4> DEFINE S == Counts \cup {Unset}
                 t == [i \in 1 .. k + 1 |-> f(i)]
      <4>1. k \in Nat BY <3>1 DEF k
      <4>2. n \in S OBVIOUS
      <4>3. \A i \in 1 .. k : w[i] \in S BY <3>6, ElementOfSeq
      <4> HIDE DEF S
      <4>4. t \in Seq(S) /\ Len(t) = k + 1
        BY <3>4, <3>5, <4>1, <4>2, <4>3
      <4>5. /\ Append(w, n) \in Seq(S) /\ Len(Append(w, n)) = k + 1
            /\ \A i \in 1 .. k : Append(w, n)[i] = w[i]
            /\ Append(w, n)[k + 1] = n
        BY <3>6, <4>2, AppendProperties DEF S
      <4>6. \A i \in 1 .. Len(t) : t[i] = Append(w, n)[i]
        BY <3>4, <3>5, <4>1, <4>4, <4>5
      <4> QED BY <4>4, <4>5, <4>6, SeqEqual
    <3> QED BY <3>3, <3>7 DEF w
  <2> QED
    BY <1>0, <1>1, <1>2, <2>1, <2>2, <2>6 DEF Bounded!Accept
<1>3. CASE reply' # "OK"
  <2>1. UNCHANGED <<last_step, rqs_per_step>>
    BY <1>3 DEF wl_provide_step
  <2>2. Waiting' = Waiting BY <1>0, <2>1 DEF Waiting
  <2>3. /\ last_step - current_step = QSIZE \/ id # last_step + 1
        /\ reply' = IF last_step - current_step = QSIZE
                      THEN "QUEUE_FULL" ELSE "INVALID"
    BY <1>3 DEF wl_provide_step, ProvideResult, IsNext, IsFull
  <2> QED BY <1>0, <1>1, <2>1, <2>2, <2>3 DEF Bounded!Refuse
<1> QED BY <1>2, <1>3

(* Advancing hands over the oldest waiting count, or finishes.             *)
LEMMA AdvanceRefines ==
  ASSUME StepTypeOK, WindowInv, StepTypeOK', WindowInv', wl_advance_step
  PROVE  Bounded!Take \/ Bounded!Finish
<1> USE QSizeAssumption, InputAssumption
<1>0. /\ on_pool /\ current_step' = current_step + 1
      /\ UNCHANGED <<last_step, rqs_per_step, reply>>
  BY DEF wl_advance_step
<1>1. /\ Waiting \in Seq(Counts \cup {Unset})
      /\ Len(Waiting) = last_step - current_step
      /\ \A i \in 1 .. (last_step - current_step) :
            Waiting[i] = rqs_per_step[Slot(current_step + i)]
  BY <1>0, WaitingIsSeq
<1>2. CASE current_step + 1 > last_step
  <2>1. last_step - current_step = 0
    BY <1>0, <1>2 DEF StepTypeOK, WindowInv
  <2>2. Waiting = <<>> BY <1>1, <2>1
  <2>3. on_pool' = FALSE /\ rq_count' = rq_count
    BY <1>2 DEF wl_advance_step, NoSteps
  <2>4. Waiting' = <<>> BY <2>3 DEF Waiting
  <2> QED BY <1>0, <2>2, <2>3, <2>4 DEF Bounded!Finish
<1>3. CASE ~(current_step + 1 > last_step)
  <2> DEFINE k == last_step - current_step
  <2>1. k \in Nat /\ k >= 1
    BY <1>0, <1>3 DEF StepTypeOK, WindowInv
  <2>2. /\ on_pool' = on_pool
        /\ rq_count' = rqs_per_step[Slot(current_step + 1)]
    BY <1>3 DEF wl_advance_step, NoSteps
  <2>3. Waiting' = [i \in 1 .. (last_step - (current_step + 1)) |->
                      rqs_per_step[Slot((current_step + 1) + i)]]
    BY <1>0, <2>2 DEF Waiting
  <2>4. Head(Waiting) = rq_count' /\ Waiting # <<>>
    BY <1>1, <2>1, <2>2
  <2>5. Waiting' = Tail(Waiting)
    <3> DEFINE S == Counts \cup {Unset}
    <3>1. /\ Tail(Waiting) \in Seq(S) /\ Len(Tail(Waiting)) = k - 1
          /\ \A i \in 1 .. (k - 1) : Tail(Waiting)[i] = Waiting[i + 1]
      BY <1>1, <2>4, HeadTailProperties
    <3>2. last_step - (current_step + 1) = k - 1 BY DEF StepTypeOK
    <3>3. ASSUME NEW i \in 1 .. (k - 1)
          PROVE  /\ rqs_per_step[Slot((current_step + 1) + i)] = Waiting[i + 1]
                 /\ Waiting[i + 1] \in S
      <4>1. i + 1 \in 1 .. k /\ (current_step + 1) + i = current_step + (i + 1)
        BY <2>1 DEF StepTypeOK
      <4> QED BY <1>1, <4>1, ElementOfSeq
    <3>4. Waiting' = [i \in 1 .. (k - 1) |-> Waiting[i + 1]]
      BY <2>3, <3>2, <3>3
    <3>5. k - 1 \in Nat BY <2>1
    <3> HIDE DEF k, S
    <3>6. Waiting' \in Seq(S) /\ Len(Waiting') = k - 1
          /\ \A i \in 1 .. (k - 1) : Waiting'[i] = Waiting[i + 1]
      BY <3>3, <3>4, <3>5
    <3> QED BY <3>1, <3>6, SeqEqual
  <2> QED BY <1>0, <2>2, <2>4, <2>5 DEF Bounded!Take
<1> QED BY <1>2, <1>3

(* The ring implements the FIFO: each accepted step is delivered once,     *)
(* with its own count and in order, for every ring size and every feeder.  *)
THEOREM RingImplementsFifo == StepSpec => StepsImplementFifo
<1> USE QSizeAssumption, InputAssumption
<1>1. StepInit => Bounded!FifoInit
  <2> SUFFICES ASSUME StepInit PROVE Bounded!FifoInit
    OBVIOUS
  <2>1. Waiting = <<>>
    BY DEF StepInit, Waiting
  <2> QED BY <2>1 DEF StepInit, Bounded!FifoInit, Bounded!NoCount, Unset
<1>2. StepTypeOK /\ WindowInv /\ StepTypeOK' /\ WindowInv' /\ [StepNext]_stepVars
        => [Bounded!FifoNext]_(Bounded!fifoVars)
  <2> SUFFICES ASSUME StepTypeOK, WindowInv, StepTypeOK', WindowInv', [StepNext]_stepVars
               PROVE  Bounded!FifoNext \/ UNCHANGED Bounded!fifoVars
    OBVIOUS
  <2>1. ASSUME NEW id \in StepIds, NEW n \in Counts, wl_provide_step(id, n)
        PROVE  Bounded!FifoNext
    <3>1. CASE on_pool
      BY <2>1, <3>1, ProvideRefines DEF Bounded!FifoNext
    <3>2. CASE ~on_pool
      <4>1. on_pool' = on_pool /\ rq_count' = rq_count
            /\ reply' \in {"OK", "QUEUE_FULL", "INVALID"}
        BY <2>1 DEF wl_provide_step, ProvideResult
      <4>2. Waiting' = Waiting BY <3>2, <4>1 DEF Waiting
      <4>3. last_step' \in {last_step, last_step + 1}
        BY <2>1 DEF wl_provide_step, ProvideResult, IsNext, IsFull
      <4>4. last_step' + 1 \in {last_step + 1, last_step + 1 + 1}
        BY <4>3
      <4>5. Bounded!TooLate
        BY <3>2, <4>1, <4>2, <4>4 DEF Bounded!TooLate, Bounded!Replies
      <4> QED BY <4>5 DEF Bounded!FifoNext
    <3> QED BY <3>1, <3>2
  <2>2. CASE wl_advance_step
    BY <2>2, AdvanceRefines DEF Bounded!FifoNext
  <2>3. CASE UNCHANGED stepVars
    BY <2>3 DEF stepVars, Waiting, Bounded!fifoVars
  <2> QED BY <2>1, <2>2, <2>3 DEF StepNext
<1> QED
  BY <1>1, <1>2, StepTypeCorrect, WindowCorrect, PTL
     DEF StepSpec, StepsImplementFifo, Bounded!FifoSpec
-----------------------------------------------------------------------------
(* The synchronized queue.                                                 *)

(* An element that was not pushed yet has no link.                         *)
FreshLinks == \A i \in Items : i \notin Pushed => s_next[i] = NULL

(* squeue_destroy leaves nothing a pop could take.                         *)
DeadHead == sq_is_destroyed => sq_head = NULL \/ sq_head \in freed

(* The elements freed before the destruction are those popped.             *)
FreedArePopped ==
  ~sq_is_destroyed => \A i \in freed : \E k \in 1 .. popped : i = pushed[k]

QueueInv == TypeOK /\ Shape /\ FreshLinks /\ DeadHead /\ FreedArePopped

(* The window of a sequence grows at its end and shrinks at its front.     *)
LEMMA WindowAppend ==
  ASSUME NEW S, NEW s \in Seq(S), NEW x \in S, NEW m \in Nat, m <= Len(s)
  PROVE  SubSeq(Append(s, x), m + 1, Len(Append(s, x)))
           = Append(SubSeq(s, m + 1, Len(s)), x)
<1> DEFINE n == Len(s)
           a == Append(s, x)
           w == SubSeq(s, m + 1, n)
           lhs == SubSeq(a, m + 1, n + 1)
           rhs == Append(w, x)
<1>1. n \in Nat /\ m <= n /\ \A k \in 1 .. n : s[k] \in S
  BY ElementOfSeq
<1>2. /\ a \in Seq(S) /\ Len(a) = n + 1
      /\ \A k \in 1 .. n : a[k] = s[k]
      /\ a[n + 1] = x
  BY AppendProperties
<1>3. \A k \in m + 1 .. n + 1 : a[k] \in S
  BY <1>1, <1>2, ElementOfSeq
<1> HIDE DEF n, a
<1>4. /\ lhs \in Seq(S) /\ Len(lhs) = n - m + 1
      /\ \A k \in 1 .. n - m + 1 : lhs[k] = a[m + k]
  <2>1. m + 1 \in Int /\ n + 1 \in Int BY <1>1
  <2>2. /\ lhs \in Seq(S)
        /\ Len(lhs) = IF m + 1 <= n + 1 THEN (n + 1) - (m + 1) + 1 ELSE 0
        /\ \A k \in 1 .. (n + 1) - (m + 1) + 1 : lhs[k] = a[(m + 1) + k - 1]
    BY <1>3, <2>1, SubSeqProperties
  <2> QED BY <1>1, <2>2
<1>5. /\ w \in Seq(S) /\ Len(w) = n - m
      /\ \A k \in 1 .. n - m : w[k] = s[m + k]
  <2>1. m + 1 \in Int /\ n \in Int /\ \A k \in m + 1 .. n : s[k] \in S BY <1>1
  <2>2. /\ w \in Seq(S)
        /\ Len(w) = IF m + 1 <= n THEN n - (m + 1) + 1 ELSE 0
        /\ \A k \in 1 .. n - (m + 1) + 1 : w[k] = s[(m + 1) + k - 1]
    BY <2>1, SubSeqProperties
  <2> QED BY <1>1, <2>2
<1> HIDE DEF w, lhs
<1>6. /\ rhs \in Seq(S) /\ Len(rhs) = n - m + 1
      /\ \A k \in 1 .. n - m : rhs[k] = w[k]
      /\ rhs[n - m + 1] = x
  BY <1>5, AppendProperties
<1> HIDE DEF rhs
<1>7. ASSUME NEW k \in 1 .. n - m + 1 PROVE lhs[k] = rhs[k]
  <2>1. CASE k = n - m + 1
    BY <1>1, <1>2, <1>4, <1>6, <2>1
  <2>2. CASE k # n - m + 1
    <3>1. k \in 1 .. n - m /\ m + k \in 1 .. n BY <1>1, <2>2
    <3> QED BY <1>2, <1>4, <1>5, <1>6, <3>1
  <2> QED BY <2>1, <2>2
<1>8. lhs = rhs
  BY <1>4, <1>6, <1>7, SeqEqual
<1> QED BY <1>2, <1>8 DEF lhs, rhs, w, a, n

(* What is left of a window when its first element is taken: the tail.     *)
LEMMA WindowTail ==
  ASSUME NEW S, NEW s \in Seq(S), NEW m \in Nat, m < Len(s)
  PROVE  /\ SubSeq(s, m + 1, Len(s)) # <<>>
         /\ Head(SubSeq(s, m + 1, Len(s))) = s[m + 1]
         /\ Tail(SubSeq(s, m + 1, Len(s))) = SubSeq(s, m + 2, Len(s))
<1>1. m + 1 \in 1 .. Len(s) /\ Len(s) \in m + 1 .. Len(s) /\ (m + 1) + 1 = m + 2
  OBVIOUS
<1>2. \A k \in m + 1 .. Len(s) : s[k] \in S
  BY ElementOfSeq
<1>3. Len(SubSeq(s, m + 1, Len(s))) = Len(s) - m
  BY <1>1, <1>2, SubSeqProperties
<1>4. /\ Head(SubSeq(s, m + 1, Len(s))) = s[m + 1]
      /\ Tail(SubSeq(s, m + 1, Len(s))) = SubSeq(s, (m + 1) + 1, Len(s))
  BY <1>1, HeadTailOfSubSeq
<1>5. SubSeq(s, m + 1, Len(s)) # <<>>
  <2> SUFFICES ASSUME SubSeq(s, m + 1, Len(s)) = <<>> PROVE FALSE
    OBVIOUS
  <2>1. Len(<<>>) = 0 OBVIOUS
  <2>2. Len(s) - m = 0 BY <1>3, <2>1
  <2> QED BY <2>2, <1>1
<1> QED BY <1>1, <1>4, <1>5

(* A head is a pushed element, the next to be popped.                      *)
LEMMA HeadIsNext ==
  ASSUME TypeOK, Shape, sq_head # NULL
  PROVE  /\ popped < Len(pushed)
         /\ sq_head = pushed[popped + 1] /\ sq_head \in Items
         /\ sq_head # sq_tail
BY QueueAssumption DEF TypeOK, Shape

(* A queue without a head is empty: there is no tail and no element.       *)
LEMMA NoHeadNoElement ==
  ASSUME TypeOK, Shape, sq_head = NULL
  PROVE  popped = Len(pushed) /\ sq_tail = NULL
BY QueueAssumption DEF TypeOK, Shape
-----------------------------------------------------------------------------
(* squeue_init establishes the invariant.                                  *)
LEMMA InitQueue == Init => QueueInv
<1> SUFFICES ASSUME Init PROVE QueueInv
  OBVIOUS
<1>1. pushed \in Seq(Items) /\ Len(pushed) = 0
  BY DEF Init
<1>2. TypeOK
  <2>1. s_next \in [Items -> Items \cup {NULL}] /\ freed \subseteq Items
    BY DEF Init
  <2>2. /\ pc \in [Consumers -> Places]
        /\ got \in [Consumers -> Items \cup {NULL}]
    BY DEF Init, Places
  <2>3. popped \in Nat /\ popped <= Len(pushed)
    BY <1>1 DEF Init
  <2> QED BY <1>1, <2>1, <2>2, <2>3 DEF Init, TypeOK
<1>3. Shape
  BY <1>1 DEF Init, Shape
<1>4. FreshLinks /\ DeadHead /\ FreedArePopped
  BY DEF Init, FreshLinks, DeadHead, FreedArePopped
<1> QED BY <1>2, <1>3, <1>4 DEF QueueInv

(* A push: the three shapes become the single or the longer one.           *)
LEMMA PushKeeps ==
  ASSUME QueueInv, NEW i \in Items, squeue_push(i)
  PROVE  QueueInv'
<1> USE QueueAssumption
<1> DEFINE n == Len(pushed)
<1>1. /\ pushed' = Append(pushed, i) /\ popped' = popped /\ freed' = freed
      /\ ~sq_is_destroyed /\ ~sq_is_destroyed' /\ i \notin Pushed
      /\ UNCHANGED <<sq_is_destroyed, got>>
  BY DEF squeue_push
<1>2. /\ pushed \in Seq(Items) /\ n \in Nat /\ popped \in Nat /\ popped <= n
  BY DEF QueueInv, TypeOK
<1>3. /\ pushed' \in Seq(Items) /\ Len(pushed') = n + 1
      /\ \A k \in 1 .. n : pushed'[k] = pushed[k]
      /\ pushed'[n + 1] = i
  BY <1>1, <1>2, AppendProperties
<1>4. \A k \in 1 .. n : pushed[k] \in Items /\ pushed[k] # i /\ pushed[k] \in Pushed
  BY <1>1, <1>2, ElementOfSeq DEF Pushed
<1>5. s_next[i] = NULL
  BY <1>1 DEF QueueInv, FreshLinks
<1>6. TypeOK'
  <2>1. sq_head' \in Items \cup {NULL} /\ sq_tail' \in Items \cup {NULL}
        /\ s_next' \in [Items -> Items \cup {NULL}]
    BY DEF squeue_push, QueueInv, TypeOK
  <2>2. pc' \in [Consumers -> Places]
    <3>1. CASE UNCHANGED pc BY <3>1 DEF QueueInv, TypeOK
    <3>2. CASE event_notify_one
      BY <3>2 DEF event_notify_one, QueueInv, TypeOK, Places
    <3> QED BY <3>1, <3>2 DEF squeue_push
  <2> QED BY <1>1, <1>2, <1>3, <2>1, <2>2 DEF QueueInv, TypeOK
<1>7. Shape'
  <2>1. \A j, k \in 1 .. n + 1 : pushed'[j] = pushed'[k] => j = k
    <3>1. \A j, k \in 1 .. n : pushed[j] = pushed[k] => j = k
      BY DEF QueueInv, Shape
    <3>2. \A j \in 1 .. n + 1 : j = n + 1 \/ j \in 1 .. n BY <1>2
    <3> QED BY <1>2, <1>3, <1>4, <3>1, <3>2
  <2>2. CASE sq_head = NULL
    <3>1. popped = n /\ sq_tail = NULL
      BY <2>2, NoHeadNoElement DEF QueueInv
    <3>2. sq_head' = i /\ sq_tail' = NULL /\ s_next' = s_next
      BY <2>2, <3>1 DEF squeue_push
    <3> QED BY <1>1, <1>2, <1>3, <1>5, <2>1, <3>1, <3>2 DEF Shape
  <2>3. CASE sq_head # NULL /\ sq_tail = NULL
    <3>1. popped + 1 = n /\ sq_head = pushed[n] /\ sq_head \in Items
      <4>1. popped < n /\ sq_head = pushed[popped + 1] /\ sq_head \in Items
        BY <2>3, HeadIsNext DEF QueueInv
      <4>2. ~(popped + 1 < n)
        BY <1>2, <1>4, <2>3 DEF QueueInv, Shape
      <4> QED BY <1>2, <4>1, <4>2
    <3>2. /\ sq_head' = sq_head /\ sq_tail' = i
          /\ s_next' = [s_next EXCEPT ![sq_head] = i]
      BY <2>3 DEF squeue_push
    <3>3. s_next'[pushed[n]] = i /\ s_next'[i] = NULL
      BY <1>2, <1>4, <1>5, <3>1, <3>2 DEF QueueInv, TypeOK
    <3> QED BY <1>1, <1>2, <1>3, <2>1, <3>1, <3>2, <3>3 DEF Shape
  <2>4. CASE sq_head # NULL /\ sq_tail # NULL
    <3>1. popped + 1 < n /\ sq_head = pushed[popped + 1] /\ sq_tail = pushed[n]
      <4>1. popped < n /\ sq_head = pushed[popped + 1]
        BY <2>4, HeadIsNext DEF QueueInv
      <4>2. popped + 1 # n BY <1>2, <2>4 DEF QueueInv, Shape
      <4>3. popped + 1 < n BY <1>2, <4>1, <4>2
      <4> QED BY <1>2, <4>1, <4>3 DEF QueueInv, Shape
    <3>2. /\ sq_head' = sq_head /\ sq_tail' = i
          /\ s_next' = [s_next EXCEPT ![sq_tail] = i]
      BY <2>4 DEF squeue_push
    <3>3. s_next'[pushed[n]] = i /\ s_next'[i] = NULL
      BY <1>2, <1>4, <1>5, <3>1, <3>2 DEF QueueInv, TypeOK
    <3>4. \A k \in popped + 1 .. n - 1 : s_next'[pushed[k]] = pushed[k + 1]
      <4> TAKE k \in popped + 1 .. n - 1
      <4>1. k \in 1 .. n /\ n \in 1 .. n /\ k # n BY <1>2, <3>1
      <4>2. pushed[k] # pushed[n] BY <4>1 DEF QueueInv, Shape
      <4>3. s_next'[pushed[k]] = s_next[pushed[k]]
        BY <1>4, <3>1, <3>2, <4>1, <4>2 DEF QueueInv, TypeOK
      <4> QED BY <4>3 DEF QueueInv, Shape
    <3>5. \A k \in popped + 1 .. n : s_next'[pushed'[k]] = pushed'[k + 1]
      <4> TAKE k \in popped + 1 .. n
      <4>1. k \in 1 .. n BY <1>2
      <4>2. CASE k = n BY <1>3, <3>3, <4>1, <4>2
      <4>3. CASE k # n
        <5>1. k \in popped + 1 .. n - 1 /\ k + 1 \in 1 .. n BY <1>2, <4>3
        <5> QED BY <1>3, <3>4, <4>1, <5>1
      <4> QED BY <4>2, <4>3
    <3>6. pushed'[popped + 1] = pushed[popped + 1] BY <1>2, <1>3, <3>1
    <3> DEFINE l == Len(pushed')
    <3>7. /\ l = n + 1 /\ popped' = popped
          /\ sq_head' = pushed'[popped' + 1] /\ sq_tail' = pushed'[l]
          /\ s_next'[pushed'[l]] = NULL
      BY <1>1, <1>3, <3>1, <3>2, <3>3, <3>6
    <3>8. /\ popped' + 1 < l /\ l - 1 = n
          /\ ~(popped' + 1 > l) /\ popped' + 1 # l
      BY <1>2, <3>1, <3>7
    <3>9. \A k \in popped' + 1 .. l - 1 : s_next'[pushed'[k]] = pushed'[k + 1]
      BY <3>5, <3>7, <3>8
    <3>10. \A j, k \in 1 .. l : pushed'[j] = pushed'[k] => j = k
      BY <2>1, <3>7
    <3> HIDE DEF l
    <3> QED BY <3>7, <3>8, <3>9, <3>10 DEF Shape, l
  <2> QED BY <2>2, <2>3, <2>4
<1>8. FreshLinks'
  <2> SUFFICES ASSUME NEW j \in Items, j \notin Pushed' PROVE s_next'[j] = NULL
    BY DEF FreshLinks
  <2>1. j # i /\ j \notin Pushed
    <3>1. \A k \in 1 .. n + 1 : pushed'[k] # j BY <1>3 DEF Pushed
    <3> QED BY <1>2, <1>3, <3>1 DEF Pushed
  <2>2. s_next[j] = NULL BY <2>1 DEF QueueInv, FreshLinks
  <2>3. sq_head # NULL => sq_head \in Pushed
    <3> SUFFICES ASSUME sq_head # NULL PROVE sq_head \in Pushed OBVIOUS
    <3>1. popped < n /\ sq_head = pushed[popped + 1]
      BY HeadIsNext DEF QueueInv
    <3> QED BY <1>2, <1>4, <3>1
  <2>4. sq_head # NULL /\ sq_tail # NULL => sq_tail \in Pushed
    <3> SUFFICES ASSUME sq_head # NULL, sq_tail # NULL PROVE sq_tail \in Pushed
      OBVIOUS
    <3>1. popped < n BY HeadIsNext DEF QueueInv
    <3>2. popped + 1 # n BY <1>2 DEF QueueInv, Shape
    <3>3. popped + 1 < n BY <1>2, <3>1, <3>2
    <3>4. sq_tail = pushed[n] BY <1>2, <3>3 DEF QueueInv, Shape
    <3> QED BY <1>2, <1>4, <3>3, <3>4
  <2>5. s_next'[j] = s_next[j]
    BY <2>1, <2>3, <2>4 DEF squeue_push, QueueInv, TypeOK
  <2> QED BY <2>2, <2>5
<1>9. DeadHead'
  BY <1>1 DEF DeadHead
<1>10. FreedArePopped'
  <2> SUFFICES ASSUME NEW j \in freed PROVE \E k \in 1 .. popped : j = pushed'[k]
    BY <1>1 DEF FreedArePopped
  <2>1. PICK k \in 1 .. popped : j = pushed[k]
    BY <1>1 DEF QueueInv, FreedArePopped
  <2> QED BY <1>2, <1>3, <2>1
<1> QED BY <1>6, <1>7, <1>8, <1>9, <1>10 DEF QueueInv

(* A pop that takes the head: what is left has one shape again, and the    *)
(* element was not freed before.                                           *)
LEMMA PopKeeps ==
  ASSUME QueueInv, NEW c \in Consumers, PopTakes(c)
  PROVE  QueueInv'
<1> USE QueueAssumption
<1> DEFINE n == Len(pushed)
           m == popped + 1
<1>1. /\ pushed' = pushed /\ popped' = m /\ s_next' = s_next
      /\ sq_is_destroyed' = sq_is_destroyed
      /\ freed' = freed \cup {sq_head}
      /\ sq_head' = s_next[sq_head]
      /\ sq_tail' = IF sq_tail = sq_head' THEN NULL ELSE sq_tail
      /\ sq_head # NULL /\ sq_head \notin freed
  BY DEF PopTakes, FreedByPop, TailAfterPop
<1>2. /\ pushed \in Seq(Items) /\ n \in Nat /\ popped \in Nat
      /\ \A k \in 1 .. n : pushed[k] \in Items
      /\ \A j, k \in 1 .. n : pushed[j] = pushed[k] => j = k
  BY ElementOfSeq DEF QueueInv, TypeOK, Shape
<1>3. /\ popped < n /\ sq_head = pushed[m] /\ sq_head \in Items
      /\ m \in 1 .. n
  BY <1>1, <1>2, HeadIsNext DEF QueueInv
<1>4. TypeOK'
  <2>1. sq_head' \in Items \cup {NULL} /\ sq_tail' \in Items \cup {NULL}
    BY <1>1, <1>3 DEF QueueInv, TypeOK
  <2>2. pc' \in [Consumers -> Places] /\ got' \in [Consumers -> Items \cup {NULL}]
    BY <1>3 DEF PopTakes, QueueInv, TypeOK, Places
  <2> QED BY <1>1, <1>2, <1>3, <2>1, <2>2 DEF QueueInv, TypeOK
<1>5. Shape'
  <2>1. CASE m = n
    <3>1. sq_tail = NULL /\ s_next[pushed[n]] = NULL
      BY <1>2, <2>1 DEF QueueInv, Shape
    <3>2. sq_head' = NULL /\ sq_tail' = NULL
      BY <1>1, <1>3, <2>1, <3>1
    <3> QED BY <1>1, <1>2, <1>3, <2>1, <3>2 DEF Shape
  <2>2. CASE m < n
    <3>1. /\ sq_tail = pushed[n] /\ s_next[pushed[n]] = NULL
          /\ s_next[pushed[m]] = pushed[m + 1]
      BY <1>2, <1>3, <2>2 DEF QueueInv, Shape
    <3>2. sq_head' = pushed[m + 1]
      BY <1>1, <1>3, <3>1
    <3>3. m + 1 \in 1 .. n /\ n \in 1 .. n BY <1>2, <1>3, <2>2
    <3>4. m + 1 = n => sq_tail' = NULL
      BY <1>1, <3>1, <3>2
    <3>5. m + 1 < n => sq_tail' = pushed[n]
      BY <1>1, <1>2, <3>1, <3>2, <3>3
    <3>6. \A k \in m + 1 .. n - 1 : s_next'[pushed[k]] = pushed[k + 1]
      BY <1>1, <1>2 DEF QueueInv, Shape
    <3> QED BY <1>1, <1>2, <1>3, <2>2, <3>1, <3>2, <3>4, <3>5, <3>6 DEF Shape
  <2> QED BY <1>2, <1>3, <2>1, <2>2
<1>6. FreshLinks'
  BY <1>1 DEF QueueInv, FreshLinks, Pushed
<1>7. DeadHead'
  BY <1>1, <1>3 DEF QueueInv, DeadHead
<1>8. FreedArePopped'
  <2> SUFFICES ASSUME ~sq_is_destroyed, NEW j \in freed \cup {sq_head}
               PROVE  \E k \in 1 .. m : j = pushed[k]
    BY <1>1 DEF FreedArePopped
  <2>1. CASE j = sq_head
    BY <1>2, <1>3, <2>1
  <2>2. CASE j \in freed
    <3>1. PICK k \in 1 .. popped : j = pushed[k]
      BY <2>2 DEF QueueInv, FreedArePopped
    <3> QED BY <1>2, <3>1
  <2> QED BY <2>1, <2>2
<1> QED BY <1>4, <1>5, <1>6, <1>7, <1>8 DEF QueueInv

(* The destruction keeps the fields but frees the head.                    *)
LEMMA DestroyKeeps ==
  ASSUME QueueInv, squeue_destroy
  PROVE  QueueInv'
<1>1. /\ UNCHANGED <<sq_head, sq_tail, s_next, got, pushed, popped>>
      /\ sq_is_destroyed' = TRUE
      /\ freed' = freed \cup FreedByDestroy
  BY DEF squeue_destroy
<1>2. FreedByDestroy \subseteq Items
  BY DEF FreedByDestroy
<1>3. TypeOK'
  BY <1>1, <1>2 DEF squeue_destroy, event_notify_all, QueueInv, TypeOK, Places
<1>4. Shape'
  BY <1>1 DEF QueueInv, Shape
<1>5. FreshLinks'
  BY <1>1 DEF QueueInv, FreshLinks, Pushed
<1>6. DeadHead'
  <2> SUFFICES ASSUME sq_head # NULL PROVE sq_head \in FreedByDestroy
    BY <1>1 DEF DeadHead
  <2>1. sq_head \in Items /\ sq_head # sq_tail
    BY HeadIsNext DEF QueueInv
  <2> QED BY <2>1 DEF FreedByDestroy
<1>7. FreedArePopped'
  BY <1>1 DEF FreedArePopped
<1> QED BY <1>3, <1>4, <1>5, <1>6, <1>7 DEF QueueInv

(* The other steps of a consumer move only the consumer.                   *)
LEMMA WaitingKeeps ==
  ASSUME QueueInv, UNCHANGED <<queueVars, got, pushed, popped>>,
         pc' \in [Consumers -> Places]
  PROVE  QueueInv'
BY DEF QueueInv, TypeOK, Shape, FreshLinks, DeadHead, FreedArePopped, Pushed,
       queueVars

(* Every push, pop, wait, wake-up and destruction keeps the invariant.     *)
LEMMA QueueInvInductive == QueueInv /\ [Next]_vars => QueueInv'
<1> SUFFICES ASSUME QueueInv, [Next]_vars PROVE QueueInv'
  OBVIOUS
<1>1. ASSUME NEW i \in Items, squeue_push(i) PROVE QueueInv'
  BY <1>1, PushKeeps
<1>2. ASSUME NEW c \in Consumers, PopTakes(c) PROVE QueueInv'
  BY <1>2, PopKeeps
<1>3. ASSUME NEW c \in Consumers,
             PopDangling(c) \/ PopWaits(c) \/ PopRetries(c) \/ Consume(c)
               \/ SpuriousWake(c)
      PROVE  QueueInv'
  <2>1. UNCHANGED <<queueVars, got, pushed, popped>>
    BY <1>3 DEF PopDangling, PopWaits, PopRetries, Consume, SpuriousWake
  <2>2. pc' \in [Consumers -> Places]
    BY <1>3 DEF PopDangling, PopWaits, PopRetries, Consume, SpuriousWake,
                QueueInv, TypeOK, Places
  <2> QED BY <2>1, <2>2, WaitingKeeps
<1>4. CASE squeue_destroy
  BY <1>4, DestroyKeeps
<1>5. CASE UNCHANGED vars
  <2>1. pc' \in [Consumers -> Places] BY <1>5 DEF vars, QueueInv, TypeOK
  <2> QED BY <1>5, <2>1, WaitingKeeps DEF vars
<1> QED BY <1>1, <1>2, <1>3, <1>4, <1>5 DEF Next, Consumer

(* syncqueue.c keeps head, tail, links and freed elements consistent for   *)
(* ever.                                                                   *)
THEOREM QueueCorrect == Spec => []QueueInv
<1>1. Init => QueueInv BY InitQueue
<1>2. QueueInv /\ [Next]_vars => QueueInv' BY QueueInvInductive
<1> QED BY <1>1, <1>2, PTL DEF Spec
-----------------------------------------------------------------------------
(* The types of syncqueue.c's fields and of the consumers' states.         *)
THEOREM TypeCorrect == Spec => []TypeOK
<1>1. QueueInv => TypeOK BY DEF QueueInv
<1> QED BY <1>1, QueueCorrect, PTL

(* After any sequence of pushes and pops, head and tail have one of the    *)
(* three shapes squeue_push and squeue_pop tell apart.                     *)
THEOREM ShapeCorrect == Spec => []Shape
<1>1. QueueInv => Shape BY DEF QueueInv
<1> QED BY <1>1, QueueCorrect, PTL

(* No queued element's memory was released while the queue lives.          *)
THEOREM NothingFreedInQueue == Spec => []NoFreedInQueue
<1>1. QueueInv => NoFreedInQueue
  <2> SUFFICES ASSUME QueueInv, ~sq_is_destroyed,
                      NEW k \in popped + 1 .. Len(pushed), pushed[k] \in freed
               PROVE  FALSE
    BY DEF NoFreedInQueue
  <2>1. PICK j \in 1 .. popped : pushed[k] = pushed[j]
    BY DEF QueueInv, FreedArePopped
  <2>2. /\ j \in 1 .. Len(pushed) /\ k \in 1 .. Len(pushed) /\ j # k
    BY DEF QueueInv, TypeOK
  <2> QED BY <2>1, <2>2 DEF QueueInv, Shape
<1> QED BY <1>1, QueueCorrect, PTL
-----------------------------------------------------------------------------
(* squeue_push is a Put of the abstract FIFO.                              *)
LEMMA PushRefines ==
  ASSUME QueueInv, NEW i \in Items, squeue_push(i)
  PROVE  Fifo!Put(i)
<1>1. /\ pushed' = Append(pushed, i) /\ popped' = popped
      /\ ~sq_is_destroyed /\ ~sq_is_destroyed'
      /\ sq_is_destroyed' = sq_is_destroyed /\ got' = got
  BY DEF squeue_push
<1>2. pushed \in Seq(Items) /\ popped \in Nat /\ popped <= Len(pushed)
  BY DEF QueueInv, TypeOK
<1>3. SubSeq(Append(pushed, i), popped + 1, Len(Append(pushed, i)))
        = Append(SubSeq(pushed, popped + 1, Len(pushed)), i)
  BY <1>2, WindowAppend
<1> QED BY <1>1, <1>3 DEF Fifo!Put

(* The pop that takes an element is a Get of the abstract FIFO.            *)
LEMMA PopRefines ==
  ASSUME QueueInv, NEW c \in Consumers, PopTakes(c)
  PROVE  Fifo!Get(c)
<1>1. /\ pushed' = pushed /\ popped' = popped + 1
      /\ sq_head # NULL /\ sq_head \notin freed
      /\ sq_is_destroyed' = sq_is_destroyed
      /\ got' = [got EXCEPT ![c] = sq_head]
  BY DEF PopTakes
<1>2. ~sq_is_destroyed
  BY <1>1 DEF QueueInv, DeadHead
<1>3. /\ pushed \in Seq(Items) /\ popped \in Nat
      /\ popped < Len(pushed) /\ sq_head = pushed[popped + 1]
  BY <1>1, HeadIsNext DEF QueueInv, TypeOK
<1>4. /\ SubSeq(pushed, popped + 1, Len(pushed)) # <<>>
      /\ Head(SubSeq(pushed, popped + 1, Len(pushed))) = pushed[popped + 1]
      /\ Tail(SubSeq(pushed, popped + 1, Len(pushed)))
            = SubSeq(pushed, popped + 2, Len(pushed))
  BY <1>3, WindowTail
<1>5. (popped + 1) + 1 = popped + 2
  BY <1>3
<1> QED BY <1>1, <1>2, <1>3, <1>4, <1>5 DEF Fifo!Get

(* Every push is a Put, every pop that takes an element a Get of the       *)
(* oldest one, the destruction closes the FIFO, and nothing else shows.    *)
THEOREM QueueImplementsFifo == Spec => ImplementsFifo
<1>1. Init => Fifo!SyncInit
  <2> SUFFICES ASSUME Init PROVE Fifo!SyncInit OBVIOUS
  <2>1. SubSeq(<<>>, 0 + 1, Len(<<>>)) = <<>> OBVIOUS
  <2> QED BY <2>1 DEF Init, Fifo!SyncInit
<1>2. QueueInv /\ QueueInv' /\ [Next]_vars => [Fifo!SyncNext]_(Fifo!syncVars)
  <2> SUFFICES ASSUME QueueInv, QueueInv', [Next]_vars
               PROVE  [Fifo!SyncNext]_(Fifo!syncVars)
    OBVIOUS
  <2>1. ASSUME NEW i \in Items, squeue_push(i) PROVE Fifo!SyncNext
    BY <2>1, PushRefines DEF Fifo!SyncNext
  <2>2. ASSUME NEW c \in Consumers, PopTakes(c) PROVE Fifo!SyncNext
    BY <2>2, PopRefines DEF Fifo!SyncNext
  <2>3. CASE squeue_destroy
    <3>1. Fifo!Close BY <2>3 DEF squeue_destroy, Fifo!Close
    <3> QED BY <3>1 DEF Fifo!SyncNext
  <2>4. ASSUME NEW c \in Consumers,
               PopDangling(c) \/ PopWaits(c) \/ PopRetries(c) \/ Consume(c)
                 \/ SpuriousWake(c)
        PROVE  UNCHANGED Fifo!syncVars
    BY <2>4 DEF PopDangling, PopWaits, PopRetries, Consume, SpuriousWake,
                queueVars, Fifo!syncVars
  <2>5. CASE UNCHANGED vars
    BY <2>5 DEF vars, queueVars, Fifo!syncVars
  <2> QED BY <2>1, <2>2, <2>3, <2>4, <2>5 DEF Next, Consumer
<1> QED BY <1>1, <1>2, QueueCorrect, PTL DEF Spec, ImplementsFifo, Fifo!SyncSpec
-----------------------------------------------------------------------------
(* While the queue lives, no consumer has left its loop.                   *)
NobodyLeft == ~sq_is_destroyed => \A c \in Consumers : pc[c] \notin {"exited", "lost"}

(* A queue that lives has a head that was not freed.                       *)
LEMMA HeadLives ==
  ASSUME QueueInv, ~sq_is_destroyed, sq_head # NULL
  PROVE  sq_head \notin freed
<1>1. /\ popped < Len(pushed) /\ sq_head = pushed[popped + 1]
      /\ pushed \in Seq(Items) /\ popped \in Nat /\ Len(pushed) \in Nat
  BY HeadIsNext DEF QueueInv, TypeOK
<1> SUFFICES ASSUME sq_head \in freed PROVE FALSE
  OBVIOUS
<1>2. PICK k \in 1 .. popped : sq_head = pushed[k]
  BY DEF QueueInv, FreedArePopped
<1>3. k \in 1 .. Len(pushed) /\ popped + 1 \in 1 .. Len(pushed) /\ k # popped + 1
  BY <1>1
<1> QED BY <1>1, <1>2, <1>3 DEF QueueInv, Shape

Awake == {"pop", "woken", "busy"}

(* Only a push to an empty queue notifies, and only one thread; only a     *)
(* consumer that finds no head starts to wait.                             *)
LEMMA NobodyStranded ==
  ASSUME QueueInv, NobodyLeft, NoStrandedElement, [Next]_vars
  PROVE  NobodyLeft' /\ NoStrandedElement'
<1>0. pc \in [Consumers -> Places] /\ NULL \notin Items
  BY QueueAssumption DEF QueueInv, TypeOK
<1>1. ASSUME NEW i \in Items, squeue_push(i) PROVE NobodyLeft' /\ NoStrandedElement'
  <2>1. ~sq_is_destroyed /\ sq_is_destroyed' = sq_is_destroyed
    BY <1>1 DEF squeue_push
  <2>2. CASE sq_head # NULL
    <3>1. UNCHANGED pc
      BY <1>1, <2>2 DEF squeue_push
    <3> QED BY <2>1, <2>2, <3>1 DEF NobodyLeft, NoStrandedElement
  <2>3. CASE sq_head = NULL
    <3>1. event_notify_one
      BY <1>1, <2>3 DEF squeue_push
    <3>2. CASE UNCHANGED pc /\ \A c \in Consumers : pc[c] # "waiting"
      <4>1. PICK c \in Consumers : TRUE
        BY QueueAssumption
      <4>2. pc[c] \in Awake
        BY <1>0, <2>1, <3>2 DEF NobodyLeft, Places, Awake
      <4> QED BY <2>1, <3>2, <4>2 DEF NobodyLeft, NoStrandedElement, Awake
    <3>3. ASSUME NEW c \in Consumers, pc' = [pc EXCEPT ![c] = "woken"]
          PROVE  NobodyLeft' /\ NoStrandedElement'
      <4>1. pc'[c] = "woken" /\ \A d \in Consumers : pc'[d] = pc[d] \/ pc'[d] = "woken"
        BY <1>0, <3>3
      <4> QED BY <2>1, <4>1 DEF NobodyLeft, NoStrandedElement
    <3> QED BY <3>1, <3>2, <3>3 DEF event_notify_one
  <2> QED BY <2>2, <2>3
<1>2. ASSUME NEW c \in Consumers, PopTakes(c) \/ SpuriousWake(c) \/ Consume(c)
      PROVE  NobodyLeft' /\ NoStrandedElement'
  <2>1. sq_is_destroyed' = sq_is_destroyed
    BY <1>2 DEF PopTakes, SpuriousWake, Consume, queueVars
  <2>2. pc'[c] \in Awake /\ \A d \in Consumers : pc'[d] = pc[d] \/ pc'[d] \in Awake
    BY <1>0, <1>2 DEF PopTakes, SpuriousWake, Consume, Awake
  <2> QED BY <2>1, <2>2 DEF NobodyLeft, NoStrandedElement, Awake
<1>3. ASSUME NEW c \in Consumers, PopDangling(c) PROVE NobodyLeft' /\ NoStrandedElement'
  <2>1. sq_head \in freed /\ sq_is_destroyed' = sq_is_destroyed
    BY <1>3 DEF PopDangling, queueVars
  <2>2. sq_is_destroyed
    BY <1>0, <2>1, HeadLives DEF QueueInv, TypeOK
  <2> QED BY <2>1, <2>2 DEF NobodyLeft, NoStrandedElement
<1>4. ASSUME NEW c \in Consumers, PopWaits(c) PROVE NobodyLeft' /\ NoStrandedElement'
  <2>1. sq_head' = NULL /\ sq_is_destroyed' = sq_is_destroyed /\ pc' = [pc EXCEPT ![c] = "waiting"]
    BY <1>4 DEF PopWaits, queueVars
  <2>2. \A d \in Consumers : pc'[d] = pc[d] \/ pc'[d] = "waiting"
    BY <1>0, <2>1
  <2> QED BY <2>1, <2>2 DEF NobodyLeft, NoStrandedElement
<1>5. ASSUME NEW c \in Consumers, PopRetries(c) PROVE NobodyLeft' /\ NoStrandedElement'
  <2>1. sq_is_destroyed' = sq_is_destroyed
    BY <1>5 DEF PopRetries, queueVars
  <2>2. ~sq_is_destroyed => pc'[c] = "pop" /\ \A d \in Consumers : pc'[d] = pc[d] \/ pc'[d] = "pop"
    BY <1>0, <1>5 DEF PopRetries
  <2> QED BY <2>1, <2>2 DEF NobodyLeft, NoStrandedElement
<1>6. CASE squeue_destroy
  BY <1>6 DEF squeue_destroy, NobodyLeft, NoStrandedElement
<1>7. CASE UNCHANGED vars
  BY <1>7 DEF vars, queueVars, NobodyLeft, NoStrandedElement
<1> QED BY <1>1, <1>2, <1>3, <1>4, <1>5, <1>6, <1>7 DEF Next, Consumer

(* No element waits in the queue while all the consumers sleep, for any    *)
(* number of consumers: a push to a queue that is not empty needs no       *)
(* notification, because whoever was notified of the first element has not *)
(* yet looked.                                                             *)
THEOREM NothingStranded == Spec => []NoStrandedElement
<1>1. Init => NobodyLeft /\ NoStrandedElement
  BY DEF Init, NobodyLeft, NoStrandedElement
<1> QED BY <1>1, InitQueue, QueueInvInductive, NobodyStranded, PTL DEF Spec
=============================================================================
