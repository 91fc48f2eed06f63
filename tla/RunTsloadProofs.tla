--------------------------- MODULE RunTsloadProofs ---------------------------
(***************************************************************************)
(* Proofs about run-tsload for any number of workloads, any steps files,   *)
(* any size of the step queue and any failures of the configuration: no    *)
(* step read from a file is lost, only configured workloads are started,   *)
(* and an experiment without failures ends when all have finished.         *)
(***************************************************************************)
EXTENDS RunTsload, FiniteSetTheorems, SequenceTheorems, TLAPS

(* How many of a sequence's elements are in a set.                         *)
Number(s, S) == Cardinality({k \in DOMAIN s : s[k] \in S})

(* What the notification thread may find and have at hand.                 *)
Reports == [wl : Workloads, status : {"SUCCESS", "FAIL", "RUNNING", "FINISHED"}]
Shapes ==
  /\ notes \in Seq(Reports)
  /\ notifier.pc # "idle" => notifier.msg \in Reports
  /\ notifier.pc = "cfg_dec" => notifier.msg.status \in {"SUCCESS", "FAIL"}
  /\ notifier.pc = "error" => notifier.msg.status = "FAIL"
  /\ notifier.pc = "feed" => notifier.msg.status = "RUNNING"
  /\ notifier.pc = "run_dec" => notifier.msg.status = "FINISHED"
  /\ notifier.pc = "stop" => load_error

(* Where the main thread is: before the first start, or on the way to it.  *)
Configures == main.pc \in {"configure", "load_steps", "cfg_test", "cfg_towait", "cfg_waits"}
Starts == main.pc \in {"feed", "start", "count"}
Comes(w) == Configures \/ (Starts /\ w > main.w)
AtHand(w) == main.pc \in {"feed", "start"} /\ w = main.w

(* Steps begun whose report is not handled.  The steps that wait and those *)
(* that were begun since the queue was filled are not more than its slots. *)
Begun(w) == {Note(w, "RUNNING")}
Pending(w) == Number(notes, Begun(w))
              + IF notifier.pc = "feed" /\ notifier.msg.wl = w THEN 1 ELSE 0
FedRight(w) ==
  /\ file[w].step_id = wl[w].last_step + 1
  /\ wl[w].last_step - wl[w].current_step + Pending(w) <= QSIZE
  /\ ~wl[w].started => wl[w].current_step = -1 /\ Pending(w) = 0
  /\ Comes(w) => ~wl[w].started /\ wl[w].last_step = -1
  /\ AtHand(w) => ~wl[w].started /\ wl[w].last_step < main.j
Fed == \A w \in Workloads : FedRight(w)

(* A workload is configured once, and ready from then on.                  *)
Configured ==
  /\ main.pc \in {"load_steps", "start", "count"} => main.w <= NWorkloads
  /\ \A w \in Workloads :
       /\ wl[w].cfg \in {"none", "running", "failed"} => ~wl[w].ready
       /\ wl[w].cfg = "attached" => wl[w].ready
       /\ main.pc = "configure" /\ w >= main.w => wl[w].cfg = "none"
       /\ main.pc = "load_steps" /\ w > main.w => wl[w].cfg = "none"

(* As long as no failure is known, the counters count: the workloads the   *)
(* main thread has counted, less those whose report was handled.           *)
Succeeded == [wl : Workloads, status : {"SUCCESS"}]
Ended == {w \in Workloads : wl[w].cfg = "ended" /\ wl[w].ready}
CfgCounted == IF main.pc \in {"configure", "load_steps"} THEN main.w - 1 ELSE NWorkloads
CfgCounts ==
  wl_cfg_count = CfgCounted - Cardinality(Ended) + Number(notes, Succeeded)
                 + IF notifier.pc = "cfg_dec" THEN 1 ELSE 0

Over == [wl : Workloads, status : {"FINISHED"}]
Done == {w \in Workloads : wl[w].finished}
RunCounted == IF Configures THEN 0 ELSE IF Starts THEN main.w - 1 ELSE NWorkloads
RunCounts ==
  wl_run_count = RunCounted - Cardinality(Done) + Number(notes, Over)
                 + IF notifier.pc = "run_dec" THEN 1 ELSE 0

Inv ==
  /\ TypeOK /\ Shapes /\ Fed /\ Configured
  /\ Failing \/ (CfgCounts /\ RunCounts)
  /\ StartsConfigured /\ FinishesAll
-----------------------------------------------------------------------------
(* Counting.                                                               *)

(* A sequence has a natural number of elements in a set.                   *)
LEMMA NumberType ==
  ASSUME NEW s \in Seq(Reports), NEW S
  PROVE  IsFiniteSet({k \in DOMAIN s : s[k] \in S}) /\ Number(s, S) \in Nat
<1>1. DOMAIN s = 1 .. Len(s) /\ Len(s) \in Nat
  BY LenProperties
<1>2. IsFiniteSet(1 .. Len(s))
  BY <1>1, FS_Interval
<1>3. IsFiniteSet({k \in DOMAIN s : s[k] \in S})
  BY <1>1, <1>2, FS_Subset
<1> QED BY <1>3, FS_CardinalityType DEF Number

(* An element appended counts if it is in the set.                         *)
LEMMA NumberAppend ==
  ASSUME NEW s \in Seq(Reports), NEW m \in Reports, NEW S
  PROVE  Number(Append(s, m), S) = Number(s, S) + IF m \in S THEN 1 ELSE 0
<1> DEFINE old == {k \in DOMAIN s : s[k] \in S}
           new == {k \in DOMAIN Append(s, m) : Append(s, m)[k] \in S}
<1>1. /\ DOMAIN s = 1 .. Len(s) /\ Len(s) \in Nat
      /\ DOMAIN Append(s, m) = 1 .. Len(s) + 1
      /\ \A k \in 1 .. Len(s) : Append(s, m)[k] = s[k]
      /\ Append(s, m)[Len(s) + 1] = m
  BY LenProperties, AppendProperties
<1>2. new = IF m \in S THEN old \cup {Len(s) + 1} ELSE old
  <2>1. ASSUME NEW k PROVE k \in DOMAIN Append(s, m) <=> k \in DOMAIN s \/ k = Len(s) + 1
    BY <1>1
  <2>2. \A k \in DOMAIN s : Append(s, m)[k] = s[k]
    BY <1>1
  <2>3. Len(s) + 1 \notin DOMAIN s
    BY <1>1
  <2> QED BY <1>1, <2>1, <2>2, <2>3
<1>3. IsFiniteSet(old) /\ Len(s) + 1 \notin old
  <2>1. Len(s) + 1 \notin DOMAIN s
    BY <1>1
  <2> QED BY <2>1, NumberType
<1>4. Cardinality(old \cup {Len(s) + 1}) = Cardinality(old) + 1
  BY <1>3, FS_AddElement
<1>5. Cardinality(old) \in Nat
  BY <1>3, FS_CardinalityType
<1>6. Number(s, S) = Cardinality(old) /\ Number(Append(s, m), S) = Cardinality(new)
  BY DEF Number
<1> HIDE DEF old, new
<1>7. CASE m \in S
  BY <1>2, <1>4, <1>5, <1>6, <1>7
<1>8. CASE m \notin S
  BY <1>2, <1>5, <1>6, <1>8
<1> QED BY <1>7, <1>8

(* The head taken off no longer counts.                                    *)
LEMMA NumberTail ==
  ASSUME NEW s \in Seq(Reports), s # <<>>, NEW S
  PROVE  Number(Tail(s), S) = Number(s, S) - IF Head(s) \in S THEN 1 ELSE 0
<1> DEFINE all == {k \in DOMAIN s : s[k] \in S}
           new == {k \in DOMAIN Tail(s) : Tail(s)[k] \in S}
           old == all \ {1}
           f == [k \in new |-> k + 1]
<1>1. /\ DOMAIN s = 1 .. Len(s) /\ Len(s) \in Nat \ {0} /\ Head(s) = s[1]
      /\ DOMAIN Tail(s) = 1 .. Len(s) - 1
      /\ \A k \in 1 .. Len(s) - 1 : Tail(s)[k] = s[k + 1]
  <2>1. Len(s) \in Nat /\ DOMAIN s = 1 .. Len(s) /\ Len(s) # 0
    BY EmptySeq, LenProperties
  <2>2. Tail(s) \in Seq(Reports) /\ Len(Tail(s)) = Len(s) - 1
        /\ \A i \in 1 .. Len(Tail(s)) : Tail(s)[i] = s[i + 1]
    BY HeadTailProperties
  <2>3. DOMAIN Tail(s) = 1 .. Len(Tail(s))
    BY <2>2, LenProperties
  <2> QED BY <2>1, <2>2, <2>3
<1>2. IsFiniteSet(all) /\ IsFiniteSet(new)
  <2>1. Tail(s) \in Seq(Reports)
    BY HeadTailProperties
  <2> QED BY <2>1, NumberType
<1>3. f \in Bijection(new, old)
  <2>1. \A k \in new : k \in Nat /\ k + 1 \in old
    BY <1>1
  <2>2. \A j \in old : j - 1 \in new /\ f[j - 1] = j
    <3> SUFFICES ASSUME NEW j \in old PROVE j - 1 \in new /\ f[j - 1] = j
      OBVIOUS
    <3>1. j \in 2 .. Len(s) /\ s[j] \in S
      BY <1>1
    <3>2. j - 1 \in 1 .. Len(s) - 1 /\ (j - 1) + 1 = j
      BY <1>1, <3>1
    <3>3. j - 1 \in new
      BY <1>1, <3>1, <3>2
    <3> QED BY <3>2, <3>3
  <2>3. \A a, b \in new : f[a] = f[b] => a = b
    BY <2>1
  <2>4. f \in [new -> old]
    BY <2>1
  <2> QED BY <2>2, <2>3, <2>4 DEF Bijection, Injection, Surjection, IsInjective
<1>4. Cardinality(new) = Cardinality(old)
  BY <1>2, <1>3, FS_Bijection DEF ExistsBijection
<1>5. Cardinality(old) = IF 1 \in all THEN Cardinality(all) - 1 ELSE Cardinality(all)
  BY <1>2, FS_RemoveElement
<1>6. 1 \in all <=> Head(s) \in S
  BY <1>1
<1>7. Cardinality(all) \in Nat
  BY <1>2, FS_CardinalityType
<1>8. Number(s, S) = Cardinality(all) /\ Number(Tail(s), S) = Cardinality(new)
  BY DEF Number
<1> HIDE DEF all, new, old
<1>9. CASE Head(s) \in S
  BY <1>4, <1>5, <1>6, <1>7, <1>8, <1>9
<1>10. CASE Head(s) \notin S
  BY <1>4, <1>5, <1>6, <1>7, <1>8, <1>10
<1> QED BY <1>9, <1>10

(* Nothing counts in an empty sequence.                                    *)
LEMMA NumberEmpty == \A S : Number(<<>>, S) = 0
<1>1. ASSUME NEW S PROVE {k \in DOMAIN <<>> : <<>>[k] \in S} = {}
  OBVIOUS
<1> QED BY <1>1, FS_EmptySet DEF Number

(* A set of workloads is finite; one that has as many as there are, has    *)
(* them all.                                                               *)
LEMMA SomeWorkloads ==
  ASSUME NEW T \in SUBSET Workloads
  PROVE  /\ IsFiniteSet(T) /\ Cardinality(T) \in 0 .. NWorkloads
         /\ Cardinality(T) = NWorkloads => T = Workloads
<1>1. IsFiniteSet(Workloads) /\ Cardinality(Workloads) = NWorkloads
  BY RunAssumption, FS_Interval DEF Workloads
<1>2. IsFiniteSet(T) /\ Cardinality(T) <= NWorkloads
      /\ (Cardinality(T) = NWorkloads => T = Workloads)
  BY <1>1, FS_Subset
<1>3. Cardinality(T) \in Nat
  BY <1>2, FS_CardinalityType
<1> QED BY <1>2, <1>3, RunAssumption
-----------------------------------------------------------------------------
(* The types.                                                              *)

WlType == [cfg : {"none", "running", "failed", "attached", "ended"},
           ready : BOOLEAN, started : BOOLEAN, finished : BOOLEAN,
           last_step : Int, current_step : Int]
FileType == [rest : Seq({"ok", "bad"}), newline : BOOLEAN,
             step_id : Nat, error : BOOLEAN, eof : BOOLEAN]
Places == {"configure", "load_steps", "cfg_test", "cfg_towait", "cfg_waits", "feed", "start",
           "count", "run_test", "run_towait", "run_waits", "finish"}
MainType == [pc : Places, w : 1 .. NWorkloads + 1, j : 0 .. QSIZE, err : BOOLEAN]
NotePlaces == {"idle", "cfg_dec", "error", "feed", "stop", "run_dec", "notify"}
NotifierType == [pc : NotePlaces, msg : Messages]

(* TypeOK with names for the types.                                        *)
LEMMA Typed ==
  TypeOK <=>
    /\ main \in MainType /\ wl \in [Workloads -> WlType] /\ file \in [Workloads -> FileType]
    /\ wl_cfg_count \in Int /\ wl_run_count \in Int /\ load_error \in BOOLEAN
    /\ notes \in Seq(Messages) /\ notifier \in NotifierType
BY DEF TypeOK, WlType, FileType, MainType, Places, NotePlaces, NotifierType

(* A line read leaves a file a file.                                       *)
LEMMA ReadLine ==
  ASSUME NEW f \in FileType
  PROVE  AfterRead(f) \in FileType /\ AfterRead(f).step_id = f.step_id
<1>1. CASE f.rest = <<>>
  BY <1>1 DEF AfterRead, FileType
<1>2. CASE f.rest # <<>>
  <2>1. f.rest \in Seq({"ok", "bad"})
    BY DEF FileType
  <2>2. Tail(f.rest) \in Seq({"ok", "bad"})
    BY <1>2, <2>1, HeadTailProperties
  <2>3. (Tail(f.rest) = <<>> /\ ~f.newline) \in BOOLEAN
    OBVIOUS
  <2> QED BY <1>2, <2>2, <2>3 DEF AfterRead, FileType
<1> QED BY <1>1, <1>2

(* What load_provide_step does to a workload and its file: it touches no   *)
(* other, reports an error, and unless the queue is full, a step read is   *)
(* the last one.                                                           *)
Fits(w) == /\ file[w].step_id = wl[w].last_step + 1
           /\ wl[w].last_step - wl[w].current_step # QSIZE
Provided(w, ret) ==
  /\ wl' \in [Workloads -> WlType] /\ file' \in [Workloads -> FileType]
  /\ load_error' \in BOOLEAN /\ (load_error => load_error') /\ (ret = "ERROR" => load_error')
  /\ \A v \in Workloads : v # w => wl'[v] = wl[v] /\ file'[v] = file[v]
  /\ \A v \in Workloads :
       /\ wl'[v].cfg = wl[v].cfg /\ wl'[v].ready = wl[v].ready
       /\ wl'[v].started = wl[v].started /\ wl'[v].finished = wl[v].finished
       /\ wl'[v].current_step = wl[v].current_step
  /\ Fits(w) =>
       /\ file'[w].step_id = wl'[w].last_step + 1
       /\ wl'[w].last_step = wl[w].last_step
          \/ (ret = "OK" /\ wl'[w].last_step = wl[w].last_step + 1)
(* load_provide_step does no more than Provided says.                      *)
LEMMA ProvideStep ==
  ASSUME TypeOK, NEW w \in Workloads, NEW ret, load_provide_step(w, ret)
  PROVE  Provided(w, ret)
<1>1. wl \in [Workloads -> WlType] /\ file \in [Workloads -> FileType] /\ load_error \in BOOLEAN
  BY Typed
<1>2. file[w] \in FileType /\ wl[w] \in WlType
  BY <1>1
<1> DEFINE f == AfterRead(file[w])
<1>3. f \in FileType /\ f.step_id = file[w].step_id
  BY <1>2, ReadLine
<1>4. CASE ret = "NO_RQS"
  <2>1. file' = [file EXCEPT ![w].error = TRUE] /\ wl' = wl /\ load_error' = load_error
    BY <1>4 DEF load_provide_step
  <2>2. [file[w] EXCEPT !.error = TRUE] \in FileType
    BY <1>2 DEF FileType
  <2>3. file' \in [Workloads -> FileType]
    BY <1>1, <2>1, <2>2
  <2>4. file'[w].step_id = file[w].step_id /\ \A v \in Workloads : v # w => file'[v] = file[v]
    BY <1>1, <1>2, <2>1 DEF FileType
  <2> QED BY <1>1, <1>2, <1>4, <2>1, <2>3, <2>4 DEF Provided, Fits
<1>5. CASE ret = "ERROR"
  <2>1. file' = [file EXCEPT ![w] = [f EXCEPT !.error = TRUE]] /\ wl' = wl /\ load_error'
    BY <1>5 DEF load_provide_step
  <2>2. [f EXCEPT !.error = TRUE] \in FileType /\ [f EXCEPT !.error = TRUE].step_id = f.step_id
    BY <1>3 DEF FileType
  <2> HIDE DEF f
  <2>3. file' \in [Workloads -> FileType]
    BY <1>1, <2>1, <2>2
  <2>4. file'[w].step_id = file[w].step_id /\ \A v \in Workloads : v # w => file'[v] = file[v]
    BY <1>1, <1>3, <2>1, <2>2
  <2>5. load_error' = TRUE
    BY <1>5 DEF load_provide_step
  <2> QED BY <1>1, <1>2, <1>5, <2>1, <2>3, <2>4, <2>5 DEF Provided, Fits
<1>6. CASE ret = "OK"
  <2> DEFINE reply == ProvideResult(wl[w].last_step, wl[w].current_step, f.step_id)
  <2>1. /\ file' = [file EXCEPT ![w] = [f EXCEPT !.step_id = @ + 1]]
        /\ wl' = IF reply = "OK" THEN [wl EXCEPT ![w].last_step = f.step_id] ELSE wl
        /\ load_error' = (load_error \/ reply = "INVALID")
    BY <1>6 DEF load_provide_step
  <2>3. Fits(w) => reply = "OK"
    BY <1>3 DEF Fits, ProvideResult, IsFull, IsNext
  <2>4. wl[w].last_step \in Int /\ f.step_id \in Nat
    BY <1>2, <1>3 DEF FileType, WlType
  <2> HIDE DEF f, reply
  <2>2. /\ [f EXCEPT !.step_id = @ + 1] \in FileType
        /\ [f EXCEPT !.step_id = @ + 1].step_id = file[w].step_id + 1
        /\ [wl[w] EXCEPT !.last_step = f.step_id] \in WlType
    <3>1. /\ [f EXCEPT !.step_id = @ + 1] \in FileType
          /\ [f EXCEPT !.step_id = @ + 1].step_id = file[w].step_id + 1
      BY <1>3 DEF FileType
    <3>2. [wl[w] EXCEPT !.last_step = f.step_id] \in WlType
      BY <1>2, <2>4 DEF WlType
    <3> QED BY <3>1, <3>2
  <2>5. file' \in [Workloads -> FileType] /\ file'[w].step_id = file[w].step_id + 1
        /\ \A v \in Workloads : v # w => file'[v] = file[v]
    BY <1>1, <2>1, <2>2
  <2>6. CASE reply = "OK"
    <3>1. wl' = [wl EXCEPT ![w] = [wl[w] EXCEPT !.last_step = f.step_id]]
      BY <1>1, <2>1, <2>6
    <3>2. wl' \in [Workloads -> WlType] /\ \A v \in Workloads : v # w => wl'[v] = wl[v]
      BY <1>1, <2>2, <3>1
    <3>3. wl'[w] = [wl[w] EXCEPT !.last_step = f.step_id]
      BY <1>1, <3>1
    <3>4. /\ wl'[w].cfg = wl[w].cfg /\ wl'[w].ready = wl[w].ready
          /\ wl'[w].started = wl[w].started /\ wl'[w].finished = wl[w].finished
          /\ wl'[w].current_step = wl[w].current_step /\ wl'[w].last_step = f.step_id
      BY <1>2, <3>3 DEF WlType
    <3>5. load_error' = load_error
      BY <1>1, <2>1, <2>6
    <3> QED BY <1>1, <1>3, <1>6, <2>4, <2>5, <3>2, <3>4, <3>5 DEF Provided, Fits
  <2>7. CASE reply # "OK"
    <3>1. wl' = wl
      BY <2>1, <2>7
    <3> QED BY <1>1, <1>6, <2>1, <2>3, <2>5, <2>7, <3>1 DEF Provided
  <2> QED BY <2>6, <2>7
<1> QED BY <1>4, <1>5, <1>6 DEF load_provide_step

(* Reports are messages.                                                   *)
LEMMA ReportsAreMessages ==
  Reports \subseteq Messages /\ Seq(Reports) \subseteq Seq(Messages)
<1>1. Reports \subseteq Messages
  BY DEF Reports, Messages, Statuses
<1>2. ASSUME NEW s \in Seq(Reports) PROVE s \in Seq(Messages)
  <2>1. Len(s) \in Nat /\ s \in [1 .. Len(s) -> Reports]
    BY LenProperties
  <2>2. s \in [1 .. Len(s) -> Messages]
    BY <1>1, <2>1
  <2> QED BY <2>1, <2>2
<1> QED BY <1>1, <1>2

(* What a step of the main thread leaves alone, and what it keeps typed.   *)
MainMoves ==
  /\ main' \in MainType /\ wl' \in [Workloads -> WlType] /\ file' \in [Workloads -> FileType]
  /\ wl_cfg_count' \in Int /\ wl_run_count' \in Int
  /\ load_error' \in BOOLEAN /\ (load_error => load_error') /\ (main.err => main'.err)
  /\ notes' = notes /\ notifier' = notifier
(* A step of the main thread does no more than MainMoves says.             *)
LEMMA MainStep ==
  ASSUME TypeOK, Configured, MainThread \/ SpuriousWake
  PROVE  MainMoves
<1>1. /\ main \in MainType /\ wl \in [Workloads -> WlType] /\ file \in [Workloads -> FileType]
      /\ wl_cfg_count \in Int /\ wl_run_count \in Int /\ load_error \in BOOLEAN
  BY Typed
<1>2. /\ main.pc \in Places /\ main.w \in 1 .. NWorkloads + 1 /\ main.j \in 0 .. QSIZE
      /\ main.err \in BOOLEAN /\ NWorkloads \in Nat /\ QSIZE \in Nat \ {0}
  BY <1>1, RunAssumption, QSizeAssumption DEF MainType
<1>3. /\ \A p \in Places : [main EXCEPT !.pc = p] \in MainType
      /\ \A p \in Places : [main EXCEPT !.pc = p].err = main.err
  BY <1>1, <1>2 DEF MainType
<1>14. ASSUME NEW p \in Places, NEW v \in 1 .. NWorkloads + 1
       PROVE  /\ [main EXCEPT !.pc = p, !.w = v] \in MainType
              /\ [main EXCEPT !.pc = p, !.w = v].err = main.err
              /\ [main EXCEPT !.pc = p, !.w = v, !.j = 0] \in MainType
              /\ [main EXCEPT !.pc = p, !.w = v, !.j = 0].err = main.err
  <2>1. 0 \in 0 .. QSIZE
    BY <1>2
  <2>2. [main EXCEPT !.pc = p, !.w = v] \in MainType
    BY <1>1 DEF MainType
  <2>3. [main EXCEPT !.pc = p, !.w = v, !.j = 0] \in MainType
    BY <1>1, <2>1 DEF MainType
  <2>4. /\ [main EXCEPT !.pc = p, !.w = v].err = main.err
        /\ [main EXCEPT !.pc = p, !.w = v, !.j = 0].err = main.err
    BY <1>1 DEF MainType
  <2> QED BY <2>2, <2>3, <2>4
<1>15. /\ "configure" \in Places /\ "cfg_test" \in Places /\ "feed" \in Places
  BY DEF Places
<1>4. CASE MainConfigure
  <2>1. main' = [main EXCEPT !.pc = "load_steps"] /\ main.w \in Workloads
    BY <1>2, <1>4 DEF MainConfigure, Main, Workloads
  <2>2. [wl[main.w] EXCEPT !.cfg = "running"] \in WlType
    BY <1>1, <2>1 DEF WlType
  <2>3. wl' = wl \/ wl' = [wl EXCEPT ![main.w] = [wl[main.w] EXCEPT !.cfg = "running"]]
    BY <1>1, <1>4, <2>1 DEF MainConfigure
  <2>4. wl' \in [Workloads -> WlType]
    BY <1>1, <2>1, <2>2, <2>3
  <2>5. main' \in MainType /\ main'.err = main.err
    BY <1>3, <2>1 DEF Places
  <2>6. load_error' = TRUE \/ load_error' = load_error
    BY <1>4 DEF MainConfigure
  <2>7. load_error' \in BOOLEAN /\ (load_error => load_error')
    BY <1>1, <2>6
  <2>8. (main.err => main'.err) /\ UNCHANGED <<file, counts, notes, notifier>>
    BY <1>4, <2>5 DEF MainConfigure
  <2> QED BY <1>1, <2>4, <2>5, <2>7, <2>8 DEF MainMoves, counts
<1>5. CASE MainLoadSteps
  <2>1. main.w <= NWorkloads
    BY <1>5 DEF MainLoadSteps, Configured
  <2>2. [main EXCEPT !.pc = "configure", !.w = main.w + 1] \in MainType
        /\ [main EXCEPT !.pc = "configure", !.w = main.w + 1].err = main.err
    <3>1. main.w + 1 \in 1 .. NWorkloads + 1
      BY <1>2, <2>1
    <3> QED BY <1>14, <1>15, <3>1
  <2>3. [main EXCEPT !.pc = "cfg_test", !.err = TRUE] \in MainType
        /\ [main EXCEPT !.pc = "cfg_test", !.err = TRUE].err = TRUE
    BY <1>1, <1>2, <1>15 DEF MainType
  <2>5. \/ main' = [main EXCEPT !.pc = "cfg_test", !.err = TRUE]
        \/ main' = [main EXCEPT !.pc = "configure", !.w = main.w + 1]
    BY <1>5 DEF MainLoadSteps
  <2>6. wl_cfg_count' \in Int
    BY <1>1, <1>5 DEF MainLoadSteps, CfgCountAfter
  <2>4. main' \in MainType /\ (main.err => main'.err) /\ wl_cfg_count' \in Int
    BY <2>2, <2>3, <2>5, <2>6
  <2> QED BY <1>1, <1>5, <2>4 DEF MainLoadSteps, MainMoves
<1>6. CASE MainConfigured \/ MainFed \/ MainStarted
  <2>1. PICK p \in Places : main' = [main EXCEPT !.pc = p]
    BY <1>6 DEF MainConfigured, MainFed, MainStarted, Main, Places
  <2>2. main' \in MainType /\ main'.err = main.err
    BY <1>3, <2>1
  <2> QED BY <1>1, <1>6, <2>2
          DEF MainConfigured, MainFed, MainStarted, MainMoves, counts
<1>7. CASE MainTestsConfig
  <2>1. [main EXCEPT !.pc = "feed", !.w = 1, !.j = 0] \in MainType
        /\ [main EXCEPT !.pc = "feed", !.w = 1, !.j = 0].err = main.err
    <3>1. 1 \in 1 .. NWorkloads + 1
      BY <1>2
    <3> QED BY <1>14, <1>15, <3>1
  <2>2. \/ main' = [main EXCEPT !.pc = "cfg_towait"] \/ main' = [main EXCEPT !.pc = "finish"]
        \/ main' = [main EXCEPT !.pc = "feed", !.w = 1, !.j = 0]
    BY <1>7 DEF MainTestsConfig
  <2>3. main' \in MainType /\ main'.err = main.err
    BY <1>3, <2>1, <2>2 DEF Places
  <2> QED BY <1>1, <1>7, <2>3 DEF MainTestsConfig, MainMoves, counts
<1>8. CASE MainTestsRun
  <2>1. PICK p \in Places : main' = [main EXCEPT !.pc = p]
    BY <1>8 DEF MainTestsRun, Main, Places
  <2>2. main' \in MainType /\ main'.err = main.err
    BY <1>3, <2>1
  <2> QED BY <1>1, <1>8, <2>2 DEF MainTestsRun, MainMoves, counts
<1>9. CASE MainWaits
  <2>1. PICK p \in Places : main' = [main EXCEPT !.pc = p]
    BY <1>9 DEF MainWaits, Main, Places
  <2>2. main' \in MainType /\ main'.err = main.err
    BY <1>3, <2>1
  <2> QED BY <1>1, <1>9, <2>2 DEF MainWaits, MainMoves, counts
<1>10. CASE MainFeeds
  <2>1. PICK ret \in {"OK", "NO_RQS", "ERROR"} :
          /\ load_provide_step(main.w, ret)
          /\ main' = CASE ret = "OK" -> [main EXCEPT !.j = @ + 1]
                       [] ret = "NO_RQS" -> [main EXCEPT !.pc = "start"]
                       [] OTHER -> [main EXCEPT !.pc = "run_test"]
    BY <1>10 DEF MainFeeds
  <2>2. main.w \in Workloads /\ main.j < QSIZE
    BY <1>2, <1>10 DEF MainFeeds, MayFeed, Workloads
  <2>3. Provided(main.w, ret)
    BY <2>1, <2>2, ProvideStep
  <2>4. [main EXCEPT !.j = @ + 1] \in MainType /\ [main EXCEPT !.j = @ + 1].err = main.err
    BY <1>1, <1>2, <2>2 DEF MainType
  <2>5. \/ main' = [main EXCEPT !.j = @ + 1] \/ main' = [main EXCEPT !.pc = "start"]
        \/ main' = [main EXCEPT !.pc = "run_test"]
    BY <2>1
  <2>6. main' \in MainType /\ main'.err = main.err
    BY <1>3, <2>4, <2>5 DEF Places
  <2> QED BY <1>1, <1>10, <2>3, <2>6 DEF MainFeeds, MainMoves, Provided, counts
<1>11. CASE MainStarts
  <2>1. main' = [main EXCEPT !.pc = "count"] /\ main.w \in Workloads
    BY <1>2, <1>11 DEF MainStarts, Main, Workloads, Configured
  <2>2. [wl[main.w] EXCEPT !.started = wl[main.w].ready] \in WlType
    BY <1>1, <2>1 DEF WlType
  <2>3. wl' = [wl EXCEPT ![main.w] = [wl[main.w] EXCEPT !.started = wl[main.w].ready]]
    BY <1>1, <1>11, <2>1 DEF MainStarts
  <2>4. wl' \in [Workloads -> WlType]
    BY <1>1, <2>1, <2>2, <2>3
  <2>5. main' \in MainType /\ main'.err = main.err
    BY <1>3, <2>1 DEF Places
  <2>6. load_error' \in BOOLEAN /\ (load_error => load_error')
    BY <1>11 DEF MainStarts
  <2> QED BY <1>1, <1>11, <2>4, <2>5, <2>6 DEF MainStarts, MainMoves, counts
<1>12. CASE MainCounts
  <2>1. main.w <= NWorkloads
    BY <1>12 DEF MainCounts, Configured
  <2>2. [main EXCEPT !.pc = "feed", !.w = main.w + 1, !.j = 0] \in MainType
        /\ [main EXCEPT !.pc = "feed", !.w = main.w + 1, !.j = 0].err = main.err
    <3>1. main.w + 1 \in 1 .. NWorkloads + 1
      BY <1>2, <2>1
    <3> QED BY <1>14, <1>15, <3>1
  <2>3. \/ main' = [main EXCEPT !.pc = "run_test"]
        \/ main' = [main EXCEPT !.pc = "feed", !.w = main.w + 1, !.j = 0]
    BY <1>12 DEF MainCounts
  <2>4. main' \in MainType /\ main'.err = main.err
    BY <1>3, <2>2, <2>3 DEF Places
  <2> QED BY <1>1, <1>12, <2>4 DEF MainCounts, MainMoves
<1>13. CASE SpuriousWake
  <2>1. PICK p \in Places : main' = [main EXCEPT !.pc = p]
    <3>1. \/ main' = [main EXCEPT !.pc = "cfg_test"] \/ main' = [main EXCEPT !.pc = "run_test"]
      BY <1>13 DEF SpuriousWake, Woken
    <3> QED BY <3>1 DEF Places
  <2>2. main' \in MainType /\ main'.err = main.err
    BY <1>3, <2>1
  <2> QED BY <1>1, <1>13, <2>2 DEF SpuriousWake, MainMoves, counts
<1> QED BY <1>4, <1>5, <1>6, <1>7, <1>8, <1>9, <1>10, <1>11, <1>12, <1>13 DEF MainThread

(* What a configuration thread and the control thread change: one workload *)
(* and a report at the end of the queue.                                   *)
WorkerMoves(w, v, m) ==
  /\ wl' = [wl EXCEPT ![w] = v] /\ v \in WlType
  /\ m \in Reports /\ m.wl = w /\ notes' \in {notes, Append(notes, m)}
  /\ UNCHANGED <<main, file, wl_cfg_count, wl_run_count, load_error, notifier>>
(* Nor do these threads' steps.                                            *)
LEMMA WorkerStep ==
  ASSUME TypeOK, NEW w \in Workloads, ConfigThread(w) \/ Advance(w)
  PROVE  \E v, m : WorkerMoves(w, v, m)
<1>1. wl \in [Workloads -> WlType] /\ wl[w] \in WlType
  BY Typed
<1>2. \A st \in {"SUCCESS", "FAIL", "RUNNING", "FINISHED"} :
        Note(w, st) \in Reports /\ Note(w, st).wl = w
  BY DEF Note, Reports
<1>3. CASE ConfigFails(w)
  <2>1. [wl[w] EXCEPT !.cfg = "failed"] \in WlType
    BY <1>1 DEF WlType
  <2>2. wl' = [wl EXCEPT ![w] = [wl[w] EXCEPT !.cfg = "failed"]]
    BY <1>1, <1>3 DEF ConfigFails
  <2>3. WorkerMoves(w, [wl[w] EXCEPT !.cfg = "failed"], Note(w, "FAIL"))
    BY <1>2, <1>3, <2>1, <2>2 DEF ConfigFails, WorkerMoves, counts
  <2> QED BY <2>3
<1>4. CASE ConfigGivesUp(w)
  <2>1. [wl[w] EXCEPT !.cfg = "ended"] \in WlType
    BY <1>1 DEF WlType
  <2>2. wl' = [wl EXCEPT ![w] = [wl[w] EXCEPT !.cfg = "ended"]]
    BY <1>1, <1>4 DEF ConfigGivesUp
  <2>3. WorkerMoves(w, [wl[w] EXCEPT !.cfg = "ended"], Note(w, "FAIL"))
    BY <1>2, <1>4, <2>1, <2>2 DEF ConfigGivesUp, WorkerMoves, counts
  <2> QED BY <2>3
<1>5. CASE ConfigAttaches(w)
  <2>1. [wl[w] EXCEPT !.cfg = "attached", !.ready = TRUE] \in WlType
    BY <1>1 DEF WlType
  <2>2. wl' = [wl EXCEPT ![w] = [wl[w] EXCEPT !.cfg = "attached", !.ready = TRUE]]
    BY <1>1, <1>5 DEF ConfigAttaches
  <2>3. WorkerMoves(w, [wl[w] EXCEPT !.cfg = "attached", !.ready = TRUE], Note(w, "FAIL"))
    BY <1>2, <1>5, <2>1, <2>2 DEF ConfigAttaches, WorkerMoves, counts
  <2> QED BY <2>3
<1>6. CASE ConfigSucceeds(w)
  <2>1. [wl[w] EXCEPT !.cfg = "ended"] \in WlType
    BY <1>1 DEF WlType
  <2>2. wl' = [wl EXCEPT ![w] = [wl[w] EXCEPT !.cfg = "ended"]]
    BY <1>1, <1>6 DEF ConfigSucceeds
  <2>3. WorkerMoves(w, [wl[w] EXCEPT !.cfg = "ended"], Note(w, "SUCCESS"))
    BY <1>2, <1>6, <2>1, <2>2 DEF ConfigSucceeds, WorkerMoves, counts
  <2> QED BY <2>3
<1>7. CASE Advance(w)
  <2> DEFINE s == wl[w].current_step + 1
             over == NoSteps(wl[w].last_step, s)
             v == [wl[w] EXCEPT !.current_step = s, !.finished = over]
             m == Note(w, IF over THEN "FINISHED" ELSE "RUNNING")
  <2>1. s \in Int /\ over \in BOOLEAN
    BY <1>1 DEF WlType, NoSteps
  <2>2. wl' = [wl EXCEPT ![w].current_step = s, ![w].finished = over] /\ notes' = Append(notes, m)
    BY <1>7 DEF Advance
  <2>3. m \in Reports /\ m.wl = w
    BY <1>2
  <2>4. UNCHANGED <<main, file, wl_cfg_count, wl_run_count, load_error, notifier>>
    BY <1>7 DEF Advance, counts
  <2> HIDE DEF s, over, m
  <2>5. v \in WlType
    BY <1>1, <2>1 DEF WlType
  <2>6. wl' = [wl EXCEPT ![w] = v]
    BY <1>1, <2>2
  <2> HIDE DEF v
  <2>7. WorkerMoves(w, v, m)
    BY <2>2, <2>3, <2>4, <2>5, <2>6 DEF WorkerMoves
  <2> QED BY <2>7
<1> QED BY <1>3, <1>4, <1>5, <1>6, <1>7 DEF ConfigThread

(* What the notification thread changes, and what it keeps typed.          *)
NoteMoves ==
  /\ main' \in MainType /\ main'.err = main.err /\ main'.w = main.w /\ main'.j = main.j
  /\ main' # main => main.pc \in {"cfg_waits", "run_waits"}
  /\ wl' \in [Workloads -> WlType] /\ file' \in [Workloads -> FileType]
  /\ wl_cfg_count' \in Int /\ wl_run_count' \in Int
  /\ load_error' \in BOOLEAN /\ (load_error => load_error')
  /\ notes' \in Seq(Reports) /\ notifier' \in NotifierType /\ Shapes'
(* A step of the notification thread does no more than NoteMoves says.     *)
LEMMA NoteStep ==
  ASSUME TypeOK, Shapes, NotificationThread
  PROVE  NoteMoves
<1>1. /\ main \in MainType /\ wl \in [Workloads -> WlType] /\ file \in [Workloads -> FileType]
      /\ wl_cfg_count \in Int /\ wl_run_count \in Int /\ load_error \in BOOLEAN
      /\ notes \in Seq(Reports) /\ notifier \in NotifierType
  BY Typed DEF Shapes
<1>2. /\ notifier.pc # "idle" => notifier.msg \in Reports
      /\ notifier.pc = "stop" => load_error
  BY DEF Shapes
<1>3. ASSUME NEW p \in NotePlaces
      PROVE  /\ [notifier EXCEPT !.pc = p] \in NotifierType
             /\ [notifier EXCEPT !.pc = p].pc = p
             /\ [notifier EXCEPT !.pc = p].msg = notifier.msg
  BY <1>1 DEF NotifierType
<1>4. CASE NotePops
  <2> DEFINE m == Head(notes)
  <2>1. notes # <<>> /\ notes' = Tail(notes) /\ notifier' = [pc |-> Handler(m.status), msg |-> m]
    BY <1>4 DEF NotePops
  <2>2. m \in Reports /\ Tail(notes) \in Seq(Reports)
    BY <1>1, <2>1, HeadTailProperties
  <2> HIDE DEF m
  <2>3. /\ m.status \in {"SUCCESS", "FAIL", "RUNNING", "FINISHED"}
        /\ Handler(m.status) \in NotePlaces \ {"idle", "error", "stop", "notify"}
        /\ Handler(m.status) = "cfg_dec" => m.status \in {"SUCCESS", "FAIL"}
        /\ Handler(m.status) = "feed" => m.status = "RUNNING"
        /\ Handler(m.status) = "run_dec" => m.status = "FINISHED"
    <3>1. m.status \in {"SUCCESS", "FAIL", "RUNNING", "FINISHED"}
      BY <2>2 DEF Reports
    <3> QED BY <3>1 DEF Handler, NotePlaces
  <2>4. notifier' \in NotifierType
    BY <2>1, <2>2, <2>3, ReportsAreMessages DEF NotifierType
  <2>5. notifier'.pc = Handler(m.status) /\ notifier'.msg = m
    BY <2>1
  <2>6. Shapes'
    BY <2>1, <2>2, <2>3, <2>5 DEF Shapes
  <2> QED BY <1>1, <1>4, <2>1, <2>2, <2>4, <2>6 DEF NotePops, NoteMoves, MainType, counts
<1>5. CASE NoteCfgDone
  <2>1. PICK p \in {"error", "notify"} : notifier' = [notifier EXCEPT !.pc = p]
          /\ (p = "error" => notifier.msg.status = "FAIL") /\ notifier.pc = "cfg_dec"
    BY <1>5 DEF NoteCfgDone, Notifier
  <2>2. p \in NotePlaces
    BY DEF NotePlaces
  <2>3. notifier'.pc = p /\ notifier'.msg = notifier.msg /\ notifier' \in NotifierType
    BY <1>3, <2>1, <2>2
  <2>4. Shapes'
    BY <1>1, <1>2, <1>5, <2>1, <2>3 DEF Shapes, NoteCfgDone
  <2> QED BY <1>1, <1>5, <2>3, <2>4 DEF NoteCfgDone, NoteMoves, MainType
<1>6. CASE NoteError \/ NoteStops \/ NoteFinished
  <2>1. notifier' = [notifier EXCEPT !.pc = "notify"] /\ notifier.pc # "idle"
    BY <1>6 DEF NoteError, NoteStops, NoteFinished, Notifier
  <2>2. "notify" \in NotePlaces
    BY DEF NotePlaces
  <2>3. notifier'.pc = "notify" /\ notifier'.msg = notifier.msg /\ notifier' \in NotifierType
    BY <1>3, <2>1, <2>2
  <2>4. /\ wl_run_count' \in Int /\ wl_cfg_count' = wl_cfg_count /\ main' = main /\ wl' = wl
        /\ file' = file /\ notes' = notes
    BY <1>1, <1>6 DEF NoteError, NoteStops, NoteFinished, RunCountAfter, counts
  <2>5. Shapes'
    BY <1>1, <1>2, <2>1, <2>3, <2>4 DEF Shapes
  <2>6. load_error' = TRUE \/ load_error' = load_error
    BY <1>6 DEF NoteError, NoteStops, NoteFinished
  <2>7. load_error' \in BOOLEAN /\ (load_error => load_error')
    BY <1>1, <2>6
  <2> QED BY <1>1, <2>3, <2>4, <2>5, <2>7 DEF NoteMoves, MainType
<1>7. CASE NoteFeeds
  <2>1. PICK ret \in {"OK", "NO_RQS", "ERROR"} :
          /\ load_provide_step(notifier.msg.wl, ret)
          /\ notifier' = [notifier EXCEPT !.pc = IF ret = "ERROR" THEN "stop" ELSE "notify"]
          /\ notifier.pc = "feed"
    BY <1>7 DEF NoteFeeds, Notifier
  <2>2. notifier.msg.wl \in Workloads
    BY <1>2, <2>1 DEF Reports
  <2>3. Provided(notifier.msg.wl, ret)
    BY <2>1, <2>2, ProvideStep
  <2>4. PICK p \in {"stop", "notify"} : p = IF ret = "ERROR" THEN "stop" ELSE "notify"
    OBVIOUS
  <2>5. p \in NotePlaces
    BY DEF NotePlaces
  <2>6. notifier'.pc = p /\ notifier'.msg = notifier.msg /\ notifier' \in NotifierType
    BY <1>3, <2>1, <2>4, <2>5
  <2>7. p = "stop" => load_error'
    BY <2>3, <2>4 DEF Provided
  <2>8. Shapes'
    BY <1>1, <1>2, <1>7, <2>1, <2>6, <2>7 DEF Shapes, NoteFeeds
  <2> QED BY <1>1, <1>7, <2>3, <2>6, <2>8 DEF NoteFeeds, NoteMoves, Provided, MainType, counts
<1>8. CASE NoteNotifies
  <2>1. notifier' = [notifier EXCEPT !.pc = "idle"] /\ main' = Woken
        /\ UNCHANGED <<wl, file, counts, load_error, notes>>
    BY <1>8 DEF NoteNotifies, Notifier
  <2>2. "idle" \in NotePlaces
    BY DEF NotePlaces
  <2>3. notifier'.pc = "idle" /\ notifier' \in NotifierType
    BY <1>3, <2>1, <2>2
  <2>4. Shapes'
    BY <1>1, <2>1, <2>3 DEF Shapes
  <2>5. \/ main' = [main EXCEPT !.pc = "cfg_test"] /\ main.pc = "cfg_waits"
        \/ main' = [main EXCEPT !.pc = "run_test"] /\ main.pc = "run_waits"
        \/ main' = main
    <3>1. CASE main.pc \in {"cfg_waits", "run_waits"}
      BY <2>1, <3>1 DEF Woken
    <3>2. CASE main.pc \notin {"cfg_waits", "run_waits"}
      BY <1>1, <2>1, <3>2 DEF Woken, MainType
    <3> QED BY <3>1, <3>2
  <2>6. \A q \in Places : [main EXCEPT !.pc = q] \in MainType
    BY <1>1 DEF MainType
  <2>7. /\ main' \in MainType /\ main'.err = main.err /\ main'.w = main.w /\ main'.j = main.j
        /\ main' # main => main.pc \in {"cfg_waits", "run_waits"}
    <3>1. "cfg_test" \in Places /\ "run_test" \in Places
      BY DEF Places
    <3>2. main' \in MainType
      BY <1>1, <2>5, <2>6, <3>1
    <3>3. main'.err = main.err /\ main'.w = main.w /\ main'.j = main.j
      BY <1>1, <2>5 DEF MainType
    <3> QED BY <2>5, <3>2, <3>3
  <2> QED BY <1>1, <2>1, <2>3, <2>4, <2>7 DEF NoteMoves, counts
<1> QED BY <1>4, <1>5, <1>6, <1>7, <1>8 DEF NotificationThread

(* The types and the reports keep.                                         *)
LEMMA TypesKeep ==
  ASSUME TypeOK, Shapes, Configured, [Next]_vars
  PROVE  TypeOK' /\ Shapes'
<1>1. /\ main \in MainType /\ wl \in [Workloads -> WlType] /\ file \in [Workloads -> FileType]
      /\ wl_cfg_count \in Int /\ wl_run_count \in Int /\ load_error \in BOOLEAN
      /\ notes \in Seq(Reports) /\ notifier \in NotifierType
  BY Typed DEF Shapes
<1>2. TypeOK' <=>
        /\ main' \in MainType /\ wl' \in [Workloads -> WlType] /\ file' \in [Workloads -> FileType]
        /\ wl_cfg_count' \in Int /\ wl_run_count' \in Int /\ load_error' \in BOOLEAN
        /\ notes' \in Seq(Messages) /\ notifier' \in NotifierType
  BY DEF TypeOK, WlType, FileType, MainType, Places, NotePlaces, NotifierType
<1>3. CASE MainThread \/ SpuriousWake
  <2>1. MainMoves
    BY <1>3, MainStep
  <2>2. Shapes'
    BY <2>1 DEF MainMoves, Shapes
  <2> QED BY <1>1, <1>2, <2>1, <2>2, ReportsAreMessages DEF MainMoves
<1>4. ASSUME NEW w \in Workloads, ConfigThread(w) \/ Advance(w)
      PROVE  TypeOK' /\ Shapes'
  <2>1. PICK v, m : WorkerMoves(w, v, m)
    BY <1>4, WorkerStep
  <2>2. wl' \in [Workloads -> WlType]
    BY <1>1, <2>1 DEF WorkerMoves
  <2>3. notes' \in Seq(Reports)
    BY <1>1, <2>1, AppendProperties DEF WorkerMoves
  <2>4. Shapes'
    BY <2>1, <2>3 DEF WorkerMoves, Shapes
  <2> QED BY <1>1, <1>2, <2>1, <2>2, <2>3, <2>4, ReportsAreMessages DEF WorkerMoves
<1>5. CASE NotificationThread
  <2>1. NoteMoves
    BY <1>5, NoteStep
  <2> QED BY <1>2, <2>1, ReportsAreMessages DEF NoteMoves
<1>6. CASE UNCHANGED vars
  BY <1>1, <1>2, <1>6, ReportsAreMessages DEF vars, Shapes
<1> QED BY <1>3, <1>4, <1>5, <1>6 DEF Next, Finished

(* A failure that is known or reported remains so.                         *)
LEMMA FailingStays ==
  ASSUME TypeOK, Shapes, Configured, Next, Failing
  PROVE  Failing'
<1>1. notes \in Seq(Reports) /\ DOMAIN notes = 1 .. Len(notes) /\ Len(notes) \in Nat
  BY LenProperties DEF Shapes
<1>2. CASE MainThread \/ SpuriousWake
  <2>1. MainMoves
    BY <1>2, MainStep
  <2> QED BY <2>1 DEF MainMoves, Failing
<1>3. ASSUME NEW w \in Workloads, ConfigThread(w) \/ Advance(w)
      PROVE  Failing'
  <2>1. PICK v, m : WorkerMoves(w, v, m)
    BY <1>3, WorkerStep
  <2>2. ASSUME NEW k \in DOMAIN notes PROVE k \in DOMAIN notes' /\ notes'[k] = notes[k]
    <3>1. CASE notes' = notes
      BY <3>1
    <3>2. CASE notes' = Append(notes, m)
      <4>1. m \in Reports
        BY <2>1 DEF WorkerMoves
      <4>2. /\ Append(notes, m) \in Seq(Reports) /\ Len(Append(notes, m)) = Len(notes) + 1
            /\ \A i \in 1 .. Len(notes) : Append(notes, m)[i] = notes[i]
        BY <1>1, <4>1, AppendProperties
      <4>3. DOMAIN Append(notes, m) = 1 .. Len(notes) + 1
        BY <4>2, LenProperties
      <4> QED BY <1>1, <3>2, <4>2, <4>3
    <3> QED BY <2>1, <3>1, <3>2 DEF WorkerMoves
  <2> QED BY <2>1, <2>2 DEF WorkerMoves, Failing
<1>4. CASE NotificationThread
  <2>1. NoteMoves
    BY <1>4, NoteStep
  <2>2. CASE load_error \/ main.err
    BY <2>1, <2>2 DEF NoteMoves, Failing
  <2>3. CASE NotePops
    <3>1. notes # <<>> /\ notes' = Tail(notes) /\ notifier.pc = "idle"
          /\ notifier' = [pc |-> Handler(Head(notes).status), msg |-> Head(notes)]
      BY <2>3 DEF NotePops
    <3>2. CASE \E k \in DOMAIN notes : notes[k].status = "FAIL"
      <4>1. PICK k \in DOMAIN notes : notes[k].status = "FAIL"
        BY <3>2
      <4>2. CASE k = 1
        <5>1. Head(notes).status = "FAIL"
          BY <4>1, <4>2
        <5> QED BY <3>1, <5>1 DEF Failing, Handler
      <4>3. CASE k # 1
        <5>1. Tail(notes) \in Seq(Reports) /\ Len(Tail(notes)) = Len(notes) - 1
              /\ \A i \in 1 .. Len(Tail(notes)) : Tail(notes)[i] = notes[i + 1]
          BY <1>1, <3>1, HeadTailProperties
        <5>2. DOMAIN Tail(notes) = 1 .. Len(notes) - 1
          BY <5>1, LenProperties
        <5>3. k - 1 \in 1 .. Len(notes) - 1 /\ (k - 1) + 1 = k
          BY <1>1, <4>3
        <5>4. k - 1 \in DOMAIN notes' /\ notes'[k - 1] = notes[k]
          BY <3>1, <5>1, <5>2, <5>3
        <5> QED BY <4>1, <5>4 DEF Failing
      <4> QED BY <4>2, <4>3
    <3> QED BY <2>2, <3>1, <3>2 DEF Failing
  <2>4. CASE ~NotePops
    <3>1. notes' = notes
      BY <1>4, <2>4 DEF NotificationThread, NoteCfgDone, NoteError, NoteFeeds, NoteStops,
                        NoteFinished, NoteNotifies
    <3>2. CASE NoteError
      BY <3>2 DEF NoteError, Failing
    <3>3. CASE NoteCfgDone
      <4>1. notifier \in NotifierType
        BY Typed
      <4>2. notifier.msg.status = "FAIL" =>
              notifier'.pc = "error" /\ notifier'.msg.status = "FAIL"
        BY <3>3, <4>1 DEF NoteCfgDone, Notifier, NotifierType
      <4> QED BY <2>2, <3>1, <3>3, <4>2 DEF Failing
    <3>4. CASE ~NoteError /\ ~NoteCfgDone
      <4>1. notifier.pc \notin {"cfg_dec", "error"}
        BY <1>4, <2>4, <3>4 DEF NotificationThread, NoteFeeds, NoteStops, NoteFinished,
                                NoteNotifies, Notifier
      <4> QED BY <2>2, <3>1, <4>1 DEF Failing
    <3> QED BY <3>2, <3>3, <3>4
  <2> QED BY <2>3, <2>4
<1>5. CASE UNCHANGED vars
  BY <1>5 DEF vars, Failing
<1> QED BY <1>2, <1>3, <1>4, <1>5 DEF Next, Finished

(* Each workload is configured once, by its own thread.                    *)
LEMMA ConfiguredKeeps ==
  ASSUME TypeOK, Shapes, Configured, Next
  PROVE  Configured'
<1>1. /\ main \in MainType /\ wl \in [Workloads -> WlType] /\ NWorkloads \in Nat
      /\ main.w \in 1 .. NWorkloads + 1 /\ main.pc \in Places /\ Workloads \subseteq Nat
  BY Typed, RunAssumption DEF MainType, Workloads
<1>2. CASE MainThread \/ SpuriousWake
  <2>1. CASE MainConfigure
    <3>1. /\ main.pc = "configure" /\ main' = [main EXCEPT !.pc = "load_steps"]
          /\ main.w \in Workloads
          /\ wl' = wl \/ wl' = [wl EXCEPT ![main.w].cfg = "running"]
      BY <1>1, <2>1 DEF MainConfigure, Main, Workloads
    <3>2. main'.pc = "load_steps" /\ main'.w = main.w
      BY <1>1, <3>1 DEF MainType
    <3>3. \A w \in Workloads : w # main.w => wl'[w] = wl[w]
      BY <1>1, <3>1
    <3>4. /\ wl[main.w].cfg = "none" /\ ~wl[main.w].ready
          /\ wl'[main.w].cfg \in {"none", "running"} /\ wl'[main.w].ready = wl[main.w].ready
      <4>1. wl[main.w].cfg = "none" /\ ~wl[main.w].ready /\ wl[main.w] \in WlType
        BY <1>1, <3>1 DEF Configured
      <4> QED BY <1>1, <3>1, <4>1 DEF WlType
    <3> QED BY <1>1, <3>1, <3>2, <3>3, <3>4 DEF Configured, Workloads
  <2>2. CASE MainStarts
    <3>1. /\ main' = [main EXCEPT !.pc = "count"] /\ main.w \in Workloads
          /\ wl' = [wl EXCEPT ![main.w].started = wl[main.w].ready]
      BY <1>1, <2>2 DEF MainStarts, Main, Workloads, Configured
    <3>2. main'.pc = "count" /\ main'.w = main.w
      BY <1>1, <3>1 DEF MainType
    <3>3. \A w \in Workloads : wl'[w].cfg = wl[w].cfg /\ wl'[w].ready = wl[w].ready
      BY <1>1, <3>1 DEF WlType
    <3> QED BY <3>1, <3>2, <3>3 DEF Configured, Workloads
  <2>3. CASE MainFeeds
    <3>1. PICK ret \in {"OK", "NO_RQS", "ERROR"} :
            /\ load_provide_step(main.w, ret)
            /\ main' = CASE ret = "OK" -> [main EXCEPT !.j = @ + 1]
                         [] ret = "NO_RQS" -> [main EXCEPT !.pc = "start"]
                         [] OTHER -> [main EXCEPT !.pc = "run_test"]
      BY <2>3 DEF MainFeeds
    <3>2. main.w \in Workloads /\ main.pc = "feed"
      BY <1>1, <2>3 DEF MainFeeds, Workloads
    <3>3. Provided(main.w, ret)
      BY <3>1, <3>2, ProvideStep
    <3>4. \/ main' = [main EXCEPT !.j = @ + 1] \/ main' = [main EXCEPT !.pc = "start"]
          \/ main' = [main EXCEPT !.pc = "run_test"]
      BY <3>1
    <3>5. main'.pc \in {"feed", "start", "run_test"} /\ main'.w = main.w
      BY <1>1, <3>2, <3>4 DEF MainType
    <3> QED BY <3>2, <3>3, <3>5 DEF Configured, Provided, Workloads
  <2>4. CASE ~MainConfigure /\ ~MainStarts /\ ~MainFeeds
    <3>1. wl' = wl
      BY <1>2, <2>4 DEF MainThread, MainLoadSteps, MainConfigured, MainTestsConfig,
        MainTestsRun, MainWaits, MainFed, MainCounts, MainStarted, SpuriousWake
    <3>2. CASE MainLoadSteps
      <4>1. /\ main.pc = "load_steps" /\ main.w <= NWorkloads
            /\ \/ main' = [main EXCEPT !.pc = "cfg_test", !.err = TRUE]
               \/ main' = [main EXCEPT !.pc = "configure", !.w = @ + 1]
        BY <3>2 DEF MainLoadSteps, Configured
      <4>2. main'.pc = "cfg_test" \/ (main'.pc = "configure" /\ main'.w = main.w + 1)
        BY <1>1, <4>1 DEF MainType
      <4> QED BY <1>1, <3>1, <4>1, <4>2 DEF Configured
    <3>3. CASE MainFed
      <4>1. main' = [main EXCEPT !.pc = "start"] /\ main.w <= NWorkloads
        BY <3>3 DEF MainFed, Main
      <4>2. main'.pc = "start" /\ main'.w = main.w
        BY <1>1, <4>1 DEF MainType
      <4> QED BY <3>1, <4>1, <4>2 DEF Configured
    <3>4. CASE ~MainLoadSteps /\ ~MainFed
      <4>1. main'.pc \notin {"configure", "load_steps", "start", "count"}
        <5>1. ASSUME NEW p \in Places, main' = [main EXCEPT !.pc = p] PROVE main'.pc = p
          BY <1>1, <5>1 DEF MainType
        <5>2. \/ \E p \in {"cfg_test", "cfg_towait", "cfg_waits", "run_test", "run_towait",
                           "run_waits", "finish"} : main' = [main EXCEPT !.pc = p]
              \/ main' = [main EXCEPT !.pc = "feed", !.w = 1, !.j = 0]
              \/ main' = [main EXCEPT !.pc = "feed", !.w = @ + 1, !.j = 0]
          BY <1>2, <2>4, <3>4 DEF MainThread, MainConfigured, MainTestsConfig, MainTestsRun,
            MainWaits, MainCounts, MainStarted, SpuriousWake, Woken, Main
        <5>3. CASE \E p \in {"cfg_test", "cfg_towait", "cfg_waits", "run_test", "run_towait",
                             "run_waits", "finish"} : main' = [main EXCEPT !.pc = p]
          BY <5>1, <5>3 DEF Places
        <5>4. CASE \/ main' = [main EXCEPT !.pc = "feed", !.w = 1, !.j = 0]
                   \/ main' = [main EXCEPT !.pc = "feed", !.w = @ + 1, !.j = 0]
          BY <1>1, <5>4 DEF MainType
        <5> QED BY <5>2, <5>3, <5>4
      <4> QED BY <3>1, <4>1 DEF Configured
    <3> QED BY <3>2, <3>3, <3>4
  <2> QED BY <2>1, <2>2, <2>3, <2>4
<1>3. ASSUME NEW w \in Workloads, ConfigThread(w) \/ Advance(w)
      PROVE  Configured'
  <2>1. PICK v, m : WorkerMoves(w, v, m)
    BY <1>3, WorkerStep
  <2>2. main' = main /\ \A u \in Workloads : u # w => wl'[u] = wl[u]
    BY <1>1, <2>1 DEF WorkerMoves
  <2>3. /\ wl'[w].cfg \in {"none", "running", "failed"} => ~wl'[w].ready
        /\ wl'[w].cfg = "attached" => wl'[w].ready
        /\ wl'[w].cfg = "none" <=> wl[w].cfg = "none"
    <3>1. wl[w] \in WlType /\ (wl[w].cfg \in {"none", "running", "failed"} => ~wl[w].ready)
          /\ (wl[w].cfg = "attached" => wl[w].ready)
          /\ \A u : [wl EXCEPT ![w] = u][w] = u
      BY <1>1 DEF Configured
    <3>2. CASE ConfigThread(w)
      BY <1>1, <3>1, <3>2 DEF ConfigThread, ConfigFails, ConfigGivesUp, ConfigAttaches,
                              ConfigSucceeds, WlType
    <3>3. CASE Advance(w)
      <4>1. wl'[w].cfg = wl[w].cfg /\ wl'[w].ready = wl[w].ready
        BY <1>1, <3>1, <3>3 DEF Advance, WlType
      <4> QED BY <3>1, <4>1
    <3> QED BY <1>3, <3>2, <3>3
  <2>4. /\ main.pc = "configure" /\ w >= main.w => wl'[w].cfg = "none"
        /\ main.pc = "load_steps" /\ w > main.w => wl'[w].cfg = "none"
    BY <2>3 DEF Configured
  <2> QED BY <2>2, <2>3, <2>4 DEF Configured
<1>4. CASE NotificationThread
  <2>1. NoteMoves
    BY <1>4, NoteStep
  <2>2. \A w \in Workloads : wl'[w].cfg = wl[w].cfg /\ wl'[w].ready = wl[w].ready
    <3>1. CASE NoteFeeds
      <4>1. PICK ret : load_provide_step(notifier.msg.wl, ret) /\ notifier.pc = "feed"
        BY <3>1 DEF NoteFeeds, Notifier
      <4>2. notifier.msg.wl \in Workloads
        BY <4>1 DEF Shapes, Reports
      <4> QED BY <4>1, <4>2, ProvideStep DEF Provided
    <3>2. CASE ~NoteFeeds
      <4>1. wl' = wl
        BY <1>4, <3>2 DEF NotificationThread, NotePops, NoteCfgDone, NoteError, NoteStops,
                          NoteFinished, NoteNotifies
      <4> QED BY <4>1
    <3> QED BY <3>1, <3>2
  <2>3. main'.w = main.w /\ (main'.pc = main.pc \/ main'.pc \in {"cfg_test", "run_test"})
    <3>1. main' = main \/ (main' = Woken /\ main.pc \in {"cfg_waits", "run_waits"})
      <4>1. main' = main \/ main' = Woken
        BY <1>4 DEF NotificationThread, NotePops, NoteCfgDone, NoteError, NoteFeeds, NoteStops,
                    NoteFinished, NoteNotifies
      <4> QED BY <2>1, <4>1 DEF NoteMoves
    <3>2. CASE main' = Woken /\ main.pc \in {"cfg_waits", "run_waits"}
      BY <1>1, <3>2 DEF Woken, MainType
    <3> QED BY <2>1, <3>1, <3>2 DEF NoteMoves
  <2> QED BY <2>2, <2>3 DEF Configured
<1>5. CASE UNCHANGED vars
  BY <1>5 DEF vars, Configured
<1> QED BY <1>2, <1>3, <1>4, <1>5 DEF Next, Finished
-----------------------------------------------------------------------------
(* Feeding.                                                                *)

(* Pending counts.                                                         *)
LEMMA PendingType ==
  ASSUME Shapes, NEW w \in Workloads
  PROVE  Number(notes, Begun(w)) \in Nat /\ Pending(w) \in Nat
<1>1. Number(notes, Begun(w)) \in Nat
  BY NumberType DEF Shapes
<1> QED BY <1>1 DEF Pending

(* A report taken is pending while it is handled.                          *)
LEMMA PopsPending ==
  ASSUME TypeOK, Shapes, NotePops, NEW w \in Workloads
  PROVE  Pending(w)' = Pending(w)
<1> DEFINE m == Head(notes)
<1>1. notes # <<>> /\ notes' = Tail(notes) /\ notifier.pc = "idle"
      /\ notifier' = [pc |-> Handler(m.status), msg |-> m]
  BY DEF NotePops
<1>2. notes \in Seq(Reports) /\ m \in Reports
  BY <1>1, HeadTailProperties DEF Shapes
<1>3. Number(notes', Begun(w)) = Number(notes, Begun(w)) - IF m \in Begun(w) THEN 1 ELSE 0
  BY <1>1, <1>2, NumberTail
<1> HIDE DEF m
<1>4. m \in Begun(w) <=> (m.wl = w /\ m.status = "RUNNING")
  BY <1>2 DEF Begun, Note, Reports
<1>5. Handler(m.status) = "feed" <=> m.status = "RUNNING"
  BY <1>2 DEF Handler, Reports
<1>6. (notifier'.pc = "feed" /\ notifier'.msg.wl = w) <=> m \in Begun(w)
  BY <1>1, <1>4, <1>5
<1>7. Number(notes, Begun(w)) \in Nat
  BY PendingType
<1>8. Begun(w)' = Begun(w)
  BY DEF Begun
<1> QED BY <1>1, <1>3, <1>6, <1>7, <1>8 DEF Pending

(* A workload whose queue and file are not touched.                        *)
LEMMA FedStays ==
  ASSUME NEW w \in Workloads, FedRight(w), main \in MainType, main' \in MainType,
         file'[w].step_id = file[w].step_id, wl'[w].last_step = wl[w].last_step,
         wl'[w].current_step = wl[w].current_step, wl'[w].started = wl[w].started,
         Pending(w)' = Pending(w), Comes(w)' => Comes(w),
         AtHand(w)' => (AtHand(w) /\ main'.j = main.j) \/ Comes(w)
  PROVE  FedRight(w)'
<1>1. main'.j \in 0 .. QSIZE
  BY DEF MainType
<1> QED BY <1>1, QSizeAssumption DEF FedRight

(* The queue is fed before the start and for each step begun, so that      *)
(* there is room for every step read.                                      *)
LEMMA FedKeeps ==
  ASSUME TypeOK, Shapes, Configured, Fed, Next
  PROVE  Fed'
<1>1. /\ main \in MainType /\ wl \in [Workloads -> WlType] /\ NWorkloads \in Nat
      /\ main.w \in 1 .. NWorkloads + 1 /\ main.pc \in Places /\ Workloads \subseteq Nat
      /\ main.j \in 0 .. QSIZE /\ QSIZE \in Nat /\ file \in [Workloads -> FileType]
  BY Typed, RunAssumption, QSizeAssumption DEF MainType, Workloads
<1>2. main' \in MainType /\ Shapes'
  <2>1. TypeOK' /\ Shapes'
    BY TypesKeep
  <2> QED BY <2>1 DEF TypeOK, MainType, Places
<1>3. \A w \in Workloads : FedRight(w) /\ Pending(w) \in Nat /\ wl[w] \in WlType
  BY <1>1, PendingType DEF Fed
<1>4. CASE MainThread \/ SpuriousWake
  <2>1. MainMoves
    BY <1>4, MainStep
  <2>2. \A w \in Workloads : Pending(w)' = Pending(w)
    BY <2>1 DEF MainMoves, Pending, Begun, Number
  <2>3. CASE MainConfigure
    <3>1. /\ main.pc = "configure" /\ main' = [main EXCEPT !.pc = "load_steps"]
          /\ main.w \in Workloads /\ file' = file
          /\ wl' = wl \/ wl' = [wl EXCEPT ![main.w].cfg = "running"]
      BY <1>1, <2>3 DEF MainConfigure, Main, Workloads
    <3>2. main'.pc = "load_steps"
      BY <1>1, <3>1 DEF MainType
    <3>3. \A w \in Workloads : /\ wl'[w].last_step = wl[w].last_step
                               /\ wl'[w].current_step = wl[w].current_step
                               /\ wl'[w].started = wl[w].started
      BY <1>1, <3>1 DEF WlType
    <3>4. \A w \in Workloads : Comes(w) /\ ~AtHand(w)'
      BY <3>1, <3>2 DEF Comes, Configures, AtHand
    <3> QED BY <1>1, <1>2, <1>3, <2>2, <3>1, <3>3, <3>4, FedStays DEF Fed
  <2>4. CASE MainFeeds
    <3>1. PICK ret \in {"OK", "NO_RQS", "ERROR"} :
            /\ load_provide_step(main.w, ret)
            /\ main' = CASE ret = "OK" -> [main EXCEPT !.j = @ + 1]
                         [] ret = "NO_RQS" -> [main EXCEPT !.pc = "start"]
                         [] OTHER -> [main EXCEPT !.pc = "run_test"]
      BY <2>4 DEF MainFeeds
    <3>2. main.w \in Workloads /\ main.pc = "feed" /\ main.j < QSIZE
      BY <1>1, <2>4 DEF MainFeeds, MayFeed, Workloads
    <3>3. Provided(main.w, ret)
      BY <3>1, <3>2, ProvideStep
    <3>4. \/ main' = [main EXCEPT !.j = @ + 1] /\ ret = "OK"
          \/ main' = [main EXCEPT !.pc = "start"] /\ ret # "OK"
          \/ main' = [main EXCEPT !.pc = "run_test"] /\ ret # "OK"
      BY <3>1
    <3>5. /\ main'.w = main.w /\ main'.pc \in {"feed", "start", "run_test"}
          /\ ret = "OK" => main'.j = main.j + 1
          /\ ret # "OK" => main'.j = main.j
      BY <1>1, <3>2, <3>4 DEF MainType
    <3>6. ASSUME NEW w \in Workloads, w # main.w PROVE FedRight(w)'
      <4>1. wl'[w] = wl[w] /\ file'[w] = file[w]
        BY <3>3, <3>6 DEF Provided
      <4>2. (Comes(w)' => Comes(w)) /\ ~AtHand(w)'
        BY <3>2, <3>5, <3>6 DEF Comes, Configures, Starts, AtHand
      <4> QED BY <1>1, <1>2, <1>3, <2>2, <4>1, <4>2, FedStays
    <3>7. FedRight(main.w)'
      <4> DEFINE w == main.w
      <4>1. /\ file[w].step_id = wl[w].last_step + 1 /\ ~wl[w].started
            /\ wl[w].last_step < main.j /\ wl[w].current_step = -1 /\ Pending(w) = 0
            /\ wl[w].last_step \in Int
        BY <1>3, <3>2 DEF FedRight, AtHand, WlType
      <4>2. Fits(w)
        BY <1>1, <3>2, <4>1 DEF Fits
      <4>3. /\ file'[w].step_id = wl'[w].last_step + 1
            /\ \/ wl'[w].last_step = wl[w].last_step
               \/ ret = "OK" /\ wl'[w].last_step = wl[w].last_step + 1
            /\ wl'[w].started = wl[w].started /\ wl'[w].current_step = wl[w].current_step
        BY <3>2, <3>3, <4>2 DEF Provided
      <4>4. Pending(w)' = 0 /\ wl'[w].last_step < main'.j /\ wl'[w].last_step < QSIZE
        <5>1. \A u \in Workloads : Pending(u)' = Pending(u)
          BY <2>2
        <5>2. Pending(main.w)' = 0
          <6>1. main'.w = main.w
            BY <3>5
          <6> QED BY <3>2, <4>1, <5>1, <6>1
        <5>3. wl'[w].last_step < main'.j /\ wl'[w].last_step < QSIZE
          BY <1>1, <3>2, <3>5, <4>1, <4>3
        <5> QED BY <3>5, <5>2, <5>3
      <4>5. ~Comes(w)'
        BY <1>1, <3>5 DEF Comes, Configures, Starts
      <4>6. w' = w
        BY <3>5
      <4> HIDE DEF w
      <4>7. FedRight(w)'
        BY <1>1, <4>1, <4>3, <4>4, <4>5, <4>6 DEF FedRight
      <4> QED BY <3>5, <4>7 DEF w
    <3>8. ASSUME NEW w \in Workloads PROVE FedRight(w)'
      <4>1. CASE w = main.w
        BY <3>5, <3>7, <4>1
      <4> QED BY <3>6, <4>1
    <3> QED BY <3>8 DEF Fed
  <2>5. CASE MainStarts
    <3>1. /\ main.pc = "start" /\ main' = [main EXCEPT !.pc = "count"] /\ main.w \in Workloads
          /\ file' = file /\ wl' = [wl EXCEPT ![main.w].started = wl[main.w].ready]
      BY <1>1, <2>5 DEF MainStarts, Main, Workloads, Configured
    <3>2. main'.pc = "count" /\ main'.w = main.w
      BY <1>1, <3>1 DEF MainType
    <3>3. ASSUME NEW w \in Workloads PROVE FedRight(w)'
      <4>1. ~AtHand(w)' /\ (Comes(w)' => Comes(w) /\ w # main.w)
        BY <1>1, <3>1, <3>2 DEF AtHand, Comes, Configures, Starts
      <4>2. CASE w # main.w
        <5>1. wl'[w] = wl[w]
          BY <1>1, <3>1, <4>2
        <5> QED BY <1>1, <1>2, <1>3, <2>2, <3>1, <4>1, <5>1, FedStays
      <4>3. CASE w = main.w
        <5>1. /\ wl'[w].last_step = wl[w].last_step
              /\ wl'[w].current_step = wl[w].current_step
          BY <1>1, <3>1 DEF WlType
        <5>2. ~wl[w].started
          BY <1>3, <3>1, <4>3 DEF FedRight, AtHand
        <5> QED BY <1>3, <2>2, <3>1, <4>1, <4>3, <5>1, <5>2 DEF FedRight
      <4> QED BY <4>2, <4>3
    <3> QED BY <3>3 DEF Fed
  <2>6. CASE ~MainConfigure /\ ~MainFeeds /\ ~MainStarts
    <3>1. wl' = wl /\ file' = file
      BY <1>4, <2>6 DEF MainThread, MainLoadSteps, MainConfigured, MainTestsConfig,
        MainTestsRun, MainWaits, MainFed, MainCounts, MainStarted, SpuriousWake
    <3>2. ASSUME NEW w \in Workloads
          PROVE  /\ Comes(w)' => Comes(w)
                 /\ AtHand(w)' => (AtHand(w) /\ main'.j = main.j) \/ Comes(w)
      <4>1. CASE MainLoadSteps
        <5>1. /\ main.pc = "load_steps"
              /\ \/ main' = [main EXCEPT !.pc = "cfg_test", !.err = TRUE]
                 \/ main' = [main EXCEPT !.pc = "configure", !.w = @ + 1]
          BY <4>1 DEF MainLoadSteps
        <5>2. main'.pc \in {"cfg_test", "configure"}
          BY <1>1, <5>1 DEF MainType
        <5> QED BY <5>1, <5>2 DEF Comes, Configures, AtHand
      <4>2. CASE MainTestsConfig
        <5>1. Comes(w)
          BY <4>2 DEF MainTestsConfig, Comes, Configures
        <5> QED BY <5>1
      <4>3. CASE MainCounts
        <5>1. main.pc = "count"
              /\ \/ main' = [main EXCEPT !.pc = "run_test"]
                 \/ main' = [main EXCEPT !.pc = "feed", !.w = @ + 1, !.j = 0]
          BY <4>3 DEF MainCounts
        <5>2. main'.pc = "run_test" \/ (main'.pc = "feed" /\ main'.w = main.w + 1)
          BY <1>1, <5>1 DEF MainType
        <5> QED BY <1>1, <5>1, <5>2 DEF Comes, Configures, Starts, AtHand
      <4>4. CASE MainFed
        <5>1. main.pc = "feed" /\ main' = [main EXCEPT !.pc = "start"]
          BY <4>4 DEF MainFed, Main
        <5>2. main'.pc = "start" /\ main'.w = main.w /\ main'.j = main.j
          BY <1>1, <5>1 DEF MainType
        <5> QED BY <5>1, <5>2 DEF Comes, Configures, Starts, AtHand
      <4>5. CASE MainConfigured \/ (MainWaits /\ main.pc = "cfg_towait")
                 \/ (SpuriousWake /\ main.pc = "cfg_waits")
        <5>1. Comes(w)
          BY <4>5 DEF MainConfigured, Main, Comes, Configures
        <5> QED BY <5>1
      <4>6. CASE MainTestsRun \/ (MainWaits /\ main.pc = "run_towait") \/ MainStarted
                 \/ (SpuriousWake /\ main.pc = "run_waits")
        <5>1. \E p \in {"run_towait", "run_waits", "finish", "run_test"} :
                main' = [main EXCEPT !.pc = p]
          BY <4>6 DEF MainTestsRun, MainWaits, MainStarted, SpuriousWake, Woken, Main
        <5>2. main'.pc \in {"run_towait", "run_waits", "finish", "run_test"}
          BY <1>1, <5>1 DEF MainType
        <5> QED BY <5>2 DEF Comes, Configures, Starts, AtHand
      <4>7. /\ MainWaits => main.pc \in {"cfg_towait", "run_towait"}
            /\ SpuriousWake => main.pc \in {"cfg_waits", "run_waits"}
        BY DEF MainWaits, SpuriousWake, Main
      <4> QED BY <1>4, <2>6, <4>1, <4>2, <4>3, <4>4, <4>5, <4>6, <4>7 DEF MainThread
    <3> QED BY <1>1, <1>2, <1>3, <2>2, <3>1, <3>2, FedStays DEF Fed
  <2> QED BY <2>3, <2>4, <2>5, <2>6
<1>5. ASSUME NEW w \in Workloads, ConfigThread(w) \/ Advance(w)
      PROVE  Fed'
  <2>1. PICK v, m : WorkerMoves(w, v, m)
    BY <1>5, WorkerStep
  <2>2. /\ main' = main /\ file' = file /\ notifier' = notifier
        /\ \A u \in Workloads : u # w => wl'[u] = wl[u]
        /\ notes \in Seq(Reports)
    BY <1>1, <2>1 DEF WorkerMoves, Shapes
  <2>3. ASSUME NEW u \in Workloads, NEW st \in {"SUCCESS", "FAIL", "RUNNING", "FINISHED"},
               notes' = Append(notes, Note(w, st)), st # "RUNNING" \/ u # w
        PROVE  Pending(u)' = Pending(u)
    <3>1. Note(w, st) \in Reports /\ Note(w, st) \notin Begun(u)
      BY <2>3 DEF Note, Reports, Begun
    <3>2. Number(notes', Begun(u)) = Number(notes, Begun(u))
      <4>1. Number(Append(notes, Note(w, st)), Begun(u)) = Number(notes, Begun(u)) + 0
        BY <2>2, <3>1, NumberAppend
      <4>2. Number(notes, Begun(u)) \in Nat
        BY PendingType
      <4> QED BY <2>3, <4>1, <4>2
    <3>3. Begun(u)' = Begun(u)
      BY DEF Begun
    <3> QED BY <2>2, <3>2, <3>3 DEF Pending
  <2>4. ASSUME NEW u \in Workloads, notes' = notes PROVE Pending(u)' = Pending(u)
    BY <2>2, <2>4 DEF Pending, Begun, Number
  <2>5. \A u \in Workloads : (Comes(u)' <=> Comes(u)) /\ (AtHand(u)' <=> AtHand(u))
    BY <2>2 DEF Comes, Configures, Starts, AtHand
  <2>6. CASE ConfigThread(w)
    <3>1. notes' = notes \/ \E st \in {"SUCCESS", "FAIL"} : notes' = Append(notes, Note(w, st))
      BY <2>6 DEF ConfigThread, ConfigFails, ConfigGivesUp, ConfigAttaches, ConfigSucceeds
    <3>2. \A u \in Workloads : Pending(u)' = Pending(u)
      BY <2>3, <2>4, <3>1
    <3>4. /\ wl'[w].last_step = wl[w].last_step
          /\ wl'[w].current_step = wl[w].current_step /\ wl'[w].started = wl[w].started
      <4>1. \/ wl' = [wl EXCEPT ![w].cfg = "failed"] \/ wl' = [wl EXCEPT ![w].cfg = "ended"]
            \/ wl' = [wl EXCEPT ![w].cfg = "attached", ![w].ready = TRUE]
        BY <2>6 DEF ConfigThread, ConfigFails, ConfigGivesUp, ConfigAttaches, ConfigSucceeds
      <4> QED BY <1>1, <1>3, <4>1 DEF WlType
    <3>3. \A u \in Workloads : /\ wl'[u].last_step = wl[u].last_step
                               /\ wl'[u].current_step = wl[u].current_step
                               /\ wl'[u].started = wl[u].started
      BY <2>2, <3>4
    <3> QED BY <1>1, <1>2, <1>3, <2>2, <2>5, <3>2, <3>3, FedStays DEF Fed
  <2>7. CASE Advance(w)
    <3> DEFINE s == wl[w].current_step + 1
               over == NoSteps(wl[w].last_step, s)
    <3>1. /\ wl' = [wl EXCEPT ![w].current_step = s, ![w].finished = over]
          /\ notes' = Append(notes, Note(w, IF over THEN "FINISHED" ELSE "RUNNING"))
          /\ wl[w].started
      BY <2>7 DEF Advance
    <3>2. wl'[w].last_step = wl[w].last_step /\ wl'[w].started = wl[w].started
          /\ wl'[w].current_step = wl[w].current_step + 1
      BY <1>1, <3>1 DEF WlType
    <3>3. Pending(w)' <= Pending(w) + 1
      <4>1. CASE over
        BY <1>3, <2>3, <3>1, <4>1
      <4>2. CASE ~over
        <5>1. Note(w, "RUNNING") \in Reports /\ Note(w, "RUNNING") \in Begun(w)
          BY DEF Note, Reports, Begun
        <5>2. notes' = Append(notes, Note(w, "RUNNING"))
          BY <3>1, <4>2
        <5>3. Number(notes', Begun(w)) = Number(notes, Begun(w)) + 1
          BY <2>2, <5>1, <5>2, NumberAppend
        <5>4. Begun(w)' = Begun(w) /\ Number(notes, Begun(w)) \in Nat
          BY PendingType DEF Begun
        <5> QED BY <2>2, <5>3, <5>4 DEF Pending
      <4> QED BY <4>1, <4>2
    <3>4. Pending(w)' \in Nat
      <4>1. Number(notes', Begun(w)) \in Nat
        BY <1>2, NumberType DEF Shapes
      <4>2. Begun(w)' = Begun(w)
        BY DEF Begun
      <4> QED BY <4>1, <4>2 DEF Pending
    <3>5. FedRight(w)'
      <4>1. ~Comes(w) /\ ~AtHand(w)
        BY <1>3, <3>1 DEF FedRight
      <4>2. wl[w].last_step \in Int /\ wl[w].current_step \in Int
        BY <1>3 DEF WlType
      <4>3. Pending(w) \in Nat /\ wl[w].last_step - wl[w].current_step + Pending(w) <= QSIZE
            /\ file[w].step_id = wl[w].last_step + 1
        BY <1>3 DEF FedRight
      <4>4. wl'[w].last_step - wl'[w].current_step + Pending(w)' <= QSIZE
        BY <1>1, <3>2, <3>3, <3>4, <4>2, <4>3
      <4> QED BY <2>2, <2>5, <3>1, <3>2, <4>1, <4>3, <4>4 DEF FedRight
    <3>6. ASSUME NEW u \in Workloads, u # w PROVE FedRight(u)'
      <4>1. Pending(u)' = Pending(u)
        BY <2>3, <3>1, <3>6
      <4> QED BY <1>1, <1>2, <1>3, <2>2, <2>5, <3>6, <4>1, FedStays
    <3> QED BY <3>5, <3>6 DEF Fed
  <2> QED BY <1>5, <2>6, <2>7
<1>6. CASE NotificationThread
  <2>1. NoteMoves
    BY <1>6, NoteStep
  <2>2. \A u \in Workloads : /\ Comes(u)' => Comes(u)
                             /\ AtHand(u)' => AtHand(u) /\ main'.j = main.j
    <3>1. CASE main' = main
      BY <3>1 DEF Comes, Configures, Starts, AtHand
    <3>2. CASE main' # main
      <4>1. main.pc \in {"cfg_waits", "run_waits"} /\ main' = Woken
        BY <1>6, <2>1, <3>2 DEF NoteMoves, NotificationThread, NotePops, NoteCfgDone,
          NoteError, NoteFeeds, NoteStops, NoteFinished, NoteNotifies
      <4>2. (main'.pc = "cfg_test" /\ main.pc = "cfg_waits") \/ main'.pc = "run_test"
        BY <1>1, <4>1 DEF Woken, MainType
      <4> QED BY <4>2 DEF Comes, Configures, Starts, AtHand
    <3> QED BY <3>1, <3>2
  <2>3. CASE NoteFeeds
    <3>1. PICK ret \in {"OK", "NO_RQS", "ERROR"} :
            /\ load_provide_step(notifier.msg.wl, ret)
            /\ notifier' = [notifier EXCEPT !.pc = IF ret = "ERROR" THEN "stop" ELSE "notify"]
            /\ notifier.pc = "feed" /\ notes' = notes /\ main' = main
      BY <2>3 DEF NoteFeeds, Notifier
    <3>2. PICK w \in Workloads : w = notifier.msg.wl
      BY <3>1 DEF Shapes, Reports
    <3>3. Provided(w, ret)
      BY <3>1, <3>2, ProvideStep
    <3>4. notifier'.pc # "feed"
      <4>1. notifier \in NotifierType
        BY Typed
      <4> QED BY <3>1, <4>1 DEF NotifierType
    <3>5. ASSUME NEW u \in Workloads
          PROVE  Pending(u)' = Pending(u) - IF u = w THEN 1 ELSE 0
      <4>1. Pending(u)' = Number(notes, Begun(u))
        BY <3>1, <3>4, PendingType DEF Pending, Begun
      <4> QED BY <3>1, <3>2, <4>1, PendingType DEF Pending
    <3>6. FedRight(w)'
      <4>1. Pending(w) >= 1
        BY <3>1, <3>2, PendingType DEF Pending
      <4>2. /\ file[w].step_id = wl[w].last_step + 1 /\ wl[w].started
            /\ wl[w].last_step - wl[w].current_step + Pending(w) <= QSIZE
            /\ wl[w].last_step \in Int /\ wl[w].current_step \in Int /\ Pending(w) \in Nat
            /\ ~Comes(w) /\ ~AtHand(w)
        BY <1>3, <4>1 DEF FedRight, WlType
      <4>3. Fits(w)
        BY <1>1, <4>1, <4>2 DEF Fits
      <4>4. /\ file'[w].step_id = wl'[w].last_step + 1
            /\ wl'[w].last_step \in {wl[w].last_step, wl[w].last_step + 1}
            /\ wl'[w].started /\ wl'[w].current_step = wl[w].current_step
        BY <3>3, <4>2, <4>3 DEF Provided
      <4> QED BY <1>1, <2>2, <3>5, <4>2, <4>4 DEF FedRight
    <3>7. ASSUME NEW u \in Workloads, u # w PROVE FedRight(u)'
      <4>1. wl'[u] = wl[u] /\ file'[u] = file[u]
        BY <3>3, <3>7 DEF Provided
      <4>2. Pending(u)' = Pending(u)
        BY <1>3, <3>5, <3>7
      <4> QED BY <1>1, <1>2, <1>3, <2>2, <4>1, <4>2, FedStays
    <3> QED BY <3>6, <3>7 DEF Fed
  <2>4. CASE ~NoteFeeds
    <3>1. wl' = wl /\ file' = file
      BY <1>6, <2>4 DEF NotificationThread, NotePops, NoteCfgDone, NoteError, NoteStops,
                        NoteFinished, NoteNotifies
    <3>2. \A u \in Workloads : Pending(u)' = Pending(u)
      <4>1. CASE NotePops
        BY <4>1, PopsPending
      <4>2. CASE ~NotePops
        <5>1. /\ notes' = notes /\ notifier.pc # "feed"
              /\ \E p \in {"error", "notify", "idle"} : notifier' = [notifier EXCEPT !.pc = p]
          BY <1>6, <2>4, <4>2 DEF NotificationThread, NoteCfgDone, NoteError, NoteStops,
                                  NoteFinished, NoteNotifies, Notifier
        <5>2. notifier'.pc # "feed"
          <6>1. notifier \in NotifierType
            BY Typed
          <6> QED BY <5>1, <6>1 DEF NotifierType
        <5> QED BY <5>1, <5>2 DEF Pending, Begun, Number
      <4> QED BY <4>1, <4>2
    <3> QED BY <1>1, <1>2, <1>3, <2>2, <3>1, <3>2, FedStays DEF Fed
  <2> QED BY <2>3, <2>4
<1>7. CASE UNCHANGED vars
  <2>1. wl' = wl /\ file' = file /\ main' = main /\ notes' = notes /\ notifier' = notifier
    BY <1>7 DEF vars
  <2>2. \A u \in Workloads : Pending(u)' = Pending(u)
    BY <2>1 DEF Pending, Begun, Number
  <2>3. \A u \in Workloads : /\ Comes(u)' => Comes(u)
                             /\ AtHand(u)' => AtHand(u) /\ main'.j = main.j
    BY <2>1 DEF Comes, Configures, Starts, AtHand
  <2> QED BY <1>1, <1>2, <1>3, <2>1, <2>2, <2>3, FedStays DEF Fed
<1> QED BY <1>4, <1>5, <1>6, <1>7 DEF Next, Finished
-----------------------------------------------------------------------------
(* Counting workloads.                                                     *)

(* A set of reports that share a status.                                   *)
Tells(st) == [wl : Workloads, status : {st}]
(* A report is in the set that its status names.                           *)
LEMMA TellsWhat ==
  ASSUME NEW m \in Reports, NEW st
  PROVE  m \in Tells(st) <=> m.status = st
BY DEF Reports, Tells

(* Unless a failure is known, no report is of one.                         *)
LEMMA NoneFails ==
  ASSUME ~Failing
  PROVE  /\ ~load_error /\ ~main.err /\ \A k \in DOMAIN notes : notes[k].status # "FAIL"
         /\ notifier.pc \in {"cfg_dec", "error"} => notifier.msg.status # "FAIL"
BY DEF Failing

(* The reports of one status that are not handled: the notification thread *)
(* takes one over when it takes it from the queue.                         *)
Handled(pc) == IF notifier.pc = pc THEN 1 ELSE 0
(* Taking a report from the queue leaves the two together as they were.    *)
LEMMA PopsOne ==
  ASSUME Shapes, ~Failing, NotePops, NEW st, NEW pc,
         <<st, pc>> \in {<<"SUCCESS", "cfg_dec">>, <<"FINISHED", "run_dec">>}
  PROVE  Number(notes', Tells(st)) + Handled(pc)' = Number(notes, Tells(st)) + Handled(pc)
<1> DEFINE m == Head(notes)
<1>1. notes # <<>> /\ notes' = Tail(notes) /\ notifier.pc = "idle"
      /\ notifier' = [pc |-> Handler(m.status), msg |-> m]
  BY DEF NotePops
<1>2. notes \in Seq(Reports) /\ m \in Reports
  BY <1>1, HeadTailProperties DEF Shapes
<1>3. m.status # "FAIL"
  <2>1. 1 \in DOMAIN notes /\ m = notes[1]
    BY <1>1, <1>2, EmptySeq, LenProperties
  <2> QED BY <2>1, NoneFails
<1>4. Number(notes', Tells(st)) = Number(notes, Tells(st)) - IF m \in Tells(st) THEN 1 ELSE 0
  BY <1>1, <1>2, NumberTail
<1>5. Number(notes, Tells(st)) \in Nat
  BY <1>2, NumberType
<1> HIDE DEF m
<1>6. m.status \in {"SUCCESS", "RUNNING", "FINISHED"}
  BY <1>2, <1>3 DEF Reports
<1>7. st \in {"SUCCESS", "FINISHED"} /\ (st = "SUCCESS" <=> pc = "cfg_dec")
      /\ (st = "FINISHED" <=> pc = "run_dec") /\ pc \in {"cfg_dec", "run_dec"}
  OBVIOUS
<1>8. m \in Tells(st) <=> Handler(m.status) = pc
  BY <1>2, <1>6, <1>7, TellsWhat DEF Handler
<1>9. Handled(pc) = 0 /\ Handled(pc)' = IF m \in Tells(st) THEN 1 ELSE 0
  BY <1>1, <1>7, <1>8 DEF Handled
<1> QED BY <1>4, <1>5, <1>9

(* A report sent.                                                          *)
LEMMA SendsOne ==
  ASSUME Shapes, NEW w \in Workloads, NEW s \in {"SUCCESS", "FAIL", "RUNNING", "FINISHED"},
         notes' = Append(notes, Note(w, s)), NEW st
  PROVE  Number(notes', Tells(st)) = Number(notes, Tells(st)) + IF s = st THEN 1 ELSE 0
<1>1. Note(w, s) \in Reports /\ Note(w, s).status = s
  BY DEF Note, Reports
<1>2. Note(w, s) \in Tells(st) <=> s = st
  BY <1>1, TellsWhat
<1>3. Number(notes', Tells(st))
        = Number(notes, Tells(st)) + IF Note(w, s) \in Tells(st) THEN 1 ELSE 0
  BY <1>1, NumberAppend DEF Shapes
<1> QED BY <1>2, <1>3

(* A failure sent is one reported.                                         *)
LEMMA SendsFailure ==
  ASSUME Shapes, NEW w \in Workloads, notes' = Append(notes, Note(w, "FAIL"))
  PROVE  Failing'
<1>1. Note(w, "FAIL") \in Reports /\ Note(w, "FAIL").status = "FAIL"
  BY DEF Note, Reports
<1>2. /\ notes' \in Seq(Reports) /\ Len(notes') = Len(notes) + 1 /\ Len(notes) \in Nat
      /\ notes'[Len(notes) + 1] = Note(w, "FAIL")
  BY <1>1, AppendProperties, LenProperties DEF Shapes
<1>3. Len(notes) + 1 \in DOMAIN notes'
  BY <1>2, LenProperties
<1> QED BY <1>1, <1>2, <1>3 DEF Failing

(* What the other steps leave of the counting.                             *)
LEMMA SameCounts ==
  ASSUME NEW pc \in {"cfg_dec", "run_dec"}, NEW st, notes' = notes,
         notifier' = notifier \/ (notifier.pc # pc /\ notifier'.pc # pc)
  PROVE  Number(notes', Tells(st)) = Number(notes, Tells(st)) /\ Handled(pc)' = Handled(pc)
BY DEF Handled

(* The counters in terms of these.                                         *)
LEMMA CountsAre ==
  /\ CfgCounts <=> wl_cfg_count = CfgCounted - Cardinality(Ended)
                                  + Number(notes, Tells("SUCCESS")) + Handled("cfg_dec")
  /\ RunCounts <=> wl_run_count = RunCounted - Cardinality(Done)
                                  + Number(notes, Tells("FINISHED")) + Handled("run_dec")
BY DEF CfgCounts, RunCounts, Succeeded, Over, Tells, Handled

(* All the terms are integers.                                             *)
LEMMA CountTypes ==
  ASSUME TypeOK, Shapes
  PROVE  /\ wl_cfg_count \in Int /\ wl_run_count \in Int
         /\ CfgCounted \in 0 .. NWorkloads /\ RunCounted \in 0 .. NWorkloads
         /\ Cardinality(Ended) \in 0 .. NWorkloads /\ Cardinality(Done) \in 0 .. NWorkloads
         /\ \A st : Number(notes, Tells(st)) \in Nat
         /\ \A pc : Handled(pc) \in {0, 1}
<1>1. main \in MainType /\ wl_cfg_count \in Int /\ wl_run_count \in Int
  BY Typed
<1>2. main.w \in 1 .. NWorkloads + 1 /\ NWorkloads \in Nat
  BY <1>1, RunAssumption DEF MainType
<1>3. Ended \subseteq Workloads /\ Done \subseteq Workloads
  BY DEF Ended, Done
<1>4. \A st : Number(notes, Tells(st)) \in Nat
  BY NumberType DEF Shapes
<1> QED BY <1>1, <1>2, <1>3, <1>4, SomeWorkloads DEF CfgCounted, RunCounted, Handled

(* wl_cfg_count counts the workloads whose configuration is under way.     *)
LEMMA CfgKeeps ==
  ASSUME TypeOK, Shapes, Configured, Next, CfgCounts, ~Failing, ~Failing'
  PROVE  CfgCounts'
<1> DEFINE N == Number(notes, Tells("SUCCESS"))
           H == Handled("cfg_dec")
           E == Cardinality(Ended)
<1>1. /\ main \in MainType /\ wl \in [Workloads -> WlType] /\ NWorkloads \in Nat
      /\ main.w \in 1 .. NWorkloads + 1 /\ main.pc \in Places /\ notifier \in NotifierType
  BY Typed, RunAssumption DEF MainType
<1>2. /\ wl_cfg_count = CfgCounted - E + N + H
      /\ wl_cfg_count \in Int /\ CfgCounted \in Int /\ E \in Int /\ N \in Int /\ H \in Int
  BY CountsAre, CountTypes
<1>3. ASSUME wl_cfg_count' - wl_cfg_count = (CfgCounted' - CfgCounted) - (E' - E)
                                            + (N' - N) + (H' - H),
             CfgCounted' \in Int, E' \in Int, N' \in Int, H' \in Int, wl_cfg_count' \in Int
      PROVE  CfgCounts'
  <2>1. wl_cfg_count' = CfgCounted' - E' + N' + H'
    BY <1>2, <1>3
  <2> QED BY <2>1 DEF CfgCounts, Succeeded, Tells, Handled
<1>4. ASSUME wl_cfg_count' = wl_cfg_count, CfgCounted' = CfgCounted, E' = E, N' = N, H' = H
      PROVE  CfgCounts'
  BY <1>2, <1>3, <1>4
<1>5. ASSUME \A w \in Workloads : wl'[w].cfg = wl[w].cfg /\ wl'[w].ready = wl[w].ready
      PROVE  E' = E
  BY <1>5 DEF Ended
<1>6. ASSUME notes' = notes, notifier' = notifier PROVE N' = N /\ H' = H
  BY <1>6, SameCounts
<1> HIDE DEF N, H, E
<1>7. CASE MainThread \/ SpuriousWake
  <2>1. MainMoves
    BY <1>7, MainStep
  <2>2. N' = N /\ H' = H
    BY <1>6, <2>1 DEF MainMoves
  <2>3. CASE MainConfigure
    <3>1. /\ main.pc = "configure" /\ main' = [main EXCEPT !.pc = "load_steps"]
          /\ main.w \in Workloads /\ wl_cfg_count' = wl_cfg_count
          /\ wl' = wl \/ wl' = [wl EXCEPT ![main.w].cfg = "running"]
      BY <1>1, <2>3 DEF MainConfigure, Main, Workloads, counts
    <3>2. main'.pc = "load_steps" /\ main'.w = main.w
      BY <1>1, <3>1 DEF MainType
    <3>3. wl[main.w].cfg = "none" /\ wl[main.w] \in WlType
      BY <1>1, <3>1 DEF Configured
    <3>4. /\ \A w \in Workloads : w # main.w => wl'[w] = wl[w]
          /\ wl'[main.w].cfg # "ended"
      BY <1>1, <3>1, <3>3 DEF WlType
    <3>5. Ended' = Ended
      BY <3>1, <3>3, <3>4 DEF Ended
    <3>6. CfgCounted' = CfgCounted
      BY <3>1, <3>2 DEF CfgCounted
    <3> QED BY <1>4, <2>2, <3>1, <3>5, <3>6 DEF E
  <2>4. CASE MainLoadSteps
    <3>1. wl' = wl /\ main.pc = "load_steps" /\ main.w <= NWorkloads
      BY <2>4 DEF MainLoadSteps, Configured
    <3>2. CASE main' = [main EXCEPT !.pc = "cfg_test", !.err = TRUE]
      <4>1. main'.err = TRUE
        BY <1>1, <3>2 DEF MainType
      <4> QED BY <4>1 DEF Failing
    <3>3. CASE /\ main' = [main EXCEPT !.pc = "configure", !.w = @ + 1]
               /\ wl_cfg_count' = CfgCountAfter
      <4>1. main'.pc = "configure" /\ main'.w = main.w + 1
        BY <1>1, <3>3 DEF MainType
      <4>2. CfgCounted' = CfgCounted + 1 /\ wl_cfg_count' = wl_cfg_count + 1
        BY <1>1, <3>1, <3>3, <4>1 DEF CfgCounted, CfgCountAfter
      <4>3. E' = E
        BY <1>5, <3>1
      <4> QED BY <1>2, <1>3, <2>2, <4>2, <4>3
    <3> QED BY <2>4, <3>2, <3>3 DEF MainLoadSteps
  <2>5. CASE MainConfigured
    <3>1. main.pc = "configure" /\ main.w > NWorkloads /\ main' = [main EXCEPT !.pc = "cfg_test"]
          /\ wl' = wl /\ wl_cfg_count' = wl_cfg_count
      BY <2>5 DEF MainConfigured, Main, counts
    <3>2. main'.pc = "cfg_test"
      BY <1>1, <3>1 DEF MainType
    <3>3. CfgCounted' = CfgCounted
      BY <1>1, <3>1, <3>2 DEF CfgCounted
    <3> QED BY <1>4, <1>5, <2>2, <3>1, <3>3
  <2>6. CASE ~MainConfigure /\ ~MainLoadSteps /\ ~MainConfigured
    <3>1. wl_cfg_count' = wl_cfg_count /\ main.pc \notin {"configure", "load_steps"}
      BY <1>7, <2>6 DEF MainThread, MainTestsConfig, MainTestsRun, MainWaits, MainFeeds, MainFed,
                        MainStarts, MainCounts, MainStarted, SpuriousWake, Main, counts
    <3>2. main'.pc \notin {"configure", "load_steps"}
      <4>1. \/ \E p \in Places \ {"configure", "load_steps"} : main' = [main EXCEPT !.pc = p]
            \/ main' = [main EXCEPT !.pc = "feed", !.w = 1, !.j = 0]
            \/ main' = [main EXCEPT !.pc = "feed", !.w = @ + 1, !.j = 0]
            \/ main' = [main EXCEPT !.j = @ + 1]
        <5>1. CASE MainFeeds
          <6>1. \/ main' = [main EXCEPT !.j = @ + 1] \/ main' = [main EXCEPT !.pc = "start"]
                \/ main' = [main EXCEPT !.pc = "run_test"]
            BY <5>1 DEF MainFeeds
          <6> QED BY <6>1 DEF Places
        <5>2. CASE ~MainFeeds
          BY <1>7, <2>6, <5>2 DEF MainThread, MainTestsConfig, MainTestsRun, MainWaits, MainFed,
                MainStarts, MainCounts, MainStarted, SpuriousWake, Main, Woken, Places
        <5> QED BY <5>1, <5>2
      <4> QED BY <1>1, <3>1, <4>1 DEF MainType
    <3>3. CfgCounted' = CfgCounted
      BY <3>1, <3>2 DEF CfgCounted
    <3>4. \A w \in Workloads : wl'[w].cfg = wl[w].cfg /\ wl'[w].ready = wl[w].ready
      <4>1. CASE MainFeeds
        <5>1. main.w \in Workloads
          BY <1>1, <4>1 DEF MainFeeds, Workloads
        <5> QED BY <4>1, <5>1, ProvideStep DEF MainFeeds, Provided
      <4>2. CASE MainStarts
        <5>1. wl' = [wl EXCEPT ![main.w].started = wl[main.w].ready]
          BY <4>2 DEF MainStarts
        <5> QED BY <1>1, <5>1 DEF WlType
      <4>3. CASE ~MainFeeds /\ ~MainStarts
        <5>1. wl' = wl
          BY <1>7, <2>6, <4>3 DEF MainThread, MainTestsConfig, MainTestsRun, MainWaits, MainFed,
                                  MainCounts, MainStarted, SpuriousWake
        <5> QED BY <5>1
      <4> QED BY <4>1, <4>2, <4>3
    <3> QED BY <1>4, <1>5, <2>2, <3>1, <3>3, <3>4
  <2> QED BY <2>3, <2>4, <2>5, <2>6
<1>8. ASSUME NEW w \in Workloads, ConfigThread(w) \/ Advance(w)
      PROVE  CfgCounts'
  <2>1. PICK v, m : WorkerMoves(w, v, m)
    BY <1>8, WorkerStep
  <2>2. /\ main' = main /\ notifier' = notifier /\ wl_cfg_count' = wl_cfg_count
        /\ \A u \in Workloads : u # w => wl'[u] = wl[u]
        /\ wl[w] \in WlType
    BY <1>1, <2>1 DEF WorkerMoves
  <2>3. CfgCounted' = CfgCounted /\ H' = H
    BY <2>2 DEF CfgCounted, H, Handled
  <2>4. ASSUME notes' = notes PROVE N' = N
    BY <2>4 DEF N, Tells, Number
  <2>5. CASE ConfigFails(w)
    BY <2>5, SendsFailure DEF ConfigFails
  <2>6. CASE ConfigGivesUp(w) \/ ConfigAttaches(w)
    <3>1. /\ \/ wl' = [wl EXCEPT ![w].cfg = "ended"]
             \/ wl' = [wl EXCEPT ![w].cfg = "attached", ![w].ready = TRUE]
          /\ wl[w].cfg \in {"running", "failed"} /\ notes' = notes
      BY <2>6 DEF ConfigGivesUp, ConfigAttaches
    <3>2. ~wl[w].ready
      BY <3>1 DEF Configured
    <3>3. ~(wl'[w].cfg = "ended" /\ wl'[w].ready)
      BY <1>1, <2>2, <3>1, <3>2 DEF WlType
    <3>4. Ended' = Ended
      BY <2>2, <3>1, <3>3 DEF Ended
    <3> QED BY <1>4, <2>2, <2>3, <2>4, <3>1, <3>4 DEF E
  <2>7. CASE ConfigSucceeds(w)
    <3>1. /\ wl[w].cfg = "attached" /\ wl' = [wl EXCEPT ![w].cfg = "ended"]
          /\ notes' = Append(notes, Note(w, "SUCCESS"))
      BY <2>7 DEF ConfigSucceeds
    <3>2. wl'[w].cfg = "ended" /\ wl'[w].ready = wl[w].ready /\ wl[w].ready
      BY <1>1, <2>2, <3>1 DEF WlType, Configured
    <3>3. Ended' = Ended \cup {w} /\ w \notin Ended
      BY <2>2, <3>1, <3>2 DEF Ended
    <3>4. IsFiniteSet(Ended)
      BY SomeWorkloads DEF Ended
    <3>5. E' = E + 1
      BY <3>3, <3>4, FS_AddElement DEF E
    <3>6. N' = N + 1
      <4>1. Number(notes', Tells("SUCCESS")) = N + 1
        BY <3>1, SendsOne DEF N
      <4> QED BY <4>1 DEF N, Tells
    <3> QED BY <1>2, <1>3, <2>2, <2>3, <3>5, <3>6
  <2>8. CASE Advance(w)
    <3>1. \E s \in {"RUNNING", "FINISHED"} : notes' = Append(notes, Note(w, s))
      BY <2>8 DEF Advance
    <3>2. N' = N
      <4>1. Number(notes', Tells("SUCCESS")) = N + 0
        BY <3>1, SendsOne DEF N
      <4> QED BY <1>2, <4>1 DEF N, Tells
    <3>3. wl'[w].cfg = wl[w].cfg /\ wl'[w].ready = wl[w].ready
      BY <1>1, <2>2, <2>8 DEF Advance, WlType
    <3>4. E' = E
      BY <1>5, <2>2, <3>3
    <3> QED BY <1>4, <2>2, <2>3, <3>2, <3>4
  <2> QED BY <1>8, <2>5, <2>6, <2>7, <2>8 DEF ConfigThread
<1>9. CASE NotificationThread
  <2>1. NoteMoves
    BY <1>9, NoteStep
  <2>2. CfgCounted' = CfgCounted
    <3>1. CASE main' = main
      BY <3>1 DEF CfgCounted
    <3>2. CASE main' # main
      <4>1. main.pc \in {"cfg_waits", "run_waits"} /\ main' = Woken
        BY <1>9, <2>1, <3>2 DEF NoteMoves, NotificationThread, NotePops, NoteCfgDone,
          NoteError, NoteFeeds, NoteStops, NoteFinished, NoteNotifies
      <4>2. main'.pc \in {"cfg_test", "run_test"}
        BY <1>1, <4>1 DEF Woken, MainType
      <4> QED BY <4>1, <4>2 DEF CfgCounted
    <3> QED BY <3>1, <3>2
  <2>3. E' = E
    <3>1. CASE NoteFeeds
      <4>1. PICK ret : load_provide_step(notifier.msg.wl, ret) /\ notifier.pc = "feed"
        BY <3>1 DEF NoteFeeds, Notifier
      <4>2. notifier.msg.wl \in Workloads
        BY <4>1 DEF Shapes, Reports
      <4> QED BY <1>5, <4>1, <4>2, ProvideStep DEF Provided
    <3>2. CASE ~NoteFeeds
      <4>1. wl' = wl
        BY <1>9, <3>2 DEF NotificationThread, NotePops, NoteCfgDone, NoteError, NoteStops,
                          NoteFinished, NoteNotifies
      <4> QED BY <1>5, <4>1
    <3> QED BY <3>1, <3>2
  <2>4. CASE NotePops
    <3>1. N' + H' = N + H
      BY <2>4, PopsOne DEF N, H, Tells, Handled
    <3>2. wl_cfg_count' = wl_cfg_count
      BY <2>4 DEF NotePops, counts
    <3>3. N' \in Int /\ H' \in Int
      <4>1. Number(notes', Tells("SUCCESS")) \in Nat
        BY <2>1, NumberType DEF NoteMoves
      <4> QED BY <4>1 DEF N, H, Handled, Tells
    <3>4. CfgCounted' \in Int /\ E' \in Int /\ wl_cfg_count' \in Int
      BY <1>2, <2>2, <2>3, <3>2
    <3>5. wl_cfg_count' = CfgCounted' - E' + N' + H'
      <4>1. N' + H' = N + H
        BY <3>1
      <4>2. PICK n \in Int, h \in Int, n1 \in Int, h1 \in Int :
              n = N /\ h = H /\ n1 = N' /\ h1 = H'
        BY <1>2, <3>3
      <4>3. PICK a \in Int : a = CfgCounted - E /\ a = CfgCounted' - E'
        BY <1>2, <2>2, <2>3
      <4>4. n1 + h1 = n + h
        BY <4>1, <4>2
      <4>5. a + n + h = a + n1 + h1
        BY <4>4
      <4> QED BY <1>2, <3>2, <4>2, <4>3, <4>5
    <3> QED BY <3>5 DEF CfgCounts, Succeeded, Tells, N, H, E, Handled
  <2>5. CASE NoteCfgDone
    <3>1. notifier.pc = "cfg_dec" /\ wl_cfg_count' = wl_cfg_count - 1 /\ notes' = notes
          /\ \E p \in {"error", "notify"} : notifier' = [notifier EXCEPT !.pc = p]
      BY <2>5 DEF NoteCfgDone, Notifier
    <3>2. notifier'.pc # "cfg_dec"
      BY <1>1, <3>1 DEF NotifierType
    <3>3. H = 1 /\ H' = 0 /\ N' = N
      BY <3>1, <3>2 DEF H, Handled, N, Number, Tells
    <3> QED BY <1>2, <1>3, <2>2, <2>3, <3>1, <3>3
  <2>6. CASE ~NotePops /\ ~NoteCfgDone
    <3>1. /\ notifier.pc # "cfg_dec" /\ wl_cfg_count' = wl_cfg_count /\ notes' = notes
          /\ \E p \in {"stop", "notify", "idle"} : notifier' = [notifier EXCEPT !.pc = p]
      BY <1>9, <2>6 DEF NotificationThread, NoteError, NoteFeeds, NoteStops, NoteFinished,
                        NoteNotifies, Notifier, counts
    <3>2. notifier'.pc # "cfg_dec"
      BY <1>1, <3>1 DEF NotifierType
    <3>3. N' = N /\ H' = H
      BY <3>1, <3>2 DEF H, Handled, N, Number, Tells
    <3> QED BY <1>4, <2>2, <2>3, <3>1, <3>3
  <2> QED BY <2>4, <2>5, <2>6
<1>10. CASE UNCHANGED vars
  BY <1>4, <1>10 DEF vars, CfgCounted, Ended, E, N, H, Handled, Number, Tells
<1> QED BY <1>7, <1>8, <1>9, <1>10 DEF Next, Finished

(* wl_run_count counts the workloads that were started and not finished.   *)
LEMMA RunKeeps ==
  ASSUME TypeOK, Shapes, Configured, Next, RunCounts, ~Failing, ~Failing'
  PROVE  RunCounts'
<1> DEFINE N == Number(notes, Tells("FINISHED"))
           H == Handled("run_dec")
           E == Cardinality(Done)
<1>1. /\ main \in MainType /\ wl \in [Workloads -> WlType] /\ NWorkloads \in Nat
      /\ main.w \in 1 .. NWorkloads + 1 /\ main.pc \in Places /\ notifier \in NotifierType
      /\ ~load_error /\ ~main.err /\ ~load_error' /\ ~main'.err
  BY Typed, RunAssumption DEF MainType, Failing
<1>2. /\ wl_run_count = RunCounted - E + N + H
      /\ wl_run_count \in Int /\ RunCounted \in Int /\ E \in Int /\ N \in Int /\ H \in Int
  BY CountsAre, CountTypes
<1>3. ASSUME wl_run_count' - wl_run_count = (RunCounted' - RunCounted) - (E' - E)
                                            + (N' - N) + (H' - H),
             RunCounted' \in Int, E' \in Int, N' \in Int, H' \in Int, wl_run_count' \in Int
      PROVE  RunCounts'
  <2>1. wl_run_count' = RunCounted' - E' + N' + H'
    BY <1>2, <1>3
  <2> QED BY <2>1 DEF RunCounts, Over, Tells, Handled
<1>4. ASSUME wl_run_count' = wl_run_count, RunCounted' = RunCounted, E' = E, N' = N, H' = H
      PROVE  RunCounts'
  BY <1>2, <1>3, <1>4
<1>5. ASSUME \A w \in Workloads : wl'[w].finished = wl[w].finished
      PROVE  E' = E
  BY <1>5 DEF Done
<1>6. ASSUME notes' = notes, notifier' = notifier PROVE N' = N /\ H' = H
  BY <1>6, SameCounts
<1> HIDE DEF N, H, E
<1>7. CASE MainThread \/ SpuriousWake
  <2>1. MainMoves
    BY <1>7, MainStep
  <2>2. N' = N /\ H' = H
    BY <1>6, <2>1 DEF MainMoves
  <2>3. \A w \in Workloads : wl'[w].finished = wl[w].finished
    <3>1. CASE MainFeeds
      <4>1. main.w \in Workloads
        BY <1>1, <3>1 DEF MainFeeds, Workloads
      <4> QED BY <3>1, <4>1, ProvideStep DEF MainFeeds, Provided
    <3>2. CASE MainStarts \/ MainConfigure
      <4>1. \/ wl' = [wl EXCEPT ![main.w].started = wl[main.w].ready]
            \/ wl' = [wl EXCEPT ![main.w].cfg = "running"] \/ wl' = wl
        BY <3>2 DEF MainStarts, MainConfigure
      <4> QED BY <1>1, <4>1 DEF WlType
    <3>3. CASE ~MainFeeds /\ ~MainStarts /\ ~MainConfigure
      <4>1. wl' = wl
        BY <1>7, <3>3 DEF MainThread, MainLoadSteps, MainConfigured, MainTestsConfig,
          MainTestsRun, MainWaits, MainFed, MainCounts, MainStarted, SpuriousWake
      <4> QED BY <4>1
    <3> QED BY <3>1, <3>2, <3>3
  <2>4. E' = E
    BY <1>5, <2>3
  <2>5. CASE MainCounts
    <3>1. /\ main.pc = "count" /\ main' = [main EXCEPT !.pc = "feed", !.w = @ + 1, !.j = 0]
          /\ wl_run_count' = wl_run_count + 1
      BY <1>1, <2>5 DEF MainCounts
    <3>2. main'.pc = "feed" /\ main'.w = main.w + 1
      BY <1>1, <3>1 DEF MainType
    <3>3. RunCounted = main.w - 1 /\ RunCounted' = main.w
      BY <1>1, <3>1, <3>2 DEF RunCounted, Configures, Starts
    <3>4. RunCounted' \in Int /\ wl_run_count' \in Int /\ RunCounted' = RunCounted + 1
      BY <1>1, <1>2, <3>1, <3>3
    <3> QED BY <1>2, <1>3, <2>2, <2>4, <3>1, <3>4
  <2>6. CASE ~MainCounts
    <3>1. wl_run_count' = wl_run_count
      BY <1>7, <2>6 DEF MainThread, MainConfigure, MainLoadSteps, MainConfigured,
        MainTestsConfig, MainTestsRun, MainWaits, MainFeeds, MainFed, MainStarts, MainStarted,
        SpuriousWake, counts
    <3>2. RunCounted' = RunCounted
      <4>1. CASE MainFeeds
        <5>1. PICK ret \in {"OK", "NO_RQS", "ERROR"} :
                /\ load_provide_step(main.w, ret)
                /\ main' = CASE ret = "OK" -> [main EXCEPT !.j = @ + 1]
                             [] ret = "NO_RQS" -> [main EXCEPT !.pc = "start"]
                             [] OTHER -> [main EXCEPT !.pc = "run_test"]
          BY <4>1 DEF MainFeeds
        <5>2. main.w \in Workloads /\ main.pc = "feed"
          BY <1>1, <4>1 DEF MainFeeds, Workloads
        <5>3. ret # "ERROR"
          BY <1>1, <5>1, <5>2, ProvideStep DEF Provided
        <5>4. main' = [main EXCEPT !.j = @ + 1] \/ main' = [main EXCEPT !.pc = "start"]
          BY <5>1, <5>3
        <5>5. main'.pc \in {"feed", "start"} /\ main'.w = main.w
          BY <1>1, <5>2, <5>4 DEF MainType
        <5> QED BY <5>2, <5>5 DEF RunCounted, Configures, Starts
      <4>2. CASE MainFed \/ MainStarts
        <5>1. main.pc \in {"feed", "start"}
              /\ \E p \in {"start", "count"} : main' = [main EXCEPT !.pc = p]
          BY <4>2 DEF MainFed, MainStarts, Main
        <5>2. main'.pc \in {"start", "count"} /\ main'.w = main.w
          BY <1>1, <5>1 DEF MainType
        <5> QED BY <5>1, <5>2 DEF RunCounted, Configures, Starts
      <4>3. CASE MainStarted
        <5>1. main.pc = "feed" /\ main.w > NWorkloads /\ main' = [main EXCEPT !.pc = "run_test"]
          BY <4>3 DEF MainStarted, Main
        <5>2. main'.pc = "run_test"
          BY <1>1, <5>1 DEF MainType
        <5> QED BY <1>1, <5>1, <5>2 DEF RunCounted, Configures, Starts
      <4>4. CASE MainTestsConfig
        <5>1. /\ main.pc = "cfg_test"
              /\ \/ main' = [main EXCEPT !.pc = "cfg_towait"]
                 \/ main' = [main EXCEPT !.pc = "feed", !.w = 1, !.j = 0]
          BY <1>1, <4>4 DEF MainTestsConfig
        <5>2. main'.pc = "cfg_towait" \/ (main'.pc = "feed" /\ main'.w = 1)
          BY <1>1, <5>1 DEF MainType
        <5> QED BY <5>1, <5>2 DEF RunCounted, Configures, Starts
      <4>5. CASE MainLoadSteps
        <5>1. main' = [main EXCEPT !.pc = "configure", !.w = @ + 1]
              \/ main' = [main EXCEPT !.pc = "cfg_test", !.err = TRUE]
          BY <4>5 DEF MainLoadSteps
        <5>2. main'.pc \in {"configure", "cfg_test"} /\ main.pc = "load_steps"
          BY <1>1, <4>5, <5>1 DEF MainType, MainLoadSteps
        <5> QED BY <5>2 DEF RunCounted, Configures, Starts
      <4>6. CASE \/ MainConfigure \/ MainConfigured \/ (MainWaits /\ main.pc = "cfg_towait")
                 \/ (SpuriousWake /\ main.pc = "cfg_waits")
        <5>1. /\ main.pc \in {"configure", "cfg_towait", "cfg_waits"}
              /\ \E p \in {"load_steps", "cfg_test", "cfg_waits"} :
                   main' = [main EXCEPT !.pc = p]
          BY <4>6 DEF MainConfigure, MainConfigured, MainWaits, SpuriousWake, Woken, Main
        <5>2. main'.pc \in {"load_steps", "cfg_test", "cfg_waits"}
          BY <1>1, <5>1 DEF MainType
        <5> QED BY <5>1, <5>2 DEF RunCounted, Configures, Starts
      <4>7. CASE \/ MainTestsRun \/ (MainWaits /\ main.pc = "run_towait")
                 \/ (SpuriousWake /\ main.pc = "run_waits")
        <5>1. /\ main.pc \in {"run_test", "run_towait", "run_waits"}
              /\ \E p \in {"run_towait", "run_waits", "finish", "run_test"} :
                   main' = [main EXCEPT !.pc = p]
          BY <4>7 DEF MainTestsRun, MainWaits, SpuriousWake, Woken, Main
        <5>2. main'.pc \in {"run_towait", "run_waits", "finish", "run_test"}
          BY <1>1, <5>1 DEF MainType
        <5> QED BY <5>1, <5>2 DEF RunCounted, Configures, Starts
      <4>8. /\ MainWaits => main.pc \in {"cfg_towait", "run_towait"}
            /\ SpuriousWake => main.pc \in {"cfg_waits", "run_waits"}
        BY DEF MainWaits, SpuriousWake, Main
      <4> QED BY <1>7, <2>6, <4>1, <4>2, <4>3, <4>4, <4>5, <4>6, <4>7, <4>8 DEF MainThread
    <3> QED BY <1>4, <2>2, <2>4, <3>1, <3>2
  <2> QED BY <2>5, <2>6
<1>8. ASSUME NEW w \in Workloads, ConfigThread(w) \/ Advance(w)
      PROVE  RunCounts'
  <2>1. PICK v, m : WorkerMoves(w, v, m)
    BY <1>8, WorkerStep
  <2>2. /\ main' = main /\ notifier' = notifier /\ wl_run_count' = wl_run_count
        /\ \A u \in Workloads : u # w => wl'[u] = wl[u]
        /\ wl[w] \in WlType
    BY <1>1, <2>1 DEF WorkerMoves
  <2>3. RunCounted' = RunCounted /\ H' = H
    BY <2>2 DEF RunCounted, Configures, Starts, H, Handled
  <2>4. ASSUME NEW s \in {"SUCCESS", "FAIL", "RUNNING"},
               notes' = notes \/ notes' = Append(notes, Note(w, s))
        PROVE  N' = N
    <3>1. CASE notes' = notes
      BY <3>1 DEF N, Tells, Number
    <3>2. CASE notes' = Append(notes, Note(w, s))
      <4>1. Number(notes', Tells("FINISHED")) = N + 0
        BY <3>2, SendsOne DEF N
      <4> QED BY <1>2, <4>1 DEF N, Tells
    <3> QED BY <2>4, <3>1, <3>2
  <2>5. ASSUME wl'[w].finished = wl[w].finished PROVE E' = E
    BY <1>5, <2>2, <2>5
  <2>6. CASE ConfigThread(w)
    <3>1. notes' = notes \/ \E s \in {"SUCCESS", "FAIL"} : notes' = Append(notes, Note(w, s))
      BY <2>6 DEF ConfigThread, ConfigFails, ConfigGivesUp, ConfigAttaches, ConfigSucceeds
    <3>2. wl'[w].finished = wl[w].finished
      <4>1. \/ wl' = [wl EXCEPT ![w].cfg = "failed"] \/ wl' = [wl EXCEPT ![w].cfg = "ended"]
            \/ wl' = [wl EXCEPT ![w].cfg = "attached", ![w].ready = TRUE]
        BY <2>6 DEF ConfigThread, ConfigFails, ConfigGivesUp, ConfigAttaches, ConfigSucceeds
      <4> QED BY <1>1, <2>2, <4>1 DEF WlType
    <3> QED BY <1>4, <2>2, <2>3, <2>4, <2>5, <3>1, <3>2
  <2>7. CASE Advance(w)
    <3> DEFINE s == wl[w].current_step + 1
               over == NoSteps(wl[w].last_step, s)
    <3>1. /\ wl' = [wl EXCEPT ![w].current_step = s, ![w].finished = over]
          /\ notes' = Append(notes, Note(w, IF over THEN "FINISHED" ELSE "RUNNING"))
          /\ ~wl[w].finished
      BY <2>7 DEF Advance
    <3>2. wl'[w].finished = over
      BY <1>1, <2>2, <3>1 DEF WlType
    <3> HIDE DEF s, over
    <3>3. CASE over
      <4>1. Done' = Done \cup {w} /\ w \notin Done
        BY <2>2, <3>1, <3>2, <3>3 DEF Done
      <4>2. IsFiniteSet(Done)
        BY SomeWorkloads DEF Done
      <4>3. E' = E + 1
        BY <4>1, <4>2, FS_AddElement DEF E
      <4>4. N' = N + 1
        <5>1. Number(notes', Tells("FINISHED")) = N + 1
          BY <3>1, <3>3, SendsOne DEF N
        <5> QED BY <5>1 DEF N, Tells
      <4> QED BY <1>2, <1>3, <2>2, <2>3, <4>3, <4>4
    <3>4. CASE ~over
      <4>1. wl'[w].finished = wl[w].finished
        <5>1. wl[w].finished = FALSE /\ over \in BOOLEAN
          BY <2>2, <3>1 DEF WlType, over, NoSteps
        <5> QED BY <3>2, <3>4, <5>1
      <4> QED BY <1>4, <2>2, <2>3, <2>4, <2>5, <3>1, <3>4, <4>1
    <3> QED BY <3>3, <3>4
  <2> QED BY <1>8, <2>6, <2>7
<1>9. CASE NotificationThread
  <2>1. NoteMoves
    BY <1>9, NoteStep
  <2>2. RunCounted' = RunCounted
    <3>1. CASE main' = main
      BY <3>1 DEF RunCounted, Configures, Starts
    <3>2. CASE main' # main
      <4>1. main.pc \in {"cfg_waits", "run_waits"} /\ main' = Woken
        BY <1>9, <2>1, <3>2 DEF NoteMoves, NotificationThread, NotePops, NoteCfgDone,
          NoteError, NoteFeeds, NoteStops, NoteFinished, NoteNotifies
      <4>2. \/ main'.pc = "cfg_test" /\ main.pc = "cfg_waits"
            \/ main'.pc = "run_test" /\ main.pc = "run_waits"
        BY <1>1, <4>1 DEF Woken, MainType
      <4> QED BY <4>2 DEF RunCounted, Configures, Starts
    <3> QED BY <3>1, <3>2
  <2>3. E' = E
    <3>1. CASE NoteFeeds
      <4>1. PICK ret : load_provide_step(notifier.msg.wl, ret) /\ notifier.pc = "feed"
        BY <3>1 DEF NoteFeeds, Notifier
      <4>2. notifier.msg.wl \in Workloads
        BY <4>1 DEF Shapes, Reports
      <4> QED BY <1>5, <4>1, <4>2, ProvideStep DEF Provided
    <3>2. CASE ~NoteFeeds
      <4>1. wl' = wl
        BY <1>9, <3>2 DEF NotificationThread, NotePops, NoteCfgDone, NoteError, NoteStops,
                          NoteFinished, NoteNotifies
      <4> QED BY <1>5, <4>1
    <3> QED BY <3>1, <3>2
  <2>4. CASE NotePops
    <3>1. N' + H' = N + H
      BY <2>4, PopsOne DEF N, H, Tells, Handled
    <3>2. wl_run_count' = wl_run_count
      BY <2>4 DEF NotePops, counts
    <3>3. N' \in Int /\ H' \in Int
      <4>1. Number(notes', Tells("FINISHED")) \in Nat
        BY <2>1, NumberType DEF NoteMoves
      <4> QED BY <4>1 DEF N, H, Handled, Tells
    <3>4. RunCounted' \in Int /\ E' \in Int /\ wl_run_count' \in Int
      BY <1>2, <2>2, <2>3, <3>2
    <3>5. wl_run_count' = RunCounted' - E' + N' + H'
      <4>1. N' + H' = N + H
        BY <3>1
      <4>2. PICK n \in Int, h \in Int, n1 \in Int, h1 \in Int :
              n = N /\ h = H /\ n1 = N' /\ h1 = H'
        BY <1>2, <3>3
      <4>3. PICK a \in Int : a = RunCounted - E /\ a = RunCounted' - E'
        BY <1>2, <2>2, <2>3
      <4>4. n1 + h1 = n + h
        BY <4>1, <4>2
      <4>5. a + n + h = a + n1 + h1
        BY <4>4
      <4> QED BY <1>2, <3>2, <4>2, <4>3, <4>5
    <3> QED BY <3>5 DEF RunCounts, Over, Tells, N, H, E, Handled
  <2>5. CASE NoteFinished
    <3>1. notifier.pc = "run_dec" /\ wl_run_count' = wl_run_count - 1 /\ notes' = notes
          /\ notifier' = [notifier EXCEPT !.pc = "notify"]
      BY <2>5 DEF NoteFinished, Notifier, RunCountAfter
    <3>2. notifier'.pc # "run_dec"
      BY <1>1, <3>1 DEF NotifierType
    <3>3. H = 1 /\ H' = 0 /\ N' = N
      BY <3>1, <3>2 DEF H, Handled, N, Number, Tells
    <3> QED BY <1>2, <1>3, <2>2, <2>3, <3>1, <3>3
  <2>6. CASE ~NotePops /\ ~NoteFinished
    <3>1. ~NoteStops
      BY <1>1 DEF NoteStops, Notifier, Shapes
    <3>2. /\ notifier.pc # "run_dec" /\ wl_run_count' = wl_run_count /\ notes' = notes
          /\ \E p \in {"stop", "error", "notify", "idle"} :
               notifier' = [notifier EXCEPT !.pc = p]
      BY <1>9, <2>6, <3>1 DEF NotificationThread, NoteCfgDone, NoteError, NoteFeeds,
                              NoteNotifies, Notifier, counts
    <3>3. notifier'.pc # "run_dec"
      BY <1>1, <3>2 DEF NotifierType
    <3>4. N' = N /\ H' = H
      BY <3>2, <3>3 DEF H, Handled, N, Number, Tells
    <3> QED BY <1>4, <2>2, <2>3, <3>2, <3>4
  <2> QED BY <2>4, <2>5, <2>6
<1>10. CASE UNCHANGED vars
  BY <1>4, <1>10 DEF vars, RunCounted, Configures, Starts, Done, E, N, H, Handled, Number, Tells
<1> QED BY <1>7, <1>8, <1>9, <1>10 DEF Next, Finished
-----------------------------------------------------------------------------
(* What the counters tell the main thread.                                 *)

(* No workload becomes unready or unfinished.                              *)
LEMMA ReadyStays ==
  ASSUME TypeOK, Shapes, Next, NEW w \in Workloads
  PROVE  (wl[w].ready => wl'[w].ready) /\ (wl[w].finished => wl'[w].finished)
<1>1. /\ main \in MainType /\ wl \in [Workloads -> WlType] /\ wl[w] \in WlType
      /\ main.w \in 1 .. NWorkloads + 1 /\ NWorkloads \in Nat
  BY Typed, RunAssumption DEF MainType
<1>2. CASE MainFeeds
  <2>1. main.w \in Workloads
    BY <1>1, <1>2 DEF MainFeeds, Workloads
  <2> QED BY <1>2, <2>1, ProvideStep DEF MainFeeds, Provided
<1>3. CASE (MainThread \/ SpuriousWake) /\ ~MainFeeds
  <2>1. \/ wl' = [wl EXCEPT ![main.w].started = wl[main.w].ready]
        \/ wl' = [wl EXCEPT ![main.w].cfg = "running"] \/ wl' = wl
    BY <1>3 DEF MainThread, MainConfigure, MainLoadSteps, MainConfigured, MainTestsConfig,
      MainTestsRun, MainWaits, MainFed, MainStarts, MainCounts, MainStarted, SpuriousWake
  <2>2. wl'[w].ready = wl[w].ready /\ wl'[w].finished = wl[w].finished
    BY <1>1, <2>1 DEF WlType
  <2> QED BY <2>2
<1>4. ASSUME NEW u \in Workloads, ConfigThread(u) \/ Advance(u)
      PROVE  (wl[w].ready => wl'[w].ready) /\ (wl[w].finished => wl'[w].finished)
  <2>1. CASE u # w
    <3>1. wl'[w] = wl[w]
      BY <1>1, <1>4, <2>1, WorkerStep DEF WorkerMoves
    <3> QED BY <3>1
  <2>2. CASE u = w /\ ConfigThread(w)
    <3>1. \/ wl' = [wl EXCEPT ![w].cfg = "failed"] \/ wl' = [wl EXCEPT ![w].cfg = "ended"]
          \/ wl' = [wl EXCEPT ![w].cfg = "attached", ![w].ready = TRUE]
      BY <2>2 DEF ConfigThread, ConfigFails, ConfigGivesUp, ConfigAttaches, ConfigSucceeds
    <3>2. wl'[w].finished = wl[w].finished
      BY <1>1, <3>1 DEF WlType
    <3>3. wl[w].ready => wl'[w].ready
      <4>1. CASE wl' = [wl EXCEPT ![w].cfg = "failed"] \/ wl' = [wl EXCEPT ![w].cfg = "ended"]
        <5>1. wl'[w].ready = wl[w].ready
          BY <1>1, <4>1 DEF WlType
        <5> QED BY <5>1
      <4>2. CASE wl' = [wl EXCEPT ![w].cfg = "attached", ![w].ready = TRUE]
        <5>1. wl'[w].ready = TRUE
          BY <1>1, <4>2 DEF WlType
        <5> QED BY <5>1
      <4> QED BY <3>1, <4>1, <4>2
    <3> QED BY <3>2, <3>3
  <2>3. CASE u = w /\ Advance(w)
    <3>1. ~wl[w].finished /\ wl'[w].ready = wl[w].ready
      BY <1>1, <2>3 DEF Advance, WlType
    <3> QED BY <3>1
  <2> QED BY <1>4, <2>1, <2>2, <2>3
<1>5. CASE NotificationThread
  <2>1. CASE NoteFeeds
    <3>1. PICK ret : load_provide_step(notifier.msg.wl, ret) /\ notifier.pc = "feed"
      BY <2>1 DEF NoteFeeds, Notifier
    <3>2. notifier.msg.wl \in Workloads
      BY <3>1 DEF Shapes, Reports
    <3> QED BY <3>1, <3>2, ProvideStep DEF Provided
  <2>2. CASE ~NoteFeeds
    <3>1. wl' = wl
      BY <1>5, <2>2 DEF NotificationThread, NotePops, NoteCfgDone, NoteError, NoteStops,
                        NoteFinished, NoteNotifies
    <3> QED BY <3>1
  <2> QED BY <2>1, <2>2
<1>6. CASE UNCHANGED vars
  BY <1>6 DEF vars
<1> QED BY <1>2, <1>3, <1>4, <1>5, <1>6 DEF Next, Finished

(* A counter at zero: everything counted has reported.                     *)
LEMMA AllReported ==
  ASSUME TypeOK, Shapes
  PROVE  /\ CfgCounts /\ wl_cfg_count = 0 /\ CfgCounted = NWorkloads => Ended = Workloads
         /\ RunCounts /\ wl_run_count = 0 /\ RunCounted = NWorkloads => Done = Workloads
<1>1. /\ Cardinality(Ended) \in 0 .. NWorkloads /\ Cardinality(Done) \in 0 .. NWorkloads
      /\ \A st : Number(notes, Tells(st)) \in Nat
      /\ \A pc : Handled(pc) \in {0, 1}
      /\ NWorkloads \in Nat /\ Ended \subseteq Workloads /\ Done \subseteq Workloads
  BY CountTypes, RunAssumption DEF Ended, Done
<1>2. \A t, e \in Nat, n \in Nat, h \in {0, 1} : e <= t /\ 0 = t - e + n + h => e = t
  OBVIOUS
<1>4. ASSUME CfgCounts, wl_cfg_count = 0, CfgCounted = NWorkloads PROVE Ended = Workloads
  <2>1. PICK e \in 0 .. NWorkloads, n \in Nat, h \in {0, 1} :
          /\ e = Cardinality(Ended) /\ n = Number(notes, Tells("SUCCESS"))
          /\ h = Handled("cfg_dec")
    BY <1>1
  <2>2. 0 = NWorkloads - e + n + h
    BY <1>4, <2>1, CountsAre
  <2>3. e \in Nat /\ e <= NWorkloads
    BY <1>1, <2>1
  <2>4. e = NWorkloads
    BY <1>1, <1>2, <2>1, <2>2, <2>3
  <2> QED BY <1>1, <2>1, <2>4, SomeWorkloads
<1>3. ASSUME RunCounts, wl_run_count = 0, RunCounted = NWorkloads PROVE Done = Workloads
  <2>1. PICK e \in 0 .. NWorkloads, n \in Nat, h \in {0, 1} :
          /\ e = Cardinality(Done) /\ n = Number(notes, Tells("FINISHED"))
          /\ h = Handled("run_dec")
    BY <1>1
  <2>2. 0 = NWorkloads - e + n + h
    BY <1>3, <2>1, CountsAre
  <2>3. e \in Nat /\ e <= NWorkloads
    BY <1>1, <2>1
  <2>4. e = NWorkloads
    BY <1>1, <1>2, <2>1, <2>2, <2>3
  <2> QED BY <1>1, <2>1, <2>4, SomeWorkloads
<1> QED BY <1>3, <1>4

(* The main thread comes to the start with all workloads configured, and   *)
(* to the end with all finished.                                           *)
LEMMA MainComes ==
  ASSUME TypeOK, Shapes, Configured, Next, ~Failing, CfgCounts, RunCounts,
         StartsConfigured, FinishesAll
  PROVE  /\ main'.pc \in {"feed", "start", "count"} => \A w \in Workloads : wl'[w].ready
         /\ main'.pc = "finish" => \A w \in Workloads : wl'[w].finished
<1>1. main \in MainType /\ main.pc \in Places
  BY Typed DEF MainType
<1>2. \A w \in Workloads : (wl[w].ready => wl'[w].ready) /\ (wl[w].finished => wl'[w].finished)
  BY ReadyStays
<1>3. CASE main.pc \in {"feed", "start", "count"}
  <2>1. \A w \in Workloads : wl[w].ready
    BY <1>3 DEF StartsConfigured
  <2>2. main'.pc # "finish"
    <3>1. CASE MainThread \/ SpuriousWake
      <4>1. \/ \E p \in {"start", "count", "run_test"} : main' = [main EXCEPT !.pc = p]
            \/ main' = [main EXCEPT !.pc = "feed", !.w = @ + 1, !.j = 0]
            \/ main' = [main EXCEPT !.j = @ + 1]
        <5>1. CASE MainFeeds
          <6>1. \/ main' = [main EXCEPT !.j = @ + 1] \/ main' = [main EXCEPT !.pc = "start"]
                \/ main' = [main EXCEPT !.pc = "run_test"]
            BY <5>1 DEF MainFeeds
          <6> QED BY <6>1
        <5>2. CASE ~MainFeeds
          BY <1>3, <3>1, <5>2 DEF MainThread, MainConfigure, MainLoadSteps, MainConfigured,
            MainTestsConfig, MainTestsRun, MainWaits, MainFed, MainStarts, MainCounts,
            MainStarted, SpuriousWake, Main
        <5> QED BY <5>1, <5>2
      <4> QED BY <1>1, <1>3, <4>1 DEF MainType
    <3>2. CASE NotificationThread
      BY <1>3, <3>2, NoteStep DEF NoteMoves
    <3>3. ASSUME NEW w \in Workloads, ConfigThread(w) \/ Advance(w) PROVE main'.pc # "finish"
      BY <1>3, <3>3, WorkerStep DEF WorkerMoves
    <3> QED BY <1>3, <3>1, <3>2, <3>3 DEF Next, Finished
  <2> QED BY <1>2, <2>1, <2>2
<1>4. CASE main.pc = "finish"
  <2>1. \A w \in Workloads : wl[w].finished
    BY <1>4 DEF FinishesAll
  <2>2. main'.pc = "finish"
    <3>1. CASE MainThread \/ SpuriousWake
      BY <1>4, <3>1 DEF MainThread, MainConfigure, MainLoadSteps, MainConfigured, MainTestsConfig,
        MainTestsRun, MainWaits, MainFeeds, MainFed, MainStarts, MainCounts, MainStarted,
        SpuriousWake, Main
    <3>2. CASE NotificationThread
      BY <1>4, <3>2, NoteStep DEF NoteMoves
    <3>3. ASSUME NEW w \in Workloads, ConfigThread(w) \/ Advance(w) PROVE main'.pc = "finish"
      BY <1>4, <3>3, WorkerStep DEF WorkerMoves
    <3> QED BY <1>4, <3>1, <3>2, <3>3 DEF Next, Finished, vars
  <2> QED BY <1>2, <2>1, <2>2
<1>5. CASE main.pc \notin {"feed", "start", "count", "finish"}
  <2>1. CASE MainTestsConfig
    <3>1. wl' = wl /\ main.pc = "cfg_test" /\ ~load_error /\ ~main.err
      BY <2>1 DEF MainTestsConfig, Failing
    <3>2. CASE wl_cfg_count # 0
      <4>1. main' = [main EXCEPT !.pc = "cfg_towait"]
        BY <2>1, <3>2 DEF MainTestsConfig
      <4> QED BY <1>1, <4>1 DEF MainType
    <3>3. CASE wl_cfg_count = 0
      <4>1. main' = [main EXCEPT !.pc = "feed", !.w = 1, !.j = 0]
        BY <2>1, <3>1, <3>3 DEF MainTestsConfig
      <4>2. main'.pc = "feed"
        BY <1>1, <4>1 DEF MainType
      <4>3. CfgCounted = NWorkloads
        BY <3>1 DEF CfgCounted
      <4>4. Ended = Workloads
        BY <3>3, <4>3, AllReported
      <4> QED BY <3>1, <4>2, <4>4 DEF Ended
    <3> QED BY <3>2, <3>3
  <2>2. CASE MainTestsRun
    <3>1. wl' = wl /\ main.pc = "run_test"
          /\ main' = [main EXCEPT !.pc = IF wl_run_count # 0 THEN "run_towait" ELSE "finish"]
      BY <2>2 DEF MainTestsRun, Main
    <3>2. main'.pc = IF wl_run_count # 0 THEN "run_towait" ELSE "finish"
      BY <1>1, <3>1 DEF MainType
    <3>3. RunCounted = NWorkloads
      BY <3>1 DEF RunCounted, Configures, Starts
    <3>4. wl_run_count = 0 => Done = Workloads
      BY <3>3, AllReported
    <3> QED BY <3>1, <3>2, <3>4 DEF Done
  <2>3. CASE ~MainTestsConfig /\ ~MainTestsRun
    <3>1. main'.pc \notin {"feed", "start", "count", "finish"}
      <4>1. CASE MainThread \/ SpuriousWake
        <5>1. \/ \E p \in {"load_steps", "cfg_test", "cfg_waits", "run_waits", "run_test"} :
                   main' = [main EXCEPT !.pc = p]
              \/ main' = [main EXCEPT !.pc = "cfg_test", !.err = TRUE]
              \/ main' = [main EXCEPT !.pc = "configure", !.w = @ + 1]
          BY <1>5, <2>3, <4>1 DEF MainThread, MainConfigure, MainLoadSteps, MainConfigured,
            MainWaits, MainFeeds, MainFed, MainStarts, MainCounts, MainStarted, SpuriousWake,
            Woken, Main
        <5> QED BY <1>1, <5>1 DEF MainType
      <4>2. CASE NotificationThread
        <5>1. main' = main \/ main' = Woken
          BY <4>2 DEF NotificationThread, NotePops, NoteCfgDone, NoteError, NoteFeeds, NoteStops,
                      NoteFinished, NoteNotifies
        <5> QED BY <1>1, <1>5, <5>1 DEF Woken, MainType
      <4>3. ASSUME NEW w \in Workloads, ConfigThread(w) \/ Advance(w) PROVE main' = main
        BY <4>3, WorkerStep DEF WorkerMoves
      <4> QED BY <1>5, <4>1, <4>2, <4>3 DEF Next, Finished
    <3> QED BY <3>1
  <2> QED BY <2>1, <2>2, <2>3
<1> QED BY <1>3, <1>4, <1>5
-----------------------------------------------------------------------------
(* The invariant holds initially.                                          *)
LEMMA InvInit ==
  Init => Inv
<1> SUFFICES ASSUME Init PROVE Inv
  OBVIOUS
<1>1. /\ main = [pc |-> "configure", w |-> 1, j |-> 0, err |-> FALSE]
      /\ wl = [w \in Workloads |->
                 [cfg |-> "none", ready |-> FALSE, started |-> FALSE,
                  finished |-> FALSE, last_step |-> -1, current_step |-> -1]]
      /\ wl_cfg_count = 0 /\ wl_run_count = 0 /\ load_error = FALSE
      /\ notes = <<>> /\ notifier = [pc |-> "idle", msg |-> Note(0, "NEW")]
      /\ NWorkloads \in Nat /\ QSIZE \in Nat \ {0} /\ Workloads \subseteq Nat \ {0}
  BY RunAssumption, QSizeAssumption DEF Init, Workloads
<1>2. /\ file \in [Workloads -> FileType] /\ \A w \in Workloads : file[w].step_id = 0
  <2>1. file \in [Workloads -> {[rest |-> f.lines, newline |-> f.newline, step_id |-> 0,
                                 error |-> FALSE, eof |-> FALSE] : f \in Files}]
    BY DEF Init
  <2>2. \A f \in Files : f.lines \in Seq({"ok", "bad"}) /\ f.newline \in BOOLEAN
    BY RunAssumption
  <2>3. \A f \in Files : [rest |-> f.lines, newline |-> f.newline, step_id |-> 0,
                          error |-> FALSE, eof |-> FALSE] \in FileType
    BY <2>2 DEF FileType
  <2> QED BY <2>1, <2>3
<1>3. TypeOK
  <2>1. main \in MainType
    BY <1>1 DEF MainType, Places
  <2>2. wl \in [Workloads -> WlType]
    BY <1>1 DEF WlType
  <2>3. notifier \in NotifierType /\ notes \in Seq(Messages)
    BY <1>1 DEF NotifierType, NotePlaces, Note, Messages, Statuses
  <2>4. load_error \in BOOLEAN
    BY <1>1
  <2>5. wl_cfg_count \in Int /\ wl_run_count \in Int
    BY <1>1
  <2> QED BY <1>2, <2>1, <2>2, <2>3, <2>4, <2>5, Typed
<1>4. Shapes
  BY <1>1 DEF Shapes
<1>5. Fed
  <2> SUFFICES ASSUME NEW w \in Workloads PROVE FedRight(w)
    BY DEF Fed
  <2>1. Pending(w) = 0
    BY <1>1, NumberEmpty DEF Pending
  <2>2. ~AtHand(w)
    BY <1>1 DEF AtHand
  <2> QED BY <1>1, <1>2, <2>1, <2>2 DEF FedRight
<1>6. Configured
  BY <1>1 DEF Configured
<1>7. Ended = {} /\ Done = {}
  BY <1>1 DEF Ended, Done
<1>8. CfgCounts /\ RunCounts
  <2>1. CfgCounted = 0 /\ RunCounted = 0
    BY <1>1 DEF CfgCounted, RunCounted, Configures
  <2>2. Cardinality(Ended) = 0 /\ Cardinality(Done) = 0
    BY <1>7, FS_EmptySet
  <2>3. \A S : Number(notes, S) = 0
    BY <1>1, NumberEmpty
  <2> QED BY <1>1, <2>1, <2>2, <2>3 DEF CfgCounts, RunCounts
<1>9. StartsConfigured /\ FinishesAll
  BY <1>1 DEF StartsConfigured, FinishesAll
<1> QED BY <1>3, <1>4, <1>5, <1>6, <1>8, <1>9 DEF Inv

(* Every step keeps the invariant.                                         *)
LEMMA InvNext ==
  Inv /\ [Next]_vars => Inv'
<1> SUFFICES ASSUME Inv, [Next]_vars PROVE Inv'
  OBVIOUS
<1>1. /\ TypeOK /\ Shapes /\ Fed /\ Configured /\ StartsConfigured /\ FinishesAll
      /\ Failing \/ (CfgCounts /\ RunCounts)
  BY DEF Inv
<1>3. CASE UNCHANGED vars
  BY <1>1, <1>3 DEF vars, Inv, TypeOK, Shapes, Fed, FedRight, Configured, StartsConfigured,
    FinishesAll, Failing, CfgCounts, RunCounts, Pending, Begun, Number, Comes, AtHand,
    Configures, Starts, CfgCounted, RunCounted, Ended, Done
<1>4. CASE Next
  <2>1. TypeOK' /\ Shapes' /\ Configured' /\ Fed'
    BY <1>1, <1>4, TypesKeep, ConfiguredKeeps, FedKeeps
  <2>2. Failing => Failing'
    BY <1>1, <1>4, FailingStays
  <2>3. Failing' \/ (CfgCounts' /\ RunCounts')
    BY <1>1, <1>4, <2>2, CfgKeeps, RunKeeps
  <2>4. StartsConfigured' /\ FinishesAll'
    <3>1. CASE Failing
      BY <2>2, <3>1 DEF StartsConfigured, FinishesAll
    <3>2. CASE ~Failing
      <4>1. /\ main'.pc \in {"feed", "start", "count"} => \A w \in Workloads : wl'[w].ready
            /\ main'.pc = "finish" => \A w \in Workloads : wl'[w].finished
        BY <1>1, <1>4, <3>2, MainComes
      <4> QED BY <4>1 DEF StartsConfigured, FinishesAll
    <3> QED BY <3>1, <3>2
  <2> QED BY <2>1, <2>3, <2>4 DEF Inv
<1> QED BY <1>3, <1>4

(* The invariant holds of the specification.                               *)
LEMMA InvHolds == Spec => []Inv
BY InvInit, InvNext, PTL DEF Spec

(* load_provide_step: every step read from a file has the id the queue     *)
(* expects and finds room, however late the notification thread feeds it,  *)
(* for any size of the queue and any files.                                *)
THEOREM NoStepIsLost == Spec => []NoStepLost
<1>1. Inv => NoStepLost
  BY DEF Inv, NoStepLost, Fed, FedRight
<1> QED BY <1>1, InvHolds, PTL

(* wl_cfg_count: the main thread comes to start_all_wls with workloads     *)
(* that are all configured, unless a failure was reported.                 *)
THEOREM AllConfigured == Spec => []StartsConfigured
<1>1. Inv => StartsConfigured
  BY DEF Inv
<1> QED BY <1>1, InvHolds, PTL

(* wl_run_count: do_load finishes an experiment without a failure when all *)
(* its workloads have finished.                                            *)
THEOREM AllFinished == Spec => []FinishesAll
<1>1. Inv => FinishesAll
  BY DEF Inv
<1> QED BY <1>1, InvHolds, PTL
=============================================================================
