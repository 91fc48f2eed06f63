---------------------------- MODULE ThreadsProofs ---------------------------
(***************************************************************************)
(* Proofs that t_destroy waits for the thread's body, for which nothing is *)
(* needed of the map, and that the map holds the threads it should, for    *)
(* any number of creators, thread_t's and buckets.                         *)
(***************************************************************************)
EXTENDS Threads, FiniteSetTheorems, FunctionTheorems, SequenceTheorems,
        WellFoundedInduction, TLAPS

States == {"NONE", "INITIALIZED", "RUNNABLE", "DEAD"}
CreatorPlaces == {"idle", "init", "start", "test", "sleepy", "waiting", "woken",
                  "join", "remove"}
Late == {"exiting", "dead", "bye", "gone"}

Run == [pc : Places, o : Objects \cup {Null}, event : Creators \cup {Null}]

Typed ==
  /\ tid \in Nat
  /\ thread \in [Objects -> [id : Nat, event : Creators \cup {Null}, state : States]]
  /\ run \in Seq(Run)
  /\ creator \in [Creators -> [pc : CreatorPlaces, o : Objects \cup {Null}, tid : Nat]]
  /\ \A c \in Creators : creator[c].pc # "idle" => creator[c].o \in Own[c]

(* A thread_t that is not started again while it is mapped has at most one *)
(* pthread, and none between its destruction and its next start.           *)
OneRun ==
  \A p, q \in DOMAIN run :
    (run[p].o = run[q].o /\ run[p].o \in Objects \ Renewed) => p = q
NoneRuns ==
  \A p \in DOMAIN run :
    run[p].o \in Objects \ Renewed => thread[run[p].o].state # "NONE"
StartsAfresh ==
  \A c \in Creators :
    (At(c, "init") /\ creator[c].o \notin Renewed) => thread[creator[c].o].state = "NONE"

(* What t_join relies on: TS_DEAD is set behind the body, and once it has  *)
(* returned the thread is there.                                           *)
DeadIsLate ==
  \A p \in DOMAIN run :
    (run[p].o \in Objects \ Renewed /\ thread[run[p].o].state = "DEAD") => run[p].pc \in Late
RemovesLate ==
  \A c \in Creators :
    /\ creator[c].pc \in {"join", "remove"} => creator[c].o \notin Renewed
    /\ At(c, "remove") => \A p \in DOMAIN run : run[p].o = creator[c].o => run[p].pc \in Late

Inv == /\ Typed /\ OneRun /\ NoneRuns /\ StartsAfresh /\ DeadIsLate /\ RemovesLate
       /\ DestroyedAfterBody
-----------------------------------------------------------------------------
(* What a step of a pthread does to the state the invariant is about.      *)
KeepsStates(o) ==
  \/ \A x \in Objects : thread'[x].state = thread[x].state
  \/ /\ thread'[o].state \in {"RUNNABLE", "DEAD"}
     /\ \A x \in Objects \ {o} : thread'[x].state = thread[x].state
Steps(p) ==
  /\ run[p].o \in Objects
  /\ DOMAIN run' = DOMAIN run
  /\ \A q \in DOMAIN run : run'[q].o = run[q].o /\ (q # p => run'[q] = run[q])
  /\ run[p].pc \in Late => run'[p].pc \in Late
  /\ KeepsStates(run[p].o)
  /\ thread'[run[p].o].state = "DEAD" =>
       thread[run[p].o].state = "DEAD" \/ run'[p].pc \in Late
Wakes ==
  \A c \in Creators :
    /\ creator'[c].o = creator[c].o
    /\ creator'[c].pc = creator[c].pc \/ (creator[c].pc = "waiting" /\ creator'[c].pc = "woken")

(* Null is no object.                                                      *)
LEMMA NullIsNoObject == Null \notin Objects
BY MapAssumption DEF Objects, Null

(* A move of one pthread keeps the types and everybody's thread_t.         *)
LEMMA MoveTyped ==
  ASSUME Typed, NEW p \in DOMAIN run, NEW to \in Places, NEW e \in Creators \cup {Null},
         run' = [run EXCEPT ![p].pc = to, ![p].event = e]
  PROVE  /\ run' \in Seq(Run) /\ DOMAIN run' = DOMAIN run /\ run'[p].pc = to
         /\ \A q \in DOMAIN run : run'[q].o = run[q].o /\ (q # p => run'[q] = run[q])
<1>1. /\ run \in Seq(Run) /\ p \in 1 .. Len(run) /\ DOMAIN run = 1 .. Len(run)
      /\ \A q \in DOMAIN run : run[q] \in Run
  BY DEF Typed
<1>2. run' = [run EXCEPT ![p] = [run[p] EXCEPT !.pc = to, !.event = e]]
  BY <1>1 DEF Run
<1>3. [run[p] EXCEPT !.pc = to, !.event = e] \in Run
      /\ [run[p] EXCEPT !.pc = to, !.event = e].o = run[p].o
      /\ [run[p] EXCEPT !.pc = to, !.event = e].pc = to
  BY <1>1 DEF Run
<1> DEFINE r == [run[p] EXCEPT !.pc = to, !.event = e]
<1> HIDE DEF r
<1>4. run' = [run EXCEPT ![p] = r] /\ r \in Run /\ r.o = run[p].o /\ r.pc = to
  BY <1>2, <1>3 DEF r
<1>5. run' \in Seq(Run) /\ DOMAIN run' = DOMAIN run
  <2>1. [run EXCEPT ![p] = r] \in Seq(Run)
    BY <1>1, <1>4, ExceptSeq
  <2>2. DOMAIN [run EXCEPT ![p] = r] = DOMAIN run
    OBVIOUS
  <2> QED BY <1>4, <2>1, <2>2
<1>6. run'[p] = r /\ \A q \in DOMAIN run : q # p => run'[q] = run[q]
  BY <1>1, <1>4
<1> QED BY <1>4, <1>5, <1>6

(* The release of a waiter changes places only.                            *)
LEMMA WokenTyped ==
  ASSUME Typed, NEW e \in Creators, creator' = Woken(e)
  PROVE  /\ creator' \in [Creators -> [pc : CreatorPlaces, o : Objects \cup {Null}, tid : Nat]]
         /\ \A c \in Creators : creator'[c].pc # "idle" => creator'[c].o \in Own[c]
         /\ Wakes
<1>1. creator \in [Creators -> [pc : CreatorPlaces, o : Objects \cup {Null}, tid : Nat]]
  BY DEF Typed
<1>2. CASE creator[e].pc = "waiting"
  <2>1. creator' = [creator EXCEPT ![e] = [creator[e] EXCEPT !.pc = "woken"]]
    BY <1>1, <1>2 DEF Woken
  <2>2. [creator[e] EXCEPT !.pc = "woken"] \in [pc : CreatorPlaces, o : Objects \cup {Null}, tid : Nat]
        /\ [creator[e] EXCEPT !.pc = "woken"].o = creator[e].o
        /\ [creator[e] EXCEPT !.pc = "woken"].pc = "woken"
    BY <1>1 DEF CreatorPlaces
  <2>3. creator' \in [Creators -> [pc : CreatorPlaces, o : Objects \cup {Null}, tid : Nat]]
    BY <1>1, <2>1, <2>2
  <2>4. /\ creator'[e].o = creator[e].o /\ creator'[e].pc = "woken"
        /\ \A c \in Creators \ {e} : creator'[c] = creator[c]
    BY <1>1, <2>1, <2>2
  <2>5. Wakes
    BY <1>2, <2>4 DEF Wakes
  <2>6. creator[e].pc # "idle" /\ creator[e].o \in Own[e]
    BY <1>2 DEF Typed
  <2> QED BY <2>3, <2>4, <2>5, <2>6 DEF Typed
<1>3. CASE creator[e].pc # "waiting"
  <2>1. creator' = creator
    BY <1>1, <1>3 DEF Woken
  <2> QED BY <1>1, <2>1 DEF Typed, Wakes
<1> QED BY <1>2, <1>3
(* Each step of a pthread keeps the types, advances it only, sets TS_DEAD  *)
(* behind its body, and releases a waiter at most.                         *)
LEMMA ThreadSteps ==
  ASSUME Typed, NEW p \in DOMAIN run, ThreadRuns(p)
  PROVE  /\ Typed'
         /\ UNCHANGED <<thread, run, creator>> \/ (Steps(p) /\ Wakes)
<1>1. /\ run[p] \in Run /\ tid \in Nat /\ run \in Seq(Run)
      /\ thread \in [Objects -> [id : Nat, event : Creators \cup {Null}, state : States]]
      /\ creator \in [Creators -> [pc : CreatorPlaces, o : Objects \cup {Null}, tid : Nat]]
  BY DEF Typed
<1>2. creator' = creator => Wakes
  BY DEF Wakes
<1>3. thread' = thread => KeepsStates(run[p].o)
  BY DEF KeepsStates
<1>4. ASSUME NEW from, NEW to \in Places, NEW state \in {"RUNNABLE", "DEAD"},
             SetState(p, from, state, to), from \in Late => to \in Late,
             state = "DEAD" => to \in Late
      PROVE  Typed' /\ Steps(p) /\ Wakes
  <2>1. /\ run[p].pc = from /\ run[p].o \in Objects /\ UNCHANGED <<tid, creator>>
        /\ run' = [run EXCEPT ![p].pc = to, ![p].event = Null]
        /\ thread' = [thread EXCEPT ![run[p].o].state = state]
    BY <1>1, <1>4 DEF SetState, Moves, Run
  <2>2. /\ run' \in Seq(Run) /\ DOMAIN run' = DOMAIN run /\ run'[p].pc = to
        /\ \A q \in DOMAIN run : run'[q].o = run[q].o /\ (q # p => run'[q] = run[q])
    BY <2>1, MoveTyped
  <2>3. /\ thread' \in [Objects -> [id : Nat, event : Creators \cup {Null}, state : States]]
        /\ thread'[run[p].o].state = state
        /\ \A x \in Objects \ {run[p].o} : thread'[x].state = thread[x].state
    BY <1>1, <2>1 DEF States
  <2>4. Typed'
    BY <2>1, <2>2, <2>3 DEF Typed, At
  <2>5. Steps(p)
    BY <1>4, <2>1, <2>2, <2>3 DEF Steps, KeepsStates
  <2> QED BY <1>2, <2>1, <2>4, <2>5
<1>5. ASSUME NEW to \in Places, NEW e \in Creators \cup {Null},
             run[p].o # Null, run[p].pc \in Late => to \in Late,
             run' = [run EXCEPT ![p].pc = to, ![p].event = e],
             UNCHANGED <<tid, thread>>,
             creator' = creator \/ (\E d \in Creators : creator' = Woken(d))
      PROVE  Typed' /\ Steps(p) /\ Wakes
  <2>1. run[p].o \in Objects
    BY <1>1, <1>5 DEF Run
  <2>2. /\ run' \in Seq(Run) /\ DOMAIN run' = DOMAIN run /\ run'[p].pc = to
        /\ \A q \in DOMAIN run : run'[q].o = run[q].o /\ (q # p => run'[q] = run[q])
    BY <1>5, MoveTyped
  <2>3. Steps(p)
    BY <1>3, <1>5, <2>1, <2>2 DEF Steps
  <2>4. /\ creator' \in [Creators -> [pc : CreatorPlaces, o : Objects \cup {Null}, tid : Nat]]
        /\ \A c \in Creators : creator'[c].pc # "idle" => creator'[c].o \in Own[c]
        /\ Wakes
    <3>1. CASE creator' = creator BY <1>2, <3>1 DEF Typed
    <3>2. CASE \E d \in Creators : creator' = Woken(d) BY <3>2, WokenTyped
    <3> QED BY <1>5, <3>1, <3>2
  <2> QED BY <1>1, <1>5, <2>2, <2>3, <2>4 DEF Typed
<1>6. ASSUME NEW from, NEW some \in Places, NEW none \in Places,
             ReadEvent(p, from, some, none), from \in Late => {some, none} \subseteq Late
      PROVE  Typed' /\ Steps(p) /\ Wakes
  <2> DEFINE e == thread[run[p].o].event
  <2>1. run[p].o # Null /\ run[p].pc = from /\ e \in Creators \cup {Null}
    BY <1>1, <1>6 DEF ReadEvent, Run
  <2>2. run' = [run EXCEPT ![p].pc = IF e = Null THEN none ELSE some, ![p].event = e]
        /\ UNCHANGED <<tid, thread, creator>>
    BY <1>6 DEF ReadEvent
  <2> HIDE DEF e
  <2>3. (IF e = Null THEN none ELSE some) \in Places
        /\ (run[p].pc \in Late => (IF e = Null THEN none ELSE some) \in Late)
    BY <1>6, <2>1
  <2> QED BY <1>5, <2>1, <2>2, <2>3
<1>7. ASSUME NEW from, NEW to \in Places, Notify(p, from, to), from \in Late => to \in Late
      PROVE  Typed' /\ Steps(p) /\ Wakes
  <2>1. /\ run[p].o # Null /\ run[p].pc = from /\ UNCHANGED <<tid, thread>>
        /\ run' = [run EXCEPT ![p].pc = to, ![p].event = Null]
    BY <1>7 DEF Notify, Moves
  <2>2. creator' = creator \/ (\E d \in Creators : creator' = Woken(d))
    <3>1. run[p].event \in Creators \cup {Null}
          /\ thread[run[p].o].event \in Creators \cup {Null}
      BY <1>1, <2>1 DEF Run
    <3> QED BY <1>7, <3>1 DEF Notify
  <2> QED BY <1>5, <1>7, <2>1, <2>2
<1>8. CASE ClearEvent(p)
  <2>1. /\ run[p].pc = "clear" /\ run[p].o \in Objects /\ UNCHANGED <<tid, creator>>
        /\ run' = [run EXCEPT ![p].pc = "body", ![p].event = Null]
        /\ thread' = [thread EXCEPT ![run[p].o].event = Null]
    BY <1>1, <1>8 DEF ClearEvent, Moves, Run
  <2>2. /\ run' \in Seq(Run) /\ DOMAIN run' = DOMAIN run
        /\ \A q \in DOMAIN run : run'[q].o = run[q].o /\ (q # p => run'[q] = run[q])
    BY <2>1, MoveTyped DEF Places
  <2>3. /\ thread' \in [Objects -> [id : Nat, event : Creators \cup {Null}, state : States]]
        /\ \A x \in Objects : thread'[x].state = thread[x].state
    BY <1>1, <2>1
  <2>4. Typed' BY <2>1, <2>2, <2>3 DEF Typed
  <2>5. Steps(p) BY <2>1, <2>2, <2>3 DEF Steps, KeepsStates, Late
  <2> QED BY <1>2, <2>1, <2>4, <2>5
<1>9. CASE Insert(p) \/ BodyEnds(p)
  <2>1. PICK to \in {"inserted", "leaving"} :
          /\ run[p].o # Null /\ run[p].pc \notin Late
          /\ run' = [run EXCEPT ![p].pc = to, ![p].event = Null]
          /\ UNCHANGED <<tid, thread, creator>>
    BY <1>9 DEF Insert, BodyEnds, Moves, Late
  <2> QED BY <1>5, <2>1 DEF Places
<1>10. CASE UsesFreed(p)
  BY <1>1, <1>10 DEF UsesFreed, Typed
<1>11. CASE t_post_init(p)
  <2>1. CASE SetState(p, "begun", "RUNNABLE", "runnable")
    BY <1>4, <2>1 DEF Places, Late
  <2>2. CASE ReadEvent(p, "inserted", "notify", "body")
    BY <1>6, <2>2 DEF Places, Late
  <2>3. CASE Notify(p, "notify", "clear")
    BY <1>7, <2>3 DEF Places, Late
  <2> QED BY <1>8, <1>9, <1>11, <2>1, <2>2, <2>3 DEF t_post_init
<1>12. CASE t_exit(p)
  <2>1. CASE SetState(p, "leaving", "DEAD", "exiting")
    BY <1>4, <2>1 DEF Places, Late
  <2>2. CASE SetState(p, "exiting", "DEAD", "dead")
    BY <1>4, <2>2 DEF Places, Late
  <2>3. CASE ReadEvent(p, "dead", "bye", "gone")
    BY <1>6, <2>3 DEF Places, Late
  <2>4. CASE Notify(p, "bye", "gone")
    BY <1>7, <2>4 DEF Places, Late
  <2> QED BY <1>12, <2>1, <2>2, <2>3, <2>4 DEF t_exit
<1> QED BY <1>9, <1>10, <1>11, <1>12 DEF ThreadRuns
-----------------------------------------------------------------------------
(* A step of a pthread keeps the invariant.                                *)
LEMMA ThreadKeeps ==
  ASSUME Inv, NEW p \in DOMAIN run, ThreadRuns(p)
  PROVE  Inv'
<1>1. Typed' /\ (UNCHANGED <<thread, run, creator>> \/ (Steps(p) /\ Wakes))
  BY ThreadSteps DEF Inv
<1>2. CASE UNCHANGED <<thread, run, creator>>
  BY <1>1, <1>2 DEF Inv, OneRun, NoneRuns, StartsAfresh, DeadIsLate, RemovesLate,
     DestroyedAfterBody, At
<1>3. CASE Steps(p) /\ Wakes
  <2>1. OneRun'
    BY <1>3 DEF Inv, OneRun, Steps
  <2>2. NoneRuns'
    <3>1. \A x \in Objects : thread'[x].state = "NONE" => thread[x].state = "NONE"
      BY <1>3 DEF Steps, KeepsStates
    <3> QED BY <1>3, <3>1 DEF Inv, NoneRuns, Steps
  <2>3. StartsAfresh'
    <3> SUFFICES ASSUME NEW c \in Creators, creator'[c].pc = "init", creator'[c].o \notin Renewed
                 PROVE  thread'[creator'[c].o].state = "NONE"
      BY DEF StartsAfresh, At
    <3>1. creator[c].pc = "init" /\ creator'[c].o = creator[c].o
      BY <1>3 DEF Wakes
    <3>2. creator[c].o \in Objects \ Renewed /\ thread[creator[c].o].state = "NONE"
      BY <3>1, ThreadsAssumption DEF Inv, Typed, StartsAfresh, At
    <3>3. creator[c].o # run[p].o
      BY <1>3, <3>2 DEF Inv, NoneRuns, Steps
    <3> QED BY <1>3, <3>1, <3>2, <3>3 DEF Steps, KeepsStates
  <2>4. DeadIsLate'
    <3> SUFFICES ASSUME NEW q \in DOMAIN run, run[q].o \in Objects \ Renewed,
                        thread'[run[q].o].state = "DEAD"
                 PROVE  run'[q].pc \in Late
      BY <1>3 DEF DeadIsLate, Steps
    <3>1. CASE q = p
      BY <1>3, <3>1 DEF Inv, DeadIsLate, Steps
    <3>2. CASE q # p
      <4>1. run[q].o # run[p].o
        BY <3>2 DEF Inv, OneRun
      <4>2. thread[run[q].o].state = "DEAD" /\ run'[q] = run[q]
        BY <1>3, <3>2, <4>1 DEF Steps, KeepsStates
      <4> QED BY <4>2 DEF Inv, DeadIsLate
    <3> QED BY <3>1, <3>2
  <2>5. RemovesLate'
    <3>1. \A c \in Creators : \A pc \in {"join", "remove"} :
            creator'[c].pc = pc => creator[c].pc = pc /\ creator'[c].o = creator[c].o
      BY <1>3 DEF Wakes
    <3>2. \A q \in DOMAIN run : run[q].pc \in Late => run'[q].pc \in Late
      BY <1>3 DEF Steps
    <3> QED BY <1>3, <3>1, <3>2 DEF Inv, RemovesLate, Steps, At
  <2>6. DestroyedAfterBody'
    <3>1. \A q \in DOMAIN run : run[q].pc \in Late => run'[q].pc \in Late
      BY <1>3 DEF Steps
    <3> QED BY <1>3, <3>1 DEF Inv, DestroyedAfterBody, Steps, Late
  <2> QED BY <1>1, <2>1, <2>2, <2>3, <2>4, <2>5, <2>6 DEF Inv
<1> QED BY <1>1, <1>2, <1>3

(* A creator's step that moves it alone, to no place of t_init or          *)
(* t_destroy, and leaves the states as they are.                           *)
LEMMA CreatorKeeps ==
  ASSUME Inv, NEW c \in Creators, Typed', run' = run,
         \A x \in Objects : thread'[x].state = thread[x].state,
         \A d \in Creators \ {c} : creator'[d] = creator[d],
         creator'[c].pc = "init" /\ creator'[c].o \notin Renewed =>
           thread[creator'[c].o].state = "NONE",
         creator'[c].pc \in {"join", "remove"} => creator'[c].o \notin Renewed,
         creator'[c].pc = "remove" =>
           \A p \in DOMAIN run : run[p].o = creator'[c].o => run[p].pc \in Late
  PROVE  Inv'
<1>1. OneRun' /\ DestroyedAfterBody'
  BY DEF Inv, OneRun, DestroyedAfterBody
<1>2. NoneRuns' /\ DeadIsLate'
  BY DEF Inv, NoneRuns, DeadIsLate
<1>3. StartsAfresh'
  <2> SUFFICES ASSUME NEW d \in Creators, creator'[d].pc = "init", creator'[d].o \notin Renewed
               PROVE  thread'[creator'[d].o].state = "NONE"
    BY DEF StartsAfresh, At
  <2>1. creator'[d].o \in Objects
    BY ThreadsAssumption DEF Typed
  <2>2. thread[creator'[d].o].state = "NONE"
    BY DEF Inv, StartsAfresh, At
  <2> QED BY <2>1, <2>2
<1>4. RemovesLate'
  BY DEF Inv, RemovesLate, At
<1> QED BY <1>1, <1>2, <1>3, <1>4 DEF Inv
(* A creator on its way keeps the thread_t it is busy with.                *)
LEMMA GoesTyped ==
  ASSUME Typed, NEW c \in Creators, NEW pc \in CreatorPlaces, Goes(c, pc), ~At(c, "idle")
  PROVE  /\ creator' \in [Creators -> [pc : CreatorPlaces, o : Objects \cup {Null}, tid : Nat]]
         /\ \A d \in Creators : creator'[d].pc # "idle" => creator'[d].o \in Own[d]
         /\ \A d \in Creators \ {c} : creator'[d] = creator[d]
         /\ creator'[c].pc = pc /\ (pc # "idle" => creator'[c].o = creator[c].o)
<1>1. creator \in [Creators -> [pc : CreatorPlaces, o : Objects \cup {Null}, tid : Nat]]
      /\ creator[c].o \in Own[c]
  BY DEF Typed, At
<1> DEFINE r == IF pc = "idle" THEN Idle ELSE [creator[c] EXCEPT !.pc = pc, !.tid = 0]
<1>2. creator' = [creator EXCEPT ![c] = r]
  BY <1>1 DEF Goes
<1>3. /\ r \in [pc : CreatorPlaces, o : Objects \cup {Null}, tid : Nat]
      /\ r.pc = pc /\ (pc # "idle" => r.o = creator[c].o)
  BY <1>1 DEF Idle
<1> HIDE DEF r
<1>4. creator'[c] = r /\ \A d \in Creators \ {c} : creator'[d] = creator[d]
  BY <1>1, <1>2
<1>5. creator' \in [Creators -> [pc : CreatorPlaces, o : Objects \cup {Null}, tid : Nat]]
  BY <1>1, <1>2, <1>3
<1> QED BY <1>1, <1>3, <1>4, <1>5 DEF Typed

(* t_wait_start and the end of the join.                                   *)
LEMMA WaiterKeeps ==
  ASSUME Inv, NEW c \in Creators,
         SetEvent(c) \/ TestState(c) \/ Wait(c) \/ Spurious(c) \/ EndWait(c) \/ Joined(c)
  PROVE  Inv'
<1>1. /\ creator[c].pc # "idle" => creator[c].o \in Objects
      /\ thread \in [Objects -> [id : Nat, event : Creators \cup {Null}, state : States]]
  BY ThreadsAssumption DEF Inv, Typed
<1>2. PICK to \in CreatorPlaces \ {"init", "join"} :
        /\ Goes(c, to) /\ ~At(c, "idle") /\ UNCHANGED <<tid, run>>
        /\ to = "remove" => Joined(c)
  BY DEF SetEvent, TestState, Wait, Spurious, EndWait, Joined, At, CreatorPlaces
<1>3. /\ creator' \in [Creators -> [pc : CreatorPlaces, o : Objects \cup {Null}, tid : Nat]]
      /\ \A d \in Creators : creator'[d].pc # "idle" => creator'[d].o \in Own[d]
      /\ \A d \in Creators \ {c} : creator'[d] = creator[d]
      /\ creator'[c].pc = to /\ (to # "idle" => creator'[c].o = creator[c].o)
  BY <1>2, GoesTyped DEF Inv
<1>4. /\ thread' \in [Objects -> [id : Nat, event : Creators \cup {Null}, state : States]]
      /\ \A x \in Objects : thread'[x].state = thread[x].state
  <2>1. CASE SetEvent(c)
    BY <1>1, <2>1 DEF SetEvent, At
  <2>2. CASE EndWait(c)
    BY <1>1, <2>2 DEF EndWait, At
  <2>3. CASE TestState(c) \/ Wait(c) \/ Spurious(c) \/ Joined(c)
    BY <1>1, <2>3 DEF TestState, Wait, Spurious, Joined
  <2> QED BY <2>1, <2>2, <2>3
<1>5. Typed'
  BY <1>2, <1>3, <1>4 DEF Inv, Typed
<1>6. creator'[c].pc = "remove" =>
        /\ creator'[c].o \notin Renewed
        /\ \A p \in DOMAIN run : run[p].o = creator'[c].o => run[p].pc \in Late
  BY <1>2, <1>3 DEF Joined, On, At, Inv, RemovesLate, Late
<1> QED BY <1>2, <1>3, <1>4, <1>5, <1>6, CreatorKeeps

(* A creator that is idle takes the id, or looks at the state before it    *)
(* destroys: TS_DEAD says that the body is over.                           *)
LEMMA StarterKeeps ==
  ASSUME Inv, NEW c \in Creators, ReadTid(c) \/ t_join(c)
  PROVE  Inv'
<1>1. /\ creator \in [Creators -> [pc : CreatorPlaces, o : Objects \cup {Null}, tid : Nat]]
      /\ tid \in Nat /\ UNCHANGED <<tid, thread, run>>
  BY DEF Inv, Typed, ReadTid, t_join
<1>2. CASE ReadTid(c)
  <2>1. PICK o \in Own[c] :
          /\ thread[o].state = "NONE" \/ o \in Renewed
          /\ creator' = [creator EXCEPT ![c] = [pc |-> "init", o |-> o, tid |-> tid]]
    BY <1>2 DEF ReadTid
  <2>2. /\ creator' \in [Creators -> [pc : CreatorPlaces, o : Objects \cup {Null}, tid : Nat]]
        /\ creator'[c] = [pc |-> "init", o |-> o, tid |-> tid]
        /\ \A d \in Creators \ {c} : creator'[d] = creator[d]
    BY <1>1, <2>1, ThreadsAssumption DEF CreatorPlaces
  <2>3. Typed'
    BY SMTT(30), <1>1, <2>2 DEF Inv, Typed
  <2> QED BY <1>1, <2>1, <2>2, <2>3, CreatorKeeps
<1>3. CASE t_join(c)
  <2>1. PICK o \in Own[c] \ Renewed :
          creator' = [creator EXCEPT ![c] =
            [pc |-> IF MustJoin(thread[o].state) THEN "join" ELSE "remove", o |-> o, tid |-> 0]]
    BY <1>3 DEF t_join
  <2> DEFINE to == IF MustJoin(thread[o].state) THEN "join" ELSE "remove"
  <2>2. /\ creator' = [creator EXCEPT ![c] = [pc |-> to, o |-> o, tid |-> 0]]
        /\ to \in {"join", "remove"} /\ (to = "remove" => thread[o].state = "DEAD")
    BY <2>1 DEF MustJoin
  <2> HIDE DEF to
  <2>3. /\ creator' \in [Creators -> [pc : CreatorPlaces, o : Objects \cup {Null}, tid : Nat]]
        /\ creator'[c] = [pc |-> to, o |-> o, tid |-> 0]
        /\ \A d \in Creators \ {c} : creator'[d] = creator[d]
        /\ o \in Objects
    BY <1>1, <2>2, ThreadsAssumption DEF CreatorPlaces
  <2>4. Typed'
    BY <1>1, <2>1, <2>3 DEF Inv, Typed
  <2>5. o \in Objects \ Renewed
    BY <2>1, <2>3
  <2>6. creator'[c].pc = "remove" =>
          \A p \in DOMAIN run : run[p].o = creator'[c].o => run[p].pc \in Late
    BY <2>2, <2>3, <2>5 DEF Inv, DeadIsLate
  <2> QED BY <1>1, <2>2, <2>3, <2>4, <2>5, <2>6, CreatorKeeps
<1> QED BY <1>2, <1>3

(* t_init: no pthread has the thread_t it starts, unless it is a renewed   *)
(* one.                                                                    *)
LEMMA InitKeeps ==
  ASSUME Inv, NEW c \in Creators, t_init(c)
  PROVE  Inv'
<1> DEFINE o == creator[c].o
           id == NextId(creator[c].tid)
           new == [pc |-> "begun", o |-> o, event |-> Null]
<1>1. /\ run \in Seq(Run) /\ creator[c].pc = "init" /\ o \in Own[c] /\ o \in Objects
      /\ creator \in [Creators -> [pc : CreatorPlaces, o : Objects \cup {Null}, tid : Nat]]
      /\ thread \in [Objects -> [id : Nat, event : Creators \cup {Null}, state : States]]
  BY ThreadsAssumption DEF Inv, Typed, t_init, At
<1>2. /\ tid' = id /\ id \in Nat /\ run' = Append(run, new)
      /\ thread' = [thread EXCEPT ![o] = [id |-> id, state |-> "INITIALIZED", event |-> Null]]
  BY <1>1 DEF t_init, NextId
<1>3. PICK pc \in {"idle", "start"} : Goes(c, pc)
  BY DEF t_init
<1>4. /\ creator' \in [Creators -> [pc : CreatorPlaces, o : Objects \cup {Null}, tid : Nat]]
      /\ \A d \in Creators : creator'[d].pc # "idle" => creator'[d].o \in Own[d]
      /\ \A d \in Creators \ {c} : creator'[d] = creator[d]
      /\ creator'[c].pc = pc
  BY <1>1, <1>3, GoesTyped DEF Inv, At, CreatorPlaces
<1> HIDE DEF id
<1>5. new \in Run /\ new.o = o /\ new.pc = "begun"
  BY <1>1 DEF Run, Places
<1> HIDE DEF new
<1>6. /\ run' \in Seq(Run) /\ DOMAIN run' = DOMAIN run \cup {Len(run) + 1}
      /\ Len(run) + 1 \notin DOMAIN run
      /\ \A p \in DOMAIN run : run'[p] = run[p]
      /\ run'[Len(run) + 1] = new
  BY <1>1, <1>2, <1>5, AppendProperties
<1>7. /\ thread' \in [Objects -> [id : Nat, event : Creators \cup {Null}, state : States]]
      /\ thread'[o].state = "INITIALIZED"
      /\ \A x \in Objects \ {o} : thread'[x] = thread[x]
  BY <1>1, <1>2 DEF States
<1>8. Typed'
  BY <1>2, <1>4, <1>6, <1>7 DEF Typed
<1>9. o \notin Renewed => \A p \in DOMAIN run : run[p].o # o
  BY <1>1 DEF Inv, StartsAfresh, NoneRuns, At
<1> HIDE DEF o
<1>10. OneRun'
  <2> SUFFICES ASSUME NEW p \in DOMAIN run', NEW q \in DOMAIN run',
                      run'[p].o = run'[q].o, run'[p].o \in Objects \ Renewed
               PROVE  p = q
    BY DEF OneRun
  <2>1. CASE run'[p].o = o
    <3>1. \A r \in DOMAIN run : run'[r].o # o
      BY <1>6, <1>9, <2>1
    <3> QED BY <1>6, <2>1, <3>1
  <2>2. CASE run'[p].o # o
    <3>1. {p, q} \subseteq DOMAIN run /\ run'[p] = run[p] /\ run'[q] = run[q]
      BY <1>5, <1>6, <2>2
    <3> QED BY <3>1 DEF Inv, OneRun
  <2> QED BY <2>1, <2>2
<1>11. NoneRuns'
  <2> SUFFICES ASSUME NEW p \in DOMAIN run', run'[p].o \in Objects \ Renewed, run'[p].o # o
               PROVE  thread'[run'[p].o].state # "NONE"
    BY <1>7 DEF NoneRuns
  <2>1. p \in DOMAIN run /\ run'[p] = run[p]
    BY <1>5, <1>6
  <2>2. thread'[run[p].o] = thread[run[p].o]
    BY <1>7, <2>1
  <2> QED BY <2>1, <2>2 DEF Inv, NoneRuns
<1>12. \A d \in Creators \ {c} : creator[d].pc # "idle" => creator[d].o \in Objects /\ creator[d].o # o
  <2> SUFFICES ASSUME NEW d \in Creators \ {c}, creator[d].pc # "idle"
               PROVE  creator[d].o \in Objects /\ creator[d].o # o
    OBVIOUS
  <2>1. creator[d].o \in Own[d] /\ d \in Creators /\ d # c
    BY DEF Inv, Typed
  <2>2. Own[d] \cap Own[c] = {} /\ Own[d] \subseteq Objects
    BY <2>1, ThreadsAssumption
  <2> QED BY <1>1, <2>1, <2>2
<1>13. StartsAfresh'
  <2> SUFFICES ASSUME NEW d \in Creators, creator'[d].pc = "init", creator'[d].o \notin Renewed
               PROVE  thread'[creator'[d].o].state = "NONE"
    BY DEF StartsAfresh, At
  <2>1. d # c /\ creator'[d] = creator[d]
    BY <1>4
  <2> QED BY <1>7, <1>12, <2>1 DEF Inv, StartsAfresh, At
<1>14. DeadIsLate'
  <2> SUFFICES ASSUME NEW p \in DOMAIN run', run'[p].o \in Objects \ Renewed,
                      thread'[run'[p].o].state = "DEAD"
               PROVE  run'[p].pc \in Late
    BY DEF DeadIsLate
  <2>1. run'[p].o # o
    BY <1>7
  <2>2. p \in DOMAIN run /\ run'[p] = run[p]
    BY <1>5, <1>6, <2>1
  <2>3. thread'[run[p].o] = thread[run[p].o]
    BY <1>7, <2>1, <2>2
  <2> QED BY <2>2, <2>3 DEF Inv, DeadIsLate
<1>15. RemovesLate'
  BY <1>4, <1>5, <1>6, <1>12 DEF Inv, RemovesLate, At
<1>16. DestroyedAfterBody'
  BY <1>1, <1>5, <1>6, NullIsNoObject DEF Inv, DestroyedAfterBody
<1> QED BY <1>8, <1>10, <1>11, <1>13, <1>14, <1>15, <1>16 DEF Inv
(* t_destroy: the pthread that had the thread_t is behind its body.        *)
LEMMA DestroyKeeps ==
  ASSUME Inv, NEW c \in Creators, t_destroy(c)
  PROVE  Inv'
<1> DEFINE o == creator[c].o
<1>1. /\ run \in Seq(Run) /\ creator[c].pc = "remove" /\ o \in Own[c] /\ o \in Objects \ Renewed
      /\ thread \in [Objects -> [id : Nat, event : Creators \cup {Null}, state : States]]
      /\ \A p \in DOMAIN run : run[p].o = o => run[p].pc \in Late
  BY ThreadsAssumption DEF Inv, Typed, t_destroy, At, RemovesLate
<1>2. /\ creator' \in [Creators -> [pc : CreatorPlaces, o : Objects \cup {Null}, tid : Nat]]
      /\ \A d \in Creators : creator'[d].pc # "idle" => creator'[d].o \in Own[d]
      /\ \A d \in Creators \ {c} : creator'[d] = creator[d]
      /\ creator'[c].pc = "idle"
  BY <1>1, GoesTyped DEF Inv, At, CreatorPlaces, t_destroy
<1>3. /\ tid' = tid /\ thread' = [thread EXCEPT ![o].state = "NONE"]
      /\ run' = [p \in DOMAIN run |-> IF p \in On(o) THEN [run[p] EXCEPT !.o = Null] ELSE run[p]]
  BY DEF t_destroy
<1> HIDE DEF o
<1>4. /\ thread' \in [Objects -> [id : Nat, event : Creators \cup {Null}, state : States]]
      /\ thread'[o].state = "NONE"
      /\ \A x \in Objects \ {o} : thread'[x] = thread[x]
  BY <1>1, <1>3 DEF States
<1>5. \A p \in DOMAIN run : run[p] \in Run /\ [run[p] EXCEPT !.o = Null] \in Run
                            /\ [run[p] EXCEPT !.o = Null].o = Null
                            /\ [run[p] EXCEPT !.o = Null].pc = run[p].pc
  <2>1. \A p \in DOMAIN run : run[p] \in Run
    BY <1>1
  <2> QED BY <2>1 DEF Run
<1>6. /\ DOMAIN run' = DOMAIN run /\ \A p \in DOMAIN run : run'[p] \in Run
      /\ \A p \in DOMAIN run :
           IF run[p].o = o THEN run'[p].o = Null /\ run'[p].pc = run[p].pc
                           ELSE run'[p] = run[p]
  BY <1>3, <1>5 DEF On
<1>7. run' \in Seq(Run)
  <2>1. DOMAIN run' = 1 .. Len(run) /\ Len(run) \in Nat
    BY <1>1, <1>6
  <2>2. run' = [p \in 1 .. Len(run) |-> run'[p]]
    BY <1>3, <2>1
  <2> QED BY <1>6, <2>1, <2>2
<1>8. Typed'
  BY <1>2, <1>3, <1>4, <1>7 DEF Inv, Typed
<1>9. OneRun'
  BY <1>6, NullIsNoObject DEF Inv, OneRun
<1>10. \A p \in DOMAIN run : run'[p].o \in Objects => run'[p] = run[p] /\ run[p].o \in Objects \ {o}
  BY <1>6, NullIsNoObject
<1>11. NoneRuns' /\ DeadIsLate'
  <2>1. \A p \in DOMAIN run : run'[p].o \in Objects => thread'[run[p].o] = thread[run[p].o]
    BY <1>4, <1>10
  <2> QED BY <1>6, <1>10, <2>1 DEF Inv, NoneRuns, DeadIsLate
<1>12. StartsAfresh'
  <2> SUFFICES ASSUME NEW d \in Creators, creator'[d].pc = "init", creator'[d].o \notin Renewed
               PROVE  thread'[creator'[d].o].state = "NONE"
    BY DEF StartsAfresh, At
  <2>1. creator'[d] = creator[d] /\ creator[d].o \in Objects
    BY <1>2, ThreadsAssumption
  <2> QED BY <1>4, <2>1 DEF Inv, StartsAfresh, At
<1>13. RemovesLate'
  <2> SUFFICES ASSUME NEW d \in Creators, creator'[d].pc \in {"join", "remove"}
               PROVE  /\ creator'[d].o \notin Renewed
                      /\ creator'[d].pc = "remove" =>
                           \A p \in DOMAIN run : run'[p].o = creator'[d].o => run'[p].pc \in Late
    BY <1>6 DEF RemovesLate, At
  <2>1. creator'[d] = creator[d] /\ creator[d].o \in Objects
    BY <1>2, ThreadsAssumption
  <2> QED BY <1>10, <2>1 DEF Inv, RemovesLate, At
<1>14. DestroyedAfterBody'
  BY <1>1, <1>6 DEF Inv, DestroyedAfterBody, Late
<1> QED BY <1>8, <1>9, <1>11, <1>12, <1>13, <1>14 DEF Inv

(* At the start no pthread is there.                                       *)
LEMMA InitInv == Init => Inv
<1> SUFFICES ASSUME Init PROVE Inv
  OBVIOUS
<1>1. run = <<>> /\ DOMAIN run = {} /\ run \in Seq(Run)
  BY DEF Init
<1>2. Typed
  BY <1>1 DEF Init, Typed, Idle, CreatorPlaces, States
<1> QED BY <1>1, <1>2 DEF Init, Inv, OneRun, NoneRuns, StartsAfresh, DeadIsLate, RemovesLate,
          DestroyedAfterBody, At, Idle

(* Every step of a creator or of a thread keeps the invariant.             *)
LEMMA NextKeeps == Inv /\ [Next]_vars => Inv'
<1> SUFFICES ASSUME Inv, [Next]_vars PROVE Inv'
  OBVIOUS
<1>1. CASE UNCHANGED vars
  BY <1>1 DEF vars, Inv, Typed, OneRun, NoneRuns, StartsAfresh, DeadIsLate, RemovesLate,
     DestroyedAfterBody, At
<1>2. ASSUME NEW c \in Creators, Starts(c) \/ Continues(c) \/ Spurious(c) PROVE Inv'
  BY <1>2, StarterKeeps, WaiterKeeps, InitKeeps, DestroyKeeps DEF Starts, Continues
<1>3. ASSUME NEW p \in DOMAIN run, ThreadRuns(p) PROVE Inv'
  BY <1>3, ThreadKeeps
<1> QED BY <1>1, <1>2, <1>3 DEF Next

(* t_destroy waits for the body of the thread whatever state its unlocked  *)
(* look finds, for any number of threads: nobody's thread_t is taken away  *)
(* before its epilogue.                                                    *)
THEOREM DestroyWaits == Spec => []DestroyedAfterBody
<1>1. Inv => DestroyedAfterBody
  BY DEF Inv
<1> QED BY InitInv, NextKeeps, <1>1, PTL DEF Spec
-----------------------------------------------------------------------------
(* The chains of the hash map; the lemmas are those of AgentClientProofs.  *)

(* A set of naturals that is not empty has a least element.                *)
LEMMA LeastNatural ==
  ASSUME NEW T \in SUBSET Nat, T # {}
  PROVE  \E x \in T : \A y \in T : ~(y < x)
<1> DEFINE Segments == {0 .. x : x \in T}
<1>1. Segments \subseteq FiniteSubsetsOf(Nat) /\ Segments # {}
  <2>1. \A x \in T : 0 .. x \in SUBSET Nat /\ IsFiniteSet(0 .. x)
    BY FS_Interval
  <2> QED BY <2>1 DEF FiniteSubsetsOf
<1>2. PICK X \in Segments : \A Y \in Segments : ~(<<Y, X>> \in StrictSubsetOrdering(Nat))
  <2> HIDE DEF Segments
  <2> QED BY <1>1, WFMin, FS_StrictSubsetOrderingWellFounded
<1>3. PICK x \in T : X = 0 .. x
  BY <1>2
<1>4. ASSUME NEW y \in T, y < x PROVE FALSE
  <2>1. 0 .. y \subseteq 0 .. x /\ 0 .. y # 0 .. x
    <3>1. x \in 0 .. x /\ x \notin 0 .. y
      BY <1>4
    <3> QED BY <1>4, <3>1
  <2>2. 0 .. y \in SUBSET Nat /\ 0 .. x \in SUBSET Nat
    OBVIOUS
  <2>3. <<0 .. y, 0 .. x>> \in StrictSubsetOrdering(Nat)
    <3>1. \A A, B \in SUBSET Nat : A \subseteq B /\ A # B => <<A, B>> \in StrictSubsetOrdering(Nat)
      BY DEF StrictSubsetOrdering
    <3> QED BY <2>1, <2>2, <3>1
  <2>4. 0 .. y \in Segments
    OBVIOUS
  <2> QED BY <1>2, <1>3, <2>3, <2>4
<1> QED BY <1>4

-----------------------------------------------------------------------------
(* Walks.                                                                  *)
Links == Objects \cup {Null}
Buckets == 0 .. NBuckets - 1
MapType == [head : [Buckets -> Links], next : [Objects -> Links]]

(* The k-th object of a walk, if those before are given by g.              *)
NthOf(m, o, g, k) ==
  IF k = 1 THEN o ELSE IF g[k - 1] = Null THEN Null ELSE m.next[g[k - 1]]

(* Nobody walks beyond the links: the definition of a walk has a meaning.  *)
LEMMA WalkExists ==
  ASSUME NEW m \in MapType, NEW o \in Links
  PROVE  \E g : g = [k \in Objects |-> NthOf(m, o, g, k)]
<1> DEFINE Reaches(n) == \E g \in [1 .. n -> Links] : \A k \in 1 .. n : g[k] = NthOf(m, o, g, k)
           Bad == {n \in Nat : ~Reaches(n)}
<1>1. Reaches(0)
  <2>1. [k \in 1 .. 0 |-> Null] \in [1 .. 0 -> Links] /\ 1 .. 0 = {}
    OBVIOUS
  <2> QED BY <2>1
<1>2. ASSUME NEW n \in Nat, Reaches(n) PROVE Reaches(n + 1)
  <2>1. PICK g \in [1 .. n -> Links] : \A k \in 1 .. n : g[k] = NthOf(m, o, g, k)
    BY <1>2
  <2>2. PICK x \in Links : x = NthOf(m, o, g, n + 1)
    <3>1. NthOf(m, o, g, n + 1) \in Links
      <4>1. CASE n = 0
        BY <4>1 DEF NthOf
      <4>2. CASE n # 0
        <5>1. n \in 1 .. n /\ (n + 1) - 1 = n /\ n + 1 # 1
          BY <4>2
        <5>2. g[n] \in Links
          BY <5>1
        <5> QED BY <5>1, <5>2 DEF NthOf, MapType, Links
      <4> QED BY <4>1, <4>2
    <3> QED BY <3>1
  <2> DEFINE h == [k \in 1 .. n + 1 |-> IF k <= n THEN g[k] ELSE x]
  <2>3. h \in [1 .. n + 1 -> Links]
    OBVIOUS
  <2>4. \A k \in 1 .. n + 1 : h[k] = NthOf(m, o, h, k)
    <3> SUFFICES ASSUME NEW k \in 1 .. n + 1 PROVE h[k] = NthOf(m, o, h, k)
      OBVIOUS
    <3>1. k = 1 \/ (k - 1 \in 1 .. n /\ h[k - 1] = g[k - 1])
      OBVIOUS
    <3>2. NthOf(m, o, h, k) = NthOf(m, o, g, k)
      BY <3>1 DEF NthOf
    <3>3. CASE k <= n
      <4>1. k \in 1 .. n /\ h[k] = g[k]
        BY <3>3
      <4> QED BY <2>1, <3>2, <4>1
    <3>4. CASE ~(k <= n)
      <4>1. k = n + 1 /\ h[k] = x
        BY <3>4
      <4> QED BY <2>2, <3>2, <4>1
    <3> QED BY <3>3, <3>4
  <2> HIDE DEF h
  <2> QED BY <2>3, <2>4
<1> HIDE DEF Reaches
<1>3. Bad = {}
  <2> SUFFICES ASSUME Bad # {} PROVE FALSE
    OBVIOUS
  <2>1. Bad \in SUBSET Nat
    OBVIOUS
  <2>2. PICK n \in Bad : \A k \in Bad : ~(k < n)
    <3> HIDE DEF Bad
    <3> QED BY <2>1, LeastNatural
  <2>3. n \in Nat /\ n # 0 /\ ~Reaches(n)
    BY <1>1
  <2>4. n - 1 \in Nat /\ n - 1 < n /\ (n - 1) + 1 = n
    BY <2>3
  <2>5. Reaches(n - 1)
    BY <2>2, <2>4
  <2> QED BY <1>2, <2>3, <2>4, <2>5
<1>4. Reaches(NObjects)
  BY <1>3, MapAssumption
<1>5. PICK g \in [1 .. NObjects -> Links] :
        \A k \in 1 .. NObjects : g[k] = NthOf(m, o, g, k)
  BY <1>4 DEF Reaches
<1>6. g = [k \in Objects |-> NthOf(m, o, g, k)]
  BY <1>5 DEF Objects
<1> QED BY <1>6

(* A walk begins where it is told and follows the links.                   *)
LEMMA WalkSteps ==
  ASSUME NEW m \in MapType, NEW o \in Links
  PROVE  Walk(m, o) = [k \in Objects |-> NthOf(m, o, Walk(m, o), k)]
<1> DEFINE P(f) == f = [k \in Objects |-> NthOf(m, o, f, k)]
<1>1. Walk(m, o) = CHOOSE f : P(f)
  BY DEF Walk, NthOf
<1>2. \E f : P(f)
  BY WalkExists
<1> HIDE DEF P
<1>3. P(Walk(m, o))
  BY <1>1, <1>2
<1> QED BY <1>3 DEF P

(* It meets objects, or ends.                                              *)
LEMMA WalkType ==
  ASSUME NEW m \in MapType, NEW o \in Links
  PROVE  Walk(m, o) \in [Objects -> Links]
<1> DEFINE w == Walk(m, o)
           Bad == {k \in Objects : w[k] \notin Links}
<1>1. w = [k \in Objects |-> NthOf(m, o, w, k)]
  BY WalkSteps
<1> HIDE DEF w
<1>2. Bad = {}
  <2> SUFFICES ASSUME Bad # {} PROVE FALSE
    OBVIOUS
  <2>1. Bad \in SUBSET Nat
    BY DEF Objects
  <2>2. PICK n \in Bad : \A k \in Bad : ~(k < n)
    <3> HIDE DEF Bad
    <3> QED BY <2>1, LeastNatural
  <2>3. w[n] = NthOf(m, o, w, n) /\ n \in Objects /\ w[n] \notin Links
    BY <1>1
  <2>4. CASE n = 1
    BY <2>3, <2>4 DEF NthOf
  <2>5. CASE n # 1
    <3>1. n - 1 \in Objects /\ n - 1 < n
      BY <2>3, <2>5, MapAssumption DEF Objects
    <3>2. w[n - 1] \in Links
      BY <2>2, <3>1
    <3> QED BY <2>3, <2>5, <3>2 DEF NthOf, MapType, Links
  <2> QED BY <2>4, <2>5
<1> QED BY <1>1, <1>2 DEF w
-----------------------------------------------------------------------------
(* Chains.                                                                 *)

(* c is what a walk from o should meet: no object twice, each linked to    *)
(* the next, the last one to none.                                         *)
ChainFrom(m, o, c) ==
  /\ c \in Seq(Objects)
  /\ \A j, k \in 1 .. Len(c) : c[j] = c[k] => j = k
  /\ IF Len(c) = 0 THEN o = Null ELSE c[1] = o /\ m.next[c[Len(c)]] = Null
  /\ \A k \in 1 .. Len(c) - 1 : m.next[c[k]] = c[k + 1]

(* A chain is not longer than there are objects.                           *)
LEMMA ChainFits ==
  ASSUME NEW m, NEW o, NEW c, ChainFrom(m, o, c)
  PROVE  Len(c) \in 0 .. NObjects
<1>1. /\ Len(c) \in Nat /\ NObjects \in Nat
      /\ \A k \in 1 .. Len(c) : c[k] \in 1 .. NObjects
      /\ \A j, k \in 1 .. Len(c) : c[j] = c[k] => j = k
  BY MapAssumption DEF ChainFrom, Objects
<1> DEFINE f == [k \in 1 .. Len(c) |-> c[k]]
<1>2. f \in Injection(1 .. Len(c), 1 .. NObjects)
  BY <1>1 DEF Injection, IsInjective
<1>3. Len(c) <= NObjects
  BY <1>1, <1>2, Fun_NatInjLeq DEF ExistsInjection
<1> QED BY <1>1, <1>3

(* hash_map_walk meets just the objects of the chain, in its order.        *)
LEMMA WalkIsChain ==
  ASSUME NEW m \in MapType, NEW o \in Links, NEW c, ChainFrom(m, o, c)
  PROVE  From(m, o) = c
<1> DEFINE w == Walk(m, o)
<1>1. /\ w \in [Objects -> Links]
      /\ \A k \in Objects : w[k] = NthOf(m, o, w, k)
  <2>1. w = [k \in Objects |-> NthOf(m, o, w, k)]
    BY WalkSteps
  <2>2. w \in [Objects -> Links]
    BY WalkType
  <2> HIDE DEF w
  <2> QED BY <2>1, <2>2
<1>2. From(m, o) = [k \in {j \in Objects : w[j] # Null} |-> w[k]]
  BY DEF From
<1> HIDE DEF w
<1>3. /\ Len(c) \in Nat /\ NObjects \in Nat /\ Len(c) <= NObjects
      /\ c \in Seq(Objects)
  <2>1. Len(c) \in 0 .. NObjects
    BY ChainFits
  <2>2. NObjects \in Nat
    BY MapAssumption
  <2>3. c \in Seq(Objects)
    BY DEF ChainFrom
  <2> QED BY <2>1, <2>2, <2>3
<1>4. \A k \in 1 .. Len(c) : c[k] \in Objects /\ c[k] # Null /\ k \in Objects
  <2>1. \A k \in 1 .. Len(c) : c[k] \in Objects
    BY <1>3
  <2> QED BY <2>1, <1>3 DEF Objects, Null
<1>5. \A k \in 1 .. Len(c) : w[k] = c[k]
  <2> DEFINE Bad == {k \in 1 .. Len(c) : w[k] # c[k]}
  <2> SUFFICES ASSUME Bad # {} PROVE FALSE
    OBVIOUS
  <2>1. Bad \in SUBSET Nat
    OBVIOUS
  <2>2. PICK n \in Bad : \A k \in Bad : ~(k < n)
    <3> HIDE DEF Bad
    <3> QED BY <2>1, LeastNatural
  <2>3. n \in 1 .. Len(c) /\ w[n] # c[n] /\ w[n] = NthOf(m, o, w, n)
    BY <1>1, <1>4
  <2>4. CASE n = 1
    BY <1>3, <2>3, <2>4 DEF NthOf, ChainFrom
  <2>5. CASE n # 1
    <3>1. n - 1 \in 1 .. Len(c) - 1 /\ n - 1 \in 1 .. Len(c) /\ n - 1 < n /\ (n - 1) + 1 = n
      BY <1>3, <2>3, <2>5
    <3>2. w[n - 1] = c[n - 1] /\ c[n - 1] # Null
      BY <2>2, <3>1, <1>4
    <3>3. m.next[c[n - 1]] = c[n]
      BY <3>1 DEF ChainFrom
    <3> QED BY <2>3, <2>5, <3>2, <3>3 DEF NthOf
  <2> QED BY <2>4, <2>5
<1>6. \A k \in Objects : k > Len(c) => w[k] = Null
  <2> DEFINE Bad == {k \in Objects : k > Len(c) /\ w[k] # Null}
  <2> SUFFICES ASSUME Bad # {} PROVE FALSE
    OBVIOUS
  <2>1. Bad \in SUBSET Nat
    BY DEF Objects
  <2>2. PICK n \in Bad : \A k \in Bad : ~(k < n)
    <3> HIDE DEF Bad
    <3> QED BY <2>1, LeastNatural
  <2>3. n \in Objects /\ n \in Nat /\ n > Len(c) /\ w[n] # Null /\ w[n] = NthOf(m, o, w, n)
    BY <1>1 DEF Objects
  <2>4. CASE n = 1
    <3>1. Len(c) = 0
      BY <1>3, <2>3, <2>4
    <3> QED BY <2>3, <2>4, <3>1 DEF NthOf, ChainFrom
  <2>5. CASE n # 1
    <3>1. n - 1 \in Objects /\ n - 1 < n
      BY <1>3, <2>3, <2>5 DEF Objects
    <3>2. CASE n - 1 > Len(c)
      <4>1. w[n - 1] = Null
        BY <2>2, <3>1, <3>2
      <4> QED BY <2>3, <2>5, <4>1 DEF NthOf
    <3>3. CASE ~(n - 1 > Len(c))
      <4>1. n - 1 = Len(c) /\ Len(c) # 0 /\ n - 1 \in 1 .. Len(c)
        BY <1>3, <2>3, <2>5, <3>3
      <4>2. w[n - 1] = c[Len(c)] /\ m.next[c[Len(c)]] = Null
        BY <1>5, <4>1 DEF ChainFrom
      <4> QED BY <2>3, <2>5, <4>2 DEF NthOf
    <3> QED BY <3>2, <3>3
  <2> QED BY <2>4, <2>5
<1>7. {j \in Objects : w[j] # Null} = 1 .. Len(c)
  <2>1. ASSUME NEW j \in Objects, w[j] # Null PROVE j \in 1 .. Len(c)
    BY <1>3, <1>6, <2>1 DEF Objects
  <2>2. ASSUME NEW j \in 1 .. Len(c) PROVE j \in Objects /\ w[j] # Null
    BY <1>4, <1>5
  <2> QED BY <2>1, <2>2
<1>8. c = [k \in 1 .. Len(c) |-> c[k]]
  BY <1>3
<1> QED BY <1>2, <1>5, <1>7, <1>8

(* A walk from anywhere, also one that has no sense any more, meets        *)
(* Links of other objects do not matter to a chain.                        *)
LEMMA ChainStays ==
  ASSUME NEW m, NEW n, NEW o, NEW c, ChainFrom(m, o, c),
         \A k \in 1 .. Len(c) : n.next[c[k]] = m.next[c[k]]
  PROVE  ChainFrom(n, o, c)
<1>1. Len(c) \in Nat
  BY DEF ChainFrom
<1> QED BY <1>1 DEF ChainFrom

(* A chain grows at its end.                                               *)
LEMMA ChainGrows ==
  ASSUME NEW m, NEW n, NEW h, NEW c, ChainFrom(m, h, c), NEW o \in Objects,
         \A k \in 1 .. Len(c) : c[k] # o,
         Len(c) # 0, n.next[o] = Null, n.next[c[Len(c)]] = o,
         \A k \in 1 .. Len(c) - 1 : n.next[c[k]] = m.next[c[k]]
  PROVE  ChainFrom(n, h, Append(c, o))
<1> DEFINE l == Len(c)
           d == Append(c, o)
<1>1. /\ l \in Nat /\ d \in Seq(Objects) /\ Len(d) = l + 1 /\ d[l + 1] = o
      /\ \A k \in 1 .. l : d[k] = c[k]
  BY AppendProperties DEF ChainFrom
<1>2. /\ \A j, k \in 1 .. l : c[j] = c[k] => j = k
      /\ c[1] = h /\ \A k \in 1 .. l - 1 : m.next[c[k]] = c[k + 1]
  BY DEF ChainFrom
<1> HIDE DEF d
<1>3. \A j, k \in 1 .. Len(d) : d[j] = d[k] => j = k
  BY <1>1, <1>2
<1>4. d[1] = h /\ n.next[d[Len(d)]] = Null
  BY <1>1, <1>2
<1>5. \A k \in 1 .. Len(d) - 1 : n.next[d[k]] = d[k + 1]
  <2> SUFFICES ASSUME NEW k \in 1 .. l PROVE n.next[d[k]] = d[k + 1]
    BY <1>1
  <2>1. CASE k = l
    BY <1>1, <2>1
  <2>2. CASE k # l
    <3>1. k \in 1 .. l - 1 /\ k + 1 \in 1 .. l
      BY <1>1, <2>2
    <3> QED BY <1>1, <1>2, <3>1
  <2> QED BY <2>1, <2>2
<1> QED BY <1>1, <1>3, <1>4, <1>5 DEF ChainFrom, d

(* An object leaves a chain: its predecessor, or the head, gets its link.  *)
Unlinks(m, n, h, g, c, i) ==
  /\ ChainFrom(m, h, c) /\ i \in 1 .. Len(c)
  /\ g = IF i = 1 THEN m.next[c[i]] ELSE h
  /\ i # 1 => n.next[c[i - 1]] = m.next[c[i]]
  /\ \A k \in 1 .. Len(c) : k # i /\ k # i - 1 => n.next[c[k]] = m.next[c[k]]
Shrunk(n, g, c, i) ==
  \E d : /\ ChainFrom(n, g, d)
         /\ \A o : (\E k \in 1 .. Len(d) : d[k] = o)
                     <=> (\E k \in 1 .. Len(c) : c[k] = o) /\ o # c[i]
(* The rest is still a chain.                                              *)
LEMMA ChainShrinks ==
  ASSUME NEW m, NEW n, NEW h, NEW g, NEW c, NEW i, Unlinks(m, n, h, g, c, i)
  PROVE  Shrunk(n, g, c, i)
<1> DEFINE l == Len(c)
           d == [k \in 1 .. l - 1 |-> IF k < i THEN c[k] ELSE c[k + 1]]
<1>1. /\ l \in Nat /\ l # 0 /\ i \in Nat
      /\ \A k \in 1 .. l : c[k] \in Objects
      /\ \A j, k \in 1 .. l : c[j] = c[k] => j = k
      /\ c[1] = h /\ m.next[c[l]] = Null /\ \A k \in 1 .. l - 1 : m.next[c[k]] = c[k + 1]
  BY DEF ChainFrom, Unlinks
<1>2. /\ i \in 1 .. l /\ g = (IF i = 1 THEN m.next[c[i]] ELSE h)
      /\ i # 1 => n.next[c[i - 1]] = m.next[c[i]]
      /\ \A k \in 1 .. l : k # i /\ k # i - 1 => n.next[c[k]] = m.next[c[k]]
  BY DEF Unlinks
<1>3. d \in Seq(Objects) /\ Len(d) = l - 1
  <2>1. \A k \in 1 .. l - 1 : d[k] \in Objects
    BY <1>1, <1>2
  <2>2. l - 1 \in Nat
    BY <1>1, <1>2
  <2>3. d \in [1 .. l - 1 -> Objects]
    BY <1>2, <2>1
  <2> HIDE DEF d, l
  <2>4. d \in Seq(Objects)
    BY <1>2, <2>2, <2>3, SeqDef
  <2> QED BY <1>2, <2>2, <2>3, <2>4, LenProperties
<1>4. \A k \in 1 .. l - 1 : d[k] = IF k < i THEN c[k] ELSE c[k + 1]
  OBVIOUS
<1> HIDE DEF d, l
<1>5. \A j, k \in 1 .. l - 1 : d[j] = d[k] => j = k
  <2> SUFFICES ASSUME NEW j \in 1 .. l - 1, NEW k \in 1 .. l - 1, d[j] = d[k] PROVE j = k
    OBVIOUS
  <2>1. PICK x \in 1 .. l : d[j] = c[x] /\ x = IF j < i THEN j ELSE j + 1
    BY <1>1, <1>2, <1>4
  <2>2. PICK y \in 1 .. l : d[k] = c[y] /\ y = IF k < i THEN k ELSE k + 1
    BY <1>1, <1>2, <1>4
  <2>3. x = y
    <3>1. c[x] = c[y]
      BY <1>2, <2>1, <2>2
    <3>2. \A a, b \in 1 .. l : c[a] = c[b] => a = b
      BY <1>1, <1>2
    <3> QED BY <1>2, <3>1, <3>2
  <2> QED BY <1>1, <1>2, <2>1, <2>2, <2>3
<1>6. IF l - 1 = 0 THEN g = Null ELSE d[1] = g /\ n.next[d[l - 1]] = Null
  <2>1. CASE l = 1
    <3>1. i = 1
      BY <1>1, <1>2, <2>1
    <3> QED BY <1>1, <1>2, <2>1, <3>1
  <2>2. CASE l # 1
    <3>1. d[1] = g
      <4>1. 1 \in 1 .. l - 1
        BY <1>1, <1>2, <2>2
      <4>2. CASE i = 1
        <5>1. d[1] = c[1 + 1] /\ m.next[c[1]] = c[1 + 1]
          BY <1>1, <1>2, <1>4, <4>1, <4>2
        <5> QED BY <1>2, <4>2, <5>1
      <4>3. CASE i # 1
        <5>1. d[1] = c[1]
          BY <1>1, <1>2, <1>4, <4>1, <4>3
        <5> QED BY <1>1, <1>2, <4>3, <5>1
      <4> QED BY <1>2, <4>2, <4>3
    <3>2. n.next[d[l - 1]] = Null
      <4>1. l - 1 \in 1 .. l - 1 /\ (l - 1) + 1 = l /\ l \in 1 .. l
        BY <1>1, <1>2, <2>2
      <4>2. CASE i = l
        <5>1. d[l - 1] = c[i - 1] /\ i # 1
          BY <1>1, <1>2, <1>4, <2>2, <4>1, <4>2
        <5> QED BY <1>1, <1>2, <4>2, <5>1
      <4>3. CASE i # l
        <5>1. d[l - 1] = c[l]
          <6>1. ~(l - 1 < i)
            BY <1>1, <1>2, <4>3
          <6> QED BY <1>2, <1>4, <4>1, <6>1
        <5>2. l # i /\ l # i - 1
          BY <1>1, <1>2, <4>3
        <5> QED BY <1>1, <1>2, <4>1, <5>1, <5>2
      <4> QED BY <1>2, <4>2, <4>3
    <3> QED BY <1>1, <1>2, <2>2, <3>1, <3>2
  <2> QED BY <1>2, <2>1, <2>2
<1>7. \A k \in 1 .. (l - 1) - 1 : n.next[d[k]] = d[k + 1]
  <2> SUFFICES ASSUME NEW k \in 1 .. (l - 1) - 1 PROVE n.next[d[k]] = d[k + 1]
    OBVIOUS
  <2>1. k \in 1 .. l - 1 /\ k + 1 \in 1 .. l - 1 /\ k \in 1 .. l /\ k + 1 \in 1 .. l
        /\ (k + 1) + 1 \in 1 .. l
    BY <1>1, <1>2
  <2>2. CASE k + 1 < i
    <3>1. d[k] = c[k] /\ d[k + 1] = c[k + 1] /\ k # i /\ k # i - 1
      BY <1>1, <1>2, <1>4, <2>1, <2>2
    <3> QED BY <1>1, <1>2, <2>1, <3>1
  <2>3. CASE k + 1 = i
    <3>1. d[k] = c[k] /\ d[k + 1] = c[(k + 1) + 1] /\ k = i - 1 /\ i # 1
      BY <1>1, <1>2, <1>4, <2>1, <2>3
    <3>2. m.next[c[k + 1]] = c[(k + 1) + 1]
      BY <1>1, <1>2, <2>1
    <3> QED BY <1>2, <2>3, <3>1, <3>2
  <2>4. CASE k + 1 > i
    <3>1. d[k] = c[k + 1] /\ d[k + 1] = c[(k + 1) + 1] /\ k + 1 # i /\ k + 1 # i - 1
      BY <1>1, <1>2, <1>4, <2>1, <2>4
    <3>2. m.next[c[k + 1]] = c[(k + 1) + 1]
      BY <1>1, <1>2, <2>1
    <3> QED BY <1>2, <2>1, <3>1, <3>2
  <2> QED BY <1>1, <1>2, <2>1, <2>2, <2>3, <2>4
<1>8. ChainFrom(n, g, d)
  BY <1>2, <1>3, <1>5, <1>6, <1>7 DEF ChainFrom
<1>9. ASSUME NEW o
      PROVE  (\E k \in 1 .. Len(d) : d[k] = o) <=> (\E k \in 1 .. l : c[k] = o) /\ o # c[i]
  <2>1. ASSUME NEW k \in 1 .. l - 1, d[k] = o
        PROVE  (\E j \in 1 .. l : c[j] = o) /\ o # c[i]
    <3>1. PICK x \in 1 .. l : d[k] = c[x] /\ x # i
      BY <1>1, <1>2, <1>4
    <3> QED BY <1>1, <1>2, <2>1, <3>1
  <2>2. ASSUME NEW k \in 1 .. l, c[k] = o, o # c[i]
        PROVE  \E j \in 1 .. l - 1 : d[j] = o
    <3>1. CASE k < i
      <4>1. k \in 1 .. l - 1
        BY <1>1, <1>2, <3>1
      <4> QED BY <1>2, <1>4, <2>2, <3>1, <4>1
    <3>2. CASE ~(k < i)
      <4>1. k # i
        BY <1>2, <2>2
      <4>2. k - 1 \in 1 .. l - 1 /\ ~(k - 1 < i) /\ (k - 1) + 1 = k
        BY <1>1, <1>2, <3>2, <4>1
      <4>3. d[k - 1] = c[k]
        BY <1>2, <1>4, <4>2
      <4> QED BY <1>2, <2>2, <4>2, <4>3
    <3> QED BY <1>2, <3>1, <3>2
  <2> QED BY <1>2, <1>3, <2>1, <2>2
<1> QED BY <1>8, <1>9 DEF l, Shrunk
-----------------------------------------------------------------------------
(* The whole map: every bucket's chain holds the objects it should, and no *)
(* object is in two.                                                       *)
ChainOf(m, F, b) ==
  \E c : /\ ChainFrom(m, m.head[b], c)
         /\ \A o : (\E k \in 1 .. Len(c) : c[k] = o) <=> o \in F[b]
Chained(m, F) ==
  /\ m \in MapType /\ F \in [Buckets -> SUBSET Objects]
  /\ \A b \in Buckets : ChainOf(m, F, b)
  /\ \A a, b \in Buckets : a # b => F[a] \cap F[b] = {}

(* So hash_map_walk and hash_map_find meet what is in the bucket.          *)
LEMMA BucketIs ==
  ASSUME NEW m, NEW F, Chained(m, F), NEW b \in Buckets
  PROVE  /\ ChainFrom(m, m.head[b], Bucket(m, b)) /\ Bucket(m, b) \in Seq(Objects)
         /\ DOMAIN Bucket(m, b) = 1 .. Len(Bucket(m, b))
         /\ \A o : (\E k \in 1 .. Len(Bucket(m, b)) : Bucket(m, b)[k] = o) <=> o \in F[b]
<1>1. PICK c : /\ ChainFrom(m, m.head[b], c)
               /\ \A o : (\E k \in 1 .. Len(c) : c[k] = o) <=> o \in F[b]
  BY DEF Chained, ChainOf
<1>2. m \in MapType /\ m.head[b] \in Links
  BY DEF Chained, MapType
<1>3. Bucket(m, b) = c
  BY <1>1, <1>2, WalkIsChain DEF Bucket
<1>4. c \in Seq(Objects)
  BY <1>1 DEF ChainFrom
<1> QED BY <1>1, <1>3, <1>4

(* An object is in a bucket exactly if it should be.                       *)
LEMMA HoldsIs ==
  ASSUME NEW m, NEW F, Chained(m, F), NEW b \in Buckets, NEW o
  PROVE  Holds(m, b, o) <=> o \in F[b]
BY BucketIs DEF Holds

(* An object is mapped exactly if it should be in some bucket.             *)
LEMMA MappedIs ==
  ASSUME NEW m, NEW F, Chained(m, F), NEW o
  PROVE  Mapped(m, o) <=> \E b \in Buckets : o \in F[b]
<1>1. DOMAIN m.head = Buckets
  BY DEF Chained, MapType
<1> QED BY <1>1, HoldsIs DEF Mapped

(* A key's bucket.                                                         *)
LEMMA HashType ==
  ASSUME NEW key \in Nat
  PROVE  Hash(key) \in Buckets
<1>1. PICK n \in Nat \ {0} : n = NBuckets
  BY MapAssumption
<1>2. key % n \in 0 .. n - 1
  OBVIOUS
<1> QED BY <1>1, <1>2 DEF Hash, Buckets

(* A new map is empty.                                                     *)
LEMMA MapBegins == Chained(hash_map_init, [b \in Buckets |-> {}])
<1> DEFINE m == hash_map_init
           F == [b \in Buckets |-> {}]
<1>1. /\ m \in MapType /\ \A b \in Buckets : m.head[b] = Null
      /\ F \in [Buckets -> SUBSET Objects] /\ \A b \in Buckets : F[b] = {}
  BY DEF hash_map_init, MapType, Buckets, Links
<1> HIDE DEF m, F
<1>2. ASSUME NEW b \in Buckets PROVE ChainOf(m, F, b)
  <2>1. <<>> \in Seq(Objects) /\ Len(<<>>) = 0
    OBVIOUS
  <2>2. ChainFrom(m, m.head[b], <<>>)
    BY <1>1, <2>1 DEF ChainFrom
  <2> QED BY <1>1, <2>1, <2>2 DEF ChainOf
<1>3. Chained(m, F)
  BY <1>1, <1>2 DEF Chained
<1> QED BY <1>3 DEF m, F

(* hash_map_insert puts an object that is not in the map into the bucket   *)
(* of its key, unless the key is there.                                    *)
LEMMA InsertKeeps ==
  ASSUME NEW m, NEW F, Chained(m, F), NEW key \in [Objects -> Nat], NEW o \in Objects,
         \A b \in Buckets : o \notin F[b], m.next[o] = Null,
         \A x \in F[Hash(key[o])] : key[x] # key[o]
  PROVE  /\ Chained(hash_map_insert(m, key, o), [F EXCEPT ![Hash(key[o])] = @ \cup {o}])
         /\ \A x \in Objects : x \notin F[Hash(key[o])] =>
              hash_map_insert(m, key, o).next[x] = m.next[x]
<1> DEFINE b == Hash(key[o])
           c == Bucket(m, b)
           G == [F EXCEPT ![b] = @ \cup {o}]
           n == hash_map_insert(m, key, o)
<1>1. /\ b \in Buckets /\ m \in MapType /\ F \in [Buckets -> SUBSET Objects]
      /\ \A a \in Buckets : ChainOf(m, F, a)
      /\ \A a, d \in Buckets : a # d => F[a] \cap F[d] = {}
  BY HashType DEF Chained
<1>2. /\ ChainFrom(m, m.head[b], c) /\ c \in Seq(Objects) /\ DOMAIN c = 1 .. Len(c)
      /\ \A x : (\E k \in 1 .. Len(c) : c[k] = x) <=> x \in F[b]
  BY <1>1, BucketIs
<1>3. n = IF c = <<>> THEN [m EXCEPT !.head[b] = o] ELSE [m EXCEPT !.next[c[Len(c)]] = o]
  <2>1. ~\E k \in DOMAIN c : key[c[k]] = key[o]
    BY <1>2
  <2> QED BY <2>1 DEF hash_map_insert, Appended
<1>4. /\ G \in [Buckets -> SUBSET Objects] /\ G[b] = F[b] \cup {o}
      /\ \A a \in Buckets : a # b => G[a] = F[a]
  BY <1>1
<1> HIDE DEF b, c, n, G
<1>5. n \in MapType /\ (\A a \in Buckets : a # b => n.head[a] = m.head[a])
      /\ \A x \in Objects : x \notin F[b] => n.next[x] = m.next[x]
  <2>1. CASE c = <<>>
    <3>1. n.head = [m.head EXCEPT ![b] = o] /\ n.next = m.next /\ n = [head |-> n.head, next |-> n.next]
      BY <1>1, <1>3, <2>1 DEF MapType
    <3> QED BY <1>1, <3>1 DEF MapType, Links
  <2>2. CASE c # <<>>
    <3>1. Len(c) \in 1 .. Len(c) /\ c[Len(c)] \in Objects /\ c[Len(c)] \in F[b]
      BY <1>2, <2>2
    <3>2. n.next = [m.next EXCEPT ![c[Len(c)]] = o] /\ n.head = m.head
          /\ n = [head |-> n.head, next |-> n.next]
      BY <1>1, <1>3, <2>2 DEF MapType
    <3>3. n.next \in [Objects -> Links] /\ n.head \in [Buckets -> Links]
      BY <1>1, <3>1, <3>2 DEF MapType, Links
    <3>4. \A x \in Objects : x # c[Len(c)] => n.next[x] = m.next[x]
      BY <1>1, <3>2 DEF MapType
    <3>5. n \in MapType
      BY <3>2, <3>3 DEF MapType
    <3> QED BY <3>1, <3>2, <3>4, <3>5
  <2> QED BY <2>1, <2>2
<1>6. ChainOf(n, G, b)
  <2>1. CASE c = <<>>
    <3>1. n.head[b] = o /\ n.next = m.next
      BY <1>1, <1>3, <2>1 DEF MapType
    <3>2. <<o>> \in Seq(Objects) /\ Len(<<o>>) = 1 /\ <<o>>[1] = o
      OBVIOUS
    <3>3. ChainFrom(n, n.head[b], <<o>>)
      BY <3>1, <3>2 DEF ChainFrom
    <3>4. Len(c) = 0 /\ F[b] = {}
      BY <1>1, <1>2, <2>1
    <3> QED BY <1>4, <3>2, <3>3, <3>4 DEF ChainOf
  <2>2. CASE c # <<>>
    <3>1. Len(c) \in Nat /\ Len(c) # 0 /\ Len(c) \in 1 .. Len(c) /\ c[Len(c)] \in Objects
          /\ \A k \in 1 .. Len(c) : c[k] \in F[b] /\ c[k] \in Objects /\ c[k] # o
      BY <1>1, <1>2, <2>2
    <3>2. n.next = [m.next EXCEPT ![c[Len(c)]] = o] /\ n.head = m.head
      BY <1>1, <1>3, <2>2 DEF MapType
    <3>3. \A k \in 1 .. Len(c) - 1 : c[k] # c[Len(c)]
      BY <1>2, <3>1 DEF ChainFrom
    <3>4. /\ n.next[o] = Null /\ n.next[c[Len(c)]] = o
          /\ \A k \in 1 .. Len(c) - 1 : n.next[c[k]] = m.next[c[k]]
      BY <1>1, <3>1, <3>2, <3>3 DEF MapType
    <3>5. ChainFrom(n, m.head[b], Append(c, o))
      BY <1>2, <3>1, <3>4, ChainGrows, ZenonT(60)
    <3>6. /\ Len(Append(c, o)) = Len(c) + 1 /\ Append(c, o)[Len(c) + 1] = o
          /\ \A k \in 1 .. Len(c) : Append(c, o)[k] = c[k]
      BY <1>2, AppendProperties
    <3>7. ASSUME NEW x
          PROVE  (\E k \in 1 .. Len(Append(c, o)) : Append(c, o)[k] = x) <=> x \in G[b]
      <4>1. (\E k \in 1 .. Len(Append(c, o)) : Append(c, o)[k] = x)
              <=> (\E k \in 1 .. Len(c) : c[k] = x) \/ x = o
        <5> DEFINE d == Append(c, o)
        <5>1. \E l \in Nat : l = Len(c)
          BY <3>1
        <5> HIDE DEF d
        <5> QED BY <3>6, <5>1 DEF d
      <4> QED BY <1>2, <1>4, <4>1
    <3> HIDE DEF ChainFrom
    <3> QED BY <3>2, <3>5, <3>7 DEF ChainOf
  <2> QED BY <2>1, <2>2
<1>7. ASSUME NEW a \in Buckets, a # b PROVE ChainOf(n, G, a)
  <2>1. PICK d : /\ ChainFrom(m, m.head[a], d)
                 /\ \A x : (\E k \in 1 .. Len(d) : d[k] = x) <=> x \in F[a]
    BY <1>1 DEF ChainOf
  <2>2. \A k \in 1 .. Len(d) : d[k] \in F[a] /\ d[k] \notin F[b] /\ d[k] \in Objects
    BY <1>1, <1>7, <2>1
  <2>3. ChainFrom(n, m.head[a], d)
    BY <1>5, <2>1, <2>2, ChainStays
  <2> QED BY <1>4, <1>5, <1>7, <2>1, <2>3 DEF ChainOf
<1>8. \A a, d \in Buckets : a # d => G[a] \cap G[d] = {}
  BY <1>1, <1>4
<1>9. Chained(n, G)
  BY <1>4, <1>5, <1>6, <1>7, <1>8 DEF Chained
<1> QED BY <1>5, <1>9 DEF b, n, G

(* hash_map_remove takes an object out of the bucket of its key.           *)
LEMMA RemoveKeeps ==
  ASSUME NEW m, NEW F, Chained(m, F), NEW key \in [Objects -> Nat], NEW o \in Objects,
         o \in F[Hash(key[o])]
  PROVE  /\ Chained(hash_map_remove(m, key, o), [F EXCEPT ![Hash(key[o])] = @ \ {o}])
         /\ \A x \in Objects : x \notin F[Hash(key[o])] =>
              hash_map_remove(m, key, o).next[x] = m.next[x]
<1> DEFINE b == Hash(key[o])
           c == Bucket(m, b)
           G == [F EXCEPT ![b] = @ \ {o}]
           n == hash_map_remove(m, key, o)
<1>1. /\ b \in Buckets /\ m \in MapType /\ F \in [Buckets -> SUBSET Objects]
      /\ \A a \in Buckets : ChainOf(m, F, a)
      /\ \A a, d \in Buckets : a # d => F[a] \cap F[d] = {}
  BY HashType DEF Chained
<1>2. /\ ChainFrom(m, m.head[b], c) /\ c \in Seq(Objects) /\ DOMAIN c = 1 .. Len(c)
      /\ \A x : (\E k \in 1 .. Len(c) : c[k] = x) <=> x \in F[b]
  BY <1>1, BucketIs
<1>3. PICK i \in 1 .. Len(c) :
        /\ c[i] = o
        /\ n = IF i = 1 THEN [m EXCEPT !.head[b] = m.next[o]]
               ELSE [m EXCEPT !.next[c[i - 1]] = m.next[o]]
  <2> DEFINE j == CHOOSE k \in DOMAIN c : c[k] = o
  <2>1. \E k \in DOMAIN c : c[k] = o
    BY <1>2
  <2>2. j \in DOMAIN c /\ c[j] = o
    BY <2>1
  <2>3. ~\A k \in DOMAIN c : c[k] # o
    BY <2>1
  <2>4. n = IF j = 1 THEN [m EXCEPT !.head[b] = m.next[o]]
            ELSE [m EXCEPT !.next[c[j - 1]] = m.next[o]]
    BY <2>3 DEF hash_map_remove, Following
  <2> HIDE DEF j
  <2> QED BY <1>2, <2>2, <2>4
<1>4. /\ G \in [Buckets -> SUBSET Objects] /\ G[b] = F[b] \ {o}
      /\ \A a \in Buckets : a # b => G[a] = F[a]
  BY <1>1
<1> HIDE DEF b, c, n, G
<1>5. /\ Len(c) \in Nat /\ m.next[o] \in Links
      /\ \A k \in 1 .. Len(c) : c[k] \in F[b] /\ c[k] \in Objects
      /\ \A j, k \in 1 .. Len(c) : c[j] = c[k] => j = k
  BY <1>1, <1>2 DEF ChainFrom, MapType
<1>6. /\ n \in MapType
      /\ \A a \in Buckets : a # b => n.head[a] = m.head[a]
      /\ \A x \in Objects : x \notin F[b] => n.next[x] = m.next[x]
      /\ n.head[b] = IF i = 1 THEN m.next[c[i]] ELSE m.head[b]
      /\ i # 1 => n.next[c[i - 1]] = m.next[c[i]]
      /\ \A k \in 1 .. Len(c) : k # i /\ k # i - 1 => n.next[c[k]] = m.next[c[k]]
  <2>1. CASE i = 1
    <3>1. n.head = [m.head EXCEPT ![b] = m.next[o]] /\ n.next = m.next
          /\ n = [head |-> n.head, next |-> n.next]
      BY <1>1, <1>3, <2>1 DEF MapType
    <3>2. n \in MapType /\ n.head[b] = m.next[c[i]]
          /\ \A a \in Buckets : a # b => n.head[a] = m.head[a]
      BY <1>1, <1>3, <1>5, <3>1 DEF MapType
    <3> QED BY <2>1, <3>1, <3>2
  <2>2. CASE i # 1
    <3>1. i - 1 \in 1 .. Len(c) /\ c[i - 1] \in Objects /\ c[i - 1] \in F[b]
      BY <1>3, <1>5, <2>2
    <3>2. n.next = [m.next EXCEPT ![c[i - 1]] = m.next[o]] /\ n.head = m.head
          /\ n = [head |-> n.head, next |-> n.next]
      BY <1>1, <1>3, <2>2 DEF MapType
    <3>3. n \in MapType /\ n.next[c[i - 1]] = m.next[c[i]]
          /\ \A x \in Objects : x # c[i - 1] => n.next[x] = m.next[x]
      BY <1>1, <1>3, <1>5, <3>1, <3>2 DEF MapType
    <3>4. \A k \in 1 .. Len(c) : k # i - 1 => c[k] # c[i - 1]
      BY <1>5, <3>1
    <3> QED BY <1>5, <2>2, <3>1, <3>2, <3>3, <3>4
  <2> QED BY <2>1, <2>2
<1>7. ChainOf(n, G, b)
  <2>1. PICK d : /\ ChainFrom(n, n.head[b], d)
                 /\ \A x : (\E k \in 1 .. Len(d) : d[k] = x)
                             <=> (\E k \in 1 .. Len(c) : c[k] = x) /\ x # c[i]
    <3>1. PICK g, h : g = n.head[b] /\ h = m.head[b]
      OBVIOUS
    <3>2. Unlinks(m, n, h, g, c, i)
      BY <1>2, <1>3, <1>6, <3>1 DEF Unlinks
    <3>3. Shrunk(n, g, c, i)
      BY <3>2, ChainShrinks
    <3> QED BY <3>1, <3>3 DEF Shrunk
  <2> QED BY <1>2, <1>3, <1>4, <2>1 DEF ChainOf
<1>8. ASSUME NEW a \in Buckets, a # b PROVE ChainOf(n, G, a)
  <2>1. PICK d : /\ ChainFrom(m, m.head[a], d)
                 /\ \A x : (\E k \in 1 .. Len(d) : d[k] = x) <=> x \in F[a]
    BY <1>1 DEF ChainOf
  <2>2. \A k \in 1 .. Len(d) : d[k] \in F[a] /\ d[k] \notin F[b] /\ d[k] \in Objects
    BY <1>1, <1>8, <2>1
  <2>3. ChainFrom(n, m.head[a], d)
    BY <1>6, <2>1, <2>2, ChainStays, SMTT(30)
  <2> QED BY <1>4, <1>6, <1>8, <2>1, <2>3 DEF ChainOf
<1>9. \A a, d \in Buckets : a # d => G[a] \cap G[d] = {}
  BY <1>1, <1>4
<1>10. Chained(n, G)
  BY <1>4, <1>6, <1>7, <1>8, <1>9 DEF Chained
<1> QED BY <1>6, <1>10 DEF b, n, G
(* A link of an object that is not in the map may be cleared.              *)
LEMMA ClearKeeps ==
  ASSUME NEW m, NEW F, Chained(m, F), NEW o \in Objects, \A b \in Buckets : o \notin F[b],
         NEW n, n = [m EXCEPT !.next[o] = Null]
  PROVE  Chained(n, F) /\ n.next[o] = Null
<1>1. /\ m \in MapType /\ F \in [Buckets -> SUBSET Objects]
      /\ \A a \in Buckets : ChainOf(m, F, a)
      /\ \A a, d \in Buckets : a # d => F[a] \cap F[d] = {}
  BY DEF Chained
<1>2. n.head = m.head /\ n.next = [m.next EXCEPT ![o] = Null] /\ n = [head |-> n.head, next |-> n.next]
  BY <1>1 DEF MapType
<1>3. n \in MapType /\ n.next[o] = Null /\ \A x \in Objects : x # o => n.next[x] = m.next[x]
  BY <1>1, <1>2 DEF MapType, Links
<1>4. ASSUME NEW a \in Buckets PROVE ChainOf(n, F, a)
  <2>1. PICK d : /\ ChainFrom(m, m.head[a], d)
                 /\ \A x : (\E k \in 1 .. Len(d) : d[k] = x) <=> x \in F[a]
    BY <1>1 DEF ChainOf
  <2>2. \A k \in 1 .. Len(d) : d[k] \in F[a] /\ d[k] # o /\ d[k] \in Objects
    BY <1>1, <2>1
  <2>3. ChainFrom(n, m.head[a], d)
    BY <1>3, <2>1, <2>2, ChainStays, ZenonT(60)
  <2> QED BY <1>2, <2>1, <2>3 DEF ChainOf
<1> QED BY <1>1, <1>3, <1>4 DEF Chained
-----------------------------------------------------------------------------
-----------------------------------------------------------------------------
(* The map of threads.  A thread_t is in it while a pthread of it has      *)
(* entered and is not destroyed.                                           *)
Front == {"begun", "runnable"}
Ended == {"leaving", "exiting", "dead", "bye", "gone"}
Entered(o) == \E p \in DOMAIN run : run[p].o = o /\ run[p].pc \notin Front
InBucket == [b \in Buckets |-> {o \in Objects : Entered(o) /\ Hash(thread[o].id) = b}]
Starting == {c \in Creators : At(c, "init")}

(* The bound on the calls of t_init bounds the ids, read late or not.      *)
Counted ==
  /\ IsFiniteSet(Starting) /\ Len(run) + Cardinality(Starting) <= MaxStarts
  /\ tid <= Len(run)
  /\ \A c \in Creators : creator[c].tid <= Len(run)
  /\ \A o \in Objects : thread[o].id <= Len(run)

(* A thread_t has a state while it has a pthread; it is started anew only  *)
(* when the old one is at its end, and only one that has a state is        *)
(* destroyed.                                                              *)
Owned ==
  /\ \A o \in Objects : (thread[o].state = "NONE") <=> (\A p \in DOMAIN run : run[p].o # o)
  /\ \A c \in Creators : At(c, "init") =>
       \A p \in DOMAIN run : run[p].o = creator[c].o => run[p].pc \in Ended
  /\ \A c \in Creators :
       creator[c].pc \in {"join", "remove"} => thread[creator[c].o].state # "NONE"

(* What holds of the map in any case, and as long as the run is calm.      *)
Shaped == DOMAIN map = {"head", "next"} /\ DOMAIN map.head = Buckets
OneEach ==
  \A p, q \in DOMAIN run : (run[p].o = run[q].o /\ run[p].o \in Objects) => p = q
Numbered ==
  /\ \A o \in Objects : thread[o].id <= tid
  /\ \A p \in DOMAIN run : run[p].o \in Objects => thread[run[p].o].id # 0
  /\ \A o, x \in Objects : (thread[o].id # 0 /\ thread[o].id = thread[x].id) => o = x
Unlinked ==
  \A p \in DOMAIN run :
    (run[p].o \in Objects /\ run[p].pc \in Front) => map.next[run[p].o] = Null
Table == /\ fault # "hash_map_remove" /\ Chained(map, InBucket)
         /\ OneEach /\ Numbered /\ Unlinked

MapInv ==
  /\ Inv /\ Counted /\ Owned /\ Shaped
  /\ calm \in BOOLEAN /\ fault \in {"none", "hash_map_remove", "event", "freed"}
  /\ calm => Table
-----------------------------------------------------------------------------
(* What a step of a pthread that does not enter leaves alone.              *)
Quiet ==
  /\ UNCHANGED <<tid, map, calm>> /\ fault' \in {fault, "event", "freed"}
  /\ DOMAIN run' = DOMAIN run /\ Len(run') = Len(run)
  /\ \A q \in DOMAIN run :
       /\ run'[q].o = run[q].o /\ (run'[q].pc \in Front <=> run[q].pc \in Front)
       /\ run[q].pc \in Ended => run'[q].pc \in Ended
  /\ \A o \in Objects :
       /\ thread'[o].id = thread[o].id
       /\ (thread'[o].state = "NONE") <=> (thread[o].state = "NONE")
Follows ==
  \A c \in Creators :
    /\ creator'[c].o = creator[c].o /\ creator'[c].tid = creator[c].tid
    /\ creator'[c].pc = creator[c].pc \/ (creator[c].pc = "waiting" /\ creator'[c].pc = "woken")

(* Waking a waiter moves it only.                                          *)
LEMMA WokenFollows ==
  ASSUME Typed, NEW e \in Creators, creator' = Woken(e)
  PROVE  Follows
<1>1. creator \in [Creators -> [pc : CreatorPlaces, o : Objects \cup {Null}, tid : Nat]]
  BY DEF Typed
<1>2. CASE creator[e].pc = "waiting"
  <2>1. creator' = [creator EXCEPT ![e] = [creator[e] EXCEPT !.pc = "woken"]]
    BY <1>1, <1>2 DEF Woken
  <2>2. /\ [creator[e] EXCEPT !.pc = "woken"].o = creator[e].o
        /\ [creator[e] EXCEPT !.pc = "woken"].tid = creator[e].tid
        /\ [creator[e] EXCEPT !.pc = "woken"].pc = "woken"
    BY <1>1 DEF CreatorPlaces
  <2> QED BY <1>1, <1>2, <2>1, <2>2 DEF Follows
<1>3. CASE creator[e].pc # "waiting"
  BY <1>1, <1>3 DEF Woken, Follows
<1> QED BY <1>2, <1>3

(* Every step of a pthread but its entry in the map is quiet.              *)
LEMMA ThreadIsQuiet ==
  ASSUME Typed, Owned, NEW p \in DOMAIN run, ThreadRuns(p), ~Insert(p)
  PROVE  Quiet /\ Follows
<1>1. /\ run[p] \in Run /\ run \in Seq(Run) /\ DOMAIN run = 1 .. Len(run) /\ Len(run) \in Nat
      /\ thread \in [Objects -> [id : Nat, event : Creators \cup {Null}, state : States]]
      /\ creator \in [Creators -> [pc : CreatorPlaces, o : Objects \cup {Null}, tid : Nat]]
  BY DEF Typed
<1>2. creator' = creator => Follows
  BY DEF Follows
<1>3. ASSUME NEW to \in Places, NEW e \in Creators \cup {Null},
             run' = [run EXCEPT ![p].pc = to, ![p].event = e],
             to \in Front <=> run[p].pc \in Front, run[p].pc \in Ended => to \in Ended
      PROVE  /\ DOMAIN run' = DOMAIN run /\ Len(run') = Len(run)
             /\ \A q \in DOMAIN run :
                  /\ run'[q].o = run[q].o /\ (run'[q].pc \in Front <=> run[q].pc \in Front)
                  /\ run[q].pc \in Ended => run'[q].pc \in Ended
  <2>1. /\ run' \in Seq(Run) /\ DOMAIN run' = DOMAIN run /\ run'[p].pc = to
        /\ \A q \in DOMAIN run : run'[q].o = run[q].o /\ (q # p => run'[q] = run[q])
    BY <1>3, MoveTyped
  <2>2. Len(run') = Len(run)
    BY <1>1, <2>1
  <2> QED BY <1>3, <2>1, <2>2
<1>4. ASSUME NEW from, NEW to \in Places, NEW state \in {"RUNNABLE", "DEAD"},
             SetState(p, from, state, to),
             to \in Front <=> from \in Front, from \in Ended => to \in Ended
      PROVE  Quiet /\ Follows
  <2>1. /\ run[p].pc = from /\ run[p].o \in Objects /\ UNCHANGED <<tid, map, creator, calm, fault>>
        /\ run' = [run EXCEPT ![p].pc = to, ![p].event = Null]
        /\ thread' = [thread EXCEPT ![run[p].o].state = state]
    BY <1>1, <1>4 DEF SetState, Moves, Run
  <2>2. thread[run[p].o].state # "NONE"
    BY <2>1 DEF Owned
  <2>3. /\ \A o \in Objects : thread'[o].id = thread[o].id
        /\ thread'[run[p].o].state = state
        /\ \A o \in Objects \ {run[p].o} : thread'[o] = thread[o]
    BY <1>1, <2>1
  <2>4. Null \in Creators \cup {Null}
    OBVIOUS
  <2> QED BY <1>2, <1>3, <1>4, <2>1, <2>2, <2>3, <2>4 DEF Quiet
<1>5. ASSUME NEW to \in Places, NEW e \in Creators \cup {Null},
             run' = [run EXCEPT ![p].pc = to, ![p].event = e],
             to \in Front <=> run[p].pc \in Front, run[p].pc \in Ended => to \in Ended,
             UNCHANGED <<tid, map, calm>>, fault' \in {fault, "event", "freed"},
             \A o \in Objects : thread'[o].id = thread[o].id /\ thread'[o].state = thread[o].state,
             creator' = creator \/ (\E d \in Creators : creator' = Woken(d))
      PROVE  Quiet /\ Follows
  <2>1. Follows
    BY <1>2, <1>5, WokenFollows
  <2>2. /\ DOMAIN run' = DOMAIN run /\ Len(run') = Len(run)
        /\ \A q \in DOMAIN run :
             /\ run'[q].o = run[q].o /\ (run'[q].pc \in Front <=> run[q].pc \in Front)
             /\ run[q].pc \in Ended => run'[q].pc \in Ended
    BY <1>3, <1>5
  <2> QED BY <1>5, <2>1, <2>2 DEF Quiet
<1>6. ASSUME NEW from, NEW some \in Places, NEW none \in Places,
             ReadEvent(p, from, some, none),
             \A to \in {some, none} : (to \in Front <=> from \in Front) /\ (from \in Ended => to \in Ended)
      PROVE  Quiet /\ Follows
  <2> DEFINE e == thread[run[p].o].event
             to == IF e = Null THEN none ELSE some
  <2>1. run[p].o # Null /\ run[p].pc = from /\ e \in Creators \cup {Null}
    BY <1>1, <1>6 DEF ReadEvent, Run
  <2>2. run' = [run EXCEPT ![p].pc = to, ![p].event = e]
        /\ UNCHANGED <<tid, thread, map, creator, calm, fault>>
    BY <1>6 DEF ReadEvent
  <2>3. to \in {some, none} /\ to \in Places
    BY <1>6
  <2> HIDE DEF e, to
  <2> QED BY <1>5, <1>6, <2>1, <2>2, <2>3
<1>7. ASSUME NEW from, NEW to \in Places, Notify(p, from, to),
             to \in Front <=> from \in Front, from \in Ended => to \in Ended
      PROVE  Quiet /\ Follows
  <2>1. /\ run[p].o # Null /\ run[p].pc = from /\ UNCHANGED <<tid, thread, map, calm>>
        /\ run' = [run EXCEPT ![p].pc = to, ![p].event = Null]
    BY <1>7 DEF Notify, Moves
  <2>2. /\ fault' \in {fault, "event", "freed"}
        /\ creator' = creator \/ (\E d \in Creators : creator' = Woken(d))
    <3>1. run[p].event \in Creators \cup {Null}
          /\ thread[run[p].o].event \in Creators \cup {Null}
      BY <1>1, <2>1 DEF Run
    <3> QED BY <1>7, <3>1 DEF Notify
  <2>3. Null \in Creators \cup {Null}
    OBVIOUS
  <2> QED BY <1>5, <1>7, <2>1, <2>2, <2>3
<1>8. CASE ClearEvent(p)
  <2>1. /\ run[p].pc = "clear" /\ run[p].o \in Objects /\ UNCHANGED <<tid, map, creator, calm, fault>>
        /\ run' = [run EXCEPT ![p].pc = "body", ![p].event = Null]
        /\ thread' = [thread EXCEPT ![run[p].o].event = Null]
    BY <1>1, <1>8 DEF ClearEvent, Moves, Run
  <2>2. \A o \in Objects : thread'[o].id = thread[o].id /\ thread'[o].state = thread[o].state
    BY <1>1, <2>1
  <2>3. /\ "body" \in Places /\ Null \in Creators \cup {Null} /\ fault' \in {fault, "event", "freed"}
        /\ "body" \in Front <=> run[p].pc \in Front
        /\ run[p].pc \in Ended => "body" \in Ended
    BY <2>1 DEF Places, Front, Ended
  <2> QED BY <1>5, <2>1, <2>2, <2>3
<1>9. CASE BodyEnds(p)
  <2>1. /\ run[p].pc = "body" /\ UNCHANGED <<tid, thread, map, creator, calm, fault>>
        /\ run' = [run EXCEPT ![p].pc = "leaving", ![p].event = Null]
    BY <1>9 DEF BodyEnds, Moves
  <2>2. /\ "leaving" \in Places /\ Null \in Creators \cup {Null} /\ fault' \in {fault, "event", "freed"}
        /\ "leaving" \in Front <=> run[p].pc \in Front
        /\ run[p].pc \in Ended => "leaving" \in Ended
    BY <2>1 DEF Places, Front, Ended
  <2> QED BY <1>5, <2>1, <2>2
<1>10. CASE UsesFreed(p)
  BY <1>2, <1>10 DEF UsesFreed, Quiet
<1>11. CASE t_post_init(p)
  <2>1. CASE SetState(p, "begun", "RUNNABLE", "runnable")
    BY <1>4, <2>1 DEF Places, Front, Ended
  <2>2. CASE ReadEvent(p, "inserted", "notify", "body")
    BY <1>6, <2>2 DEF Places, Front, Ended
  <2>3. CASE Notify(p, "notify", "clear")
    BY <1>7, <2>3 DEF Places, Front, Ended
  <2> QED BY <1>8, <1>11, <2>1, <2>2, <2>3 DEF t_post_init
<1>12. CASE t_exit(p)
  <2>1. CASE SetState(p, "leaving", "DEAD", "exiting")
    BY <1>4, <2>1 DEF Places, Front, Ended
  <2>2. CASE SetState(p, "exiting", "DEAD", "dead")
    BY <1>4, <2>2 DEF Places, Front, Ended
  <2>3. CASE ReadEvent(p, "dead", "bye", "gone")
    BY <1>6, <2>3 DEF Places, Front, Ended
  <2>4. CASE Notify(p, "bye", "gone")
    BY <1>7, <2>4 DEF Places, Front, Ended
  <2> QED BY <1>12, <2>1, <2>2, <2>3, <2>4 DEF t_exit
<1> QED BY <1>9, <1>10, <1>11, <1>12 DEF ThreadRuns
-----------------------------------------------------------------------------
(* The counts of a step that starts nothing.                               *)
LEMMA CountStays ==
  ASSUME Counted, Starting' = Starting, Len(run') = Len(run), tid' = tid,
         \A c \in Creators : creator'[c].tid = creator[c].tid \/ creator'[c].tid = 0,
         \A o \in Objects : thread'[o].id = thread[o].id, Len(run) \in Nat
  PROVE  Counted'
BY DEF Counted

(* Which thread_t's are to be in which bucket.                             *)
LEMMA InBucketIs ==
  /\ InBucket \in [Buckets -> SUBSET Objects]
  /\ \A b \in Buckets : \A x :
       x \in InBucket[b] <=> x \in Objects /\ Entered(x) /\ Hash(thread[x].id) = b
BY DEF InBucket

(* A table of which the step leaves alone what it is about.                *)
LEMMA TableStays ==
  ASSUME Table, map' = map, tid' = tid, fault' # "hash_map_remove",
         DOMAIN run' = DOMAIN run,
         \A q \in DOMAIN run : run'[q].o = run[q].o /\ (run'[q].pc \in Front <=> run[q].pc \in Front),
         \A o \in Objects : thread'[o].id = thread[o].id
  PROVE  Table'
<1>1. InBucket' = InBucket
  BY DEF InBucket, Entered
<1>2. Chained(map', InBucket')
  BY <1>1 DEF Table
<1>3. OneEach'
  BY DEF Table, OneEach
<1>4. Numbered'
  BY DEF Table, Numbered
<1>5. Unlinked'
  BY DEF Table, Unlinked
<1> QED BY <1>2, <1>3, <1>4, <1>5 DEF Table

(* A quiet step of a pthread.                                              *)
LEMMA QuietKeeps ==
  ASSUME MapInv, Inv', Quiet, Follows
  PROVE  MapInv'
<1>1. Starting' = Starting
  BY DEF Starting, At, Follows
<1>2. Len(run) \in Nat /\ Len(run') = Len(run)
  BY DEF MapInv, Inv, Typed, Quiet
<1>3. Counted'
  BY <1>1, <1>2, CountStays DEF MapInv, Quiet, Follows
<1>4. Owned'
  <2>1. \A o \in Objects : (thread'[o].state = "NONE") <=> (\A p \in DOMAIN run' : run'[p].o # o)
    BY DEF MapInv, Owned, Quiet
  <2>2. ASSUME NEW c \in Creators, creator'[c].pc = "init",
               NEW p \in DOMAIN run', run'[p].o = creator'[c].o
        PROVE  run'[p].pc \in Ended
    <3>1. creator[c].pc = "init" /\ creator'[c].o = creator[c].o
      BY <2>2 DEF Follows
    <3>2. p \in DOMAIN run /\ run[p].o = creator[c].o
      BY <2>2, <3>1 DEF Quiet
    <3>3. run[p].pc \in Ended
      BY <3>1, <3>2 DEF MapInv, Owned, At
    <3> QED BY <3>2, <3>3 DEF Quiet
  <2>3. ASSUME NEW c \in Creators, creator'[c].pc \in {"join", "remove"}
        PROVE  thread'[creator'[c].o].state # "NONE"
    <3>1. creator[c].pc \in {"join", "remove"} /\ creator'[c].o = creator[c].o
      BY <2>3 DEF Follows
    <3>2. thread[creator[c].o].state # "NONE" /\ creator[c].o \in Objects
      BY <3>1, ThreadsAssumption DEF MapInv, Owned, Inv, Typed
    <3> QED BY <3>1, <3>2 DEF Quiet
  <2> QED BY <2>1, <2>2, <2>3 DEF Owned, At
<1>5. Shaped' /\ calm' \in BOOLEAN /\ fault' \in {"none", "hash_map_remove", "event", "freed"}
  BY DEF MapInv, Quiet, Shaped
<1>6. ASSUME calm' PROVE Table'
  <2>1. Table
    BY <1>6 DEF MapInv, Quiet
  <2>2. fault' # "hash_map_remove"
    BY <2>1 DEF Table, Quiet
  <2> QED BY <2>1, <2>2, TableStays DEF Quiet
<1> QED BY <1>3, <1>4, <1>5, <1>6 DEF MapInv

(* Insertions and removals write one head or one link.                     *)
LEMMA ShapeStays ==
  ASSUME Shaped, NEW key, NEW o,
         map' \in {hash_map_insert(map, key, o), hash_map_remove(map, key, o)}
  PROVE  Shaped'
<1>1. \A x, y : /\ DOMAIN [map EXCEPT !.head[x] = y] = DOMAIN map
                /\ [map EXCEPT !.head[x] = y].head = [map.head EXCEPT ![x] = y]
                /\ DOMAIN [map EXCEPT !.next[x] = y] = DOMAIN map
                /\ [map EXCEPT !.next[x] = y].head = map.head
  BY DEF Shaped
<1>2. \A x, y : /\ DOMAIN [map EXCEPT !.head[x] = y].head = Buckets
                /\ DOMAIN [map EXCEPT !.next[x] = y].head = Buckets
  BY <1>1 DEF Shaped
<1>3. map' = map \/ (\E x, y : map' \in {[map EXCEPT !.head[x] = y], [map EXCEPT !.next[x] = y]})
  <2>1. CASE map' = hash_map_insert(map, key, o)
    BY <2>1, Zenon DEF hash_map_insert, Appended
  <2>2. CASE map' = hash_map_remove(map, key, o)
    <3> DEFINE chain == Bucket(map, Hash(key[o]))
               k == CHOOSE j \in DOMAIN chain : chain[j] = o
    <3>1. \/ map' = map \/ map' = [map EXCEPT !.head[Hash(key[o])] = map.next[o]]
          \/ map' = [map EXCEPT !.next[chain[k - 1]] = map.next[o]]
      BY <2>2 DEF hash_map_remove, Following
    <3> HIDE DEF chain, k
    <3> QED BY <3>1, Zenon
  <2> QED BY <2>1, <2>2
<1> QED BY <1>1, <1>2, <1>3 DEF Shaped

(* The ids as hash_map_insert and hash_map_remove take them.               *)
LEMMA IdsAre ==
  ASSUME Typed
  PROVE  Ids \in [Objects -> Nat] /\ \A o \in Objects : Ids[o] = thread[o].id
BY DEF Typed, Ids

(* t_post_init: the thread_t of a thread that enters is in no bucket, its  *)
(* link is clear, and nobody in the map has its id.                        *)
LEMMA InsertTable ==
  ASSUME MapInv, NEW p \in DOMAIN run, Insert(p), calm
  PROVE  Table'
<1>0. PICK o : o = run[p].o
  OBVIOUS
<1> DEFINE F == InBucket
           b == Hash(Ids[o])
           G == [F EXCEPT ![b] = @ \cup {o}]
<1>1. /\ Table /\ Typed /\ run[p] \in Run
      /\ thread \in [Objects -> [id : Nat, event : Creators \cup {Null}, state : States]]
  BY DEF MapInv, Inv, Typed
<1>2. /\ run[p].pc = "runnable" /\ o \in Objects
      /\ run' = [run EXCEPT ![p].pc = "inserted", ![p].event = Null]
      /\ map' = hash_map_insert(map, Ids, o)
      /\ UNCHANGED <<tid, thread, creator, calm, fault>>
  BY <1>0, <1>1 DEF Insert, Moves, Run
<1>3. /\ DOMAIN run' = DOMAIN run /\ run'[p].pc = "inserted"
      /\ \A q \in DOMAIN run : run'[q].o = run[q].o /\ (q # p => run'[q] = run[q])
  <2>1. "inserted" \in Places /\ Null \in Creators \cup {Null}
    BY DEF Places
  <2> QED BY <1>1, <1>2, <2>1, MoveTyped
<1>4. /\ Ids \in [Objects -> Nat] /\ \A x \in Objects : Ids[x] = thread[x].id
      /\ b \in Buckets
  BY <1>1, <1>2, IdsAre, HashType
<1>5. /\ F \in [Buckets -> SUBSET Objects]
      /\ \A a \in Buckets : \A x : x \in F[a] <=> x \in Objects /\ Entered(x) /\ Hash(thread[x].id) = a
  BY InBucketIs
<1>6. Chained(map, F) /\ OneEach /\ Numbered /\ Unlinked
  BY <1>1 DEF Table
<1> HIDE DEF F, b
<1>7. ~Entered(o)
  BY <1>0, <1>2, <1>6 DEF Entered, OneEach, Front
<1>8. /\ \A a \in Buckets : o \notin F[a]
      /\ map.next[o] = Null
      /\ \A x \in F[b] : Ids[x] # Ids[o]
  <2>1. \A a \in Buckets : o \notin F[a]
    BY <1>5, <1>7
  <2>2. map.next[o] = Null
    BY <1>0, <1>2, <1>6 DEF Unlinked, Front
  <2>3. thread[o].id # 0
    BY <1>0, <1>2, <1>6 DEF Numbered
  <2>4. ASSUME NEW x \in F[b] PROVE Ids[x] # Ids[o]
    <3>1. x \in Objects /\ x # o
      BY <1>4, <1>5, <2>1
    <3> QED BY <1>2, <1>4, <1>6, <2>3, <3>1 DEF Numbered
  <2> QED BY <2>1, <2>2, <2>4
<1>9. /\ Chained(map', G)
      /\ \A x \in Objects : x \notin F[b] => map'.next[x] = map.next[x]
  <2>1. map' = hash_map_insert(map, Ids, o) /\ o \in Objects /\ Chained(map, F)
    BY <1>2, <1>6
  <2>2. /\ Ids \in [Objects -> Nat] /\ \A a \in Buckets : o \notin F[a]
        /\ map.next[o] = Null /\ \A x \in F[Hash(Ids[o])] : Ids[x] # Ids[o]
    BY <1>4, <1>8 DEF b
  <2> QED BY <2>1, <2>2, InsertKeeps DEF b
<1>10. Entered(o)' /\ \A x \in Objects : x # o => (Entered(x)' <=> Entered(x))
  BY <1>0, <1>2, <1>3 DEF Entered, Front
<1>11. InBucket' = G
  <2>1. /\ InBucket' \in [Buckets -> SUBSET Objects]
        /\ \A a \in Buckets : \A x :
             x \in InBucket'[a] <=> x \in Objects /\ Entered(x)' /\ Hash(thread'[x].id) = a
    BY DEF InBucket, Entered
  <2>2. G \in [Buckets -> SUBSET Objects] /\ \A a \in Buckets : \A x :
          x \in G[a] <=> x \in F[a] \/ (a = b /\ x = o)
    BY <1>2, <1>4, <1>5
  <2>3. \A a \in Buckets : \A x : x \in InBucket'[a] <=> x \in G[a]
    <3> SUFFICES ASSUME NEW a \in Buckets, NEW x PROVE x \in InBucket'[a] <=> x \in G[a]
      OBVIOUS
    <3> HIDE DEF G
    <3>1. CASE x = o
      <4>1. o \in InBucket'[a] <=> Hash(thread'[o].id) = a
        BY <1>2, <1>10, <2>1
      <4>2. Hash(thread'[o].id) = b
        BY <1>2, <1>4 DEF b
      <4>3. o \in G[a] <=> a = b
        BY <1>8, <2>2
      <4> QED BY <3>1, <4>1, <4>2, <4>3
    <3>2. CASE x # o
      BY <1>2, <1>5, <1>10, <2>1, <2>2, <3>2
    <3> QED BY <3>1, <3>2
  <2>4. \A a \in Buckets : InBucket'[a] = G[a]
    <3> HIDE DEF G
    <3> QED BY <2>1, <2>2, <2>3
  <2> HIDE DEF G
  <2> QED BY <2>1, <2>2, <2>4
<1>12. OneEach' /\ Numbered'
  BY <1>2, <1>3, <1>6 DEF OneEach, Numbered
<1>13. Unlinked'
  <2> SUFFICES ASSUME NEW q \in DOMAIN run, run'[q].o \in Objects, run'[q].pc \in Front
               PROVE  map'.next[run'[q].o] = Null
    BY <1>3 DEF Unlinked
  <2>1. q # p /\ run'[q] = run[q]
    BY <1>3 DEF Front
  <2>2. ~Entered(run[q].o)
    BY <1>6, <2>1 DEF OneEach, Entered
  <2>3. run[q].o \notin F[b]
    BY <1>4, <1>5, <2>2
  <2> QED BY <1>6, <1>9, <2>1, <2>3 DEF Unlinked
<1> QED BY <1>1, <1>2, <1>9, <1>11, <1>12, <1>13 DEF Table

(* t_post_init keeps the rest too.                                         *)
LEMMA InsertMapInv ==
  ASSUME MapInv, Inv', NEW p \in DOMAIN run, Insert(p)
  PROVE  MapInv'
<1>1. /\ run[p].pc = "runnable" /\ run[p] \in Run /\ Len(run) \in Nat
      /\ run' = [run EXCEPT ![p].pc = "inserted", ![p].event = Null]
      /\ map' = hash_map_insert(map, Ids, run[p].o)
      /\ UNCHANGED <<tid, thread, creator, calm, fault>>
  BY DEF MapInv, Inv, Typed, Insert, Moves
<1>2. /\ run' \in Seq(Run) /\ DOMAIN run' = DOMAIN run /\ run'[p].pc = "inserted"
      /\ \A q \in DOMAIN run : run'[q].o = run[q].o /\ (q # p => run'[q] = run[q])
  <2>1. "inserted" \in Places /\ Null \in Creators \cup {Null}
    BY DEF Places
  <2> QED BY <1>1, <2>1, MoveTyped DEF MapInv, Inv
<1>3. Len(run') = Len(run)
  <2>1. run \in Seq(Run)
    BY DEF MapInv, Inv, Typed
  <2> QED BY <1>2, <2>1
<1>4. Starting' = Starting
  BY <1>1 DEF Starting, At
<1>5. Counted'
  BY <1>1, <1>3, <1>4, CountStays DEF MapInv
<1>6. Owned'
  <2>1. ASSUME NEW c \in Creators, At(c, "init"), NEW q \in DOMAIN run, run'[q].o = creator[c].o
        PROVE  run'[q].pc \in Ended
    <3>1. run[q].pc \in Ended
      BY <1>2, <2>1 DEF MapInv, Owned
    <3> QED BY <1>1, <1>2, <3>1 DEF Ended
  <2> QED BY <1>1, <1>2, <2>1 DEF MapInv, Owned, At
<1>7. Shaped'
  BY <1>1, ShapeStays DEF MapInv
<1> QED BY <1>1, <1>5, <1>6, <1>7, InsertTable DEF MapInv
-----------------------------------------------------------------------------
(* What the steps of a creator but t_init and t_destroy keep of the map.   *)
LEMMA RestKeeps ==
  ASSUME MapInv, Inv', Counted', Owned', UNCHANGED <<map, tid, run, calm, fault>>,
         \A o \in Objects : thread'[o].id = thread[o].id
  PROVE  MapInv'
<1>1. Shaped' /\ calm' \in BOOLEAN /\ fault' \in {"none", "hash_map_remove", "event", "freed"}
  BY DEF MapInv, Shaped
<1>2. ASSUME calm' PROVE Table'
  <2>1. Table
    BY <1>2 DEF MapInv
  <2>2. fault' # "hash_map_remove"
    BY <2>1 DEF Table
  <2> QED BY <2>1, <2>2, TableStays
<1> QED BY <1>1, <1>2 DEF MapInv

(* t_wait_start and the end of the join.                                   *)
LEMMA WaiterMapInv ==
  ASSUME MapInv, Inv', NEW c \in Creators,
         SetEvent(c) \/ TestState(c) \/ Wait(c) \/ Spurious(c) \/ EndWait(c) \/ Joined(c)
  PROVE  MapInv'
<1>1. /\ thread \in [Objects -> [id : Nat, event : Creators \cup {Null}, state : States]]
      /\ creator \in [Creators -> [pc : CreatorPlaces, o : Objects \cup {Null}, tid : Nat]]
      /\ Len(run) \in Nat /\ creator[c].o \in Objects \cup {Null}
  BY DEF MapInv, Inv, Typed
<1>2. PICK to \in CreatorPlaces \ {"init", "join"} :
        /\ Goes(c, to) /\ creator[c].pc \notin {"idle", "init"}
        /\ to = "remove" => creator[c].pc = "join"
        /\ UNCHANGED <<map, tid, run, calm, fault>>
  BY DEF SetEvent, TestState, Wait, Spurious, EndWait, Joined, At, CreatorPlaces
<1>3. /\ \A d \in Creators \ {c} : creator'[d] = creator[d]
      /\ creator'[c].pc = to /\ (to # "idle" => creator'[c].o = creator[c].o)
  BY <1>2, GoesTyped DEF MapInv, Inv, At
<1>4. creator'[c].tid = 0
  <2> DEFINE r == IF to = "idle" THEN Idle ELSE [creator[c] EXCEPT !.pc = to, !.tid = 0]
  <2>1. creator' = [creator EXCEPT ![c] = r]
    BY <1>1, <1>2 DEF Goes
  <2>2. r.tid = 0
    BY <1>1 DEF Idle
  <2> HIDE DEF r
  <2> QED BY <1>1, <2>1, <2>2
<1>5. \A x \in Objects : thread'[x].id = thread[x].id /\ thread'[x].state = thread[x].state
  <2>1. CASE SetEvent(c)
    BY <1>1, <2>1 DEF SetEvent
  <2>2. CASE EndWait(c)
    BY <1>1, <2>2 DEF EndWait
  <2>3. CASE TestState(c) \/ Wait(c) \/ Spurious(c) \/ Joined(c)
    BY <2>3 DEF TestState, Wait, Spurious, Joined
  <2> QED BY <2>1, <2>2, <2>3
<1>6. Starting' = Starting
  BY <1>2, <1>3 DEF Starting, At
<1>7. Counted'
  BY <1>1, <1>2, <1>3, <1>4, <1>5, <1>6, CountStays DEF MapInv
<1>8. Owned'
  <2>1. \A o \in Objects : (thread'[o].state = "NONE") <=> (\A p \in DOMAIN run' : run'[p].o # o)
    BY <1>2, <1>5 DEF MapInv, Owned
  <2>2. ASSUME NEW d \in Creators, creator'[d].pc = "init",
               NEW p \in DOMAIN run', run'[p].o = creator'[d].o
        PROVE  run'[p].pc \in Ended
    <3>1. creator'[d] = creator[d]
      BY <1>2, <1>3, <2>2
    <3> QED BY <1>2, <2>2, <3>1 DEF MapInv, Owned, At
  <2>3. ASSUME NEW d \in Creators, creator'[d].pc \in {"join", "remove"}
        PROVE  thread'[creator'[d].o].state # "NONE"
    <3>1. creator[d].pc \in {"join", "remove"} /\ creator'[d].o = creator[d].o
      BY <1>2, <1>3, <2>3
    <3>2. creator[d].o \in Objects
      BY <3>1, ThreadsAssumption DEF MapInv, Inv, Typed
    <3> QED BY <1>5, <3>1, <3>2 DEF MapInv, Owned
  <2> QED BY <2>1, <2>2, <2>3 DEF Owned, At
<1> QED BY <1>2, <1>5, <1>7, <1>8, RestKeeps

(* A creator that reads the counter is one more of those that start.       *)
LEMMA ReadTidMapInv ==
  ASSUME MapInv, Inv', NEW c \in Creators, ReadTid(c)
  PROVE  MapInv'
<1>1. /\ creator \in [Creators -> [pc : CreatorPlaces, o : Objects \cup {Null}, tid : Nat]]
      /\ Len(run) \in Nat /\ tid \in Nat /\ UNCHANGED <<tid, thread, map, run, calm, fault>>
      /\ creator[c].pc = "idle" /\ Len(run) + Cardinality(Starting) < MaxStarts
  BY DEF MapInv, Inv, Typed, ReadTid, At, Starting
<1>2. PICK o \in Own[c] :
        /\ \/ thread[o].state = "NONE"
           \/ \A p \in On(o) : run[p].pc \in Ended
        /\ creator' = [creator EXCEPT ![c] = [pc |-> "init", o |-> o, tid |-> tid]]
  BY DEF ReadTid, Ended
<1>3. /\ creator'[c] = [pc |-> "init", o |-> o, tid |-> tid]
      /\ \A d \in Creators \ {c} : creator'[d] = creator[d]
      /\ o \in Objects
  BY <1>1, <1>2, ThreadsAssumption
<1>4. Counted'
  <2>1. c \notin Starting /\ Starting' = Starting \cup {c}
    BY <1>1, <1>3 DEF Starting, At
  <2>2. IsFiniteSet(Starting)
    BY DEF MapInv, Counted
  <2>3. /\ IsFiniteSet(Starting') /\ Cardinality(Starting') = Cardinality(Starting) + 1
        /\ Cardinality(Starting) \in Nat
    BY <2>1, <2>2, FS_AddElement, FS_CardinalityType
  <2>4. Len(run') + Cardinality(Starting') <= MaxStarts
    BY <1>1, <2>3, ThreadsAssumption
  <2>5. \A d \in Creators : creator'[d].tid <= Len(run')
    BY <1>1, <1>3 DEF MapInv, Counted
  <2> QED BY <1>1, <2>3, <2>4, <2>5 DEF MapInv, Counted
<1>5. Owned'
  <2>1. ASSUME NEW d \in Creators, creator'[d].pc = "init",
               NEW p \in DOMAIN run, run[p].o = creator'[d].o
        PROVE  run[p].pc \in Ended
    <3>1. CASE d = c
      BY <1>2, <1>3, <2>1, <3>1 DEF MapInv, Owned, On
    <3>2. CASE d # c
      BY <1>3, <2>1, <3>2 DEF MapInv, Owned, At
    <3> QED BY <3>1, <3>2
  <2>2. ASSUME NEW d \in Creators, creator'[d].pc \in {"join", "remove"}
        PROVE  thread[creator'[d].o].state # "NONE"
    <3>1. d # c
      BY <1>3, <2>2
    <3> QED BY <1>3, <2>2, <3>1 DEF MapInv, Owned
  <2> QED BY <1>1, <2>1, <2>2 DEF MapInv, Owned, At
<1> QED BY <1>1, <1>4, <1>5, RestKeeps

(* t_destroy begins with a thread_t that was started.                      *)
LEMMA JoinMapInv ==
  ASSUME MapInv, Inv', NEW c \in Creators, t_join(c)
  PROVE  MapInv'
<1>1. /\ creator \in [Creators -> [pc : CreatorPlaces, o : Objects \cup {Null}, tid : Nat]]
      /\ Len(run) \in Nat /\ UNCHANGED <<tid, thread, map, run, calm, fault>>
      /\ creator[c].pc = "idle"
  BY DEF MapInv, Inv, Typed, t_join, At
<1>2. PICK o \in Own[c], to \in {"join", "remove"} :
        /\ thread[o].state # "NONE"
        /\ creator' = [creator EXCEPT ![c] = [pc |-> to, o |-> o, tid |-> 0]]
  <2>1. PICK o \in Own[c] :
          /\ thread[o].state # "NONE"
          /\ creator' = [creator EXCEPT ![c] =
               [pc |-> IF MustJoin(thread[o].state) THEN "join" ELSE "remove", o |-> o, tid |-> 0]]
    BY DEF t_join
  <2>2. (IF MustJoin(thread[o].state) THEN "join" ELSE "remove") \in {"join", "remove"}
    OBVIOUS
  <2> QED BY <2>1, <2>2
<1>3. /\ creator'[c] = [pc |-> to, o |-> o, tid |-> 0]
      /\ \A d \in Creators \ {c} : creator'[d] = creator[d]
  BY <1>1, <1>2
<1>4. Counted'
  <2>1. Starting' = Starting
    BY <1>1, <1>3 DEF Starting, At
  <2>2. \A d \in Creators : creator'[d].tid = creator[d].tid \/ creator'[d].tid = 0
    BY <1>3
  <2> QED BY <1>1, <2>1, <2>2, CountStays DEF MapInv
<1>5. Owned'
  <2>1. ASSUME NEW d \in Creators, creator'[d].pc = "init",
               NEW p \in DOMAIN run, run[p].o = creator'[d].o
        PROVE  run[p].pc \in Ended
    <3>1. d # c
      BY <1>3, <2>1
    <3> QED BY <1>3, <2>1, <3>1 DEF MapInv, Owned, At
  <2>2. ASSUME NEW d \in Creators, creator'[d].pc \in {"join", "remove"}
        PROVE  thread[creator'[d].o].state # "NONE"
    <3>1. CASE d = c
      BY <1>2, <1>3, <3>1
    <3>2. CASE d # c
      BY <1>3, <2>2, <3>2 DEF MapInv, Owned
    <3> QED BY <3>1, <3>2
  <2> QED BY <1>1, <2>1, <2>2 DEF MapInv, Owned, At
<1> QED BY <1>1, <1>4, <1>5, RestKeeps
-----------------------------------------------------------------------------
(* What t_init does.                                                       *)
LEMMA InitStep ==
  ASSUME Typed, NEW c \in Creators, t_init(c)
  PROVE  /\ creator[c].pc = "init" /\ creator[c].o \in Objects /\ creator[c].o \in Own[c]
         /\ tid' = creator[c].tid + 1 /\ creator[c].tid \in Nat
         /\ map' = [map EXCEPT !.next[creator[c].o] = Null] /\ fault' = fault
         /\ calm' = (calm /\ tid = creator[c].tid /\ ~Mapped(map, creator[c].o))
         /\ Len(run) \in Nat /\ Len(run') = Len(run) + 1
         /\ DOMAIN run = 1 .. Len(run) /\ DOMAIN run' = 1 .. Len(run) + 1
         /\ \A p \in DOMAIN run : run'[p] = run[p]
         /\ run'[Len(run) + 1].pc = "begun" /\ run'[Len(run) + 1].o = creator[c].o
         /\ thread'[creator[c].o].id = creator[c].tid + 1
         /\ thread'[creator[c].o].state = "INITIALIZED"
         /\ \A x \in Objects \ {creator[c].o} : thread'[x] = thread[x]
         /\ \A d \in Creators \ {c} : creator'[d] = creator[d]
         /\ creator'[c].pc \in {"idle", "start"} /\ creator'[c].tid = 0
<1> DEFINE o == creator[c].o
           id == NextId(creator[c].tid)
           new == [pc |-> "begun", o |-> o, event |-> Null]
<1>1. /\ run \in Seq(Run) /\ creator[c].pc = "init" /\ o \in Own[c] /\ o \in Objects
      /\ creator \in [Creators -> [pc : CreatorPlaces, o : Objects \cup {Null}, tid : Nat]]
      /\ thread \in [Objects -> [id : Nat, event : Creators \cup {Null}, state : States]]
  BY ThreadsAssumption DEF Typed, t_init, At
<1>2. /\ tid' = id /\ id = creator[c].tid + 1 /\ run' = Append(run, new)
      /\ thread' = [thread EXCEPT ![o] = [id |-> id, state |-> "INITIALIZED", event |-> Null]]
      /\ map' = [map EXCEPT !.next[o] = Null] /\ fault' = fault
      /\ calm' = (calm /\ tid = creator[c].tid /\ ~Mapped(map, o))
  BY DEF t_init, NextId
<1>3. PICK pc \in {"idle", "start"} : Goes(c, pc)
  BY DEF t_init
<1>4. /\ \A d \in Creators \ {c} : creator'[d] = creator[d]
      /\ creator'[c].pc = pc
  BY <1>1, <1>3, GoesTyped DEF At, CreatorPlaces
<1>5. creator'[c].tid = 0
  <2> DEFINE r == IF pc = "idle" THEN Idle ELSE [creator[c] EXCEPT !.pc = pc, !.tid = 0]
  <2>1. creator' = [creator EXCEPT ![c] = r]
    BY <1>1, <1>3 DEF Goes
  <2>2. r.tid = 0
    BY <1>1 DEF Idle
  <2> HIDE DEF r
  <2> QED BY <1>1, <2>1, <2>2
<1>6. new \in Run /\ new.o = o /\ new.pc = "begun"
  BY <1>1 DEF Run, Places
<1> HIDE DEF new, id
<1>7. /\ Len(run) \in Nat /\ Len(run') = Len(run) + 1
      /\ DOMAIN run = 1 .. Len(run) /\ DOMAIN run' = 1 .. Len(run) + 1
      /\ \A p \in DOMAIN run : run'[p] = run[p]
      /\ run'[Len(run) + 1] = new
  BY <1>1, <1>2, <1>6, AppendProperties
<1>8. /\ thread'[o].id = id /\ thread'[o].state = "INITIALIZED"
      /\ \A x \in Objects \ {o} : thread'[x] = thread[x]
  BY <1>1, <1>2
<1> QED BY <1>1, <1>2, <1>3, <1>4, <1>5, <1>6, <1>7, <1>8

(* A thread_t that is started while the run is calm has no pthread: it     *)
(* would have to be at its end, and still mapped.                          *)
LEMMA InitTable ==
  ASSUME MapInv, NEW c \in Creators, t_init(c), calm'
  PROVE  Table'
<1>0. PICK o : o = creator[c].o
  OBVIOUS
<1> DEFINE n == Len(run) + 1
           F == InBucket
<1>1. /\ creator[c].pc = "init" /\ o \in Objects
      /\ tid' = creator[c].tid + 1 /\ creator[c].tid \in Nat
      /\ map' = [map EXCEPT !.next[o] = Null] /\ fault' = fault
      /\ calm' = (calm /\ tid = creator[c].tid /\ ~Mapped(map, o))
      /\ Len(run) \in Nat /\ DOMAIN run = 1 .. Len(run) /\ DOMAIN run' = 1 .. n
      /\ \A p \in DOMAIN run : run'[p] = run[p]
      /\ run'[n].pc = "begun" /\ run'[n].o = o /\ thread'[o].id = creator[c].tid + 1
      /\ \A x \in Objects \ {o} : thread'[x] = thread[x]
  BY <1>0, InitStep DEF MapInv, Inv
<1>2. /\ Chained(map, F) /\ OneEach /\ Numbered /\ Unlinked /\ fault # "hash_map_remove"
      /\ tid = creator[c].tid /\ ~Mapped(map, o)
  BY <1>1 DEF MapInv, Table
<1>3. /\ F \in [Buckets -> SUBSET Objects]
      /\ \A a \in Buckets : \A x :
           x \in F[a] <=> x \in Objects /\ Entered(x) /\ Hash(thread[x].id) = a
  BY InBucketIs
<1>4. \A p \in DOMAIN run : run[p].o = o => run[p].pc \in Ended
  BY <1>0, <1>1 DEF MapInv, Owned, At
<1>5. \A x \in Objects : thread[x].id \in Nat
  BY DEF MapInv, Inv, Typed
<1>6. DOMAIN run' = DOMAIN run \cup {n} /\ n \notin DOMAIN run
  BY <1>1
<1> HIDE DEF n, F
<1>7. \A a \in Buckets : o \notin F[a]
  BY <1>2, MappedIs
<1>8. \A p \in DOMAIN run : run[p].o # o
  <2> SUFFICES ASSUME NEW p \in DOMAIN run, run[p].o = o PROVE FALSE
    OBVIOUS
  <2>1. Entered(o)
    BY <1>4 DEF Entered, Ended, Front
  <2>2. Hash(thread[o].id) \in Buckets
    BY <1>1, <1>5, HashType
  <2> QED BY <1>1, <1>3, <1>7, <2>1, <2>2
<1>9. Chained(map', F) /\ map'.next[o] = Null
  <2>1. map' = [map EXCEPT !.next[o] = Null] /\ o \in Objects
    BY <1>1
  <2>2. Chained(map, F)
    BY <1>2
  <2> QED BY <1>7, <2>1, <2>2, ClearKeeps
<1>10. \A x \in Objects : x # o => map'.next[x] = map.next[x]
  <2>1. map \in MapType
    BY <1>2 DEF Chained
  <2> QED BY <1>1, <2>1 DEF MapType
<1>11. InBucket' = F
  <2>1. ~Entered(o)' /\ ~Entered(o)
    <3>1. \A p \in DOMAIN run' : run'[p].o = o => run'[p].pc = "begun"
      BY <1>1, <1>6, <1>8
    <3> QED BY <1>8, <3>1 DEF Entered, Front
  <2>5. ASSUME NEW x \in Objects, x # o PROVE Entered(x)' <=> Entered(x)
    <3>1. \A p \in DOMAIN run' : run'[p].o = x => p \in DOMAIN run /\ run'[p] = run[p]
      BY <1>1, <1>6, <2>5
    <3>2. \A p \in DOMAIN run : p \in DOMAIN run' /\ run'[p] = run[p]
      BY <1>1, <1>6
    <3> QED BY <3>1, <3>2 DEF Entered
  <2>2. /\ InBucket' \in [Buckets -> SUBSET Objects]
        /\ \A a \in Buckets : \A x :
             x \in InBucket'[a] <=> x \in Objects /\ Entered(x)' /\ Hash(thread'[x].id) = a
    BY DEF InBucket, Entered
  <2>3. ASSUME NEW a \in Buckets, NEW x PROVE x \in InBucket'[a] <=> x \in F[a]
    <3>1. CASE x = o
      BY <1>7, <2>1, <2>2, <3>1
    <3>2. CASE x \in Objects /\ x # o
      <4>1. thread'[x] = thread[x]
        BY <1>1, <3>2
      <4> QED BY <1>3, <2>2, <2>5, <3>2, <4>1
    <3>3. CASE x \notin Objects
      BY <1>3, <2>2, <3>3
    <3> QED BY <3>1, <3>2, <3>3
  <2>4. \A a \in Buckets : InBucket'[a] = F[a]
    BY <2>3
  <2> QED BY <1>3, <2>2, <2>4
<1>12. OneEach'
  <2>1. \A p \in DOMAIN run : run'[p].o = run[p].o /\ run'[p].o # o
    BY <1>1, <1>8
  <2>2. run'[n].o = o
    BY <1>1
  <2>3. OneEach
    BY <1>2
  <2> QED BY <1>6, <2>1, <2>2, <2>3 DEF OneEach
<1>13. Numbered'
  <2>1. \A x \in Objects : thread'[x].id <= tid'
    BY <1>1, <1>2, <1>5 DEF Numbered
  <2>2. ASSUME NEW p \in DOMAIN run', run'[p].o \in Objects PROVE thread'[run'[p].o].id # 0
    <3>1. CASE p = n
      BY <1>1, <3>1
    <3>2. CASE p \in DOMAIN run
      <4>1. run'[p] = run[p] /\ run[p].o # o
        BY <1>1, <1>8, <3>2
      <4>2. thread'[run[p].o] = thread[run[p].o]
        BY <1>1, <2>2, <4>1
      <4> QED BY <1>2, <2>2, <3>2, <4>1, <4>2 DEF Numbered
    <3> QED BY <1>6, <3>1, <3>2
  <2>3. \A x \in Objects : x # o => thread'[x].id # thread'[o].id
    BY <1>1, <1>2, <1>5 DEF Numbered
  <2>4. \A x, y \in Objects : (thread'[x].id # 0 /\ thread'[x].id = thread'[y].id) => x = y
    BY <1>1, <1>2, <2>3 DEF Numbered
  <2> QED BY <2>1, <2>2, <2>4 DEF Numbered
<1>14. Unlinked'
  <2> SUFFICES ASSUME NEW p \in DOMAIN run', run'[p].o \in Objects, run'[p].pc \in Front
               PROVE  map'.next[run'[p].o] = Null
    BY DEF Unlinked
  <2>1. CASE p = n
    BY <1>1, <1>9, <2>1
  <2>2. CASE p \in DOMAIN run
    <3>1. run'[p] = run[p] /\ run[p].o # o
      BY <1>1, <1>8, <2>2
    <3> QED BY <1>2, <1>10, <2>2, <3>1 DEF Unlinked
  <2> QED BY <1>6, <2>1, <2>2
<1> QED BY <1>1, <1>2, <1>9, <1>11, <1>12, <1>13, <1>14 DEF Table

(* t_init keeps the rest too: its id is at most the number of starts.      *)
LEMMA InitMapInv ==
  ASSUME MapInv, Inv', NEW c \in Creators, t_init(c)
  PROVE  MapInv'
<1>0. PICK o : o = creator[c].o
  OBVIOUS
<1> DEFINE n == Len(run) + 1
<1>1. /\ creator[c].pc = "init" /\ o \in Objects /\ o \in Own[c]
      /\ tid' = creator[c].tid + 1 /\ creator[c].tid \in Nat
      /\ map' = [map EXCEPT !.next[o] = Null] /\ fault' = fault
      /\ calm' = (calm /\ tid = creator[c].tid /\ ~Mapped(map, o))
      /\ Len(run) \in Nat /\ Len(run') = n
      /\ DOMAIN run = 1 .. Len(run) /\ DOMAIN run' = 1 .. n
      /\ \A p \in DOMAIN run : run'[p] = run[p]
      /\ run'[n].pc = "begun" /\ run'[n].o = o
      /\ thread'[o].id = creator[c].tid + 1 /\ thread'[o].state = "INITIALIZED"
      /\ \A x \in Objects \ {o} : thread'[x] = thread[x]
      /\ \A d \in Creators \ {c} : creator'[d] = creator[d]
      /\ creator'[c].pc \in {"idle", "start"} /\ creator'[c].tid = 0
  BY <1>0, InitStep DEF MapInv, Inv
<1>2. DOMAIN run' = DOMAIN run \cup {n}
  BY <1>1
<1>3. /\ \A d \in Creators : creator[d].tid \in Nat
      /\ \A x \in Objects : thread[x].id \in Nat
  BY DEF MapInv, Inv, Typed
<1>4. \A d \in Creators \ {c} : creator[d].pc # "idle" => creator[d].o \in Objects /\ creator[d].o # o
  <2> SUFFICES ASSUME NEW d \in Creators \ {c}, creator[d].pc # "idle"
               PROVE  creator[d].o \in Objects /\ creator[d].o # o
    OBVIOUS
  <2>1. creator[d].o \in Own[d] /\ d \in Creators /\ d # c
    BY DEF MapInv, Inv, Typed
  <2>2. Own[d] \cap Own[c] = {} /\ Own[d] \subseteq Objects
    BY <2>1, ThreadsAssumption
  <2> QED BY <1>1, <2>1, <2>2
<1> HIDE DEF n
<1>5. Counted'
  <2>1. c \in Starting /\ Starting' = Starting \ {c}
    BY <1>1 DEF Starting, At
  <2>2. IsFiniteSet(Starting) /\ Len(run) + Cardinality(Starting) <= MaxStarts
    BY DEF MapInv, Counted
  <2>3. /\ IsFiniteSet(Starting') /\ Cardinality(Starting') = Cardinality(Starting) - 1
        /\ Cardinality(Starting) \in Nat
    BY <2>1, <2>2, FS_RemoveElement, FS_CardinalityType
  <2>4. Len(run') + Cardinality(Starting') <= MaxStarts
    BY <1>1, <2>2, <2>3, ThreadsAssumption DEF n
  <2>5. tid' <= Len(run')
    BY <1>1 DEF MapInv, Counted, n
  <2>6. \A d \in Creators : creator'[d].tid <= Len(run')
    BY <1>1, <1>3 DEF MapInv, Counted, n
  <2>7. \A x \in Objects : thread'[x].id <= Len(run')
    <3>1. thread'[o].id <= Len(run')
      BY <1>1 DEF MapInv, Counted, n
    <3>2. ASSUME NEW x \in Objects, x # o PROVE thread'[x].id <= Len(run')
      BY <1>1, <1>3, <3>2 DEF MapInv, Counted, n
    <3> QED BY <3>1, <3>2
  <2> QED BY <2>3, <2>4, <2>5, <2>6, <2>7 DEF Counted
<1>6. Owned'
  <2>1. \A x \in Objects : (thread'[x].state = "NONE") <=> (\A p \in DOMAIN run' : run'[p].o # x)
    <3>1. (thread'[o].state # "NONE") /\ \E p \in DOMAIN run' : run'[p].o = o
      BY <1>1, <1>2
    <3>2. ASSUME NEW x \in Objects, x # o
          PROVE (thread'[x].state = "NONE") <=> (\A p \in DOMAIN run' : run'[p].o # x)
      <4>1. thread'[x] = thread[x]
        BY <1>1, <3>2
      <4>2. (\A p \in DOMAIN run' : run'[p].o # x) <=> (\A p \in DOMAIN run : run[p].o # x)
        BY <1>1, <1>2, <3>2
      <4> QED BY <4>1, <4>2 DEF MapInv, Owned
    <3> QED BY <3>1, <3>2
  <2>2. ASSUME NEW d \in Creators, creator'[d].pc = "init",
               NEW p \in DOMAIN run', run'[p].o = creator'[d].o
        PROVE  run'[p].pc \in Ended
    <3>1. d # c /\ creator'[d] = creator[d] /\ creator[d].o # o
      BY <1>1, <1>4, <2>2
    <3>2. p \in DOMAIN run /\ run'[p] = run[p]
      BY <1>1, <1>2, <2>2, <3>1
    <3> QED BY <2>2, <3>1, <3>2 DEF MapInv, Owned, At
  <2>3. ASSUME NEW d \in Creators, creator'[d].pc \in {"join", "remove"}
        PROVE  thread'[creator'[d].o].state # "NONE"
    <3>1. d # c /\ creator'[d] = creator[d] /\ creator[d].o # o /\ creator[d].o \in Objects
      BY <1>1, <1>4, <2>3
    <3> QED BY <1>1, <2>3, <3>1 DEF MapInv, Owned
  <2> QED BY <2>1, <2>2, <2>3 DEF Owned, At
<1>7. Shaped'
  <2>1. DOMAIN map' = DOMAIN map /\ map'.head = map.head
    BY <1>1 DEF MapInv, Shaped
  <2> QED BY <2>1 DEF MapInv, Shaped
<1>8. calm' \in BOOLEAN /\ fault' \in {"none", "hash_map_remove", "event", "freed"}
  BY <1>1 DEF MapInv
<1> QED BY <1>5, <1>6, <1>7, <1>8, InitTable DEF MapInv
-----------------------------------------------------------------------------
(* What t_destroy does.                                                    *)
LEMMA DestroyStep ==
  ASSUME Inv, NEW c \in Creators, t_destroy(c)
  PROVE  /\ creator[c].pc = "remove" /\ creator[c].o \in Objects /\ creator[c].o \in Own[c]
         /\ map' = hash_map_remove(map, Ids, creator[c].o) /\ tid' = tid /\ calm' = calm
         /\ fault' = IF Bucket(map, Hash(Ids[creator[c].o])) = <<>> THEN "hash_map_remove" ELSE fault
         /\ Len(run) \in Nat /\ Len(run') = Len(run) /\ DOMAIN run' = DOMAIN run
         /\ \A p \in DOMAIN run :
              IF run[p].o = creator[c].o THEN run'[p].o = Null /\ run'[p].pc = run[p].pc
                                         ELSE run'[p] = run[p]
         /\ thread'[creator[c].o].state = "NONE"
         /\ \A x \in Objects : thread'[x].id = thread[x].id
         /\ \A x \in Objects \ {creator[c].o} : thread'[x] = thread[x]
         /\ \A d \in Creators \ {c} : creator'[d] = creator[d]
         /\ creator'[c].pc = "idle" /\ creator'[c].tid = 0
         /\ \A p \in DOMAIN run : run[p].o = creator[c].o => run[p].pc \in Late
<1> DEFINE o == creator[c].o
<1>1. /\ run \in Seq(Run) /\ creator[c].pc = "remove" /\ o \in Own[c] /\ o \in Objects
      /\ thread \in [Objects -> [id : Nat, event : Creators \cup {Null}, state : States]]
      /\ creator \in [Creators -> [pc : CreatorPlaces, o : Objects \cup {Null}, tid : Nat]]
      /\ \A p \in DOMAIN run : run[p].o = o => run[p].pc \in Late
  BY ThreadsAssumption DEF Inv, Typed, t_destroy, At, RemovesLate
<1>2. /\ map' = hash_map_remove(map, Ids, o) /\ tid' = tid /\ calm' = calm
      /\ fault' = IF Bucket(map, Hash(Ids[o])) = <<>> THEN "hash_map_remove" ELSE fault
      /\ thread' = [thread EXCEPT ![o].state = "NONE"] /\ Goes(c, "idle")
      /\ run' = [p \in DOMAIN run |-> IF p \in On(o) THEN [run[p] EXCEPT !.o = Null] ELSE run[p]]
  BY DEF t_destroy
<1>3. /\ creator'[c].pc = "idle" /\ creator'[c].tid = 0
      /\ \A d \in Creators \ {c} : creator'[d] = creator[d]
  BY <1>1, <1>2 DEF Goes, Idle
<1> HIDE DEF o
<1>4. /\ thread'[o].state = "NONE" /\ \A x \in Objects : thread'[x].id = thread[x].id
      /\ \A x \in Objects \ {o} : thread'[x] = thread[x]
  BY <1>1, <1>2
<1>5. \A p \in DOMAIN run : /\ [run[p] EXCEPT !.o = Null].o = Null
                            /\ [run[p] EXCEPT !.o = Null].pc = run[p].pc
  <2>1. \A p \in DOMAIN run : run[p] \in Run
    BY <1>1
  <2> QED BY <2>1 DEF Run
<1>6. /\ DOMAIN run' = DOMAIN run
      /\ \A p \in DOMAIN run :
           IF run[p].o = o THEN run'[p].o = Null /\ run'[p].pc = run[p].pc
                           ELSE run'[p] = run[p]
  BY <1>2, <1>5 DEF On
<1>7. Len(run) \in Nat /\ Len(run') = Len(run)
  <2>1. DOMAIN run = 1 .. Len(run) /\ Len(run) \in Nat
    BY <1>1
  <2>2. run' = [p \in 1 .. Len(run) |-> run'[p]]
    BY <1>2, <2>1
  <2> QED BY <2>1, <2>2, LenProperties
<1> QED BY <1>1, <1>2, <1>3, <1>4, <1>6, <1>7 DEF o

(* While the run is calm the thread_t that is destroyed is in its bucket,  *)
(* because its pthread entered, and is taken out alone.                    *)
LEMMA DestroyTable ==
  ASSUME MapInv, NEW c \in Creators, t_destroy(c), calm
  PROVE  Table'
<1>0. PICK o : o = creator[c].o
  OBVIOUS
<1> DEFINE F == InBucket
           b == Hash(Ids[o])
           G == [F EXCEPT ![b] = @ \ {o}]
<1>1. /\ creator[c].pc = "remove" /\ o \in Objects
      /\ map' = hash_map_remove(map, Ids, o) /\ tid' = tid
      /\ fault' = IF Bucket(map, b) = <<>> THEN "hash_map_remove" ELSE fault
      /\ DOMAIN run' = DOMAIN run
      /\ \A p \in DOMAIN run :
           IF run[p].o = o THEN run'[p].o = Null /\ run'[p].pc = run[p].pc ELSE run'[p] = run[p]
      /\ \A x \in Objects : thread'[x].id = thread[x].id
      /\ \A p \in DOMAIN run : run[p].o = o => run[p].pc \in Late
  BY <1>0, DestroyStep DEF MapInv
<1>2. /\ Chained(map, F) /\ OneEach /\ Numbered /\ Unlinked /\ fault # "hash_map_remove"
  BY DEF MapInv, Table
<1>3. /\ F \in [Buckets -> SUBSET Objects]
      /\ \A a \in Buckets : \A x :
           x \in F[a] <=> x \in Objects /\ Entered(x) /\ Hash(thread[x].id) = a
  BY InBucketIs
<1>4. /\ Ids \in [Objects -> Nat] /\ \A x \in Objects : Ids[x] = thread[x].id
      /\ b \in Buckets
  BY <1>1, IdsAre, HashType DEF MapInv, Inv
<1>5. Entered(o)
  <2>1. thread[o].state # "NONE"
    BY <1>0, <1>1 DEF MapInv, Owned
  <2>2. \E p \in DOMAIN run : run[p].o = o
    BY <1>1, <2>1 DEF MapInv, Owned
  <2> QED BY <1>1, <2>2 DEF Entered, Late, Front
<1> HIDE DEF F
<1>6. o \in F[b]
  BY <1>1, <1>3, <1>4, <1>5 DEF b
<1>7. fault' # "hash_map_remove"
  <2>1. \E k \in 1 .. Len(Bucket(map, b)) : Bucket(map, b)[k] = o
    BY <1>2, <1>4, <1>6, BucketIs
  <2>2. Bucket(map, b) # <<>>
    <3> DEFINE chain == Bucket(map, b)
    <3> HIDE DEF chain
    <3>1. ASSUME chain = <<>> PROVE FALSE
      <4>1. Len(chain) = 0
        BY <3>1
      <4> QED BY <2>1, <4>1 DEF chain
    <3> QED BY <3>1 DEF chain
  <2> QED BY <1>1, <1>2, <2>2
<1>8. /\ Chained(map', G)
      /\ \A x \in Objects : x \notin F[b] => map'.next[x] = map.next[x]
  <2>1. map' = hash_map_remove(map, Ids, o) /\ o \in Objects /\ Chained(map, F)
    BY <1>1, <1>2
  <2>2. Ids \in [Objects -> Nat] /\ o \in F[Hash(Ids[o])]
    BY <1>4, <1>6 DEF b
  <2> QED BY <2>1, <2>2, RemoveKeeps DEF b
<1> HIDE DEF b
<1>9. ~Entered(o)' /\ \A x \in Objects : x # o => (Entered(x)' <=> Entered(x))
  <2>1. \A p \in DOMAIN run : run'[p].o # o
    BY <1>1, NullIsNoObject
  <2>2. ASSUME NEW x \in Objects, x # o PROVE Entered(x)' <=> Entered(x)
    <3>1. \A p \in DOMAIN run : (run'[p].o = x <=> run[p].o = x) /\ run'[p].pc = run[p].pc
      BY <1>1, <2>2, NullIsNoObject
    <3> QED BY <1>1, <3>1 DEF Entered
  <2> QED BY <1>1, <2>1, <2>2 DEF Entered
<1>10. InBucket' = G
  <2>1. /\ InBucket' \in [Buckets -> SUBSET Objects]
        /\ \A a \in Buckets : \A x :
             x \in InBucket'[a] <=> x \in Objects /\ Entered(x)' /\ Hash(thread'[x].id) = a
    BY DEF InBucket, Entered
  <2>2. G \in [Buckets -> SUBSET Objects] /\ \A a \in Buckets : \A x :
          x \in G[a] <=> x \in F[a] /\ ~(a = b /\ x = o)
    BY <1>3, <1>4
  <2>3. \A a \in Buckets : o \in F[a] => a = b
    <3>1. Hash(thread[o].id) = b
      BY <1>3, <1>4, <1>6
    <3> QED BY <1>3, <3>1
  <2> HIDE DEF G
  <2>4. ASSUME NEW a \in Buckets, NEW x PROVE x \in InBucket'[a] <=> x \in G[a]
    <3>1. CASE x = o
      BY <1>9, <2>1, <2>2, <2>3, <3>1
    <3>2. CASE x \in Objects /\ x # o
      <4>1. thread'[x].id = thread[x].id /\ (Entered(x)' <=> Entered(x))
        BY <1>1, <1>9, <3>2
      <4> QED BY <1>3, <2>1, <2>2, <3>2, <4>1
    <3>3. CASE x \notin Objects
      BY <1>3, <2>1, <2>2, <3>3
    <3> QED BY <3>1, <3>2, <3>3
  <2>5. \A a \in Buckets : InBucket'[a] = G[a]
    BY <2>4
  <2> QED BY <2>1, <2>2, <2>5
<1>11. \A p \in DOMAIN run : run'[p].o \in Objects => run'[p] = run[p] /\ run[p].o # o
  BY <1>1, NullIsNoObject
<1>12. OneEach'
  BY <1>1, <1>2, <1>11 DEF OneEach
<1>13. Numbered'
  BY <1>1, <1>2, <1>11 DEF Numbered
<1>14. Unlinked'
  <2> SUFFICES ASSUME NEW q \in DOMAIN run, run'[q].o \in Objects, run'[q].pc \in Front
               PROVE  map'.next[run'[q].o] = Null
    BY <1>1 DEF Unlinked
  <2>1. run'[q] = run[q]
    BY <1>11
  <2>2. ~Entered(run[q].o)
    BY <1>2, <2>1 DEF OneEach, Entered
  <2>3. run[q].o \notin F[b]
    BY <1>3, <1>4, <2>2
  <2> QED BY <1>2, <1>8, <2>1, <2>3 DEF Unlinked
<1> QED BY <1>7, <1>8, <1>10, <1>12, <1>13, <1>14 DEF Table

(* t_destroy keeps the rest too.                                           *)
LEMMA DestroyMapInv ==
  ASSUME MapInv, Inv', NEW c \in Creators, t_destroy(c)
  PROVE  MapInv'
<1>0. PICK o : o = creator[c].o
  OBVIOUS
<1>1. /\ creator[c].pc = "remove" /\ o \in Objects /\ o \in Own[c]
      /\ map' = hash_map_remove(map, Ids, o) /\ tid' = tid /\ calm' = calm
      /\ fault' \in {fault, "hash_map_remove"}
      /\ Len(run) \in Nat /\ Len(run') = Len(run) /\ DOMAIN run' = DOMAIN run
      /\ \A p \in DOMAIN run :
           IF run[p].o = o THEN run'[p].o = Null /\ run'[p].pc = run[p].pc ELSE run'[p] = run[p]
      /\ thread'[o].state = "NONE" /\ \A x \in Objects : thread'[x].id = thread[x].id
      /\ \A x \in Objects \ {o} : thread'[x] = thread[x]
      /\ \A d \in Creators \ {c} : creator'[d] = creator[d]
      /\ creator'[c].pc = "idle" /\ creator'[c].tid = 0
  BY <1>0, DestroyStep DEF MapInv
<1>2. \A d \in Creators \ {c} : creator[d].pc # "idle" => creator[d].o \in Objects /\ creator[d].o # o
  <2> SUFFICES ASSUME NEW d \in Creators \ {c}, creator[d].pc # "idle"
               PROVE  creator[d].o \in Objects /\ creator[d].o # o
    OBVIOUS
  <2>1. creator[d].o \in Own[d] /\ d \in Creators /\ d # c
    BY DEF MapInv, Inv, Typed
  <2>2. Own[d] \cap Own[c] = {} /\ Own[d] \subseteq Objects
    BY <2>1, ThreadsAssumption
  <2> QED BY <1>1, <2>1, <2>2
<1>3. \A p \in DOMAIN run : run'[p].o \in Objects => run'[p] = run[p] /\ run[p].o # o
  BY <1>1, NullIsNoObject
<1>4. Counted'
  <2>1. Starting' = Starting
    BY <1>1 DEF Starting, At
  <2>2. \A d \in Creators : creator'[d].tid = creator[d].tid \/ creator'[d].tid = 0
    BY <1>1
  <2> QED BY <1>1, <2>1, <2>2, CountStays DEF MapInv
<1>5. Owned'
  <2>1. \A x \in Objects : (thread'[x].state = "NONE") <=> (\A p \in DOMAIN run' : run'[p].o # x)
    <3>1. (thread'[o].state = "NONE") /\ \A p \in DOMAIN run' : run'[p].o # o
      BY <1>1, <1>3
    <3>2. ASSUME NEW x \in Objects, x # o
          PROVE  (thread'[x].state = "NONE") <=> (\A p \in DOMAIN run' : run'[p].o # x)
      <4>1. thread'[x] = thread[x] /\ \A p \in DOMAIN run : run'[p].o = x <=> run[p].o = x
        BY <1>1, <1>3, <3>2, NullIsNoObject
      <4> QED BY <1>1, <4>1 DEF MapInv, Owned
    <3> QED BY <3>1, <3>2
  <2>2. ASSUME NEW d \in Creators, creator'[d].pc = "init",
               NEW p \in DOMAIN run', run'[p].o = creator'[d].o
        PROVE  run'[p].pc \in Ended
    <3>1. d # c /\ creator'[d] = creator[d] /\ creator[d].o \in Objects
      BY <1>1, <1>2, <2>2
    <3>2. p \in DOMAIN run /\ run'[p] = run[p]
      BY <1>1, <1>3, <2>2, <3>1
    <3> QED BY <2>2, <3>1, <3>2 DEF MapInv, Owned, At
  <2>3. ASSUME NEW d \in Creators, creator'[d].pc \in {"join", "remove"}
        PROVE  thread'[creator'[d].o].state # "NONE"
    <3>1. d # c /\ creator'[d] = creator[d] /\ creator[d].o # o /\ creator[d].o \in Objects
      BY <1>1, <1>2, <2>3
    <3> QED BY <1>1, <2>3, <3>1 DEF MapInv, Owned
  <2> QED BY <2>1, <2>2, <2>3 DEF Owned, At
<1>6. Shaped'
  BY <1>1, ShapeStays DEF MapInv
<1>7. calm' \in BOOLEAN /\ fault' \in {"none", "hash_map_remove", "event", "freed"}
  BY <1>1 DEF MapInv
<1> QED BY <1>1, <1>4, <1>5, <1>6, <1>7, DestroyTable DEF MapInv
-----------------------------------------------------------------------------
(* At the start no thread_t is in the map.                                 *)
LEMMA InitMapIs == Init => MapInv
<1> SUFFICES ASSUME Init PROVE MapInv
  OBVIOUS
<1>1. run = <<>> /\ DOMAIN run = {} /\ Len(run) = 0
  BY DEF Init
<1>2. /\ tid = 0 /\ map = hash_map_init /\ fault = "none" /\ calm = TRUE
      /\ \A o \in Objects : thread[o].id = 0 /\ thread[o].state = "NONE"
      /\ \A c \in Creators : creator[c].pc = "idle" /\ creator[c].tid = 0
  BY DEF Init, Idle
<1>3. Counted
  <2>1. Starting = {}
    BY <1>2 DEF Starting, At
  <2>2. IsFiniteSet({}) /\ Cardinality({}) = 0
    BY FS_EmptySet
  <2> QED BY <1>1, <1>2, <2>1, <2>2, ThreadsAssumption DEF Counted
<1>4. Owned
  BY <1>1, <1>2 DEF Owned, At
<1>5. Shaped
  BY <1>2 DEF Shaped, hash_map_init, Buckets
<1>6. Table
  <2>1. InBucket = [b \in Buckets |-> {}]
    BY <1>1 DEF InBucket, Entered
  <2>2. Chained(map, InBucket)
    BY <1>2, <2>1, MapBegins
  <2>3. Numbered
    BY <1>1, <1>2 DEF Numbered
  <2> QED BY <1>1, <1>2, <2>2, <2>3 DEF Table, OneEach, Unlinked
<1> QED BY <1>2, <1>3, <1>4, <1>5, <1>6, InitInv DEF MapInv

(* Every step keeps it.                                                    *)
LEMMA NextKeepsMap == MapInv /\ [Next]_vars => MapInv'
<1> SUFFICES ASSUME MapInv, [Next]_vars PROVE MapInv'
  OBVIOUS
<1>1. Inv'
  BY NextKeeps DEF MapInv
<1>2. CASE UNCHANGED vars
  <2>1. UNCHANGED <<tid, thread, map, run, creator, calm, fault>>
    BY <1>2 DEF vars
  <2>2. Counted'
    BY <2>1 DEF MapInv, Counted, Starting, At
  <2>3. Owned'
    BY <2>1 DEF MapInv, Owned, At
  <2> QED BY <1>1, <2>1, <2>2, <2>3, RestKeeps
<1>3. ASSUME NEW c \in Creators, Starts(c) \/ Continues(c) \/ Spurious(c) PROVE MapInv'
  BY <1>1, <1>3, ReadTidMapInv, JoinMapInv, WaiterMapInv, InitMapInv, DestroyMapInv
     DEF Starts, Continues
<1>4. ASSUME NEW p \in DOMAIN run, ThreadRuns(p) PROVE MapInv'
  <2>1. CASE Insert(p)
    BY <1>1, <2>1, InsertMapInv
  <2>2. CASE ~Insert(p)
    <3>1. Quiet /\ Follows
      BY <1>4, <2>2, ThreadIsQuiet DEF MapInv, Inv
    <3> QED BY <1>1, <3>1, QuietKeeps
  <2> QED BY <2>1, <2>2
<1> QED BY <1>2, <1>3, <1>4 DEF Next

(* thread_hash_map "Maps pthread to our thread": for any number of threads *)
(* and buckets the map holds exactly the threads that have entered and are *)
(* not destroyed, each once and under its own id, as long as no id was     *)
(* given twice and no thread_t started while it was mapped; and            *)
(* hash_map_remove never meets an empty bucket until then.                 *)
THEOREM ThreadsInTable == Spec => []InTable
<1>1. MapInv => InTable
  <2> SUFFICES ASSUME MapInv PROVE InTable
    OBVIOUS
  <2>1. TypeOK
    <3>1. /\ Len(run) \in Nat /\ Len(run) <= MaxStarts
      <4>1. IsFiniteSet(Starting) /\ Len(run) + Cardinality(Starting) <= MaxStarts
        BY DEF MapInv, Counted
      <4>2. Cardinality(Starting) \in Nat
        BY <4>1, FS_CardinalityType
      <4>3. Len(run) \in Nat
        BY DEF MapInv, Inv, Typed
      <4> QED BY <4>1, <4>2, <4>3, ThreadsAssumption
    <3>2. tid \in 0 .. MaxStarts /\ \A o \in Objects : thread[o].id \in 0 .. MaxStarts
      BY <3>1, ThreadsAssumption DEF MapInv, Inv, Typed, Counted
    <3>3. thread \in [Objects -> [id : 0 .. MaxStarts, event : Creators \cup {Null},
                                  state : {"NONE", "INITIALIZED", "RUNNABLE", "DEAD"}]]
      BY <3>2 DEF MapInv, Inv, Typed, States
    <3>4. run \in Seq([pc : Places, o : Objects \cup {Null}, event : Creators \cup {Null}])
      BY DEF MapInv, Inv, Typed, Run
    <3>5. \A c \in Creators :
            /\ creator[c].pc \in {"idle", "init", "start", "test", "sleepy", "waiting", "woken",
                                  "join", "remove"}
            /\ creator[c].pc # "idle" => creator[c].o \in Own[c]
      BY DEF MapInv, Inv, Typed, CreatorPlaces
    <3>6. DOMAIN map.head = 0 .. NBuckets - 1
      BY DEF MapInv, Shaped, Buckets
    <3> QED BY <3>2, <3>3, <3>4, <3>5, <3>6 DEF TypeOK, MapInv
  <2>2. ASSUME calm PROVE Table
    BY <2>2 DEF MapInv
  <2>3. DOMAIN map.head = Buckets
    BY DEF MapInv, Shaped
  <2>4. /\ InBucket \in [Buckets -> SUBSET Objects]
        /\ \A a \in Buckets : \A x :
             x \in InBucket[a] <=> x \in Objects /\ Entered(x) /\ Hash(thread[x].id) = a
    BY InBucketIs
  <2>5. ASSUME calm, NEW p \in DOMAIN run, run[p].o # Null, run[p].pc \notin {"begun", "runnable"}
        PROVE  Holds(map, Hash(Ids[run[p].o]), run[p].o)
    <3>1. run[p].o \in Objects
      <4>1. run[p] \in Run
        BY DEF MapInv, Inv, Typed
      <4> QED BY <2>5, <4>1 DEF Run
    <3>2. /\ Hash(Ids[run[p].o]) \in Buckets
          /\ Ids[run[p].o] = thread[run[p].o].id
      BY <3>1, IdsAre, HashType DEF MapInv, Inv
    <3>3. Entered(run[p].o)
      BY <2>5 DEF Entered, Front
    <3>4. run[p].o \in InBucket[Hash(Ids[run[p].o])]
      BY <2>4, <3>1, <3>2, <3>3
    <3> QED BY <2>2, <2>5, <3>2, <3>4, HoldsIs DEF Table
  <2>6. ASSUME calm, NEW b \in Buckets
        PROVE  LET chain == Bucket(map, b)
               IN \A j, k \in DOMAIN chain :
                    /\ \E p \in On(chain[j]) : run[p].pc \notin {"begun", "runnable"}
                    /\ chain[j] = chain[k] => j = k
    <3> DEFINE chain == Bucket(map, b)
    <3>1. /\ ChainFrom(map, map.head[b], chain) /\ DOMAIN chain = 1 .. Len(chain)
          /\ \A o : (\E k \in 1 .. Len(chain) : chain[k] = o) <=> o \in InBucket[b]
      BY <2>2, <2>6, BucketIs DEF Table
    <3> HIDE DEF chain
    <3>2. \A j, k \in DOMAIN chain : chain[j] = chain[k] => j = k
      BY <3>1 DEF ChainFrom
    <3>3. \A j \in DOMAIN chain : Entered(chain[j])
      BY <2>4, <3>1
    <3>4. \A j \in DOMAIN chain : \E p \in On(chain[j]) : run[p].pc \notin {"begun", "runnable"}
      BY <3>3 DEF Entered, Front, On
    <3> QED BY <3>2, <3>4 DEF chain
  <2> QED BY <2>1, <2>2, <2>3, <2>5, <2>6 DEF InTable, Table
<1> QED BY InitMapIs, NextKeepsMap, <1>1, PTL DEF Spec
=============================================================================
