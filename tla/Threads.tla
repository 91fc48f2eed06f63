------------------------------ MODULE Threads ------------------------------
(***************************************************************************)
(* The threads engine (libtscommon/src/threads.c): t_init, the prologue    *)
(* and epilogue every thread function has (THREAD_ENTRY, THREAD_FINISH),   *)
(* t_wait_start and t_destroy, with thread_hash_map.  The objects of       *)
(* HashMap are the thread_t's; NBuckets stands for THASHMASK, the buckets  *)
(* that hash values reach.  What a thread does in between is its body.     *)
(***************************************************************************)
EXTENDS HashMap, FiniteSets

CONSTANTS Own,        \* Own[c]: the thread_t's that creator c starts
          Renewed,    \* those started again without t_destroy (client.c:501)
          Waiting,    \* the creators that use t_wait_start
          MaxStarts   \* bound: calls of t_init

Creators == DOMAIN Own
ASSUME ThreadsAssumption ==
  /\ \A c \in Creators : Own[c] \subseteq Objects
  /\ \A c, d \in Creators : c # d => Own[c] \cap Own[d] = {}
  /\ Null \notin Creators /\ Renewed \subseteq Objects
  /\ MaxStarts \in Nat

VARIABLES
  tid,       \* the counter of t_assign_id
  thread,    \* t_id, t_state ("NONE": no thread) and t_event, by object
  map,       \* thread_hash_map
  run,       \* the pthreads: place, their thread_t (Null: destroyed), t_event read
  creator,   \* who calls t_init, t_wait_start, t_destroy: place, thread_t, tid read
  calm,      \* no id was given twice, no thread_t started while in the map
  fault      \* undefined behaviour or a failed assertion was reached

vars == <<tid, thread, map, run, creator, calm, fault>>

Places == {"begun", "runnable", "inserted", "notify", "clear", "body",
           "leaving", "exiting", "dead", "bye", "gone"}
Ids == [o \in Objects |-> thread[o].id]
Idle == [pc |-> "idle", o |-> Null, tid |-> 0]
On(o) == {p \in DOMAIN run : run[p].o = o}

(* Slips the runs must notice: a join left out for a thread that has not   *)
(* begun, a notification that wakes nobody.                                *)
SlipMustJoin(state) == state = "RUNNABLE"
SlipWoken(e) == creator

Init ==
  /\ tid = 0
  /\ thread = [o \in Objects |-> [id |-> 0, state |-> "NONE", event |-> Null]]
  /\ map = hash_map_init
  /\ run = <<>>
  /\ creator = [c \in Creators |-> Idle]
  /\ calm = TRUE
  /\ fault = "none"
-----------------------------------------------------------------------------
(* A creator.  ++tid is a read and a write.                                *)
At(c, pc) == creator[c].pc = pc
Goes(c, pc) ==
  creator' = [creator EXCEPT ![c] = IF pc = "idle" THEN Idle ELSE [@ EXCEPT !.pc = pc, !.tid = 0]]
NextId(n) == n + 1

ReadTid(c) ==
  /\ At(c, "idle") /\ Len(run) + Cardinality({d \in Creators : At(d, "init")}) < MaxStarts
  /\ \E o \in Own[c] :
       /\ \/ thread[o].state = "NONE"
          \/ /\ o \in Renewed
             /\ \A p \in On(o) : run[p].pc \in {"leaving", "exiting", "dead", "bye", "gone"}
       /\ creator' = [creator EXCEPT ![c] = [pc |-> "init", o |-> o, tid |-> tid]]
  /\ UNCHANGED <<tid, thread, map, run, calm, fault>>

t_init(c) ==
  LET o == creator[c].o
      id == NextId(creator[c].tid)
  IN /\ At(c, "init")
     /\ tid' = id
     /\ thread' = [thread EXCEPT ![o] = [id |-> id, state |-> "INITIALIZED", event |-> Null]]
     /\ map' = [map EXCEPT !.next[o] = Null]
     /\ run' = Append(run, [pc |-> "begun", o |-> o, event |-> Null])
     /\ calm' = (calm /\ tid = creator[c].tid /\ ~Mapped(map, o))
     /\ \E pc \in {"idle"} \cup (IF c \in Waiting THEN {"start"} ELSE {}) : Goes(c, pc)
     /\ UNCHANGED fault

(* t_wait_start; the event is on the creator's stack.                      *)
SetEvent(c) ==
  /\ At(c, "start") /\ Goes(c, "test")
  /\ thread' = [thread EXCEPT ![creator[c].o].event = c]
  /\ UNCHANGED <<tid, map, run, calm, fault>>

TestState(c) ==
  /\ At(c, "test")
  /\ Goes(c, IF thread[creator[c].o].state = "RUNNABLE" THEN "woken" ELSE "sleepy")
  /\ UNCHANGED <<tid, thread, map, run, calm, fault>>

Wait(c) ==
  /\ At(c, "sleepy") /\ Goes(c, "waiting")
  /\ UNCHANGED <<tid, thread, map, run, calm, fault>>

(* pthread_cond_wait may return without a notification; nobody looks again.*)
Spurious(c) ==
  /\ At(c, "waiting") /\ Goes(c, "woken")
  /\ UNCHANGED <<tid, thread, map, run, calm, fault>>

EndWait(c) ==
  /\ At(c, "woken") /\ Goes(c, "idle")
  /\ thread' = [thread EXCEPT ![creator[c].o].event = Null]
  /\ UNCHANGED <<tid, map, run, calm, fault>>

(* t_destroy; its caller frees the memory of the thread_t after it.        *)
MustJoin(state) == state # "DEAD"
t_join(c) ==
  /\ At(c, "idle")
  /\ \E o \in Own[c] \ Renewed :
       /\ thread[o].state # "NONE"
       /\ creator' = [creator EXCEPT ![c] =
            [pc |-> IF MustJoin(thread[o].state) THEN "join" ELSE "remove", o |-> o, tid |-> 0]]
  /\ UNCHANGED <<tid, thread, map, run, calm, fault>>

Joined(c) ==
  /\ At(c, "join") /\ \A p \in On(creator[c].o) : run[p].pc = "gone"
  /\ Goes(c, "remove")
  /\ UNCHANGED <<tid, thread, map, run, calm, fault>>

t_destroy(c) ==
  LET o == creator[c].o
  IN /\ At(c, "remove") /\ Goes(c, "idle")
     /\ map' = hash_map_remove(map, Ids, o)
     /\ thread' = [thread EXCEPT ![o].state = "NONE"]
     /\ run' = [p \in DOMAIN run |-> IF p \in On(o) THEN [run[p] EXCEPT !.o = Null] ELSE run[p]]
     /\ fault' = IF Bucket(map, Hash(Ids[o])) = <<>> THEN "hash_map_remove" ELSE fault
     /\ UNCHANGED <<tid, calm>>
-----------------------------------------------------------------------------
(* A thread.                                                               *)
Moves(p, from, to) ==
  /\ run[p].pc = from /\ run[p].o # Null
  /\ run' = [run EXCEPT ![p].pc = to, ![p].event = Null]

SetState(p, from, state, to) ==
  /\ Moves(p, from, to)
  /\ thread' = [thread EXCEPT ![run[p].o].state = state]
  /\ UNCHANGED <<tid, map, creator, calm, fault>>

Insert(p) ==
  /\ Moves(p, "runnable", "inserted")
  /\ map' = hash_map_insert(map, Ids, run[p].o)
  /\ UNCHANGED <<tid, thread, creator, calm, fault>>

(* The test of t_event, in t_post_init and in t_exit.                      *)
ReadEvent(p, from, some, none) ==
  LET e == thread[run[p].o].event
  IN /\ run[p].pc = from /\ run[p].o # Null
     /\ run' = [run EXCEPT ![p].pc = IF e = Null THEN none ELSE some, ![p].event = e]
     /\ UNCHANGED <<tid, thread, map, creator, calm, fault>>

(* It may be read again for the call, when the waiter may be gone.         *)
Woken(e) == [creator EXCEPT ![e].pc = IF @ = "waiting" THEN "woken" ELSE @]
Notify(p, from, to) ==
  /\ Moves(p, from, to)
  /\ \E e \in {run[p].event, thread[run[p].o].event} :
       IF e # Null /\ creator[e].pc \in {"test", "sleepy", "waiting", "woken"}
       THEN creator' = Woken(e) /\ UNCHANGED fault
       ELSE fault' = "event" /\ UNCHANGED creator
  /\ UNCHANGED <<tid, thread, map, calm>>

ClearEvent(p) ==
  /\ Moves(p, "clear", "body")
  /\ thread' = [thread EXCEPT ![run[p].o].event = Null]
  /\ UNCHANGED <<tid, map, creator, calm, fault>>

BodyEnds(p) ==
  /\ Moves(p, "body", "leaving")
  /\ UNCHANGED <<tid, thread, map, creator, calm, fault>>

UsesFreed(p) ==
  /\ run[p].o = Null /\ run[p].pc # "gone"
  /\ fault' = "freed"
  /\ UNCHANGED <<tid, thread, map, run, creator, calm>>

t_post_init(p) ==
  \/ SetState(p, "begun", "RUNNABLE", "runnable") \/ Insert(p)
  \/ ReadEvent(p, "inserted", "notify", "body") \/ Notify(p, "notify", "clear") \/ ClearEvent(p)
t_exit(p) ==
  \/ SetState(p, "leaving", "DEAD", "exiting") \/ SetState(p, "exiting", "DEAD", "dead")
  \/ ReadEvent(p, "dead", "bye", "gone") \/ Notify(p, "bye", "gone")
-----------------------------------------------------------------------------
Starts(c) == ReadTid(c) \/ t_join(c)
Continues(c) == t_init(c) \/ SetEvent(c) \/ TestState(c) \/ Wait(c) \/ EndWait(c)
                \/ Joined(c) \/ t_destroy(c)
ThreadRuns(p) == t_post_init(p) \/ BodyEnds(p) \/ t_exit(p) \/ UsesFreed(p)

Next == fault = "none" /\ (\/ \E c \in Creators : Starts(c) \/ Continues(c) \/ Spurious(c)
                           \/ \E p \in DOMAIN run : ThreadRuns(p))

Spec == Init /\ [][Next]_vars

(* Threads run; nobody is forced to start or to destroy one, and no wait   *)
(* must end without a notification.                                        *)
FairSpec == /\ Spec
            /\ \A c \in Creators : WF_vars(fault = "none" /\ Continues(c))
            /\ \A p \in 1 .. MaxStarts :
                 WF_vars(fault = "none" /\ p \in DOMAIN run /\ ThreadRuns(p))
-----------------------------------------------------------------------------
TypeOK ==
  /\ tid \in 0 .. MaxStarts
  /\ thread \in [Objects -> [id : 0 .. MaxStarts, event : Creators \cup {Null},
                             state : {"NONE", "INITIALIZED", "RUNNABLE", "DEAD"}]]
  /\ DOMAIN map.head = 0 .. NBuckets - 1
  /\ run \in Seq([pc : Places, o : Objects \cup {Null}, event : Creators \cup {Null}])
  /\ \A c \in Creators :
       /\ creator[c].pc \in {"idle", "init", "start", "test", "sleepy", "waiting", "woken",
                             "join", "remove"}
       /\ creator[c].pc # "idle" => creator[c].o \in Own[c]
  /\ calm \in BOOLEAN
  /\ fault \in {"none", "hash_map_remove", "event", "freed"}

(* thread_hash_map "Maps pthread to our thread": as long as ids are given  *)
(* once and no thread_t is started again while it is mapped, the map holds *)
(* exactly the threads that have entered and are not destroyed, each once  *)
(* and under its own id, and hash_map_remove never meets an empty bucket.  *)
(* (The types are checked along.)                                          *)
InTable ==
  /\ TypeOK
  /\ calm =>
    /\ fault # "hash_map_remove"
    /\ \A p \in DOMAIN run : run[p].o # Null /\ run[p].pc \notin {"begun", "runnable"} =>
         Holds(map, Hash(Ids[run[p].o]), run[p].o)
    /\ \A b \in DOMAIN map.head :
         LET chain == Bucket(map, b)
         IN \A j, k \in DOMAIN chain :
              /\ \E p \in On(chain[j]) : run[p].pc \notin {"begun", "runnable"}
              /\ chain[j] = chain[k] => j = k

(* t_destroy "blocks until thread exits from itself": it never takes away  *)
(* the thread_t of a thread that has not come to its epilogue, whichever   *)
(* state t_join finds.                                                     *)
DestroyedAfterBody ==
  \A p \in DOMAIN run : run[p].o = Null => run[p].pc \in {"exiting", "dead", "bye", "gone"}

(* t_wait_start: who waits while the thread has not yet tested t_event is  *)
(* released, because t_event is set before the state is tested.            *)
StartReleases ==
  \A c \in Creators :
    (At(c, "waiting") /\ \E p \in On(creator[c].o) : run[p].pc \in {"begun", "runnable", "inserted"})
      ~> (~At(c, "waiting") \/ fault # "none")
=============================================================================
