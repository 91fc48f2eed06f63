------------------------------ MODULE HeapPages ------------------------------
(***************************************************************************)
(* The heap of the memory pool (libtscommon/src/mempool.c): pages in a     *)
(* list under heap_list_lock, each with its mutex and its free tree;       *)
(* heap_page_mutex is held by a thread that adds or removes a page.  A     *)
(* thread that allocates takes the first page of the list it can lock,     *)
(* and adds a page if there is none.                                       *)
(*                                                                         *)
(* What a thread does under a page's mutex is one action.  Blocks count    *)
(* their header; the memory of a page is [0, Units).                       *)
(***************************************************************************)
EXTENDS HeapTree, FiniteSets, FiniteSetsExt, SequencesExt

CONSTANTS Threads,
          Pages,          \* page fragments the segment has room for
          Requests,       \* units a thread may ask for, header included
          MinUnits,       \* MPHEAPMINUNITS
          DefragFree,     \* MPHHDEFRAGFREE
          DefragPeriod,   \* MPHHDEFRAGPERIOD
          MaxLive         \* bound: blocks handed out

Nobody == "nobody"    \* neither a thread nor a page

ASSUME HeapAssumption ==
  /\ MinUnits \in Nat \ {0} /\ DefragFree \in Nat /\ DefragPeriod \in Nat \ {0}
  /\ Requests \subseteq MinUnits .. Units /\ MaxLive \in Nat
  /\ Nobody \notin Threads \cup Pages

VARIABLES
  page,       \* each page's header: tree (hp_root_free and the headers of
              \* the blocks), hp_free, counts, defrag_period, mutex holder;
              \* used: the page is a heap page
  list,       \* heap_page_list
  last,       \* last_heap_page
  mutex,      \* holder of heap_page_mutex
  live,       \* blocks handed out: <<page, offset>>
  thread,     \* each thread: place, units asked for, page, block
  state       \* "running", "aborted", or the fault that was reached

vars == <<page, list, last, mutex, live, thread, state>>

(* Slips the runs must notice: a merge that keeps the size of the first    *)
(* block, last_heap_page kept when its page is freed.                      *)
SlipRunEnd(t, free, x) == x + t.node[x].size
SlipLastWithout(p) == last

NoTree == [root |-> None, node |-> [x \in Offsets |-> [size |-> 0, left |-> x, right |-> x]]]
Unused == [tree |-> NoTree, free |-> 0, allocated |-> 0, free_count |-> 0,
           defrag_period |-> 0, mutex |-> Nobody, used |-> FALSE]
Idle == [pc |-> "idle", units |-> 0, page |-> Nobody, block |-> None]

Init ==
  /\ page = [p \in Pages |-> Unused]
  /\ list = <<>> /\ last = Nobody /\ mutex = Nobody
  /\ live = {} /\ thread = [t \in Threads |-> Idle] /\ state = "running"

At(t, place) == state = "running" /\ thread[t].pc = place
Goes(t, place) == thread' = [thread EXCEPT ![t].pc = place]
Scanning == {t \in Threads : thread[t].pc = "scan"}    \* readers of the list

(* ---------------------------- mp_heap_alloc --------------------------- *)
(* The scan starts behind the page it has, or behind the first one.        *)
Behind(p) ==
  IF p = Nobody THEN IF list = <<>> THEN Nobody ELSE Head(list)
  ELSE p
AllocBegin(t) ==
  /\ At(t, "idle")
  /\ Cardinality(live) + Cardinality({u \in Threads : thread[u].pc # "idle"}) < MaxLive
  /\ \E n \in Requests :
       thread' = [thread EXCEPT ![t] = [Idle EXCEPT !.pc = "scan", !.units = n,
                                                    !.page = Behind(Nobody)]]
  /\ UNCHANGED <<page, list, last, mutex, live, state>>

(* list_for_each_entry_continue, one page: locked if nobody holds it, and  *)
(* kept if it has free blocks.  A page freed since is read.                *)
PlaceOf(p) == CHOOSE k \in DOMAIN list : list[k] = p
After(p) == IF p = Nobody THEN Len(list) + 1 ELSE PlaceOf(p) + 1
ScanPage(t) ==
  LET p == thread[t].page
  IN /\ At(t, "scan")
     /\ IF p # Nobody /\ ~(\E k \in DOMAIN list : list[k] = p)
        THEN /\ state' = "freed page read"
             /\ UNCHANGED <<page, thread>>
        ELSE /\ UNCHANGED state
             /\ IF After(p) > Len(list)
                THEN Goes(t, "add") /\ UNCHANGED page
                ELSE LET q == list[After(p)]
                     IN IF page[q].mutex = Nobody /\ page[q].tree.root # None
                        THEN /\ page' = [page EXCEPT ![q].mutex = t]
                             /\ thread' = [thread EXCEPT ![t].pc = "take", ![t].page = q]
                        ELSE /\ thread' = [thread EXCEPT ![t].page = q]
                             /\ UNCHANGED page
     /\ UNCHANGED <<list, last, mutex, live>>

(* heap_list_lock is taken anew, and the scan goes on behind a page that    *)
(* was unlocked meanwhile.                                                 *)
ScanAgain(t) ==
  /\ At(t, "again") /\ Goes(t, "scan")
  /\ UNCHANGED <<page, list, last, mutex, live, state>>

(* mp_heap_page_alloc: who cannot lock heap_page_mutex waits for it and    *)
(* takes the page added last, if it was not freed.                         *)
TryAdd(t) ==
  /\ At(t, "add")
  /\ IF mutex = Nobody THEN mutex' = t /\ Goes(t, "new")
     ELSE UNCHANGED mutex /\ Goes(t, "await")
  /\ UNCHANGED <<page, list, last, live, state>>

AwaitPage(t) ==
  /\ At(t, "await") /\ mutex = Nobody
  /\ thread' = [thread EXCEPT ![t].pc = IF last = Nobody THEN "add" ELSE "lock",
                              ![t].page = last]
  /\ UNCHANGED <<page, list, last, mutex, live, state>>

FreshPage ==
  [Unused EXCEPT !.tree.root = 0, !.tree.node[0].size = Units, !.free = Units,
                 !.free_count = 1, !.defrag_period = 1, !.used = TRUE]
NewPage(t) ==
  /\ At(t, "new") /\ Scanning = {}
  /\ LET unused == {p \in Pages : ~page[p].used}
     IN IF unused = {}
        THEN /\ state' = "aborted"
             /\ UNCHANGED <<page, list, last, mutex, thread>>
        ELSE \E p \in unused :
               /\ page' = [page EXCEPT ![p] = FreshPage]
               /\ list' = <<p>> \o list
               /\ last' = p /\ mutex' = Nobody
               /\ thread' = [thread EXCEPT ![t].pc = "lock", ![t].page = p]
               /\ UNCHANGED state
  /\ UNCHANGED live

LockPage(t) ==
  LET p == thread[t].page
  IN /\ At(t, "lock")
     /\ \/ /\ ~page[p].used /\ state' = "freed page read"
           /\ UNCHANGED <<page, thread>>
        \/ /\ page[p].used /\ page[p].mutex = Nobody
           /\ page' = [page EXCEPT ![p].mutex = t]
           /\ Goes(t, "take")
           /\ UNCHANGED state
     /\ UNCHANGED <<list, last, mutex, live>>

(* The best fit is taken from the tree, and what it has too much, if that  *)
(* is more than MPHEAPMINUNITS, goes back.                                 *)
Trims(tree, x, units) == tree.node[x].size - units > MinUnits
Allocated(h, x, units) ==
  LET tree == FindDelete(h.tree, units)
      rest == [tree EXCEPT !.node[x].size = units,
                           !.node[x + units].size = tree.node[x].size - units]
  IN IF Trims(tree, x, units)
     THEN [h EXCEPT !.tree = Insert(rest, x + units), !.allocated = @ + 1,
                    !.free = @ - units]
     ELSE [h EXCEPT !.tree = tree, !.allocated = @ + 1, !.free_count = @ - 1,
                    !.free = @ - tree.node[x].size]

Take(t) ==
  LET p == thread[t].page
      n == thread[t].units
      x == BestFit(page[p].tree, n)
  IN /\ At(t, "take")
     /\ CASE page[p].tree.root = None ->
               /\ state' = "empty tree searched"
               /\ UNCHANGED <<page, live, thread>>
          [] page[p].tree.root # None /\ x = None ->
               /\ page' = [page EXCEPT ![p].mutex = Nobody]
               /\ Goes(t, "again")
               /\ UNCHANGED <<live, state>>
          [] OTHER ->
               /\ page' = [page EXCEPT ![p] = [Allocated(page[p], x, n)
                                               EXCEPT !.mutex = Nobody]]
               /\ live' = live \cup {<<p, x>>}
               /\ thread' = [thread EXCEPT ![t] = Idle]
               /\ UNCHANGED state
     /\ UNCHANGED <<list, last, mutex>>

(* ---------------------------- mp_heap_free ---------------------------- *)
FreeBegin(t) ==
  /\ At(t, "idle")
  /\ \E b \in live :
       /\ page[b[1]].mutex = Nobody
       /\ page' = [page EXCEPT ![b[1]].mutex = t]
       /\ live' = live \ {b}
       /\ thread' = [thread EXCEPT ![t] = [Idle EXCEPT !.pc = "free", !.page = b[1],
                                                       !.block = b[2]]]
  /\ UNCHANGED <<list, last, mutex, state>>

(* mp_heap_page_defrag: free blocks that touch are merged, and the tree is *)
(* built anew in the order of their addresses.                             *)
RunEnd(t, free, x) ==
  LET end[y \in 0 .. Units] == IF y \in free THEN end[y + t.node[y].size] ELSE y
  IN end[x]
Merged(t) ==
  LET free == ToSet(Linear(t))
      starts == {x \in free : ~\E y \in free : y + t.node[y].size = x}
      sized == [root |-> None,
                node |-> [x \in Offsets |->
                  IF x \in starts THEN [NoTree.node[x] EXCEPT !.size = RunEnd(t, free, x) - x]
                  ELSE IF x \in free THEN NoTree.node[x] ELSE t.node[x]]]
      built[x \in 0 .. Units] ==
        IF x = 0 THEN sized
        ELSE IF x - 1 \in starts THEN Insert(built[x - 1], x - 1) ELSE built[x - 1]
  IN built[Units]

Defragmented(h) ==
  IF h.free_count <= DefragFree THEN h
  ELSE IF h.defrag_period > 1 THEN [h EXCEPT !.defrag_period = @ - 1]
  ELSE [h EXCEPT !.tree = Merged(h.tree), !.free_count = Len(Linear(Merged(h.tree))),
                 !.defrag_period = DefragPeriod]

Freed(h, x) == h.free + h.tree.node[x].size
Free(t) ==
  LET p == thread[t].page
      x == thread[t].block
      h == [page[p] EXCEPT !.tree = Insert(@, x), !.free_count = @ + 1,
                           !.free = Freed(page[p], x), !.allocated = @ - 1]
  IN /\ At(t, "free")
     /\ \/ /\ h.allocated = 0    \* the page is older than MP_HEAP_PAGE_LIFETIME
           /\ page' = [page EXCEPT ![p] = h]
           /\ Goes(t, "drop")
        \/ /\ page' = [page EXCEPT ![p] = [IF h.allocated = 0 THEN h ELSE Defragmented(h)
                                           EXCEPT !.mutex = Nobody]]
           /\ thread' = [thread EXCEPT ![t] = Idle]
     /\ UNCHANGED <<list, last, mutex, live, state>>

(* mp_heap_page_free, which needs both locks ...                           *)
LastWithout(p) == IF last = p THEN Nobody ELSE last
DropPage(t) ==
  LET p == thread[t].page
  IN /\ At(t, "drop") /\ mutex = Nobody /\ Scanning = {}
     /\ list' = RemoveAt(list, PlaceOf(p))
     /\ last' = LastWithout(p)
     /\ page' = [page EXCEPT ![p] = Unused]
     /\ Goes(t, "unlock")
     /\ UNCHANGED <<mutex, live, state>>

(* ... and the mutex, in the page that was freed, is unlocked: it may be   *)
(* the mutex of a new page by now.                                         *)
UnlockFreed(t) ==
  LET p == thread[t].page
  IN /\ At(t, "unlock")
     /\ state' = IF page[p].mutex # Nobody THEN "foreign mutex unlocked" ELSE state
     /\ thread' = [thread EXCEPT ![t] = Idle]
     /\ UNCHANGED <<page, list, last, mutex, live>>

Stopped == state # "running" /\ UNCHANGED vars

Step(t) ==
  \/ AllocBegin(t) \/ ScanPage(t) \/ ScanAgain(t) \/ TryAdd(t) \/ AwaitPage(t) \/ NewPage(t)
  \/ LockPage(t) \/ Take(t) \/ FreeBegin(t) \/ Free(t) \/ DropPage(t) \/ UnlockFreed(t)
Next == (\E t \in Threads : Step(t)) \/ Stopped

Spec == Init /\ [][Next]_vars
-----------------------------------------------------------------------------
Faults == {"freed page read", "empty tree searched", "foreign mutex unlocked"}
Header == [size : 0 .. Units, left : Offsets, right : Offsets]

TypeOK ==
  /\ \A p \in Pages :
       /\ page[p].tree.root \in Offsets \cup {None}
       /\ \A x \in Offsets : page[p].tree.node[x] \in Header
       /\ page[p].free \in 0 .. Units /\ page[p].allocated \in 0 .. MaxLive
       /\ page[p].free_count \in 0 .. Units
       /\ page[p].defrag_period \in 0 .. DefragPeriod
       /\ page[p].mutex \in Threads \cup {Nobody} /\ page[p].used \in BOOLEAN
  /\ \A k \in DOMAIN list : list[k] \in Pages
  /\ last \in Pages \cup {Nobody} /\ mutex \in Threads \cup {Nobody}
  /\ live \subseteq Pages \X Offsets
  /\ \A t \in Threads : thread[t].page \in Pages \cup {Nobody}
  /\ state \in {"running", "aborted"} \cup Faults

(* The blocks of a page: those in its tree, those handed out, and the one  *)
(* a thread is about to free.                                              *)
InTree(p) == ToSet(Linear(page[p].tree))
Handed(p) == {b[2] : b \in {c \in live : c[1] = p}}
             \cup {thread[t].block : t \in {u \in Threads : thread[u].pc = "free"
                                                            /\ thread[u].page = p}}

(* mp_heap_alloc, mp_heap_free, mp_heap_page_defrag: whatever was          *)
(* allocated, freed and merged, the blocks tile the page, the counters     *)
(* agree with them, no block is free and handed out, and none is in the    *)
(* tree twice (the assertion of mp_heap_page_defrag).  (The types are      *)
(* checked along.)                                                         *)
BlocksTilePage ==
  /\ TypeOK
  /\ state = "running" => \A p \in Pages : page[p].used =>
    LET node == page[p].tree.node
        blocks == InTree(p) \cup Handed(p)
    IN /\ InTree(p) \cap Handed(p) = {}
       /\ {x + node[x].size : x \in blocks} \cup {0} = blocks \cup {Units}
       /\ \A x, y \in blocks : x < y => x + node[x].size <= y
       /\ Len(Linear(page[p].tree)) = Cardinality(InTree(p))
       /\ page[p].free_count = Cardinality(InTree(p))
       /\ page[p].allocated = Cardinality(Handed(p))
       /\ page[p].free = Cardinality(UNION {x .. x + node[x].size - 1 : x \in InTree(p)})

(* mempool.c:525: "mempool heap uses best fit policy": whatever insertions *)
(* and deletions shaped the tree, the search finds one of the smallest     *)
(* blocks that are large enough.                                           *)
SearchFindsBestFit ==
  \A p \in Pages : page[p].tree.root # None => \A n \in 1 .. Units :
    LET sizes == {page[p].tree.node[x].size : x \in InTree(p)}
        large == {s \in sizes : s >= n}
        found == BestFit(page[p].tree, n)
    IN IF large = {} THEN found = None
       ELSE found # None /\ page[p].tree.node[found].size = Min(large)

(* heap_page_mutex and heap_list_lock: a page is in the list once as long  *)
(* as it is a heap page, only a page without blocks on which nobody works  *)
(* leaves it, and last_heap_page is in the list.                           *)
ListedWhileUsed ==
  state = "running" =>
    /\ \A p \in Pages : page[p].used <=> \E k \in DOMAIN list : list[k] = p
    /\ \A j, k \in DOMAIN list : list[j] = list[k] => j = k
    /\ \A b \in live : page[b[1]].used
    /\ last # Nobody => page[last].used
    /\ \A t \in Threads : thread[t].pc \in {"take", "free", "drop"} =>
         page[thread[t].page].used /\ page[thread[t].page].mutex = t
=============================================================================
