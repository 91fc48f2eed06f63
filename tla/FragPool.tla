------------------------------ MODULE FragPool ------------------------------
(***************************************************************************)
(* The page-fragment allocator of the memory pool and its lock-free bitmap *)
(* (libtscommon/src/mempool.c).  A cell is a word of MP_BITMAP_BITS bits,  *)
(* one for each fragment.  An allocating thread exchanges the cell with    *)
(* MP_BITMAP_BUSY, looks for a place in the old value, and gives the value *)
(* back with an atomic "and"; others free bits of the cell, and exchange   *)
(* it again, in between.  The slab caches use the same functions on the    *)
(* bitmaps of their pages, whose last cell may have fewer items.           *)
(*                                                                         *)
(* Every atomic operation is one action.  Fragments are numbered through   *)
(* the cells, and a cell is the set of the fragments whose bits are set.   *)
(***************************************************************************)
EXTENDS Integers, FiniteSets

CONSTANTS Threads,
          NBits,        \* MP_BITMAP_BITS
          NFrags,       \* num_items: fragments of the segment
          Sizes,        \* fragments a thread may ask for; above NBits, pages
          MaxRetries,   \* MPMAXRETRIES
          WholeMasks    \* what (1 << 32) - 1 may be: "ones", "zero", or both

ASSUME FragAssumption ==
  /\ NBits \in Nat \ {0} /\ NFrags \in Nat \ {0}
  /\ Sizes \subseteq Nat \ {0} /\ MaxRetries \in Nat \ {0}
  /\ WholeMasks \subseteq {"ones", "zero"} /\ WholeMasks # {}

Frags == 0 .. NFrags - 1
NumCells == (NFrags + NBits - 1) \div NBits
Cells == 0 .. NumCells - 1
Busy(c) == c * NBits .. c * NBits + NBits - 1
CellOf(f) == f \div NBits
Region(at, n) == at .. at + n - 1
None == -1

VARIABLES
  cell,     \* the bitmap
  descr,    \* mp_frags
  live,     \* regions handed out and not yet freed
  thread,   \* each thread: place, its request n, the cell i, the pass, the
            \* value to give back and the place found (at), and first_cell
            \* and allocated_cells of mp_bitmap_alloc_cells
  state,    \* "running", "aborted", or the assertion or access that failed
  lost,     \* fragments whose bits a free of a whole cell left set
  paged     \* some thread allocated several pages

vars == <<cell, descr, live, thread, state, lost, paged>>

(* Slips the runs must notice: the old value written back instead of       *)
(* "and"ed, the last descriptor of a region not cleared.                   *)
SlipGivesBack(t) == thread[t].old
SlipTypes(r) ==
  [f \in Frags |-> IF f \in r.at .. r.at + r.n - 2 THEN "UNALLOCATED" ELSE descr[f].type]

Unallocated == [type |-> "UNALLOCATED", n |-> 0]
Idle == [pc |-> "idle", n |-> 0, i |-> 0, try |-> 0, old |-> {}, at |-> None,
         first |-> None, count |-> 0]

Init ==
  /\ cell = [c \in Cells |-> {}]
  /\ descr = [f \in Frags |-> Unallocated]
  /\ live = {} /\ thread = [t \in Threads |-> Idle]
  /\ state = "running" /\ lost = {} /\ paged = FALSE

At(t, place) == state = "running" /\ thread[t].pc = place
Paging(t) == thread[t].n > NBits

(* ------------------------------ allocation ---------------------------- *)
mp_frag_alloc(t) ==
  /\ At(t, "idle")
  /\ \E n \in Sizes :
       /\ thread' = [thread EXCEPT ![t] = [Idle EXCEPT !.pc = "exchange", !.n = n]]
       /\ paged' = (paged \/ n > NBits)
  /\ UNCHANGED <<cell, descr, live, state, lost>>

(* mp_bitmap_find_region never gets past the first zero it finds; the      *)
(* region must be free and within the cell's items.                        *)
FirstZero(c, old) == CHOOSE f \in Busy(c) \ old : \A g \in Busy(c) \ old : f <= g
Fits(c, old, f, n) == Region(f, n) \subseteq (Busy(c) \cap Frags) \ old
Found(c, old, n) ==
  LET f == FirstZero(c, old) IN IF Fits(c, old, f, n) THEN f ELSE None

(* The cell failed: the next one, the next pass, or the allocator aborts.  *)
CellsTried(t) == IF Paging(t) THEN NFrags \div NBits ELSE NumCells
NextCell(t, w) ==
  IF w.i + 1 < CellsTried(t)
  THEN /\ thread' = [thread EXCEPT ![t] = [w EXCEPT !.pc = "exchange", !.i = @ + 1]]
       /\ UNCHANGED state
  ELSE /\ thread' = [thread EXCEPT ![t] = [w EXCEPT !.pc = "exchange", !.i = 0,
                                                    !.try = @ + 1]]
       /\ state' = IF w.try + 1 = MaxRetries THEN "aborted" ELSE state

(* mp_bitmap_alloc_cells gives up the pages it has when a cell fails.      *)
CellFailed(t, w) ==
  IF w.first = None THEN NextCell(t, w)
  ELSE /\ thread' = [thread EXCEPT ![t] = [w EXCEPT !.pc = "undo", !.count = w.first]]
       /\ UNCHANGED state

(* mp_bitmap_cell_alloc, first atomic operation.                           *)
CellExchange(t) ==
  LET w == thread[t]
      n == IF Paging(t) THEN NBits ELSE w.n
      at == Found(w.i, cell[w.i], n)
      claimed == IF at = None THEN {} ELSE Region(at, n)
  IN /\ At(t, "exchange")
     /\ cell' = [cell EXCEPT ![w.i] = Busy(w.i)]
     /\ IF cell[w.i] = Busy(w.i) THEN CellFailed(t, [w EXCEPT !.at = None])
        ELSE /\ thread' = [thread EXCEPT ![t].pc = "restore", ![t].at = at,
                                         ![t].old = cell[w.i] \cup claimed]
             /\ UNCHANGED state
     /\ UNCHANGED <<descr, live, lost, paged>>

(* ... and the second, with which a page counts for mp_bitmap_alloc_cells. *)
(* The first page is not counted, so that one more than asked for is taken.*)
Pages(n) == (n + NBits - 1) \div NBits
PageTaken(t, w) ==
  IF w.first = None THEN NextCell(t, [w EXCEPT !.first = w.i])
  ELSE IF w.count + 1 = Pages(w.n)
       THEN /\ thread' = [thread EXCEPT ![t] = [w EXCEPT !.pc = "describe",
                                                         !.at = w.first * NBits]]
            /\ UNCHANGED state
       ELSE NextCell(t, [w EXCEPT !.count = @ + 1])

GivesBack(t) == cell[thread[t].i] \cap thread[t].old
CellRestore(t) ==
  LET w == [thread[t] EXCEPT !.old = {}]
  IN /\ At(t, "restore")
     /\ cell' = [cell EXCEPT ![w.i] = GivesBack(t)]
     /\ CASE w.at = None -> CellFailed(t, w)
          [] w.at # None /\ Paging(t) -> PageTaken(t, w)
          [] OTHER -> /\ thread' = [thread EXCEPT ![t] = [w EXCEPT !.pc = "describe"]]
                      /\ UNCHANGED state
     /\ UNCHANGED <<descr, live, lost, paged>>

(* The failed cell is cleared too, although it belongs to others.          *)
UndoCell(t) ==
  LET w == thread[t]
  IN /\ At(t, "undo")
     /\ cell' = [cell EXCEPT ![w.count] = {}]
     /\ IF w.count < w.i
        THEN /\ thread' = [thread EXCEPT ![t].count = @ + 1]
             /\ UNCHANGED state
        ELSE NextCell(t, [w EXCEPT !.count = 0, !.first = None])
     /\ UNCHANGED <<descr, live, lost, paged>>

(* The descriptors of the region are asserted to be unallocated and set.   *)
Described(at, n) ==
  [f \in Frags |-> CASE f = at -> [type |-> "COMMON", n |-> n]
                     [] f \in Region(at + 1, n - 1) -> [type |-> "REFERENCE", n |-> f - at]
                     [] OTHER -> descr[f]]
Describe(t) ==
  LET w == thread[t]
  IN /\ At(t, "describe")
     /\ IF \A f \in Region(w.at, w.n) : f \in Frags /\ descr[f].type = "UNALLOCATED"
        THEN /\ descr' = Described(w.at, w.n)
             /\ live' = live \cup {[at |-> w.at, n |-> w.n]}
             /\ thread' = [thread EXCEPT ![t] = Idle]
             /\ UNCHANGED state
        ELSE /\ state' = "descriptor in use"
             /\ UNCHANGED <<descr, live, thread>>
     /\ UNCHANGED <<cell, lost, paged>>

(* ------------------------------- freeing ------------------------------ *)
(* mp_frag_free clears the descriptors first, and does nothing for a       *)
(* region that has none.                                                   *)
Types(r) ==
  [f \in Frags |-> IF f \in Region(r.at, r.n) THEN "UNALLOCATED" ELSE descr[f].type]
mp_frag_free(t) ==
  /\ At(t, "idle")
  /\ \E r \in live :
       LET d == descr[r.at]
           types == Types([at |-> r.at, n |-> d.n])
       IN /\ live' = live \ {r}
          /\ IF d.type # "COMMON" THEN UNCHANGED <<descr, thread>>
             ELSE /\ descr' = [f \in Frags |->
                       IF types[f] = "UNALLOCATED" THEN Unallocated ELSE descr[f]]
                  /\ thread' = [thread EXCEPT ![t] =
                       [Idle EXCEPT !.pc = "clear", !.at = r.at, !.n = d.n]]
  /\ UNCHANGED <<cell, state, lost, paged>>

(* mp_bitmap_free: for a whole cell the mask is (1 << 32) - 1, undefined.  *)
Cleared(w) ==
  IF w.n = NBits THEN {IF m = "ones" THEN Busy(CellOf(w.at)) ELSE {} : m \in WholeMasks}
  ELSE {Region(w.at, w.n)}
ClearBits(t) ==
  LET w == thread[t]
      c == CellOf(w.at)
  IN /\ At(t, "clear") /\ ~Paging(t)
     /\ \E mask \in Cleared(w) :
          /\ cell' = [cell EXCEPT ![c] = @ \ mask]
          /\ lost' = lost \cup (Region(w.at, w.n) \ mask)
     /\ thread' = [thread EXCEPT ![t] = Idle]
     /\ UNCHANGED <<descr, live, state, paged>>

(* mp_bitmap_free_cells starts at the first cell of the bitmap, whatever   *)
(* the region, and clears one cell too few if the last page is not full.   *)
ClearCells(t) ==
  LET w == thread[t]
  IN /\ At(t, "clear") /\ Paging(t)
     /\ cell' = [cell EXCEPT ![w.i] = {}]
     /\ thread' = [thread EXCEPT ![t] = IF w.i + 1 < w.n \div NBits
                                        THEN [w EXCEPT !.i = @ + 1] ELSE Idle]
     /\ UNCHANGED <<descr, live, state, lost, paged>>

Step(t) ==
  \/ mp_frag_alloc(t) \/ CellExchange(t) \/ CellRestore(t) \/ UndoCell(t)
  \/ Describe(t) \/ mp_frag_free(t) \/ ClearBits(t) \/ ClearCells(t)
Next == \E t \in Threads : Step(t)

Spec == Init /\ [][Next]_vars
-----------------------------------------------------------------------------
(* mp_frag_get_descr: the first fragment of the region f belongs to.       *)
mp_frag_get_descr(f) ==
  CASE descr[f].type = "UNALLOCATED" -> None
    [] descr[f].type = "REFERENCE" -> f - descr[f].n
    [] OTHER -> f

Places == {"idle", "exchange", "restore", "undo", "describe", "clear"}

TypeOK ==
  /\ \A c \in Cells : cell[c] \subseteq Busy(c)
  /\ descr \in [Frags -> [type : {"UNALLOCATED", "REFERENCE", "COMMON"}, n : Nat]]
  /\ live \subseteq [at : Frags, n : Sizes]
  /\ \A t \in Threads :
       /\ thread[t].pc \in Places /\ thread[t].n \in Sizes \cup {0}
       /\ thread[t].i \in Cells /\ thread[t].try \in 0 .. MaxRetries
       /\ thread[t].old \subseteq Busy(thread[t].i)
       /\ thread[t].at \in Frags \cup {None}
       /\ thread[t].first \in Cells \cup {None} /\ thread[t].count \in Nat
  /\ state \in {"running", "aborted", "descriptor in use"}
  /\ lost \subseteq Frags /\ paged \in BOOLEAN

(* Where a fragment may be: handed out; in the hands of a thread that has  *)
(* found it or is freeing it; free in the bitmap; free in the value that   *)
(* an allocating thread will give back; lost.                              *)
Holds(t) ==
  IF thread[t].pc \in {"restore", "describe", "clear"} /\ thread[t].at # None
  THEN Region(thread[t].at, thread[t].n) ELSE {}
GivesFree(t) ==
  IF thread[t].pc = "restore" THEN Busy(thread[t].i) \ thread[t].old ELSE {}

PlacesOf(f) ==
  {<<"live", r>> : r \in {x \in live : f \in Region(x.at, x.n)}}
  \cup {<<"held", t>> : t \in {u \in Threads : f \in Holds(u)}}
  \cup {<<"given back", t>> : t \in {u \in Threads : f \in GivesFree(u)}}
  \cup {<<"free", c>> : c \in {d \in Cells : f \in Busy(d) \ cell[d]}}
  \cup {<<"lost", l>> : l \in lost \cap {f}}

(* mp_bitmap_cell_alloc, mp_bitmap_free: whatever exchanges, frees and     *)
(* "and"s of a cell meet, a fragment is in one place: never handed out     *)
(* twice, and never leaked but by the free of a whole cell.  (Allocations  *)
(* of several pages break this: see the README.  The types hold for all.)  *)
EachFragmentOnce ==
  /\ TypeOK
  /\ ~paged => \A f \in Frags : \E p \in PlacesOf(f) : PlacesOf(f) = {p}

(* mp_frag_alloc's assertions hold, and mp_free finds the region of every  *)
(* pointer into it: the descriptors describe the regions handed out and    *)
(* nothing else.                                                           *)
DescriptorsMatch ==
  ~paged =>
    /\ state # "descriptor in use"
    /\ \A r \in live : /\ descr[r.at] = [type |-> "COMMON", n |-> r.n]
                       /\ \A f \in Region(r.at, r.n) : mp_frag_get_descr(f) = r.at
    /\ \A f \in Frags : mp_frag_get_descr(f) # None =>
         \E r \in live : f \in Region(r.at, r.n)
=============================================================================
