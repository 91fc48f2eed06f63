--------------------------- MODULE FragPoolProofs ---------------------------
(***************************************************************************)
(* Proofs about the fragment allocator for any number of threads, cells,   *)
(* fragments and bits of a cell: every fragment is in one place, and the   *)
(* descriptors describe what is handed out.                                *)
(***************************************************************************)
EXTENDS FragPool, FiniteSetTheorems, WellFoundedInduction, TLAPS

(* Types; what TypeOK leaves out is that a freed region lies within the    *)
(* fragments, and which of a thread's fields its place gives a meaning.    *)
ThreadType ==
  [pc : Places, n : Sizes \cup {0}, i : Cells, try : 0 .. MaxRetries, old : SUBSET Int,
   at : Frags \cup {None}, first : Cells \cup {None}, count : Nat]
DescrType == [type : {"UNALLOCATED", "REFERENCE", "COMMON"}, n : Nat]

ThreadOK(w) ==
  /\ w.old \subseteq Busy(w.i) /\ (w.pc # "restore" => w.old = {})
  /\ w.pc # "idle" => w.n \in Sizes
  /\ w.pc = "undo" => w.count \in Cells
  /\ w.pc \in {"describe", "clear"} => w.at # None
  /\ w.pc = "clear" => Region(w.at, w.n) \subseteq Frags

Typed ==
  /\ cell \in [Cells -> SUBSET Int] /\ \A c \in Cells : cell[c] \subseteq Busy(c)
  /\ descr \in [Frags -> DescrType]
  /\ \A f \in Frags : descr[f].type = "COMMON" =>
       descr[f].n \in Sizes /\ Region(f, descr[f].n) \subseteq Frags
  /\ live \subseteq [at : Frags, n : Sizes]
  /\ thread \in [Threads -> ThreadType] /\ \A t \in Threads : ThreadOK(thread[t])
  /\ state = "running" => \A t \in Threads : thread[t].try # MaxRetries
  /\ state \in {"running", "aborted", "descriptor in use"}
  /\ lost \subseteq Frags /\ paged \in BOOLEAN

(* As long as nobody asks for several pages, no thread is in that part of  *)
(* the code, and a region lies in one cell.                                *)
InCell(at, n) ==
  n \in 1 .. NBits /\ Region(at, n) \subseteq Busy(CellOf(at)) \cap Frags
NoPages ==
  /\ \A r \in live : InCell(r.at, r.n)
  /\ \A t \in Threads :
       /\ thread[t].n <= NBits /\ thread[t].first = None /\ thread[t].pc # "undo"
       /\ Holds(t) # {} => InCell(thread[t].at, thread[t].n)

(* A fragment is in one of its five places, and not in a second one.       *)
Free(f) == f \notin cell[CellOf(f)]
Somewhere(f) ==
  \/ \E r \in live : f \in Region(r.at, r.n)
  \/ \E t \in Threads : f \in Holds(t) \/ f \in GivesFree(t)
  \/ Free(f) \/ f \in lost
NotTwice(f) ==
  /\ \A r, s \in live : f \in Region(r.at, r.n) /\ f \in Region(s.at, s.n) => r = s
  /\ \A t, u \in Threads : /\ f \in Holds(t) \cap Holds(u) => t = u
                           /\ f \in GivesFree(t) \cap GivesFree(u) => t = u
                           /\ f \notin Holds(t) \cap GivesFree(u)
  /\ \A r \in live : f \in Region(r.at, r.n) =>
       ~Free(f) /\ f \notin lost /\ \A t \in Threads : f \notin Holds(t) \cup GivesFree(t)
  /\ \A t \in Threads : f \in Holds(t) \cup GivesFree(t) => ~Free(f) /\ f \notin lost
  /\ ~(Free(f) /\ f \in lost)
Once == \A f \in Frags : Somewhere(f) /\ NotTwice(f)

(* Descriptors: a region handed out has those of mp_frag_alloc, the others *)
(* are unallocated.                                                        *)
Describes(r) ==
  \A f \in Region(r.at, r.n) :
    descr[f] = IF f = r.at THEN [type |-> "COMMON", n |-> r.n]
               ELSE [type |-> "REFERENCE", n |-> f - r.at]
Descriptors ==
  /\ state # "descriptor in use"
  /\ \A r \in live : Describes(r)
  /\ \A f \in Frags : descr[f].type # "UNALLOCATED" =>
       \E r \in live : f \in Region(r.at, r.n)

Inv == Typed /\ (~paged => NoPages /\ Once /\ Descriptors)
-----------------------------------------------------------------------------
(* Cells and fragments.                                                    *)

(* NBits is a positive integer; the fragments are numbered from 0.         *)
LEMMA Numbers ==
  /\ NBits \in Nat \ {0} /\ NFrags \in Nat \ {0} /\ NumCells \in Nat
  /\ MaxRetries \in Nat \ {0} /\ Sizes \subseteq Nat \ {0}
  /\ Frags \subseteq Nat /\ Cells \subseteq Nat /\ None \notin Nat
  /\ NFrags <= NumCells * NBits /\ NumCells * NBits < NFrags + NBits
BY FragAssumption DEF NumCells, Frags, Cells, None

(* The cells' bits are the numbers, cut into intervals of NBits.           *)
LEMMA BusyIsCell ==
  ASSUME NEW f \in Nat, NEW c \in Nat
  PROVE  f \in Busy(c) <=> CellOf(f) = c
BY Numbers DEF Busy, CellOf

(* A fragment lies in the cell its number gives.                           *)
LEMMA CellOfFrag ==
  ASSUME NEW f \in Frags
  PROVE  CellOf(f) \in Cells
BY Numbers DEF Frags, Cells, CellOf

(* Each cell has a first fragment.                                         *)
LEMMA CellStarts ==
  ASSUME NEW c \in Cells
  PROVE  c * NBits \in Frags
BY Numbers DEF Frags, Cells

(* A whole cell's region is the cell.                                      *)
LEMMA WholeCell ==
  ASSUME NEW at \in Nat, Region(at, NBits) \subseteq Busy(CellOf(at))
  PROVE  Region(at, NBits) = Busy(CellOf(at))
BY Numbers DEF Region, Busy, CellOf

(* A loop over cells stays within them.                                    *)
LEMMA CellsTriedIsCells ==
  ASSUME NEW t \in Threads, NEW i \in Nat, i < CellsTried(t)
  PROVE  i \in Cells
BY Numbers DEF CellsTried, Cells, NumCells

(* So does the one over the cells of a region of several.                  *)
LEMMA RegionsCells ==
  ASSUME NEW at \in Frags, NEW n \in Sizes, Region(at, n) \subseteq Frags,
         NEW i \in Nat, i < n \div NBits
  PROVE  i \in Cells
BY Numbers DEF Region, Frags, Cells, NumCells
-----------------------------------------------------------------------------
(* What a step makes of the thread that takes it.                          *)
MovesTo(t, v) ==
  /\ v \in ThreadType /\ ThreadOK(v) /\ thread' = [thread EXCEPT ![t] = v]
  /\ state' \in {"running", "aborted"} /\ (state' = "running" => v.try # MaxRetries)

(* The next cell, or the next pass: the last one aborts.                   *)
LEMMA NextCellMoves ==
  ASSUME NEW t \in Threads, NEW w \in ThreadType, w.n \in Sizes, w.old = {},
         w.try # MaxRetries, state = "running", NextCell(t, w)
  PROVE  \E v \in ThreadType :
           MovesTo(t, v) /\ v.pc = "exchange" /\ v.n = w.n /\ v.first = w.first
<1>1. CASE w.i + 1 < CellsTried(t)
  <2> DEFINE v == [w EXCEPT !.pc = "exchange", !.i = @ + 1]
  <2>1. w.i + 1 \in Cells
    <3>1. w.i \in Cells
      BY DEF ThreadType
    <3>2. w.i + 1 \in Nat
      BY <3>1 DEF Cells
    <3> QED BY <1>1, <3>2, CellsTriedIsCells
  <2>2. v \in ThreadType /\ ThreadOK(v) /\ v.try = w.try
        /\ v.pc = "exchange" /\ v.n = w.n /\ v.first = w.first
    BY <2>1 DEF ThreadType, ThreadOK, Places
  <2>3. thread' = [thread EXCEPT ![t] = v] /\ state' = state
    BY <1>1 DEF NextCell
  <2> QED BY <2>2, <2>3 DEF MovesTo
<1>2. CASE ~(w.i + 1 < CellsTried(t))
  <2> DEFINE v == [w EXCEPT !.pc = "exchange", !.i = 0, !.try = @ + 1]
  <2>1. 0 \in Cells /\ w.try + 1 \in 0 .. MaxRetries
    BY Numbers DEF Cells, ThreadType
  <2>2. v \in ThreadType /\ ThreadOK(v) /\ v.try = w.try + 1
        /\ v.pc = "exchange" /\ v.n = w.n /\ v.first = w.first
    BY <2>1 DEF ThreadType, ThreadOK, Places
  <2>3. thread' = [thread EXCEPT ![t] = v]
        /\ state' = IF w.try + 1 = MaxRetries THEN "aborted" ELSE state
    BY <1>2 DEF NextCell
  <2> QED BY <2>2, <2>3 DEF MovesTo
<1> QED BY <1>1, <1>2

(* A cell failed: the pages taken so far are given up.                     *)
LEMMA CellFailedMoves ==
  ASSUME NEW t \in Threads, NEW w \in ThreadType, w.n \in Sizes, w.old = {},
         w.try # MaxRetries, state = "running", CellFailed(t, w)
  PROVE  \E v \in ThreadType :
           /\ MovesTo(t, v) /\ v.pc \in {"exchange", "undo"}
           /\ v.n = w.n /\ v.first = w.first
           /\ w.first = None => v.pc = "exchange"
<1>1. CASE w.first = None
  BY <1>1, NextCellMoves DEF CellFailed
<1>2. CASE w.first # None
  <2> DEFINE v == [w EXCEPT !.pc = "undo", !.count = w.first]
  <2>1. v \in ThreadType /\ ThreadOK(v) /\ v.try = w.try
        /\ v.pc = "undo" /\ v.n = w.n /\ v.first = w.first
    BY <1>2, Numbers DEF ThreadType, ThreadOK, Places
  <2>2. thread' = [thread EXCEPT ![t] = v] /\ state' = state
    BY <1>2 DEF CellFailed
  <2> QED BY <1>2, <2>1, <2>2 DEF MovesTo
<1> QED BY <1>1, <1>2

(* A page was taken: the region begins with the first one.                 *)
LEMMA PageTakenMoves ==
  ASSUME NEW t \in Threads, NEW w \in ThreadType, w.n \in Sizes, w.old = {},
         w.try # MaxRetries, state = "running", PageTaken(t, w)
  PROVE  \E v \in ThreadType :
           MovesTo(t, v) /\ v.pc \in {"exchange", "describe"} /\ v.n = w.n
<1>1. CASE w.first = None
  <2>1. [w EXCEPT !.first = w.i] \in ThreadType
        /\ [w EXCEPT !.first = w.i].n = w.n /\ [w EXCEPT !.first = w.i].old = {}
        /\ [w EXCEPT !.first = w.i].try = w.try
    BY DEF ThreadType
  <2>2. NextCell(t, [w EXCEPT !.first = w.i])
    BY <1>1 DEF PageTaken
  <2> QED BY ZenonT(60), <2>1, <2>2, NextCellMoves
<1>2. CASE w.first # None /\ w.count + 1 = Pages(w.n)
  <2> DEFINE v == [w EXCEPT !.pc = "describe", !.at = w.first * NBits]
  <2>1. w.first * NBits \in Frags /\ w.first * NBits # None
    BY <1>2, CellStarts, Numbers DEF ThreadType
  <2>2. v \in ThreadType /\ ThreadOK(v) /\ v.try = w.try
        /\ v.pc = "describe" /\ v.n = w.n
    BY <2>1 DEF ThreadType, ThreadOK, Places
  <2>3. thread' = [thread EXCEPT ![t] = v] /\ state' = state
    BY <1>2 DEF PageTaken
  <2> QED BY <2>2, <2>3 DEF MovesTo
<1>3. CASE w.first # None /\ w.count + 1 # Pages(w.n)
  <2> DEFINE x == [w EXCEPT !.count = @ + 1]
  <2>1. x \in ThreadType /\ x.n = w.n /\ x.old = {} /\ x.try = w.try
    BY DEF ThreadType
  <2>2. NextCell(t, x)
    BY <1>3 DEF PageTaken
  <2> HIDE DEF x
  <2> QED BY <2>1, <2>2, NextCellMoves
<1> QED BY <1>1, <1>2, <1>3

(* The other threads are as they were.                                     *)
LEMMA ThreadsMove ==
  ASSUME Typed, state = "running", NEW t \in Threads, NEW v, MovesTo(t, v)
  PROVE  /\ thread' \in [Threads -> ThreadType] /\ thread'[t] = v
         /\ \A u \in Threads : ThreadOK(thread'[u])
         /\ state' = "running" => \A u \in Threads : thread'[u].try # MaxRetries
         /\ \A u \in Threads \ {t} : /\ thread'[u] = thread[u]
                                     /\ Holds(u)' = Holds(u) /\ GivesFree(u)' = GivesFree(u)
<1>1. /\ thread' \in [Threads -> ThreadType] /\ thread'[t] = v
      /\ \A u \in Threads \ {t} : thread'[u] = thread[u]
  BY DEF Typed, MovesTo
<1>2. \A u \in Threads : ThreadOK(thread'[u])
  BY <1>1 DEF Typed, MovesTo
<1>3. state' = "running" => \A u \in Threads : thread'[u].try # MaxRetries
  BY <1>1 DEF Typed, MovesTo
<1>4. \A u \in Threads \ {t} : Holds(u)' = Holds(u) /\ GivesFree(u)' = GivesFree(u)
  BY <1>1 DEF Holds, GivesFree
<1> QED BY <1>1, <1>2, <1>3, <1>4

(* Fragments that only pass between the hands of one thread, the bitmap    *)
(* and the lost ones stay in one place.                                    *)
LEMMA OnceMoves ==
  ASSUME Once, NEW t \in Threads, live' = live,
         \A u \in Threads \ {t} : Holds(u)' = Holds(u) /\ GivesFree(u)' = GivesFree(u),
         \A f \in Frags :
           /\ (f \in Holds(t) \/ f \in GivesFree(t) \/ Free(f) \/ f \in lost)
                <=> (f \in Holds(t)' \/ f \in GivesFree(t)' \/ Free(f)' \/ f \in lost')
           /\ f \in Holds(t)' => f \notin GivesFree(t)' /\ ~Free(f)' /\ f \notin lost'
           /\ f \in GivesFree(t)' => ~Free(f)' /\ f \notin lost'
           /\ ~(Free(f)' /\ f \in lost')
  PROVE  Once'
<1> SUFFICES ASSUME NEW f \in Frags PROVE Somewhere(f)' /\ NotTwice(f)'
  BY DEF Once
<1>1. Somewhere(f) /\ NotTwice(f)
  BY DEF Once
<1>2. Somewhere(f)'
  BY <1>1 DEF Somewhere
<1>3. NotTwice(f)'
  BY <1>1 DEF NotTwice
<1> QED BY <1>2, <1>3
-----------------------------------------------------------------------------
(* A set of numbers has a least one: its initial segments are ordered by   *)
(* inclusion.                                                              *)
LEMMA LeastNumber ==
  ASSUME NEW S \in SUBSET Nat, S # {}
  PROVE  \E n \in S : \A m \in S : n <= m
<1> DEFINE T == {0 .. n : n \in S}
<1>1. T \subseteq FiniteSubsetsOf(Nat) /\ T # {}
  <2>1. ASSUME NEW n \in S PROVE 0 .. n \in SUBSET Nat /\ IsFiniteSet(0 .. n)
    BY FS_Interval
  <2> QED BY <2>1 DEF FiniteSubsetsOf
<1>2. PICK x \in T : \A y \in T : <<y, x>> \notin StrictSubsetOrdering(Nat)
  BY <1>1, FS_StrictSubsetOrderingWellFounded, WFMin
<1>3. PICK n \in S : x = 0 .. n
  OBVIOUS
<1>4. ASSUME NEW m \in S, ~(n <= m) PROVE FALSE
  <2>1. 0 .. m \subseteq 0 .. n /\ 0 .. m # 0 .. n
    BY <1>4
  <2>2. 0 .. m \in T /\ 0 .. m \in SUBSET Nat /\ 0 .. n \in SUBSET Nat
    OBVIOUS
  <2> QED BY <1>2, <1>3, <2>1, <2>2 DEF StrictSubsetOrdering
<1> QED BY <1>4

(* mp_bitmap_find_region: a region it finds is free in the cell.           *)
LEMMA FoundFits ==
  ASSUME NEW c \in Cells, NEW old \in SUBSET Busy(c), old # Busy(c), NEW n \in Nat \ {0},
         Found(c, old, n) # None
  PROVE  /\ Found(c, old, n) \in Frags
         /\ Region(Found(c, old, n), n) \subseteq (Busy(c) \cap Frags) \ old
<1> DEFINE f == FirstZero(c, old)
<1>1. Busy(c) \ old \in SUBSET Nat /\ Busy(c) \ old # {}
  <2> DEFINE b == c * NBits
  <2>1. b \in Nat /\ Busy(c) = b .. b + NBits - 1
    BY CellStarts DEF Frags, Busy
  <2> HIDE DEF b
  <2>2. Busy(c) \subseteq Nat
    BY <2>1, FragAssumption
  <2> QED BY <2>2
<1>2. f \in Busy(c) \ old
  BY <1>1, LeastNumber DEF FirstZero
<1>3. Found(c, old, n) = f /\ Fits(c, old, f, n)
  BY DEF Found
<1>4. f \in Region(f, n)
  BY <1>1, <1>2 DEF Region
<1> QED BY <1>3, <1>4 DEF Fits
-----------------------------------------------------------------------------
(* The invariant over a step that hands nothing out and takes nothing      *)
(* back: what to show is what becomes of the thread and its fragments.     *)
LEMMA InvMoves ==
  ASSUME Inv, state = "running", NEW t \in Threads, NEW v \in ThreadType, MovesTo(t, v),
         descr' = descr, live' = live, lost' \subseteq Frags, paged' \in BOOLEAN,
         cell' \in [Cells -> SUBSET Int], \A c \in Cells : cell'[c] \subseteq Busy(c),
         ~paged' =>
           /\ ~paged /\ v.n <= NBits /\ v.first = None /\ v.pc # "undo"
           /\ Holds(t)' # {} => InCell(v.at, v.n)
           /\ \A f \in Frags :
                /\ (f \in Holds(t) \/ f \in GivesFree(t) \/ Free(f) \/ f \in lost)
                     <=> (f \in Holds(t)' \/ f \in GivesFree(t)' \/ Free(f)' \/ f \in lost')
                /\ f \in Holds(t)' => f \notin GivesFree(t)' /\ ~Free(f)' /\ f \notin lost'
                /\ f \in GivesFree(t)' => ~Free(f)' /\ f \notin lost'
                /\ ~(Free(f)' /\ f \in lost')
  PROVE  Inv'
<1>1. /\ thread' \in [Threads -> ThreadType] /\ thread'[t] = v
      /\ \A u \in Threads : ThreadOK(thread'[u])
      /\ state' = "running" => \A u \in Threads : thread'[u].try # MaxRetries
      /\ \A u \in Threads \ {t} : /\ thread'[u] = thread[u]
                                  /\ Holds(u)' = Holds(u) /\ GivesFree(u)' = GivesFree(u)
  BY ThreadsMove DEF Inv
<1>2. Typed'
  BY <1>1 DEF Inv, Typed, MovesTo
<1>3. ASSUME ~paged' PROVE NoPages' /\ Once' /\ Descriptors'
  <2>1. NoPages /\ Once /\ Descriptors
    BY <1>3 DEF Inv
  <2>2. NoPages'
    BY <1>1, <1>3, <2>1 DEF NoPages, InCell
  <2>3. Once'
    BY <1>1, <1>3, <2>1, OnceMoves
  <2>4. Descriptors'
    BY <2>1 DEF Descriptors, Describes, MovesTo
  <2> QED BY <2>2, <2>3, <2>4
<1> QED BY <1>2, <1>3 DEF Inv

(* An idle thread is well typed.                                           *)
LEMMA IdleOK == Idle \in ThreadType /\ ThreadOK(Idle)
<1>1. 0 \in Cells /\ 0 \in 0 .. MaxRetries
  BY Numbers DEF Cells
<1> QED BY <1>1 DEF ThreadType, ThreadOK, Idle, Places, None

(* A request.                                                              *)
LEMMA FragAllocKeeps ==
  ASSUME Inv, NEW t \in Threads, mp_frag_alloc(t)
  PROVE  Inv'
<1>1. PICK n \in Sizes :
        /\ thread' = [thread EXCEPT ![t] = [Idle EXCEPT !.pc = "exchange", !.n = n]]
        /\ paged' = (paged \/ n > NBits)
  BY DEF mp_frag_alloc
<1> DEFINE v == [Idle EXCEPT !.pc = "exchange", !.n = n]
<1>2. /\ state = "running" /\ thread[t].pc = "idle" /\ state' = state /\ cell' = cell
      /\ descr' = descr /\ live' = live /\ lost' = lost
  BY DEF mp_frag_alloc, At
<1>3. v \in ThreadType /\ ThreadOK(v) /\ v.n = n /\ v.first = None /\ v.pc = "exchange"
      /\ v.try = 0
  BY IdleOK DEF ThreadType, ThreadOK, Idle, Places
<1>4. MovesTo(t, v)
  BY <1>1, <1>2, <1>3, Numbers DEF MovesTo
<1> HIDE DEF v
<1>5. thread'[t] = v
  BY <1>4 DEF MovesTo, Inv, Typed
<1>6. Holds(t) = {} /\ GivesFree(t) = {} /\ Holds(t)' = {} /\ GivesFree(t)' = {}
  BY <1>2, <1>3, <1>5 DEF Holds, GivesFree
<1>7. \A f \in Frags : Free(f)' = Free(f)
  BY <1>2 DEF Free
<1>8. ~paged' => ~paged /\ v.n <= NBits
  <2>1. ~paged' => ~paged /\ ~(n > NBits)
    BY <1>1, ZenonT(30)
  <2>2. n \in Nat /\ NBits \in Nat
    BY Numbers
  <2> QED BY <1>3, <2>1, <2>2
<1>9. ~paged => \A f \in Frags : ~(Free(f) /\ f \in lost)
  BY DEF Inv, Once, NotTwice
<1>10. /\ lost' \subseteq Frags /\ paged' \in BOOLEAN /\ cell' \in [Cells -> SUBSET Int]
       /\ \A c \in Cells : cell'[c] \subseteq Busy(c)
  BY <1>1, <1>2 DEF Inv, Typed
<1> QED BY <1>2, <1>3, <1>4, <1>6, <1>7, <1>8, <1>9, <1>10, InvMoves

(* Without requests for several pages.                                     *)
LEMMA InOneCell ==
  ASSUME Inv, ~paged, NEW t \in Threads
  PROVE  /\ ~Paging(t) /\ thread[t].n \in 0 .. NBits /\ thread[t].first = None
         /\ thread[t].pc # "undo" /\ Once
         /\ (Holds(t) # {} => InCell(thread[t].at, thread[t].n))
<1>1. NoPages /\ Once
  BY DEF Inv
<1>2. thread[t].n \in Nat /\ NBits \in Nat
  <2>1. thread[t].n \in Sizes \cup {0}
    BY DEF Inv, Typed, ThreadType
  <2>2. \A n \in Sizes \cup {0} : n \in Nat
    BY FragAssumption
  <2>3. NBits \in Nat
    BY FragAssumption
  <2> QED BY <2>1, <2>2, <2>3
<1>3. thread[t].n <= NBits
  BY <1>1 DEF NoPages
<1>4. thread[t].n \in 0 .. NBits /\ ~Paging(t)
  BY <1>2, <1>3 DEF Paging
<1> QED BY <1>1, <1>4 DEF NoPages

(* A thread's cell is taken out of the bitmap: what was free is in the     *)
(* value the thread gives back, but for the region it has found.           *)
LEMMA CellExchangeKeeps ==
  ASSUME Inv, NEW t \in Threads, CellExchange(t)
  PROVE  Inv'
<1> DEFINE w == thread[t]
           n == IF Paging(t) THEN NBits ELSE w.n
           at == Found(w.i, cell[w.i], n)
           claimed == IF at = None THEN {} ELSE Region(at, n)
<1>1. /\ state = "running" /\ w.pc = "exchange" /\ w \in ThreadType /\ ThreadOK(w)
      /\ w.try # MaxRetries /\ w.i \in Cells /\ w.n \in Sizes /\ w.old = {}
  BY DEF CellExchange, At, Inv, Typed, ThreadType, ThreadOK
<1>2. /\ descr' = descr /\ live' = live /\ lost' = lost /\ paged' = paged
      /\ cell' = [cell EXCEPT ![w.i] = Busy(w.i)]
  BY DEF CellExchange
<1>3. /\ lost' \subseteq Frags /\ paged' \in BOOLEAN /\ cell' \in [Cells -> SUBSET Int]
      /\ \A c \in Cells : cell'[c] \subseteq Busy(c)
      /\ \A c \in Cells : cell'[c] = IF c = w.i THEN Busy(c) ELSE cell[c]
  <2>1. Busy(w.i) \in SUBSET Int
    BY <1>1, Numbers DEF Busy
  <2> QED BY <1>1, <1>2, <2>1 DEF Inv, Typed
<1>4. ~paged => ~Paging(t) /\ w.n \in 0 .. NBits /\ w.first = None /\ Once
  BY InOneCell
<1>5. \A f \in Frags : CellOf(f) \in Cells /\ f \in Busy(CellOf(f))
                       /\ (f \in Busy(w.i) <=> CellOf(f) = w.i)
  BY <1>1, Numbers, CellOfFrag, BusyIsCell
<1>6. Holds(t) = {} /\ GivesFree(t) = {}
  BY <1>1 DEF Holds, GivesFree
<1>7. CASE cell[w.i] = Busy(w.i)
  <2> DEFINE x == [w EXCEPT !.at = None]
  <2>1. x \in ThreadType /\ x.n = w.n /\ x.old = {} /\ x.try = w.try /\ x.first = w.first
    BY <1>1 DEF ThreadType
  <2>2. CellFailed(t, x)
    BY <1>7 DEF CellExchange
  <2> HIDE DEF x
  <2>3. PICK v \in ThreadType :
           /\ MovesTo(t, v) /\ v.pc \in {"exchange", "undo"}
           /\ v.n = w.n /\ v.first = w.first
           /\ w.first = None => v.pc = "exchange"
    BY <1>1, <2>1, <2>2, CellFailedMoves
  <2>4. Holds(t)' = {} /\ GivesFree(t)' = {}
    BY <2>3 DEF Holds, GivesFree, MovesTo, Inv, Typed
  <2>5. \A f \in Frags : Free(f)' = Free(f)
    BY <1>3, <1>5, <1>7 DEF Free
  <2>6. ~paged => \A f \in Frags : ~(Free(f) /\ f \in lost)
    BY <1>4 DEF Once, NotTwice
  <2> QED BY <1>1, <1>2, <1>3, <1>4, <1>6, <2>3, <2>4, <2>5, <2>6, InvMoves
<1>8. CASE cell[w.i] # Busy(w.i)
  <2> DEFINE v == [w EXCEPT !.pc = "restore", !.at = at, !.old = cell[w.i] \cup claimed]
  <2>1. n \in Nat \ {0} /\ cell[w.i] \in SUBSET Busy(w.i)
    BY <1>1, Numbers DEF Inv, Typed
  <2>2. /\ at \in Frags \cup {None}
        /\ at # None => Region(at, n) \subseteq (Busy(w.i) \cap Frags) \ cell[w.i]
    BY <1>1, <1>8, <2>1, FoundFits
  <2>3. /\ v \in ThreadType /\ ThreadOK(v) /\ v.try = w.try /\ v.pc = "restore"
        /\ v.n = w.n /\ v.first = w.first /\ v.i = w.i /\ v.at = at
        /\ v.old = cell[w.i] \cup claimed
    <3>1. cell[w.i] \cup claimed \in SUBSET Busy(w.i) /\ Busy(w.i) \in SUBSET Int
      BY <1>1, <2>1, <2>2, Numbers DEF Busy
    <3> QED BY <1>1, <2>2, <3>1 DEF ThreadType, ThreadOK, Places
  <2>4. thread' = [thread EXCEPT ![t] = v] /\ state' = state
    BY <1>8 DEF CellExchange, Inv, Typed, ThreadType
  <2> HIDE DEF v
  <2>5. MovesTo(t, v)
    BY <1>1, <2>3, <2>4 DEF MovesTo
  <2>6. ASSUME ~paged PROVE
          /\ Holds(t)' = claimed /\ GivesFree(t)' = Busy(w.i) \ (cell[w.i] \cup claimed)
          /\ claimed # {} => InCell(at, w.n)
    <3>1. n = w.n /\ thread'[t] = v
      BY <1>4, <2>4, <2>6 DEF Inv, Typed
    <3>2. Holds(t)' = claimed /\ GivesFree(t)' = Busy(w.i) \ (cell[w.i] \cup claimed)
      BY <2>3, <3>1 DEF Holds, GivesFree
    <3>3. ASSUME at # None PROVE InCell(at, w.n)
      <4>1. at \in Frags /\ at \in Region(at, n)
        BY <2>1, <2>2, <3>3 DEF Region, Frags
      <4>2. CellOf(at) = w.i
        BY <1>5, <2>2, <3>3, <4>1
      <4>3. w.n \in 1 .. NBits
        <5>1. w.n \in 0 .. NBits /\ w.n \in Nat \ {0} /\ NBits \in Nat
          BY <1>1, <1>4, <2>6, FragAssumption
        <5> QED BY <5>1
      <4> QED BY <2>2, <3>1, <3>3, <4>2, <4>3 DEF InCell
    <3> QED BY <3>2, <3>3
  <2> HIDE DEF at, claimed, n
  <2>7. claimed \subseteq Busy(w.i) \ cell[w.i]
    BY <2>2 DEF claimed
  <2>8. \A f \in Frags :
           /\ Free(f)' <=> Free(f) /\ CellOf(f) # w.i
           /\ Free(f) /\ CellOf(f) = w.i <=> f \in Busy(w.i) \ cell[w.i]
    BY <1>3, <1>5 DEF Free
  <2>9. ~paged => \A f \in Frags : ~(Free(f) /\ f \in lost)
    BY <1>4 DEF Once, NotTwice
  <2>10. ASSUME ~paged', NEW f \in Frags PROVE
           /\ (f \in Holds(t) \/ f \in GivesFree(t) \/ Free(f) \/ f \in lost)
                <=> (f \in Holds(t)' \/ f \in GivesFree(t)' \/ Free(f)' \/ f \in lost')
           /\ f \in Holds(t)' => f \notin GivesFree(t)' /\ ~Free(f)' /\ f \notin lost'
           /\ f \in GivesFree(t)' => ~Free(f)' /\ f \notin lost'
           /\ ~(Free(f)' /\ f \in lost')
    BY <1>2, <1>6, <2>6, <2>7, <2>8, <2>9, <2>10
  <2> QED BY <1>1, <1>2, <1>3, <1>4, <2>3, <2>5, <2>6, <2>10, InvMoves
<1> QED BY <1>7, <1>8

(* The value is given back, less what was freed in between.                *)
LEMMA CellRestoreKeeps ==
  ASSUME Inv, NEW t \in Threads, CellRestore(t)
  PROVE  Inv'
<1> DEFINE o == thread[t]
           w == [o EXCEPT !.old = {}]
<1>1. /\ state = "running" /\ o.pc = "restore" /\ o \in ThreadType /\ ThreadOK(o)
      /\ o.try # MaxRetries /\ o.i \in Cells /\ o.n \in Sizes /\ o.old \subseteq Busy(o.i)
  BY DEF CellRestore, At, Inv, Typed, ThreadType, ThreadOK
<1>2. /\ descr' = descr /\ live' = live /\ lost' = lost /\ paged' = paged
      /\ cell' = [cell EXCEPT ![o.i] = cell[o.i] \cap o.old]
  BY <1>1 DEF CellRestore, GivesBack, ThreadType
<1>3. /\ lost' \subseteq Frags /\ paged' \in BOOLEAN /\ cell' \in [Cells -> SUBSET Int]
      /\ \A c \in Cells : cell'[c] \subseteq Busy(c)
      /\ \A c \in Cells : cell'[c] = IF c = o.i THEN cell[c] \cap o.old ELSE cell[c]
  BY <1>1, <1>2 DEF Inv, Typed
<1>4. /\ w \in ThreadType /\ w.n = o.n /\ w.old = {} /\ w.try = o.try /\ w.first = o.first
      /\ w.at = o.at /\ w.pc = o.pc /\ w.i = o.i
  BY <1>1 DEF ThreadType
<1>5. ~paged => /\ ~Paging(t) /\ o.n \in 0 .. NBits /\ o.first = None /\ Once
                /\ (Holds(t) # {} => InCell(o.at, o.n))
  BY InOneCell
<1>6. \E v \in ThreadType :
        /\ MovesTo(t, v) /\ v.n = o.n /\ v.pc \in {"exchange", "undo", "describe"}
        /\ ~Paging(t) /\ o.first = None => 
             /\ v.first = None /\ v.pc # "undo"
             /\ v.pc = "describe" <=> o.at # None
             /\ o.at # None => v.at = o.at
  <2>1. CASE o.at = None
    <3>1. CellFailed(t, w)
      BY <1>4, <2>1 DEF CellRestore
    <3> HIDE DEF w
    <3> QED BY <1>1, <1>4, <2>1, <3>1, CellFailedMoves
  <2>2. CASE o.at # None /\ Paging(t)
    <3>1. PageTaken(t, w)
      BY <1>4, <2>2 DEF CellRestore
    <3> HIDE DEF w
    <3> QED BY <1>1, <1>4, <2>2, <3>1, PageTakenMoves
  <2>3. CASE o.at # None /\ ~Paging(t)
    <3> DEFINE v == [w EXCEPT !.pc = "describe"]
    <3>1. thread' = [thread EXCEPT ![t] = v] /\ state' = state
      BY <1>4, <2>3 DEF CellRestore
    <3> HIDE DEF w
    <3>2. v \in ThreadType /\ ThreadOK(v) /\ v.n = o.n /\ v.pc = "describe" /\ v.at = o.at
          /\ v.first = o.first /\ v.try = o.try
      BY <1>1, <1>4, <2>3 DEF ThreadType, ThreadOK, Places
    <3> HIDE DEF v
    <3> QED BY <1>1, <2>3, <3>1, <3>2 DEF MovesTo
  <2> QED BY <2>1, <2>2, <2>3
<1> HIDE DEF w
<1>7. PICK v \in ThreadType :
        /\ MovesTo(t, v) /\ v.n = o.n /\ v.pc \in {"exchange", "undo", "describe"}
        /\ ~Paging(t) /\ o.first = None => 
             /\ v.first = None /\ v.pc # "undo"
             /\ v.pc = "describe" <=> o.at # None
             /\ o.at # None => v.at = o.at
  BY <1>6
<1>8. thread'[t] = v
  BY <1>7 DEF MovesTo, Inv, Typed
<1>9. ~paged => Holds(t)' = Holds(t)
  <2>1. ASSUME ~paged PROVE Holds(t)' = Holds(t)
    <3>1. CASE o.at = None
      BY <1>1, <1>5, <1>7, <1>8, <2>1, <3>1 DEF Holds
    <3>2. CASE o.at # None
      BY <1>1, <1>5, <1>7, <1>8, <2>1, <3>2 DEF Holds
    <3> QED BY <3>1, <3>2
  <2> QED BY <2>1
<1>10. GivesFree(t) = Busy(o.i) \ o.old /\ GivesFree(t)' = {}
  BY <1>1, <1>7, <1>8 DEF GivesFree
<1>11. \A f \in Frags : Free(f)' <=> Free(f) \/ f \in GivesFree(t)
  <2>1. \A f \in Frags : CellOf(f) \in Cells /\ (f \in Busy(o.i) <=> CellOf(f) = o.i)
    BY <1>1, Numbers, CellOfFrag, BusyIsCell
  <2> QED BY <1>3, <1>10, <2>1 DEF Free
<1>12. ASSUME ~paged', NEW f \in Frags PROVE
         /\ (f \in Holds(t) \/ f \in GivesFree(t) \/ Free(f) \/ f \in lost)
              <=> (f \in Holds(t)' \/ f \in GivesFree(t)' \/ Free(f)' \/ f \in lost')
         /\ f \in Holds(t)' => f \notin GivesFree(t)' /\ ~Free(f)' /\ f \notin lost'
         /\ f \in GivesFree(t)' => ~Free(f)' /\ f \notin lost'
         /\ ~(Free(f)' /\ f \in lost')
  <2>1. NotTwice(f)
    BY <1>2, <1>5, <1>12 DEF Once
  <2> QED BY <1>2, <1>9, <1>10, <1>11, <1>12, <2>1 DEF NotTwice
<1>13. ASSUME ~paged' PROVE
         /\ ~paged /\ v.n <= NBits /\ v.first = None /\ v.pc # "undo"
         /\ Holds(t)' # {} => InCell(v.at, v.n)
  <2>1. Holds(t) # {} => o.at # None
    BY DEF Holds
  <2> QED BY <1>2, <1>5, <1>7, <1>9, <1>13, <2>1
<1> QED BY <1>1, <1>2, <1>3, <1>7, <1>12, <1>13, InvMoves

(* Pages are given up.                                                     *)
LEMMA UndoCellKeeps ==
  ASSUME Inv, NEW t \in Threads, UndoCell(t)
  PROVE  Inv'
<1> DEFINE w == thread[t]
<1>1. /\ state = "running" /\ w.pc = "undo" /\ w \in ThreadType /\ ThreadOK(w)
      /\ w.try # MaxRetries /\ w.i \in Cells /\ w.count \in Cells /\ w.n \in Sizes
      /\ w.old = {}
  BY DEF UndoCell, At, Inv, Typed, ThreadType, ThreadOK
<1>2. /\ descr' = descr /\ live' = live /\ lost' = lost /\ paged' = paged
      /\ cell' = [cell EXCEPT ![w.count] = {}]
  BY DEF UndoCell
<1>3. /\ lost' \subseteq Frags /\ paged' \in BOOLEAN /\ cell' \in [Cells -> SUBSET Int]
      /\ \A c \in Cells : cell'[c] \subseteq Busy(c)
  BY <1>1, <1>2 DEF Inv, Typed
<1>4. paged
  BY <1>1, InOneCell
<1>5. \E v \in ThreadType : MovesTo(t, v)
  <2>1. CASE w.count < w.i
    <3> DEFINE v == [w EXCEPT !.count = @ + 1]
    <3>1. w.count + 1 \in Cells
      <4>1. NumCells \in Nat
        BY Numbers
      <4> QED BY <1>1, <2>1, <4>1 DEF Cells
    <3>2. v \in ThreadType /\ ThreadOK(v) /\ v.try = w.try
      BY <1>1, <3>1 DEF ThreadType, ThreadOK
    <3>3. thread' = [thread EXCEPT ![t] = v] /\ state' = state
      BY <1>1, <2>1 DEF UndoCell, Inv, Typed, ThreadType
    <3> QED BY <1>1, <3>2, <3>3 DEF MovesTo
  <2>2. CASE ~(w.count < w.i)
    <3> DEFINE x == [w EXCEPT !.count = 0, !.first = None]
    <3>1. x \in ThreadType /\ x.n = w.n /\ x.old = {} /\ x.try = w.try
      BY <1>1 DEF ThreadType
    <3>2. NextCell(t, x)
      BY <2>2 DEF UndoCell
    <3> HIDE DEF x
    <3> QED BY <1>1, <3>1, <3>2, NextCellMoves
  <2> QED BY <2>1, <2>2
<1> QED BY <1>1, <1>2, <1>3, <1>4, <1>5, InvMoves

(* A region is cleared in its cell.                                        *)
LEMMA ClearBitsKeeps ==
  ASSUME Inv, NEW t \in Threads, ClearBits(t)
  PROVE  Inv'
<1> DEFINE w == thread[t]
           c == CellOf(w.at)
<1>1. /\ state = "running" /\ w.pc = "clear" /\ w \in ThreadType /\ ThreadOK(w)
      /\ w.at \in Frags /\ w.n \in Sizes /\ Region(w.at, w.n) \subseteq Frags
  BY DEF ClearBits, At, Inv, Typed, ThreadType, ThreadOK
<1>2. PICK mask \in Cleared(w) :
        /\ cell' = [cell EXCEPT ![c] = @ \ mask]
        /\ lost' = lost \cup (Region(w.at, w.n) \ mask)
  BY DEF ClearBits
<1>3. /\ descr' = descr /\ live' = live /\ paged' = paged /\ state' = state
      /\ thread' = [thread EXCEPT ![t] = Idle]
  BY DEF ClearBits
<1>4. c \in Cells
  BY <1>1, CellOfFrag
<1>5. /\ lost' \subseteq Frags /\ paged' \in BOOLEAN /\ cell' \in [Cells -> SUBSET Int]
      /\ \A d \in Cells : cell'[d] \subseteq Busy(d)
      /\ \A d \in Cells : cell'[d] = IF d = c THEN cell[d] \ mask ELSE cell[d]
  BY <1>1, <1>2, <1>3, <1>4 DEF Inv, Typed
<1>6. MovesTo(t, Idle) /\ Idle \in ThreadType /\ Idle.n = 0 /\ Idle.first = None
      /\ Idle.pc = "idle" /\ thread'[t] = Idle
  BY <1>1, <1>3, IdleOK, Numbers DEF MovesTo, Idle, Inv, Typed
<1>7. Holds(t) = Region(w.at, w.n) /\ GivesFree(t) = {} /\ Holds(t)' = {} /\ GivesFree(t)' = {}
  BY <1>1, <1>6, Numbers DEF Holds, GivesFree
<1>8. ASSUME ~paged PROVE mask \in {Holds(t), {}} /\ Holds(t) \subseteq Busy(c)
  <2>1. w.at \in Region(w.at, w.n)
    <3>1. w.n \in Nat \ {0}
      BY <1>1, Numbers
    <3> QED BY <1>1, <3>1 DEF Region, Frags
  <2>2. Holds(t) \subseteq Busy(c)
    BY <1>7, <1>8, <2>1, InOneCell DEF InCell
  <2>3. w.at \in Nat
    BY <1>1 DEF Frags
  <2>4. CASE w.n = NBits
    <3>1. Region(w.at, w.n) = Busy(c)
      BY <1>7, <2>2, <2>3, <2>4, WholeCell
    <3> QED BY <1>2, <1>7, <2>2, <2>4, <3>1 DEF Cleared
  <2>5. CASE w.n # NBits
    BY <1>2, <1>7, <2>2, <2>5 DEF Cleared
  <2> QED BY <2>4, <2>5
<1>9. ASSUME ~paged, NEW f \in Frags PROVE Free(f)' <=> Free(f) \/ f \in mask
  <2>1. CellOf(f) \in Cells /\ (f \in Busy(c) <=> CellOf(f) = c)
    BY <1>4, Numbers, CellOfFrag, BusyIsCell
  <2> QED BY <1>5, <1>8, <1>9, <2>1 DEF Free
<1>10. ASSUME ~paged', NEW f \in Frags PROVE
         /\ (f \in Holds(t) \/ f \in GivesFree(t) \/ Free(f) \/ f \in lost)
              <=> (f \in Holds(t)' \/ f \in GivesFree(t)' \/ Free(f)' \/ f \in lost')
         /\ f \in Holds(t)' => f \notin GivesFree(t)' /\ ~Free(f)' /\ f \notin lost'
         /\ f \in GivesFree(t)' => ~Free(f)' /\ f \notin lost'
         /\ ~(Free(f)' /\ f \in lost')
  <2>1. NotTwice(f)
    BY <1>3, <1>10, InOneCell DEF Once
  <2>2. f \in lost' <=> f \in lost \/ f \in Holds(t) \ mask
    BY <1>2, <1>7
  <2> QED BY <1>3, <1>7, <1>8, <1>9, <1>10, <2>1, <2>2 DEF NotTwice
<1>11. ~paged' => ~paged /\ 0 <= NBits
  BY <1>3, FragAssumption
<1> QED BY <1>1, <1>3, <1>5, <1>6, <1>7, <1>10, <1>11, InvMoves

(* So are the cells of a region of several pages.                          *)
LEMMA ClearCellsKeeps ==
  ASSUME Inv, NEW t \in Threads, ClearCells(t)
  PROVE  Inv'
<1> DEFINE w == thread[t]
           v == IF w.i + 1 < w.n \div NBits THEN [w EXCEPT !.i = @ + 1] ELSE Idle
<1>1. /\ state = "running" /\ w.pc = "clear" /\ w \in ThreadType /\ ThreadOK(w)
      /\ w.try # MaxRetries /\ w.i \in Cells /\ w.at \in Frags /\ w.n \in Sizes
      /\ Region(w.at, w.n) \subseteq Frags /\ w.old = {}
  BY DEF ClearCells, At, Inv, Typed, ThreadType, ThreadOK
<1>2. /\ descr' = descr /\ live' = live /\ lost' = lost /\ paged' = paged /\ state' = state
      /\ cell' = [cell EXCEPT ![w.i] = {}] /\ thread' = [thread EXCEPT ![t] = v]
  BY DEF ClearCells
<1>3. /\ lost' \subseteq Frags /\ paged' \in BOOLEAN /\ cell' \in [Cells -> SUBSET Int]
      /\ \A c \in Cells : cell'[c] \subseteq Busy(c)
  BY <1>1, <1>2 DEF Inv, Typed
<1>4. paged
  BY InOneCell DEF ClearCells
<1>5. v \in ThreadType /\ ThreadOK(v) /\ v.try # MaxRetries
  <2>1. CASE w.i + 1 < w.n \div NBits
    <3>1. w.i + 1 \in Nat
      BY <1>1 DEF Cells
    <3>2. w.i + 1 \in Cells
      BY <1>1, <2>1, <3>1, RegionsCells
    <3> QED BY <1>1, <2>1, <3>2 DEF ThreadType, ThreadOK
  <2>2. CASE ~(w.i + 1 < w.n \div NBits)
    BY <2>2, IdleOK, Numbers DEF Idle
  <2> QED BY <2>1, <2>2
<1>6. MovesTo(t, v)
  BY <1>1, <1>2, <1>5 DEF MovesTo
<1> QED BY <1>1, <1>2, <1>3, <1>4, <1>5, <1>6, InvMoves
-----------------------------------------------------------------------------
(* A region is never empty.                                                *)
LEMMA RegionStarts ==
  ASSUME NEW at \in Frags, NEW n \in Sizes
  PROVE  /\ at \in Region(at, n) /\ at \notin Region(at + 1, n - 1)
         /\ Region(at, n) = {at} \cup Region(at + 1, n - 1)
         /\ \A f \in Region(at, n) : f - at \in Nat
<1>1. at \in Nat /\ n \in Nat \ {0}
  BY FragAssumption DEF Frags
<1> QED BY <1>1 DEF Region

(* A region found becomes a region handed out.                             *)
LEMMA DescribeKeeps ==
  ASSUME Inv, NEW t \in Threads, Describe(t)
  PROVE  Inv'
<1> DEFINE w == thread[t]
           r == [at |-> w.at, n |-> w.n]
<1>1. /\ state = "running" /\ w.pc = "describe" /\ w \in ThreadType /\ ThreadOK(w)
      /\ w.at \in Frags /\ w.at # None /\ w.n \in Sizes
  BY DEF Describe, At, Inv, Typed, ThreadType, ThreadOK
<1>2. cell' = cell /\ lost' = lost /\ paged' = paged
  BY DEF Describe
<1>3. Holds(t) = Region(w.at, w.n) /\ GivesFree(t) = {}
  BY <1>1 DEF Holds, GivesFree
<1>4. /\ w.at \in Region(w.at, w.n) /\ w.at \notin Region(w.at + 1, w.n - 1)
      /\ Region(w.at, w.n) = {w.at} \cup Region(w.at + 1, w.n - 1)
      /\ \A f \in Region(w.at, w.n) : f - w.at \in Nat
  BY <1>1, RegionStarts
<1>5. ASSUME ~paged PROVE
        /\ NoPages /\ Once /\ Descriptors /\ InCell(w.at, w.n)
        /\ \A f \in Region(w.at, w.n) : f \in Frags /\ descr[f].type = "UNALLOCATED"
  <2>1. NoPages /\ Once /\ Descriptors /\ InCell(w.at, w.n)
    BY <1>3, <1>4, <1>5, InOneCell DEF Inv
  <2>2. ASSUME NEW f \in Region(w.at, w.n)
        PROVE  f \in Frags /\ descr[f].type = "UNALLOCATED"
    <3>1. f \in Frags /\ f \in Holds(t)
      BY <1>3, <2>1, <2>2 DEF InCell
    <3>2. NotTwice(f)
      BY <2>1, <3>1 DEF Once
    <3>3. \A q \in live : f \notin Region(q.at, q.n)
      BY <3>1, <3>2 DEF NotTwice
    <3> QED BY <2>1, <3>1, <3>3 DEF Descriptors
  <2> QED BY <2>1, <2>2
<1>6. CASE ~\A f \in Region(w.at, w.n) : f \in Frags /\ descr[f].type = "UNALLOCATED"
  <2>1. state' = "descriptor in use" /\ descr' = descr /\ live' = live /\ thread' = thread
    BY <1>6 DEF Describe
  <2>2. Typed'
    BY <1>2, <2>1 DEF Inv, Typed
  <2> QED BY <1>2, <1>5, <1>6, <2>2 DEF Inv
<1>7. CASE \A f \in Region(w.at, w.n) : f \in Frags /\ descr[f].type = "UNALLOCATED"
  <2>1. /\ descr' = Described(w.at, w.n) /\ live' = live \cup {r} /\ state' = state
        /\ thread' = [thread EXCEPT ![t] = Idle]
    BY <1>7 DEF Describe
  <2>2. MovesTo(t, Idle) /\ Idle.n = 0 /\ Idle.first = None /\ Idle.pc = "idle"
    BY <1>1, <2>1, IdleOK, Numbers DEF MovesTo, Idle
  <2>3. /\ thread' \in [Threads -> ThreadType] /\ thread'[t] = Idle
        /\ \A u \in Threads : ThreadOK(thread'[u])
        /\ state' = "running" => \A u \in Threads : thread'[u].try # MaxRetries
        /\ \A u \in Threads \ {t} : /\ thread'[u] = thread[u]
                                    /\ Holds(u)' = Holds(u) /\ GivesFree(u)' = GivesFree(u)
    BY <1>1, <2>2, ThreadsMove DEF Inv
  <2>4. Holds(t)' = {} /\ GivesFree(t)' = {}
    BY <2>2, <2>3 DEF Holds, GivesFree
  <2>5. ASSUME NEW f \in Frags PROVE
          /\ f = w.at => descr'[f] = [type |-> "COMMON", n |-> w.n]
          /\ f \in Region(w.at + 1, w.n - 1) =>
               descr'[f] = [type |-> "REFERENCE", n |-> f - w.at]
          /\ f \notin Region(w.at, w.n) => descr'[f] = descr[f]
    <3>1. f = w.at \/ f \in Region(w.at + 1, w.n - 1) \/ f \notin Region(w.at, w.n)
      BY <1>4
    <3>2. descr'[f] = CASE f = w.at -> [type |-> "COMMON", n |-> w.n]
                        [] f \in Region(w.at + 1, w.n - 1) ->
                             [type |-> "REFERENCE", n |-> f - w.at]
                        [] OTHER -> descr[f]
      BY <2>1 DEF Described
    <3>3. CASE f = w.at
      BY <1>4, <3>2, <3>3
    <3>4. CASE f \in Region(w.at + 1, w.n - 1)
      BY <1>4, <3>2, <3>4
    <3>5. CASE f \notin Region(w.at, w.n)
      BY <1>4, <3>2, <3>5
    <3> QED BY <3>1, <3>3, <3>4, <3>5
  <2>6. descr' \in [Frags -> DescrType]
    <3>1. Sizes \subseteq Nat
      BY FragAssumption
    <3>2. ASSUME NEW f \in Frags PROVE descr'[f] \in DescrType
      <4>1. CASE f = w.at
        <5>1. w.n \in Nat /\ descr'[f] = [type |-> "COMMON", n |-> w.n]
          BY <1>1, <2>5, <3>1, <4>1
        <5> QED BY <5>1 DEF DescrType
      <4>2. CASE f \in Region(w.at + 1, w.n - 1)
        <5>1. f - w.at \in Nat /\ descr'[f] = [type |-> "REFERENCE", n |-> f - w.at]
          BY <1>4, <2>5, <4>2
        <5> QED BY <5>1 DEF DescrType
      <4>3. CASE f \notin Region(w.at, w.n)
        BY <2>5, <4>3 DEF Inv, Typed
      <4> QED BY <1>4, <4>1, <4>2, <4>3
    <3>3. descr' = [f \in Frags |-> descr'[f]]
      BY <2>1 DEF Described
    <3> QED BY <3>2, <3>3
  <2>7. ASSUME NEW f \in Frags, descr'[f].type = "COMMON"
        PROVE  descr'[f].n \in Sizes /\ Region(f, descr'[f].n) \subseteq Frags
    <3>1. CASE f = w.at
      <4>1. descr'[f] = [type |-> "COMMON", n |-> w.n]
        BY <2>5, <3>1
      <4> QED BY <1>1, <1>7, <3>1, <4>1
    <3>2. CASE f \in Region(w.at + 1, w.n - 1)
      <4>1. descr'[f] = [type |-> "REFERENCE", n |-> f - w.at]
        BY <2>5, <3>2
      <4> QED BY <2>7, <4>1
    <3>3. CASE f \notin Region(w.at, w.n)
      BY <2>5, <2>7, <3>3 DEF Inv, Typed
    <3> QED BY <1>4, <3>1, <3>2, <3>3
  <2>8. live' \subseteq [at : Frags, n : Sizes]
    BY <1>1, <2>1 DEF Inv, Typed
  <2>9. Typed'
    BY <1>2, <2>1, <2>3, <2>6, <2>7, <2>8 DEF Inv, Typed
  <2>10. ASSUME ~paged' PROVE NoPages'
    <3>1. NoPages /\ InCell(w.at, w.n)
      BY <1>2, <1>5, <2>10
    <3>2. \A q \in live' : InCell(q.at, q.n)
      BY <2>1, <3>1 DEF NoPages
    <3>3. \A u \in Threads : 
            /\ thread'[u].n <= NBits /\ thread'[u].first = None /\ thread'[u].pc # "undo"
            /\ Holds(u)' # {} => InCell(thread'[u].at, thread'[u].n)
      BY <2>2, <2>3, <2>4, <3>1, FragAssumption DEF NoPages
    <3> QED BY <3>2, <3>3 DEF NoPages, InCell
  <2>11. ASSUME ~paged' PROVE Once'
    <3> SUFFICES ASSUME NEW f \in Frags PROVE Somewhere(f)' /\ NotTwice(f)'
      BY DEF Once
    <3>1. Somewhere(f) /\ NotTwice(f)
      BY <1>2, <1>5, <2>11 DEF Once
    <3>2. Free(f)' = Free(f)
      BY <1>2 DEF Free
    <3>3. r \in live' /\ (f \in Region(r.at, r.n) <=> f \in Holds(t))
      BY <1>3, <2>1
    <3>4. live' = live \cup {r}
      BY <2>1
    <3> HIDE DEF r
    <3>5. Somewhere(f)'
      BY <1>2, <1>3, <2>3, <2>4, <3>1, <3>2, <3>3, <3>4 DEF Somewhere
    <3>6. NotTwice(f)'
      BY <1>2, <1>3, <2>3, <2>4, <3>1, <3>2, <3>3, <3>4 DEF NotTwice
    <3> QED BY <3>5, <3>6
  <2>12. ASSUME ~paged' PROVE Descriptors'
    <3>1. Descriptors /\ Once /\ InCell(w.at, w.n)
      BY <1>2, <1>5, <2>12
    <3>2. ASSUME NEW q \in live', q \notin live PROVE Describes(q)'
      <4>1. q.at = w.at /\ q.n = w.n
        BY <2>1, <3>2
      <4>2. SUFFICES ASSUME NEW f \in Region(w.at, w.n)
                     PROVE  descr'[f] = IF f = w.at THEN [type |-> "COMMON", n |-> w.n]
                                        ELSE [type |-> "REFERENCE", n |-> f - w.at]
        BY <4>1 DEF Describes
      <4>3. f \in Frags
        BY <1>7
      <4> QED BY <1>4, <2>5, <4>3
    <3>3. ASSUME NEW q \in live PROVE Describes(q)'
      <4>1. Describes(q)
        BY <3>1 DEF Descriptors
      <4>2. ASSUME NEW f \in Region(q.at, q.n) PROVE f \in Frags /\ descr'[f] = descr[f]
        <5>1. f \in Frags
          BY <1>2, <1>5, <2>12 DEF NoPages, InCell
        <5>2. f \notin Region(w.at, w.n)
          BY <1>3, <3>1, <5>1 DEF Once, NotTwice
        <5> QED BY <1>4, <2>5, <5>1, <5>2
      <4> QED BY <4>1, <4>2 DEF Describes
    <3>4. ASSUME NEW f \in Frags, descr'[f].type # "UNALLOCATED"
          PROVE  \E q \in live' : f \in Region(q.at, q.n)
      <4>1. CASE f \in Region(w.at, w.n)
        <5>1. r \in live' /\ r.at = w.at /\ r.n = w.n
          BY <2>1
        <5> QED BY <4>1, <5>1
      <4>2. CASE f \notin Region(w.at, w.n)
        BY <1>4, <2>1, <2>5, <3>1, <3>4, <4>2 DEF Descriptors
      <4> QED BY <4>1, <4>2
    <3>5. state' # "descriptor in use"
      BY <1>1, <2>1
    <3>6. \A q \in live' : Describes(q)'
      BY <3>2, <3>3
    <3> QED BY <3>4, <3>5, <3>6 DEF Descriptors
  <2> QED BY <2>9, <2>10, <2>11, <2>12 DEF Inv
<1> QED BY <1>6, <1>7

(* A region handed out is given up: its descriptors go first.              *)
LEMMA FragFreeKeeps ==
  ASSUME Inv, NEW t \in Threads, mp_frag_free(t)
  PROVE  Inv'
<1>1. PICK r \in live :
        LET d == descr[r.at]
            types == Types([at |-> r.at, n |-> d.n])
        IN /\ live' = live \ {r}
           /\ IF d.type # "COMMON" THEN UNCHANGED <<descr, thread>>
              ELSE /\ descr' = [f \in Frags |->
                        IF types[f] = "UNALLOCATED" THEN Unallocated ELSE descr[f]]
                   /\ thread' = [thread EXCEPT ![t] =
                        [Idle EXCEPT !.pc = "clear", !.at = r.at, !.n = d.n]]
  BY DEF mp_frag_free
<1> DEFINE d == descr[r.at]
<1>2. /\ state = "running" /\ thread[t].pc = "idle" /\ state' = state /\ cell' = cell
      /\ lost' = lost /\ paged' = paged
  BY DEF mp_frag_free, At
<1>3. r.at \in Frags /\ r.n \in Sizes /\ r.at \in Region(r.at, r.n) /\ live' = live \ {r}
  BY <1>1, RegionStarts DEF Inv, Typed
<1>4. ASSUME ~paged PROVE
        NoPages /\ Once /\ Descriptors /\ InCell(r.at, r.n) /\ d.type = "COMMON" /\ d.n = r.n
  <2>1. NoPages /\ Once /\ Descriptors /\ Describes(r)
    BY <1>4 DEF Inv, Descriptors
  <2>2. d = [type |-> "COMMON", n |-> r.n]
    BY <1>3, <2>1 DEF Describes
  <2> QED BY <2>1, <2>2 DEF NoPages
<1>5. CASE d.type # "COMMON"
  <2>1. descr' = descr /\ thread' = thread
    BY <1>1, <1>5
  <2>2. Typed'
    BY <1>2, <1>3, <2>1 DEF Inv, Typed
  <2> QED BY <1>2, <1>4, <1>5, <2>2 DEF Inv
<1>6. CASE d.type = "COMMON"
  <2> DEFINE v == [Idle EXCEPT !.pc = "clear", !.at = r.at, !.n = d.n]
  <2>1. d \in DescrType /\ d.n \in Sizes /\ Region(r.at, d.n) \subseteq Frags
    BY <1>3, <1>6 DEF Inv, Typed
  <2>2. thread' = [thread EXCEPT ![t] = v]
    BY <1>1, <1>6
  <2>3. v \in ThreadType /\ ThreadOK(v) /\ v.try = 0 /\ v.n = d.n /\ v.at = r.at
        /\ v.pc = "clear" /\ v.first = None
    <3>1. r.at # None
      BY <1>3, Numbers
    <3> QED BY <1>3, <2>1, <3>1, IdleOK DEF ThreadType, ThreadOK, Idle, Places
  <2>4. MovesTo(t, v)
    BY <1>2, <2>2, <2>3, Numbers DEF MovesTo
  <2> HIDE DEF v
  <2>5. /\ thread' \in [Threads -> ThreadType] /\ thread'[t] = v
        /\ \A u \in Threads : ThreadOK(thread'[u])
        /\ state' = "running" => \A u \in Threads : thread'[u].try # MaxRetries
        /\ \A u \in Threads \ {t} : /\ thread'[u] = thread[u]
                                    /\ Holds(u)' = Holds(u) /\ GivesFree(u)' = GivesFree(u)
    BY <1>2, <2>4, ThreadsMove DEF Inv
  <2>6. /\ Holds(t) = {} /\ GivesFree(t) = {}
        /\ Holds(t)' = Region(r.at, d.n) /\ GivesFree(t)' = {}
    <3>1. v.at # None
      BY <1>3, <2>3, Numbers
    <3> QED BY <1>2, <2>3, <2>5, <3>1 DEF Holds, GivesFree
  <2>7. ASSUME NEW f \in Frags
        PROVE  descr'[f] = IF f \in Region(r.at, d.n) \/ descr[f].type = "UNALLOCATED"
                           THEN Unallocated ELSE descr[f]
    <3>1. Types([at |-> r.at, n |-> d.n])[f] =
            IF f \in Region(r.at, d.n) THEN "UNALLOCATED" ELSE descr[f].type
      BY DEF Types
    <3>2. descr'[f] = IF Types([at |-> r.at, n |-> d.n])[f] = "UNALLOCATED"
                      THEN Unallocated ELSE descr[f]
      BY <1>1, <1>6
    <3> QED BY <3>1, <3>2
  <2>8. descr' \in [Frags -> DescrType]
    <3>1. Unallocated \in DescrType
      BY DEF Unallocated, DescrType
    <3>2. \A f \in Frags : descr'[f] \in DescrType
      BY <2>7, <3>1 DEF Inv, Typed
    <3>3. descr' = [f \in Frags |-> descr'[f]]
      BY <1>1, <1>6
    <3> QED BY <3>2, <3>3
  <2>9. ASSUME NEW f \in Frags, descr'[f].type # "UNALLOCATED"
        PROVE  descr'[f] = descr[f] /\ f \notin Region(r.at, d.n)
    BY <2>7, <2>9 DEF Unallocated
  <2>10. \A f \in Frags : descr'[f].type = "COMMON" =>
           descr'[f].n \in Sizes /\ Region(f, descr'[f].n) \subseteq Frags
    BY <2>9 DEF Inv, Typed
  <2>11. Typed'
    BY <1>2, <1>3, <2>5, <2>8, <2>10 DEF Inv, Typed
  <2>12. ASSUME ~paged' PROVE NoPages'
    <3>1. NoPages /\ InCell(r.at, r.n) /\ d.n = r.n
      BY <1>2, <1>4, <2>12
    <3>2. \A q \in live' : InCell(q.at, q.n)
      BY <1>3, <3>1 DEF NoPages
    <3>3. \A u \in Threads : 
            /\ thread'[u].n <= NBits /\ thread'[u].first = None /\ thread'[u].pc # "undo"
            /\ Holds(u)' # {} => InCell(thread'[u].at, thread'[u].n)
      BY <2>3, <2>5, <2>6, <3>1 DEF NoPages, InCell
    <3> QED BY <3>2, <3>3 DEF NoPages, InCell
  <2>13. ASSUME ~paged' PROVE Once'
    <3> SUFFICES ASSUME NEW f \in Frags PROVE Somewhere(f)' /\ NotTwice(f)'
      BY DEF Once
    <3>1. Somewhere(f) /\ NotTwice(f) /\ d.n = r.n
      BY <1>2, <1>4, <2>13 DEF Once
    <3>2. Free(f)' = Free(f)
      BY <1>2 DEF Free
    <3>3. Holds(t)' = Region(r.at, r.n)
      BY <2>6, <3>1
    <3>4. Somewhere(f)'
      BY <1>2, <1>3, <2>5, <2>6, <3>1, <3>2, <3>3 DEF Somewhere
    <3>5. NotTwice(f)'
      BY <1>2, <1>3, <2>5, <2>6, <3>1, <3>2, <3>3 DEF NotTwice
    <3> QED BY <3>4, <3>5
  <2>14. ASSUME ~paged' PROVE Descriptors'
    <3>1. NoPages /\ Once /\ Descriptors /\ d.n = r.n
      BY <1>2, <1>4, <2>14
    <3>2. ASSUME NEW q \in live' PROVE Describes(q)'
      <4>1. q \in live /\ q # r /\ Describes(q)
        BY <1>3, <3>1, <3>2 DEF Descriptors
      <4>2. ASSUME NEW f \in Region(q.at, q.n) PROVE f \in Frags /\ descr'[f] = descr[f]
        <5>1. f \in Frags
          BY <3>1, <4>1 DEF NoPages, InCell
        <5>2. f \notin Region(r.at, d.n)
          BY <3>1, <4>1, <5>1 DEF Once, NotTwice
        <5>3. descr[f].type # "UNALLOCATED"
          <6>1. descr[f] = IF f = q.at THEN [type |-> "COMMON", n |-> q.n]
                           ELSE [type |-> "REFERENCE", n |-> f - q.at]
            BY <4>1 DEF Describes
          <6> QED BY <6>1
        <5> QED BY <2>7, <5>1, <5>2, <5>3
      <4> QED BY <4>1, <4>2 DEF Describes
    <3>3. ASSUME NEW f \in Frags, descr'[f].type # "UNALLOCATED"
          PROVE  \E q \in live' : f \in Region(q.at, q.n)
      <4>1. descr[f].type # "UNALLOCATED" /\ f \notin Region(r.at, r.n)
        BY <2>9, <3>1, <3>3
      <4> QED BY <1>3, <3>1, <4>1 DEF Descriptors
    <3>4. state' # "descriptor in use"
      BY <1>2
    <3> QED BY <3>2, <3>3, <3>4 DEF Descriptors
  <2> QED BY <2>11, <2>12, <2>13, <2>14 DEF Inv
<1> QED BY <1>5, <1>6
-----------------------------------------------------------------------------
(* The invariant holds at first: everything is free.                       *)
LEMMA InvInit == Init => Inv
<1> SUFFICES ASSUME Init PROVE Inv
  OBVIOUS
<1>1. /\ \A t \in Threads : thread[t] = Idle /\ Holds(t) = {} /\ GivesFree(t) = {}
      /\ \A c \in Cells : cell[c] = {}
  BY DEF Init, Idle, Holds, GivesFree
<1>2. Idle \in ThreadType /\ ThreadOK(Idle) /\ Idle.n = 0 /\ Idle.first = None
      /\ Idle.pc = "idle" /\ Idle.try # MaxRetries
  BY IdleOK, Numbers DEF Idle
<1>3. Unallocated \in DescrType /\ Unallocated.type = "UNALLOCATED"
  BY DEF Unallocated, DescrType
<1>4. Typed
  BY <1>1, <1>2, <1>3 DEF Init, Typed
<1>5. NoPages
  BY <1>1, <1>2, FragAssumption DEF Init, NoPages
<1>6. Once
  BY <1>1, CellOfFrag DEF Init, Once, Somewhere, NotTwice, Free
<1>7. Descriptors
  BY <1>3 DEF Init, Descriptors
<1> QED BY <1>4, <1>5, <1>6, <1>7 DEF Inv

(* Every step keeps it.                                                    *)
LEMMA InvNext == Inv /\ [Next]_vars => Inv'
<1> SUFFICES ASSUME Inv, [Next]_vars PROVE Inv'
  OBVIOUS
<1>1. CASE UNCHANGED vars
  <2>1. Typed' = Typed
    BY <1>1 DEF vars, Typed
  <2>2. NoPages' = NoPages
    BY <1>1 DEF vars, NoPages, Holds
  <2>3. Once' = Once
    BY <1>1 DEF vars, Once, Somewhere, NotTwice, Free, Holds, GivesFree
  <2>4. Descriptors' = Descriptors
    BY <1>1 DEF vars, Descriptors, Describes
  <2>5. paged' = paged
    BY <1>1 DEF vars
  <2> QED BY <2>1, <2>2, <2>3, <2>4, <2>5 DEF Inv
<1>2. ASSUME NEW t \in Threads, Step(t) PROVE Inv'
  BY <1>2, FragAllocKeeps, CellExchangeKeeps, CellRestoreKeeps, UndoCellKeeps,
     DescribeKeeps, FragFreeKeeps, ClearBitsKeeps, ClearCellsKeeps DEF Step
<1> QED BY <1>1, <1>2 DEF Next

(* A fragment of one place has one entry in the places of the property.    *)
LEMMA OncePlace == Inv => EachFragmentOnce
<1> SUFFICES ASSUME Inv PROVE EachFragmentOnce
  OBVIOUS
<1>1. TypeOK
  <2>1. \A t \in Threads : thread[t] \in ThreadType /\ ThreadOK(thread[t])
    BY DEF Inv, Typed
  <2> QED BY <2>1 DEF Inv, Typed, TypeOK, ThreadType, ThreadOK, DescrType
<1>2. ASSUME ~paged, NEW f \in Frags PROVE \E p \in PlacesOf(f) : PlacesOf(f) = {p}
  <2>1. Somewhere(f) /\ NotTwice(f)
    BY <1>2 DEF Inv, Once
  <2>2. CellOf(f) \in Cells /\ \A c \in Cells : f \in Busy(c) <=> c = CellOf(f)
    BY Numbers, CellOfFrag, BusyIsCell
  <2>3. \A p : p \in PlacesOf(f) <=>
          \/ \E r \in live : p = <<"live", r>> /\ f \in Region(r.at, r.n)
          \/ \E t \in Threads : p = <<"held", t>> /\ f \in Holds(t)
          \/ \E t \in Threads : p = <<"given back", t>> /\ f \in GivesFree(t)
          \/ p = <<"free", CellOf(f)>> /\ Free(f)
          \/ p = <<"lost", f>> /\ f \in lost
    BY <2>2 DEF PlacesOf, Free
  <2>4. \E p : p \in PlacesOf(f)
    BY <2>1, <2>3 DEF Somewhere
  <2>5. ASSUME NEW p \in PlacesOf(f), NEW q \in PlacesOf(f) PROVE p = q
    <3>1. CASE \E r \in live : p = <<"live", r>> /\ f \in Region(r.at, r.n)
      BY <2>1, <2>3, <3>1 DEF NotTwice
    <3>2. CASE \E t \in Threads : p = <<"held", t>> /\ f \in Holds(t)
      BY <2>1, <2>3, <3>2 DEF NotTwice
    <3>3. CASE \E t \in Threads : p = <<"given back", t>> /\ f \in GivesFree(t)
      BY <2>1, <2>3, <3>3 DEF NotTwice
    <3>4. CASE p = <<"free", CellOf(f)>> /\ Free(f)
      BY <2>1, <2>3, <3>4 DEF NotTwice
    <3>5. CASE p = <<"lost", f>> /\ f \in lost
      BY <2>1, <2>3, <3>5 DEF NotTwice
    <3> QED BY <2>3, <3>1, <3>2, <3>3, <3>4, <3>5
  <2> QED BY <2>4, <2>5
<1> QED BY <1>1, <1>2 DEF EachFragmentOnce

(* So do the descriptors match.                                            *)
LEMMA DescribedRegions == Inv => DescriptorsMatch
<1> SUFFICES ASSUME Inv, ~paged PROVE
      /\ state # "descriptor in use"
      /\ \A r \in live : /\ descr[r.at] = [type |-> "COMMON", n |-> r.n]
                         /\ \A f \in Region(r.at, r.n) : mp_frag_get_descr(f) = r.at
      /\ \A f \in Frags : mp_frag_get_descr(f) # None =>
           \E r \in live : f \in Region(r.at, r.n)
  BY DEF DescriptorsMatch
<1>1. Descriptors /\ NoPages
  BY DEF Inv
<1>2. ASSUME NEW r \in live PROVE
        /\ descr[r.at] = [type |-> "COMMON", n |-> r.n]
        /\ \A f \in Region(r.at, r.n) : mp_frag_get_descr(f) = r.at
  <2>1. Describes(r) /\ r.at \in Frags /\ r.n \in Sizes
    BY <1>1 DEF Descriptors, Inv, Typed
  <2>2. r.at \in Region(r.at, r.n) /\ \A f \in Region(r.at, r.n) : f - r.at \in Nat
    BY <2>1, RegionStarts
  <2>3. ASSUME NEW f \in Region(r.at, r.n), f # r.at PROVE mp_frag_get_descr(f) = r.at
    <3>1. descr[f] = [type |-> "REFERENCE", n |-> f - r.at]
      BY <2>1, <2>3 DEF Describes
    <3>2. f \in Int /\ r.at \in Int
      BY <2>1 DEF Region, Frags
    <3>3. f - (f - r.at) = r.at
      BY <3>2
    <3> QED BY <3>1, <3>3 DEF mp_frag_get_descr
  <2>4. descr[r.at] = [type |-> "COMMON", n |-> r.n]
    BY <2>1, <2>2 DEF Describes
  <2>5. mp_frag_get_descr(r.at) = r.at
    BY <2>4 DEF mp_frag_get_descr
  <2> QED BY <2>3, <2>4, <2>5
<1>3. ASSUME NEW f \in Frags, mp_frag_get_descr(f) # None
      PROVE  \E r \in live : f \in Region(r.at, r.n)
  <2>1. descr[f].type # "UNALLOCATED"
    BY <1>3 DEF mp_frag_get_descr
  <2> QED BY <1>1, <2>1 DEF Descriptors
<1> QED BY <1>1, <1>2, <1>3 DEF Descriptors

(* mp_bitmap_cell_alloc, mp_bitmap_free: no interleaving of their atomic   *)
(* operations hands a fragment out twice or leaks one, but by the free of  *)
(* a whole cell, however many threads and fragments there are.             *)
THEOREM FragmentsOnce == Spec => []EachFragmentOnce
<1>1. Spec => []Inv
  BY InvInit, InvNext, PTL DEF Spec
<1> QED BY <1>1, OncePlace, PTL

(* mp_frag_alloc's assertions hold, and mp_frag_get_descr finds the region *)
(* of every fragment handed out.                                           *)
THEOREM RegionsDescribed == Spec => []DescriptorsMatch
<1>1. Spec => []Inv
  BY InvInit, InvNext, PTL DEF Spec
<1> QED BY <1>1, DescribedRegions, PTL
=============================================================================
