-------------------------- MODULE AgentClientProofs --------------------------
(***************************************************************************)
(* Proofs about the agent's client for any number of calling threads,      *)
(* calls, connections and commands, and any size of the hash map: each     *)
(* call in progress has its handler in the map, answers reach their calls, *)
(* and commands are replied to in order.                                   *)
(***************************************************************************)
EXTENDS AgentClient, FiniteSetTheorems, FunctionTheorems, SequenceTheorems,
        WellFoundedInduction, TLAPS

(* A set of naturals that is not empty has a least element.                *)
LEMMA LeastNatural ==
  ASSUME NEW T \in SUBSET Nat, T # {}
  PROVE  \E x \in T : \A y \in T : ~(y < x)
<1> DEFINE Segments == {0 .. x : x \in T}
<1>1. Segments \subseteq FiniteSubsetsOf(Nat) /\ Segments # {}
  <2>1. \A x \in T : 0 .. x \in SUBSET Nat /\ IsFiniteSet(0 .. x)
    BY FS_Interval
  <2> QED BY <2>1 DEF FiniteSubsetsOf
<1>2. PICK X \in Segments : \A Y \in Segments : ~(<<Y, X>> \in StrictSubsetOrdering(Nat))
  <2> HIDE DEF Segments
  <2> QED BY <1>1, WFMin, FS_StrictSubsetOrderingWellFounded
<1>3. PICK x \in T : X = 0 .. x
  BY <1>2
<1>4. ASSUME NEW y \in T, y < x PROVE FALSE
  <2>1. 0 .. y \subseteq 0 .. x /\ 0 .. y # 0 .. x
    <3>1. x \in 0 .. x /\ x \notin 0 .. y
      BY <1>4
    <3> QED BY <1>4, <3>1
  <2>2. 0 .. y \in SUBSET Nat /\ 0 .. x \in SUBSET Nat
    OBVIOUS
  <2>3. <<0 .. y, 0 .. x>> \in StrictSubsetOrdering(Nat)
    <3>1. \A A, B \in SUBSET Nat : A \subseteq B /\ A # B => <<A, B>> \in StrictSubsetOrdering(Nat)
      BY DEF StrictSubsetOrdering
    <3> QED BY <2>1, <2>2, <3>1
  <2>4. 0 .. y \in Segments
    OBVIOUS
  <2> QED BY <1>2, <1>3, <2>3, <2>4
<1> QED BY <1>4

(* The code's choice of the least is one of them.                          *)
LEMMA LeastIs ==
  ASSUME NEW T \in SUBSET Nat, T # {}
  PROVE  \E x \in T : x = CHOOSE i \in T : \A j \in T : i <= j
<1>1. PICK x \in T : \A y \in T : ~(y < x)
  BY LeastNatural
<1>2. \A y \in T : x <= y
  BY <1>1
<1> QED BY <1>2, Zenon
-----------------------------------------------------------------------------
(* Walks.                                                                  *)
Links == Objects \cup {Null}
Buckets == 0 .. NBuckets - 1
MapType == [head : [Buckets -> Links], next : [Objects -> Links]]

(* The k-th object of a walk, if those before are given by g.              *)
NthOf(m, o, g, k) ==
  IF k = 1 THEN o ELSE IF g[k - 1] = Null THEN Null ELSE m.next[g[k - 1]]

(* Nobody walks beyond the links: the definition of a walk has a meaning.  *)
LEMMA WalkExists ==
  ASSUME NEW m \in MapType, NEW o \in Links
  PROVE  \E g : g = [k \in Objects |-> NthOf(m, o, g, k)]
<1> DEFINE Goes(n) == \E g \in [1 .. n -> Links] : \A k \in 1 .. n : g[k] = NthOf(m, o, g, k)
           Bad == {n \in Nat : ~Goes(n)}
<1>1. Goes(0)
  <2>1. [k \in 1 .. 0 |-> Null] \in [1 .. 0 -> Links] /\ 1 .. 0 = {}
    OBVIOUS
  <2> QED BY <2>1
<1>2. ASSUME NEW n \in Nat, Goes(n) PROVE Goes(n + 1)
  <2>1. PICK g \in [1 .. n -> Links] : \A k \in 1 .. n : g[k] = NthOf(m, o, g, k)
    BY <1>2
  <2>2. PICK x \in Links : x = NthOf(m, o, g, n + 1)
    <3>1. NthOf(m, o, g, n + 1) \in Links
      <4>1. CASE n = 0
        BY <4>1 DEF NthOf
      <4>2. CASE n # 0
        <5>1. n \in 1 .. n /\ (n + 1) - 1 = n /\ n + 1 # 1
          BY <4>2
        <5>2. g[n] \in Links
          BY <5>1
        <5> QED BY <5>1, <5>2 DEF NthOf, MapType, Links
      <4> QED BY <4>1, <4>2
    <3> QED BY <3>1
  <2> DEFINE h == [k \in 1 .. n + 1 |-> IF k <= n THEN g[k] ELSE x]
  <2>3. h \in [1 .. n + 1 -> Links]
    OBVIOUS
  <2>4. \A k \in 1 .. n + 1 : h[k] = NthOf(m, o, h, k)
    <3> SUFFICES ASSUME NEW k \in 1 .. n + 1 PROVE h[k] = NthOf(m, o, h, k)
      OBVIOUS
    <3>1. k = 1 \/ (k - 1 \in 1 .. n /\ h[k - 1] = g[k - 1])
      OBVIOUS
    <3>2. NthOf(m, o, h, k) = NthOf(m, o, g, k)
      BY <3>1 DEF NthOf
    <3>3. CASE k <= n
      <4>1. k \in 1 .. n /\ h[k] = g[k]
        BY <3>3
      <4> QED BY <2>1, <3>2, <4>1
    <3>4. CASE ~(k <= n)
      <4>1. k = n + 1 /\ h[k] = x
        BY <3>4
      <4> QED BY <2>2, <3>2, <4>1
    <3> QED BY <3>3, <3>4
  <2> HIDE DEF h
  <2> QED BY <2>3, <2>4
<1> HIDE DEF Goes
<1>3. Bad = {}
  <2> SUFFICES ASSUME Bad # {} PROVE FALSE
    OBVIOUS
  <2>1. Bad \in SUBSET Nat
    OBVIOUS
  <2>2. PICK n \in Bad : \A k \in Bad : ~(k < n)
    <3> HIDE DEF Bad
    <3> QED BY <2>1, LeastNatural
  <2>3. n \in Nat /\ n # 0 /\ ~Goes(n)
    BY <1>1
  <2>4. n - 1 \in Nat /\ n - 1 < n /\ (n - 1) + 1 = n
    BY <2>3
  <2>5. Goes(n - 1)
    BY <2>2, <2>4
  <2> QED BY <1>2, <2>3, <2>4, <2>5
<1>4. Goes(NObjects)
  BY <1>3, MapAssumption
<1>5. PICK g \in [1 .. NObjects -> Links] :
        \A k \in 1 .. NObjects : g[k] = NthOf(m, o, g, k)
  BY <1>4 DEF Goes
<1>6. g = [k \in Objects |-> NthOf(m, o, g, k)]
  BY <1>5 DEF Objects
<1> QED BY <1>6

(* A walk begins where it is told and follows the links.                   *)
LEMMA WalkSteps ==
  ASSUME NEW m \in MapType, NEW o \in Links
  PROVE  Walk(m, o) = [k \in Objects |-> NthOf(m, o, Walk(m, o), k)]
<1> DEFINE P(f) == f = [k \in Objects |-> NthOf(m, o, f, k)]
<1>1. Walk(m, o) = CHOOSE f : P(f)
  BY DEF Walk, NthOf
<1>2. \E f : P(f)
  BY WalkExists
<1> HIDE DEF P
<1>3. P(Walk(m, o))
  BY <1>1, <1>2
<1> QED BY <1>3 DEF P

(* It meets objects, or ends.                                              *)
LEMMA WalkType ==
  ASSUME NEW m \in MapType, NEW o \in Links
  PROVE  Walk(m, o) \in [Objects -> Links]
<1> DEFINE w == Walk(m, o)
           Bad == {k \in Objects : w[k] \notin Links}
<1>1. w = [k \in Objects |-> NthOf(m, o, w, k)]
  BY WalkSteps
<1> HIDE DEF w
<1>2. Bad = {}
  <2> SUFFICES ASSUME Bad # {} PROVE FALSE
    OBVIOUS
  <2>1. Bad \in SUBSET Nat
    BY DEF Objects
  <2>2. PICK n \in Bad : \A k \in Bad : ~(k < n)
    <3> HIDE DEF Bad
    <3> QED BY <2>1, LeastNatural
  <2>3. w[n] = NthOf(m, o, w, n) /\ n \in Objects /\ w[n] \notin Links
    BY <1>1
  <2>4. CASE n = 1
    BY <2>3, <2>4 DEF NthOf
  <2>5. CASE n # 1
    <3>1. n - 1 \in Objects /\ n - 1 < n
      BY <2>3, <2>5, MapAssumption DEF Objects
    <3>2. w[n - 1] \in Links
      BY <2>2, <3>1
    <3> QED BY <2>3, <2>5, <3>2 DEF NthOf, MapType, Links
  <2> QED BY <2>4, <2>5
<1> QED BY <1>1, <1>2 DEF w
-----------------------------------------------------------------------------
(* Chains.                                                                 *)

(* c is what a walk from o should meet: no object twice, each linked to    *)
(* the next, the last one to none.                                         *)
ChainFrom(m, o, c) ==
  /\ c \in Seq(Objects)
  /\ \A j, k \in 1 .. Len(c) : c[j] = c[k] => j = k
  /\ IF Len(c) = 0 THEN o = Null ELSE c[1] = o /\ m.next[c[Len(c)]] = Null
  /\ \A k \in 1 .. Len(c) - 1 : m.next[c[k]] = c[k + 1]

(* A chain is not longer than there are objects.                           *)
LEMMA ChainFits ==
  ASSUME NEW m, NEW o, NEW c, ChainFrom(m, o, c)
  PROVE  Len(c) \in 0 .. NObjects
<1>1. /\ Len(c) \in Nat /\ NObjects \in Nat
      /\ \A k \in 1 .. Len(c) : c[k] \in 1 .. NObjects
      /\ \A j, k \in 1 .. Len(c) : c[j] = c[k] => j = k
  BY MapAssumption DEF ChainFrom, Objects
<1> DEFINE f == [k \in 1 .. Len(c) |-> c[k]]
<1>2. f \in Injection(1 .. Len(c), 1 .. NObjects)
  BY <1>1 DEF Injection, IsInjective
<1>3. Len(c) <= NObjects
  BY <1>1, <1>2, Fun_NatInjLeq DEF ExistsInjection
<1> QED BY <1>1, <1>3

(* hash_map_walk meets just the objects of the chain, in its order.        *)
LEMMA WalkIsChain ==
  ASSUME NEW m \in MapType, NEW o \in Links, NEW c, ChainFrom(m, o, c)
  PROVE  From(m, o) = c
<1> DEFINE w == Walk(m, o)
<1>1. /\ w \in [Objects -> Links]
      /\ \A k \in Objects : w[k] = NthOf(m, o, w, k)
  <2>1. w = [k \in Objects |-> NthOf(m, o, w, k)]
    BY WalkSteps
  <2>2. w \in [Objects -> Links]
    BY WalkType
  <2> HIDE DEF w
  <2> QED BY <2>1, <2>2
<1>2. From(m, o) = [k \in {j \in Objects : w[j] # Null} |-> w[k]]
  BY DEF From
<1> HIDE DEF w
<1>3. /\ Len(c) \in Nat /\ NObjects \in Nat /\ Len(c) <= NObjects
      /\ c \in Seq(Objects)
  <2>1. Len(c) \in 0 .. NObjects
    BY ChainFits
  <2>2. NObjects \in Nat
    BY MapAssumption
  <2>3. c \in Seq(Objects)
    BY DEF ChainFrom
  <2> QED BY <2>1, <2>2, <2>3
<1>4. \A k \in 1 .. Len(c) : c[k] \in Objects /\ c[k] # Null /\ k \in Objects
  <2>1. \A k \in 1 .. Len(c) : c[k] \in Objects
    BY <1>3
  <2> QED BY <2>1, <1>3 DEF Objects, Null
<1>5. \A k \in 1 .. Len(c) : w[k] = c[k]
  <2> DEFINE Bad == {k \in 1 .. Len(c) : w[k] # c[k]}
  <2> SUFFICES ASSUME Bad # {} PROVE FALSE
    OBVIOUS
  <2>1. Bad \in SUBSET Nat
    OBVIOUS
  <2>2. PICK n \in Bad : \A k \in Bad : ~(k < n)
    <3> HIDE DEF Bad
    <3> QED BY <2>1, LeastNatural
  <2>3. n \in 1 .. Len(c) /\ w[n] # c[n] /\ w[n] = NthOf(m, o, w, n)
    BY <1>1, <1>4
  <2>4. CASE n = 1
    BY <1>3, <2>3, <2>4 DEF NthOf, ChainFrom
  <2>5. CASE n # 1
    <3>1. n - 1 \in 1 .. Len(c) - 1 /\ n - 1 \in 1 .. Len(c) /\ n - 1 < n /\ (n - 1) + 1 = n
      BY <1>3, <2>3, <2>5
    <3>2. w[n - 1] = c[n - 1] /\ c[n - 1] # Null
      BY <2>2, <3>1, <1>4
    <3>3. m.next[c[n - 1]] = c[n]
      BY <3>1 DEF ChainFrom
    <3> QED BY <2>3, <2>5, <3>2, <3>3 DEF NthOf
  <2> QED BY <2>4, <2>5
<1>6. \A k \in Objects : k > Len(c) => w[k] = Null
  <2> DEFINE Bad == {k \in Objects : k > Len(c) /\ w[k] # Null}
  <2> SUFFICES ASSUME Bad # {} PROVE FALSE
    OBVIOUS
  <2>1. Bad \in SUBSET Nat
    BY DEF Objects
  <2>2. PICK n \in Bad : \A k \in Bad : ~(k < n)
    <3> HIDE DEF Bad
    <3> QED BY <2>1, LeastNatural
  <2>3. n \in Objects /\ n \in Nat /\ n > Len(c) /\ w[n] # Null /\ w[n] = NthOf(m, o, w, n)
    BY <1>1 DEF Objects
  <2>4. CASE n = 1
    <3>1. Len(c) = 0
      BY <1>3, <2>3, <2>4
    <3> QED BY <2>3, <2>4, <3>1 DEF NthOf, ChainFrom
  <2>5. CASE n # 1
    <3>1. n - 1 \in Objects /\ n - 1 < n
      BY <1>3, <2>3, <2>5 DEF Objects
    <3>2. CASE n - 1 > Len(c)
      <4>1. w[n - 1] = Null
        BY <2>2, <3>1, <3>2
      <4> QED BY <2>3, <2>5, <4>1 DEF NthOf
    <3>3. CASE ~(n - 1 > Len(c))
      <4>1. n - 1 = Len(c) /\ Len(c) # 0 /\ n - 1 \in 1 .. Len(c)
        BY <1>3, <2>3, <2>5, <3>3
      <4>2. w[n - 1] = c[Len(c)] /\ m.next[c[Len(c)]] = Null
        BY <1>5, <4>1 DEF ChainFrom
      <4> QED BY <2>3, <2>5, <4>2 DEF NthOf
    <3> QED BY <3>2, <3>3
  <2> QED BY <2>4, <2>5
<1>7. {j \in Objects : w[j] # Null} = 1 .. Len(c)
  <2>1. ASSUME NEW j \in Objects, w[j] # Null PROVE j \in 1 .. Len(c)
    BY <1>3, <1>6, <2>1 DEF Objects
  <2>2. ASSUME NEW j \in 1 .. Len(c) PROVE j \in Objects /\ w[j] # Null
    BY <1>4, <1>5
  <2> QED BY <2>1, <2>2
<1>8. c = [k \in 1 .. Len(c) |-> c[k]]
  BY <1>3
<1> QED BY <1>2, <1>5, <1>7, <1>8

(* A walk from anywhere, also one that has no sense any more, meets        *)
(* objects only.                                                           *)
LEMMA FromType ==
  ASSUME NEW m \in MapType, NEW o \in Links
  PROVE  \A k \in DOMAIN From(m, o) : k \in Nat /\ From(m, o)[k] \in Objects
<1> DEFINE w == Walk(m, o)
<1>1. w \in [Objects -> Links]
  BY WalkType
<1>2. From(m, o) = [k \in {j \in Objects : w[j] # Null} |-> w[k]]
  BY DEF From
<1> HIDE DEF w
<1>3. \A k \in Objects : k \in Nat
  BY DEF Objects
<1> QED BY <1>1, <1>2, <1>3 DEF Links

(* Links of other objects do not matter to a chain.                        *)
LEMMA ChainStays ==
  ASSUME NEW m, NEW n, NEW o, NEW c, ChainFrom(m, o, c),
         \A k \in 1 .. Len(c) : n.next[c[k]] = m.next[c[k]]
  PROVE  ChainFrom(n, o, c)
<1>1. Len(c) \in Nat
  BY DEF ChainFrom
<1> QED BY <1>1 DEF ChainFrom

(* A chain grows at its end.                                               *)
LEMMA ChainGrows ==
  ASSUME NEW m, NEW n, NEW h, NEW c, ChainFrom(m, h, c), NEW o \in Objects,
         \A k \in 1 .. Len(c) : c[k] # o,
         Len(c) # 0, n.next[o] = Null, n.next[c[Len(c)]] = o,
         \A k \in 1 .. Len(c) - 1 : n.next[c[k]] = m.next[c[k]]
  PROVE  ChainFrom(n, h, Append(c, o))
<1> DEFINE l == Len(c)
           d == Append(c, o)
<1>1. /\ l \in Nat /\ d \in Seq(Objects) /\ Len(d) = l + 1 /\ d[l + 1] = o
      /\ \A k \in 1 .. l : d[k] = c[k]
  BY AppendProperties DEF ChainFrom
<1>2. /\ \A j, k \in 1 .. l : c[j] = c[k] => j = k
      /\ c[1] = h /\ \A k \in 1 .. l - 1 : m.next[c[k]] = c[k + 1]
  BY DEF ChainFrom
<1> HIDE DEF d
<1>3. \A j, k \in 1 .. Len(d) : d[j] = d[k] => j = k
  BY <1>1, <1>2
<1>4. d[1] = h /\ n.next[d[Len(d)]] = Null
  BY <1>1, <1>2
<1>5. \A k \in 1 .. Len(d) - 1 : n.next[d[k]] = d[k + 1]
  <2> SUFFICES ASSUME NEW k \in 1 .. l PROVE n.next[d[k]] = d[k + 1]
    BY <1>1
  <2>1. CASE k = l
    BY <1>1, <2>1
  <2>2. CASE k # l
    <3>1. k \in 1 .. l - 1 /\ k + 1 \in 1 .. l
      BY <1>1, <2>2
    <3> QED BY <1>1, <1>2, <3>1
  <2> QED BY <2>1, <2>2
<1> QED BY <1>1, <1>3, <1>4, <1>5 DEF ChainFrom, d

(* An object leaves a chain: its predecessor, or the head, gets its link.  *)
Unlinks(m, n, h, g, c, i) ==
  /\ ChainFrom(m, h, c) /\ i \in 1 .. Len(c)
  /\ g = IF i = 1 THEN m.next[c[i]] ELSE h
  /\ i # 1 => n.next[c[i - 1]] = m.next[c[i]]
  /\ \A k \in 1 .. Len(c) : k # i /\ k # i - 1 => n.next[c[k]] = m.next[c[k]]
Shrunk(n, g, c, i) ==
  \E d : /\ ChainFrom(n, g, d)
         /\ \A o : (\E k \in 1 .. Len(d) : d[k] = o)
                     <=> (\E k \in 1 .. Len(c) : c[k] = o) /\ o # c[i]
(* The rest is still a chain.                                              *)
LEMMA ChainShrinks ==
  ASSUME NEW m, NEW n, NEW h, NEW g, NEW c, NEW i, Unlinks(m, n, h, g, c, i)
  PROVE  Shrunk(n, g, c, i)
<1> DEFINE l == Len(c)
           d == [k \in 1 .. l - 1 |-> IF k < i THEN c[k] ELSE c[k + 1]]
<1>1. /\ l \in Nat /\ l # 0 /\ i \in Nat
      /\ \A k \in 1 .. l : c[k] \in Objects
      /\ \A j, k \in 1 .. l : c[j] = c[k] => j = k
      /\ c[1] = h /\ m.next[c[l]] = Null /\ \A k \in 1 .. l - 1 : m.next[c[k]] = c[k + 1]
  BY DEF ChainFrom, Unlinks
<1>2. /\ i \in 1 .. l /\ g = (IF i = 1 THEN m.next[c[i]] ELSE h)
      /\ i # 1 => n.next[c[i - 1]] = m.next[c[i]]
      /\ \A k \in 1 .. l : k # i /\ k # i - 1 => n.next[c[k]] = m.next[c[k]]
  BY DEF Unlinks
<1>3. d \in Seq(Objects) /\ Len(d) = l - 1
  <2>1. \A k \in 1 .. l - 1 : d[k] \in Objects
    BY <1>1, <1>2
  <2>2. l - 1 \in Nat
    BY <1>1, <1>2
  <2>3. d \in [1 .. l - 1 -> Objects]
    BY <1>2, <2>1
  <2> HIDE DEF d, l
  <2>4. d \in Seq(Objects)
    BY <1>2, <2>2, <2>3, SeqDef
  <2> QED BY <1>2, <2>2, <2>3, <2>4, LenProperties
<1>4. \A k \in 1 .. l - 1 : d[k] = IF k < i THEN c[k] ELSE c[k + 1]
  OBVIOUS
<1> HIDE DEF d, l
<1>5. \A j, k \in 1 .. l - 1 : d[j] = d[k] => j = k
  <2> SUFFICES ASSUME NEW j \in 1 .. l - 1, NEW k \in 1 .. l - 1, d[j] = d[k] PROVE j = k
    OBVIOUS
  <2>1. PICK x \in 1 .. l : d[j] = c[x] /\ x = IF j < i THEN j ELSE j + 1
    BY <1>1, <1>2, <1>4
  <2>2. PICK y \in 1 .. l : d[k] = c[y] /\ y = IF k < i THEN k ELSE k + 1
    BY <1>1, <1>2, <1>4
  <2>3. x = y
    <3>1. c[x] = c[y]
      BY <1>2, <2>1, <2>2
    <3>2. \A a, b \in 1 .. l : c[a] = c[b] => a = b
      BY <1>1, <1>2
    <3> QED BY <1>2, <3>1, <3>2
  <2> QED BY <1>1, <1>2, <2>1, <2>2, <2>3
<1>6. IF l - 1 = 0 THEN g = Null ELSE d[1] = g /\ n.next[d[l - 1]] = Null
  <2>1. CASE l = 1
    <3>1. i = 1
      BY <1>1, <1>2, <2>1
    <3> QED BY <1>1, <1>2, <2>1, <3>1
  <2>2. CASE l # 1
    <3>1. d[1] = g
      <4>1. 1 \in 1 .. l - 1
        BY <1>1, <1>2, <2>2
      <4>2. CASE i = 1
        <5>1. d[1] = c[1 + 1] /\ m.next[c[1]] = c[1 + 1]
          BY <1>1, <1>2, <1>4, <4>1, <4>2
        <5> QED BY <1>2, <4>2, <5>1
      <4>3. CASE i # 1
        <5>1. d[1] = c[1]
          BY <1>1, <1>2, <1>4, <4>1, <4>3
        <5> QED BY <1>1, <1>2, <4>3, <5>1
      <4> QED BY <1>2, <4>2, <4>3
    <3>2. n.next[d[l - 1]] = Null
      <4>1. l - 1 \in 1 .. l - 1 /\ (l - 1) + 1 = l /\ l \in 1 .. l
        BY <1>1, <1>2, <2>2
      <4>2. CASE i = l
        <5>1. d[l - 1] = c[i - 1] /\ i # 1
          BY <1>1, <1>2, <1>4, <2>2, <4>1, <4>2
        <5> QED BY <1>1, <1>2, <4>2, <5>1
      <4>3. CASE i # l
        <5>1. d[l - 1] = c[l]
          <6>1. ~(l - 1 < i)
            BY <1>1, <1>2, <4>3
          <6> QED BY <1>2, <1>4, <4>1, <6>1
        <5>2. l # i /\ l # i - 1
          BY <1>1, <1>2, <4>3
        <5> QED BY <1>1, <1>2, <4>1, <5>1, <5>2
      <4> QED BY <1>2, <4>2, <4>3
    <3> QED BY <1>1, <1>2, <2>2, <3>1, <3>2
  <2> QED BY <1>2, <2>1, <2>2
<1>7. \A k \in 1 .. (l - 1) - 1 : n.next[d[k]] = d[k + 1]
  <2> SUFFICES ASSUME NEW k \in 1 .. (l - 1) - 1 PROVE n.next[d[k]] = d[k + 1]
    OBVIOUS
  <2>1. k \in 1 .. l - 1 /\ k + 1 \in 1 .. l - 1 /\ k \in 1 .. l /\ k + 1 \in 1 .. l
        /\ (k + 1) + 1 \in 1 .. l
    BY <1>1, <1>2
  <2>2. CASE k + 1 < i
    <3>1. d[k] = c[k] /\ d[k + 1] = c[k + 1] /\ k # i /\ k # i - 1
      BY <1>1, <1>2, <1>4, <2>1, <2>2
    <3> QED BY <1>1, <1>2, <2>1, <3>1
  <2>3. CASE k + 1 = i
    <3>1. d[k] = c[k] /\ d[k + 1] = c[(k + 1) + 1] /\ k = i - 1 /\ i # 1
      BY <1>1, <1>2, <1>4, <2>1, <2>3
    <3>2. m.next[c[k + 1]] = c[(k + 1) + 1]
      BY <1>1, <1>2, <2>1
    <3> QED BY <1>2, <2>3, <3>1, <3>2
  <2>4. CASE k + 1 > i
    <3>1. d[k] = c[k + 1] /\ d[k + 1] = c[(k + 1) + 1] /\ k + 1 # i /\ k + 1 # i - 1
      BY <1>1, <1>2, <1>4, <2>1, <2>4
    <3>2. m.next[c[k + 1]] = c[(k + 1) + 1]
      BY <1>1, <1>2, <2>1
    <3> QED BY <1>2, <2>1, <3>1, <3>2
  <2> QED BY <1>1, <1>2, <2>1, <2>2, <2>3, <2>4
<1>8. ChainFrom(n, g, d)
  BY <1>2, <1>3, <1>5, <1>6, <1>7 DEF ChainFrom
<1>9. ASSUME NEW o
      PROVE  (\E k \in 1 .. Len(d) : d[k] = o) <=> (\E k \in 1 .. l : c[k] = o) /\ o # c[i]
  <2>1. ASSUME NEW k \in 1 .. l - 1, d[k] = o
        PROVE  (\E j \in 1 .. l : c[j] = o) /\ o # c[i]
    <3>1. PICK x \in 1 .. l : d[k] = c[x] /\ x # i
      BY <1>1, <1>2, <1>4
    <3> QED BY <1>1, <1>2, <2>1, <3>1
  <2>2. ASSUME NEW k \in 1 .. l, c[k] = o, o # c[i]
        PROVE  \E j \in 1 .. l - 1 : d[j] = o
    <3>1. CASE k < i
      <4>1. k \in 1 .. l - 1
        BY <1>1, <1>2, <3>1
      <4> QED BY <1>2, <1>4, <2>2, <3>1, <4>1
    <3>2. CASE ~(k < i)
      <4>1. k # i
        BY <1>2, <2>2
      <4>2. k - 1 \in 1 .. l - 1 /\ ~(k - 1 < i) /\ (k - 1) + 1 = k
        BY <1>1, <1>2, <3>2, <4>1
      <4>3. d[k - 1] = c[k]
        BY <1>2, <1>4, <4>2
      <4> QED BY <1>2, <2>2, <4>2, <4>3
    <3> QED BY <1>2, <3>1, <3>2
  <2> QED BY <1>2, <1>3, <2>1, <2>2
<1> QED BY <1>8, <1>9 DEF l, Shrunk
-----------------------------------------------------------------------------
(* The whole map: every bucket's chain holds the objects it should, and no *)
(* object is in two.                                                       *)
ChainOf(m, F, b) ==
  \E c : /\ ChainFrom(m, m.head[b], c)
         /\ \A o : (\E k \in 1 .. Len(c) : c[k] = o) <=> o \in F[b]
Chained(m, F) ==
  /\ m \in MapType /\ F \in [Buckets -> SUBSET Objects]
  /\ \A b \in Buckets : ChainOf(m, F, b)
  /\ \A a, b \in Buckets : a # b => F[a] \cap F[b] = {}

(* So hash_map_walk and hash_map_find meet what is in the bucket.          *)
LEMMA BucketIs ==
  ASSUME NEW m, NEW F, Chained(m, F), NEW b \in Buckets
  PROVE  /\ ChainFrom(m, m.head[b], Bucket(m, b)) /\ Bucket(m, b) \in Seq(Objects)
         /\ DOMAIN Bucket(m, b) = 1 .. Len(Bucket(m, b))
         /\ \A o : (\E k \in 1 .. Len(Bucket(m, b)) : Bucket(m, b)[k] = o) <=> o \in F[b]
<1>1. PICK c : /\ ChainFrom(m, m.head[b], c)
               /\ \A o : (\E k \in 1 .. Len(c) : c[k] = o) <=> o \in F[b]
  BY DEF Chained, ChainOf
<1>2. m \in MapType /\ m.head[b] \in Links
  BY DEF Chained, MapType
<1>3. Bucket(m, b) = c
  BY <1>1, <1>2, WalkIsChain DEF Bucket
<1>4. c \in Seq(Objects)
  BY <1>1 DEF ChainFrom
<1> QED BY <1>1, <1>3, <1>4

(* An object is in a bucket exactly if it should be.                       *)
LEMMA HoldsIs ==
  ASSUME NEW m, NEW F, Chained(m, F), NEW b \in Buckets, NEW o
  PROVE  Holds(m, b, o) <=> o \in F[b]
BY BucketIs DEF Holds

(* An object is mapped exactly if it should be in some bucket.             *)
LEMMA MappedIs ==
  ASSUME NEW m, NEW F, Chained(m, F), NEW o
  PROVE  Mapped(m, o) <=> \E b \in Buckets : o \in F[b]
<1>1. DOMAIN m.head = Buckets
  BY DEF Chained, MapType
<1> QED BY <1>1, HoldsIs DEF Mapped

(* A key's bucket.                                                         *)
LEMMA HashType ==
  ASSUME NEW key \in Nat
  PROVE  Hash(key) \in Buckets
<1>1. PICK n \in Nat \ {0} : n = NBuckets
  BY MapAssumption
<1>2. key % n \in 0 .. n - 1
  OBVIOUS
<1> QED BY <1>1, <1>2 DEF Hash, Buckets

(* A new map is empty.                                                     *)
LEMMA MapBegins == Chained(hash_map_init, [b \in Buckets |-> {}])
<1> DEFINE m == hash_map_init
           F == [b \in Buckets |-> {}]
<1>1. /\ m \in MapType /\ \A b \in Buckets : m.head[b] = Null
      /\ F \in [Buckets -> SUBSET Objects] /\ \A b \in Buckets : F[b] = {}
  BY DEF hash_map_init, MapType, Buckets, Links
<1> HIDE DEF m, F
<1>2. ASSUME NEW b \in Buckets PROVE ChainOf(m, F, b)
  <2>1. <<>> \in Seq(Objects) /\ Len(<<>>) = 0
    OBVIOUS
  <2>2. ChainFrom(m, m.head[b], <<>>)
    BY <1>1, <2>1 DEF ChainFrom
  <2> QED BY <1>1, <2>1, <2>2 DEF ChainOf
<1>3. Chained(m, F)
  BY <1>1, <1>2 DEF Chained
<1> QED BY <1>3 DEF m, F

(* hash_map_insert puts an object that is not in the map into the bucket   *)
(* of its key, unless the key is there.                                    *)
LEMMA InsertKeeps ==
  ASSUME NEW m, NEW F, Chained(m, F), NEW key \in [Objects -> Nat], NEW o \in Objects,
         \A b \in Buckets : o \notin F[b], m.next[o] = Null,
         \A x \in F[Hash(key[o])] : key[x] # key[o]
  PROVE  /\ Chained(hash_map_insert(m, key, o), [F EXCEPT ![Hash(key[o])] = @ \cup {o}])
         /\ \A x \in Objects : x \notin F[Hash(key[o])] =>
              hash_map_insert(m, key, o).next[x] = m.next[x]
<1> DEFINE b == Hash(key[o])
           c == Bucket(m, b)
           G == [F EXCEPT ![b] = @ \cup {o}]
           n == hash_map_insert(m, key, o)
<1>1. /\ b \in Buckets /\ m \in MapType /\ F \in [Buckets -> SUBSET Objects]
      /\ \A a \in Buckets : ChainOf(m, F, a)
      /\ \A a, d \in Buckets : a # d => F[a] \cap F[d] = {}
  BY HashType DEF Chained
<1>2. /\ ChainFrom(m, m.head[b], c) /\ c \in Seq(Objects) /\ DOMAIN c = 1 .. Len(c)
      /\ \A x : (\E k \in 1 .. Len(c) : c[k] = x) <=> x \in F[b]
  BY <1>1, BucketIs
<1>3. n = IF c = <<>> THEN [m EXCEPT !.head[b] = o] ELSE [m EXCEPT !.next[c[Len(c)]] = o]
  <2>1. ~\E k \in DOMAIN c : key[c[k]] = key[o]
    BY <1>2
  <2> QED BY <2>1 DEF hash_map_insert, Appended
<1>4. /\ G \in [Buckets -> SUBSET Objects] /\ G[b] = F[b] \cup {o}
      /\ \A a \in Buckets : a # b => G[a] = F[a]
  BY <1>1
<1> HIDE DEF b, c, n, G
<1>5. n \in MapType /\ (\A a \in Buckets : a # b => n.head[a] = m.head[a])
      /\ \A x \in Objects : x \notin F[b] => n.next[x] = m.next[x]
  <2>1. CASE c = <<>>
    <3>1. n.head = [m.head EXCEPT ![b] = o] /\ n.next = m.next /\ n = [head |-> n.head, next |-> n.next]
      BY <1>1, <1>3, <2>1 DEF MapType
    <3> QED BY <1>1, <3>1 DEF MapType, Links
  <2>2. CASE c # <<>>
    <3>1. Len(c) \in 1 .. Len(c) /\ c[Len(c)] \in Objects /\ c[Len(c)] \in F[b]
      BY <1>2, <2>2
    <3>2. n.next = [m.next EXCEPT ![c[Len(c)]] = o] /\ n.head = m.head
          /\ n = [head |-> n.head, next |-> n.next]
      BY <1>1, <1>3, <2>2 DEF MapType
    <3>3. n.next \in [Objects -> Links] /\ n.head \in [Buckets -> Links]
      BY <1>1, <3>1, <3>2 DEF MapType, Links
    <3>4. \A x \in Objects : x # c[Len(c)] => n.next[x] = m.next[x]
      BY <1>1, <3>2 DEF MapType
    <3>5. n \in MapType
      BY <3>2, <3>3 DEF MapType
    <3> QED BY <3>1, <3>2, <3>4, <3>5
  <2> QED BY <2>1, <2>2
<1>6. ChainOf(n, G, b)
  <2>1. CASE c = <<>>
    <3>1. n.head[b] = o /\ n.next = m.next
      BY <1>1, <1>3, <2>1 DEF MapType
    <3>2. <<o>> \in Seq(Objects) /\ Len(<<o>>) = 1 /\ <<o>>[1] = o
      OBVIOUS
    <3>3. ChainFrom(n, n.head[b], <<o>>)
      BY <3>1, <3>2 DEF ChainFrom
    <3>4. Len(c) = 0 /\ F[b] = {}
      BY <1>1, <1>2, <2>1
    <3> QED BY <1>4, <3>2, <3>3, <3>4 DEF ChainOf
  <2>2. CASE c # <<>>
    <3>1. Len(c) \in Nat /\ Len(c) # 0 /\ Len(c) \in 1 .. Len(c) /\ c[Len(c)] \in Objects
          /\ \A k \in 1 .. Len(c) : c[k] \in F[b] /\ c[k] \in Objects /\ c[k] # o
      BY <1>1, <1>2, <2>2
    <3>2. n.next = [m.next EXCEPT ![c[Len(c)]] = o] /\ n.head = m.head
      BY <1>1, <1>3, <2>2 DEF MapType
    <3>3. \A k \in 1 .. Len(c) - 1 : c[k] # c[Len(c)]
      BY <1>2, <3>1 DEF ChainFrom
    <3>4. /\ n.next[o] = Null /\ n.next[c[Len(c)]] = o
          /\ \A k \in 1 .. Len(c) - 1 : n.next[c[k]] = m.next[c[k]]
      BY <1>1, <3>1, <3>2, <3>3 DEF MapType
    <3>5. ChainFrom(n, m.head[b], Append(c, o))
      BY <1>2, <3>1, <3>4, ChainGrows, ZenonT(60)
    <3>6. /\ Len(Append(c, o)) = Len(c) + 1 /\ Append(c, o)[Len(c) + 1] = o
          /\ \A k \in 1 .. Len(c) : Append(c, o)[k] = c[k]
      BY <1>2, AppendProperties
    <3>7. ASSUME NEW x
          PROVE  (\E k \in 1 .. Len(Append(c, o)) : Append(c, o)[k] = x) <=> x \in G[b]
      <4>1. (\E k \in 1 .. Len(Append(c, o)) : Append(c, o)[k] = x)
              <=> (\E k \in 1 .. Len(c) : c[k] = x) \/ x = o
        <5> DEFINE d == Append(c, o)
        <5>1. \E l \in Nat : l = Len(c)
          BY <3>1
        <5> HIDE DEF d
        <5> QED BY <3>6, <5>1 DEF d
      <4> QED BY <1>2, <1>4, <4>1
    <3> HIDE DEF ChainFrom
    <3> QED BY <3>2, <3>5, <3>7 DEF ChainOf
  <2> QED BY <2>1, <2>2
<1>7. ASSUME NEW a \in Buckets, a # b PROVE ChainOf(n, G, a)
  <2>1. PICK d : /\ ChainFrom(m, m.head[a], d)
                 /\ \A x : (\E k \in 1 .. Len(d) : d[k] = x) <=> x \in F[a]
    BY <1>1 DEF ChainOf
  <2>2. \A k \in 1 .. Len(d) : d[k] \in F[a] /\ d[k] \notin F[b] /\ d[k] \in Objects
    BY <1>1, <1>7, <2>1
  <2>3. ChainFrom(n, m.head[a], d)
    BY <1>5, <2>1, <2>2, ChainStays
  <2> QED BY <1>4, <1>5, <1>7, <2>1, <2>3 DEF ChainOf
<1>8. \A a, d \in Buckets : a # d => G[a] \cap G[d] = {}
  BY <1>1, <1>4
<1>9. Chained(n, G)
  BY <1>4, <1>5, <1>6, <1>7, <1>8 DEF Chained
<1> QED BY <1>5, <1>9 DEF b, n, G

(* hash_map_remove takes an object out of the bucket of its key.           *)
LEMMA RemoveKeeps ==
  ASSUME NEW m, NEW F, Chained(m, F), NEW key \in [Objects -> Nat], NEW o \in Objects,
         o \in F[Hash(key[o])]
  PROVE  Chained(hash_map_remove(m, key, o), [F EXCEPT ![Hash(key[o])] = @ \ {o}])
<1> DEFINE b == Hash(key[o])
           c == Bucket(m, b)
           G == [F EXCEPT ![b] = @ \ {o}]
           n == hash_map_remove(m, key, o)
<1>1. /\ b \in Buckets /\ m \in MapType /\ F \in [Buckets -> SUBSET Objects]
      /\ \A a \in Buckets : ChainOf(m, F, a)
      /\ \A a, d \in Buckets : a # d => F[a] \cap F[d] = {}
  BY HashType DEF Chained
<1>2. /\ ChainFrom(m, m.head[b], c) /\ c \in Seq(Objects) /\ DOMAIN c = 1 .. Len(c)
      /\ \A x : (\E k \in 1 .. Len(c) : c[k] = x) <=> x \in F[b]
  BY <1>1, BucketIs
<1>3. PICK i \in 1 .. Len(c) :
        /\ c[i] = o
        /\ n = IF i = 1 THEN [m EXCEPT !.head[b] = m.next[o]]
               ELSE [m EXCEPT !.next[c[i - 1]] = m.next[o]]
  <2> DEFINE j == CHOOSE k \in DOMAIN c : c[k] = o
  <2>1. \E k \in DOMAIN c : c[k] = o
    BY <1>2
  <2>2. j \in DOMAIN c /\ c[j] = o
    BY <2>1
  <2>3. ~\A k \in DOMAIN c : c[k] # o
    BY <2>1
  <2>4. n = IF j = 1 THEN [m EXCEPT !.head[b] = m.next[o]]
            ELSE [m EXCEPT !.next[c[j - 1]] = m.next[o]]
    BY <2>3 DEF hash_map_remove, Following
  <2> HIDE DEF j
  <2> QED BY <1>2, <2>2, <2>4
<1>4. /\ G \in [Buckets -> SUBSET Objects] /\ G[b] = F[b] \ {o}
      /\ \A a \in Buckets : a # b => G[a] = F[a]
  BY <1>1
<1> HIDE DEF b, c, n, G
<1>5. /\ Len(c) \in Nat /\ m.next[o] \in Links
      /\ \A k \in 1 .. Len(c) : c[k] \in F[b] /\ c[k] \in Objects
      /\ \A j, k \in 1 .. Len(c) : c[j] = c[k] => j = k
  BY <1>1, <1>2 DEF ChainFrom, MapType
<1>6. /\ n \in MapType
      /\ \A a \in Buckets : a # b => n.head[a] = m.head[a]
      /\ \A x \in Objects : x \notin F[b] => n.next[x] = m.next[x]
      /\ n.head[b] = IF i = 1 THEN m.next[c[i]] ELSE m.head[b]
      /\ i # 1 => n.next[c[i - 1]] = m.next[c[i]]
      /\ \A k \in 1 .. Len(c) : k # i /\ k # i - 1 => n.next[c[k]] = m.next[c[k]]
  <2>1. CASE i = 1
    <3>1. n.head = [m.head EXCEPT ![b] = m.next[o]] /\ n.next = m.next
          /\ n = [head |-> n.head, next |-> n.next]
      BY <1>1, <1>3, <2>1 DEF MapType
    <3>2. n \in MapType /\ n.head[b] = m.next[c[i]]
          /\ \A a \in Buckets : a # b => n.head[a] = m.head[a]
      BY <1>1, <1>3, <1>5, <3>1 DEF MapType
    <3> QED BY <2>1, <3>1, <3>2
  <2>2. CASE i # 1
    <3>1. i - 1 \in 1 .. Len(c) /\ c[i - 1] \in Objects /\ c[i - 1] \in F[b]
      BY <1>3, <1>5, <2>2
    <3>2. n.next = [m.next EXCEPT ![c[i - 1]] = m.next[o]] /\ n.head = m.head
          /\ n = [head |-> n.head, next |-> n.next]
      BY <1>1, <1>3, <2>2 DEF MapType
    <3>3. n \in MapType /\ n.next[c[i - 1]] = m.next[c[i]]
          /\ \A x \in Objects : x # c[i - 1] => n.next[x] = m.next[x]
      BY <1>1, <1>3, <1>5, <3>1, <3>2 DEF MapType
    <3>4. \A k \in 1 .. Len(c) : k # i - 1 => c[k] # c[i - 1]
      BY <1>5, <3>1
    <3> QED BY <1>5, <2>2, <3>1, <3>2, <3>3, <3>4
  <2> QED BY <2>1, <2>2
<1>7. ChainOf(n, G, b)
  <2>1. PICK d : /\ ChainFrom(n, n.head[b], d)
                 /\ \A x : (\E k \in 1 .. Len(d) : d[k] = x)
                             <=> (\E k \in 1 .. Len(c) : c[k] = x) /\ x # c[i]
    <3>1. PICK g, h : g = n.head[b] /\ h = m.head[b]
      OBVIOUS
    <3>2. Unlinks(m, n, h, g, c, i)
      BY <1>2, <1>3, <1>6, <3>1 DEF Unlinks
    <3>3. Shrunk(n, g, c, i)
      BY <3>2, ChainShrinks
    <3> QED BY <3>1, <3>3 DEF Shrunk
  <2> QED BY <1>2, <1>3, <1>4, <2>1 DEF ChainOf
<1>8. ASSUME NEW a \in Buckets, a # b PROVE ChainOf(n, G, a)
  <2>1. PICK d : /\ ChainFrom(m, m.head[a], d)
                 /\ \A x : (\E k \in 1 .. Len(d) : d[k] = x) <=> x \in F[a]
    BY <1>1 DEF ChainOf
  <2>2. \A k \in 1 .. Len(d) : d[k] \in F[a] /\ d[k] \notin F[b] /\ d[k] \in Objects
    BY <1>1, <1>8, <2>1
  <2>3. ChainFrom(n, m.head[a], d)
    BY <1>6, <2>1, <2>2, ChainStays, SMTT(30)
  <2> QED BY <1>4, <1>6, <1>8, <2>1, <2>3 DEF ChainOf
<1>9. \A a, d \in Buckets : a # d => G[a] \cap G[d] = {}
  BY <1>1, <1>4
<1>10. Chained(n, G)
  BY <1>4, <1>6, <1>7, <1>8, <1>9 DEF Chained
<1> QED BY <1>10 DEF b, n, G
(* A walk for a key ends with an object of that key, or with none.         *)
LEMMA FindIs ==
  ASSUME NEW m \in MapType, NEW o \in Links, NEW key, NEW wanted,
         NEW s, s = hash_map_find(m, key, o, wanted)
  PROVE  s = Null \/ (s \in Objects /\ key[s] = wanted)
<1> DEFINE c == From(m, o)
           hits == {k \in DOMAIN c : key[c[k]] = wanted}
<1>1. s = IF hits = {} THEN Null ELSE c[CHOOSE k \in hits : \A j \in hits : k <= j]
  BY DEF hash_map_find
<1>2. \A k \in DOMAIN c : k \in Nat /\ c[k] \in Objects
  BY FromType
<1> HIDE DEF c
<1>3. CASE hits # {}
  <2>1. hits \in SUBSET Nat
    BY <1>2
  <2>2. PICK k \in hits : k = CHOOSE i \in hits : \A j \in hits : i <= j
    <3> HIDE DEF hits
    <3> QED BY <1>3, <2>1, LeastIs
  <2> QED BY <1>1, <1>2, <1>3, <2>2
<1> QED BY <1>1, <1>3

(* A link of an object that is not in the map may be cleared.              *)
LEMMA ClearKeeps ==
  ASSUME NEW m, NEW F, Chained(m, F), NEW o \in Objects, \A b \in Buckets : o \notin F[b],
         NEW n, n = [m EXCEPT !.next[o] = Null]
  PROVE  Chained(n, F) /\ n.next[o] = Null
<1>1. /\ m \in MapType /\ F \in [Buckets -> SUBSET Objects]
      /\ \A a \in Buckets : ChainOf(m, F, a)
      /\ \A a, d \in Buckets : a # d => F[a] \cap F[d] = {}
  BY DEF Chained
<1>2. n.head = m.head /\ n.next = [m.next EXCEPT ![o] = Null] /\ n = [head |-> n.head, next |-> n.next]
  BY <1>1 DEF MapType
<1>3. n \in MapType /\ n.next[o] = Null /\ \A x \in Objects : x # o => n.next[x] = m.next[x]
  BY <1>1, <1>2 DEF MapType, Links
<1>4. ASSUME NEW a \in Buckets PROVE ChainOf(n, F, a)
  <2>1. PICK d : /\ ChainFrom(m, m.head[a], d)
                 /\ \A x : (\E k \in 1 .. Len(d) : d[k] = x) <=> x \in F[a]
    BY <1>1 DEF ChainOf
  <2>2. \A k \in 1 .. Len(d) : d[k] \in F[a] /\ d[k] # o /\ d[k] \in Objects
    BY <1>1, <2>1
  <2>3. ChainFrom(n, m.head[a], d)
    BY <1>3, <2>1, <2>2, ChainStays, ZenonT(60)
  <2> QED BY <1>2, <2>1, <2>3 DEF ChainOf
<1> QED BY <1>1, <1>3, <1>4 DEF Chained
-----------------------------------------------------------------------------
(* The invariant.  Types: what TypeOK leaves out is the shape of net and   *)
(* recv, and what the processing thread has in its hands.                  *)
LinkType == [connected : BOOLEAN, sock : 0 .. MaxConns,
             disconnects : 0 .. MaxConns, next : 1 .. MaxCalls + 1]
NetType == [up : {"none", "open", "closed_by_peer", "closed"}, to_agent : Seq(Messages),
            serving : SUBSET (1 .. MaxCalls), commands : 0 .. MaxCommands,
            replies : Seq(Commands)]
ResponseTypes == {"NOTHING", "RESPONSE", "DISCONNECT"}
HandlerType == [id : 0 .. MaxCalls, answer : 0 .. MaxCalls, type : ResponseTypes]
CallerType == [pc : Places, cell : Slots \cup {None}, id : 0 .. MaxCalls,
               answer : 0 .. MaxCalls, type : ResponseTypes]
RecvPlaces == {"off", "poll", "lost", "walk", "close", "notify", "dead"}
ConnectorPlaces == {"top", "connected", "hello", "test", "sleepy", "asleep"}
QueueType == [conn : Conns, msg : Messages]
ProcType == [pc : {"pop", "find", "found", "typed", "reply", "replying"},
             msg : (Conns \cup {None}) \X Nat, cell : Slots \cup {None}]
ToReply == proc.pc \in {"reply", "replying"}
Types ==
  /\ link \in LinkType /\ net \in [Conns -> NetType] /\ handler \in [Slots -> HandlerType]
  /\ caller \in [Callers -> CallerType] /\ connector \in ConnectorPlaces
  /\ recv \in [Conns -> RecvPlaces] /\ queue \in Seq(QueueType) /\ proc \in ProcType
  /\ missed \subseteq 1 .. MaxCalls /\ calm \in BOOLEAN /\ alive \in BOOLEAN
  /\ early \in 1 .. MaxCalls + 1
  /\ proc.pc \in {"find", "found", "typed"} => proc.msg[2] \in 1 .. MaxCalls
  /\ proc.pc \in {"found", "typed"} => proc.cell \in Slots
  /\ ToReply => proc.msg \in Commands

(* The sockets so far: a receive thread each, the last one's about to be   *)
(* started; every disconnection is a receive thread that ended.            *)
Gone == {c \in Conns : recv[c] = "dead"}
Sockets ==
  /\ \A c \in Conns : recv[c] # "off" => c <= link.sock
  /\ connector = "connected" => link.sock \in Conns /\ recv[link.sock] = "off"
  /\ link.disconnects <= Cardinality(Gone)
  /\ \A c \in Conns : c > link.sock => net[c].replies = <<>>
  /\ calm => \A c \in Conns : recv[c] \in {"off", "poll"}

(* A call in progress has its own cell, with its id; ids are fresh.        *)
Active(t) == caller[t].pc # "idle"
Calls ==
  /\ \A t \in Callers : /\ Active(t) => /\ caller[t].cell \in Slots /\ caller[t].id # None
                                        /\ handler[caller[t].cell].id = caller[t].id
                        /\ caller[t].id < link.next
  /\ \A s \in Slots : handler[s].id < link.next
  /\ \A t, u \in Callers : t # u /\ caller[t].id # None => caller[t].id # caller[u].id
  /\ \A s, r \in Slots : s # r /\ handler[s].id # None => handler[s].id # handler[r].id

(* The map holds the cells in use, each under its id.                      *)
Members == [b \in Buckets |-> {s \in Used : Hash(handler[s].id) = b}]
Mapping == Chained(hdl_hashmap, Members)

(* Commands come on the first connection, and are ahead of each other on   *)
(* the wire, in the queue, in the thread's hands and among the replies.    *)
OffWire(n) ==
  \A c \in Conns :
    /\ c = 1 => n <= net[c].commands
    /\ \A k \in DOMAIN net[c].to_agent :
         IsCommand(net[c].to_agent[k]) => n < net[c].to_agent[k][2]
OffQueue(n) ==
  /\ OffWire(n)
  /\ \A k \in DOMAIN queue : IsCommand(queue[k].msg) => n < queue[k].msg[2]
WireInOrder(c) ==
  \A k \in DOMAIN net[c].to_agent : IsCommand(net[c].to_agent[k]) =>
    /\ c = 1 /\ net[c].to_agent[k][2] <= net[c].commands
    /\ \A j \in 1 .. k - 1 : IsCommand(net[c].to_agent[j]) =>
         net[c].to_agent[j][2] < net[c].to_agent[k][2]
QueueInOrder ==
  \A k \in DOMAIN queue : IsCommand(queue[k].msg) =>
    /\ queue[k].conn = 1 /\ OffWire(queue[k].msg[2])
    /\ \A j \in 1 .. k - 1 : IsCommand(queue[j].msg) => queue[j].msg[2] < queue[k].msg[2]
Replied(r) == r[1] = 1 /\ OffQueue(r[2]) /\ (ToReply => r[2] < proc.msg[2])
HasReply(r) == \E c \in Conns : \E k \in DOMAIN net[c].replies : net[c].replies[k] = r
Replying(n) == ToReply /\ proc.msg[2] = n
InOrder ==
  /\ \A c \in Conns : WireInOrder(c)
  /\ QueueInOrder
  /\ ToReply => proc.msg[1] = 1
  /\ \A n \in 1 .. MaxCommands : Replying(n) => OffQueue(n)
  /\ \A r \in Commands : HasReply(r) => Replied(r)
  /\ RepliesInOrder

(* Until a connection is lost, the answer to a call is in one place, and   *)
(* the call still expects it.                                              *)
Asked(id, c) == id \in net[c].serving
OnWire(id, c, k) == k \in DOMAIN net[c].to_agent /\ net[c].to_agent[k] = <<"answer", id>>
Queued(id, k) == k \in DOMAIN queue /\ queue[k].msg = <<"answer", id>>
Handled(id) == proc.pc \in {"find", "found", "typed"} /\ proc.msg[2] = id
SomeAsked(id) == \E c \in Conns : Asked(id, c)
SomeOnWire(id) == \E c \in Conns : \E k \in Nat : OnWire(id, c, k)
SomeQueued(id) == \E k \in Nat : Queued(id, k)
Expects(t, id) == caller[t].id = id /\ caller[t].pc \in {"sent", "waiting"}
OnePlace(id) ==
  /\ \A c, d \in Conns : Asked(id, c) /\ Asked(id, d) => c = d
  /\ \A c, d \in Conns : \A j, k \in Nat : OnWire(id, c, j) /\ OnWire(id, d, k) => c = d /\ j = k
  /\ \A j, k \in Nat : Queued(id, j) /\ Queued(id, k) => j = k
  /\ SomeAsked(id) => ~SomeOnWire(id) /\ ~SomeQueued(id) /\ ~Handled(id)
  /\ SomeOnWire(id) => ~SomeQueued(id) /\ ~Handled(id)
  /\ SomeQueued(id) => ~Handled(id)
  /\ SomeAsked(id) \/ SomeOnWire(id) \/ SomeQueued(id) \/ Handled(id) =>
       \E t \in Callers : Expects(t, id)

(* What the caller of an answered call finds in its cell is the answer, if *)
(* no wait ended early up to that call.                                    *)
Clean == 1 .. early - 1
Serves(t) == Expects(t, proc.msg[2]) /\ caller[t].cell = proc.cell
Answered(t) == caller[t].type = "RESPONSE" /\ caller[t].answer = caller[t].id
HasAnswer(t) ==
  /\ handler[caller[t].cell].type = "RESPONSE"
  /\ handler[caller[t].cell].answer = caller[t].id
Writes == proc.pc \in {"found", "typed"} /\ proc.msg[2] \in Clean
Results ==
  /\ \A t \in Callers : caller[t].id \in Clean =>
       /\ caller[t].pc = "idle" => Answered(t)
       /\ caller[t].pc = "woken" => HasAnswer(t)
  /\ Writes => \E t \in Callers : Serves(t)
  /\ Writes /\ proc.pc = "typed" => handler[proc.cell].type = "RESPONSE"
Answers == calm => (\A id \in Clean : OnePlace(id)) /\ Results

(* A cell and a call have an answer to themselves or to an earlier call:   *)
(* the cell that was found may meanwhile be used for a later one.          *)
Stale ==
  /\ \A s \in Slots : handler[s].answer <= handler[s].id
  /\ \A t \in Callers : caller[t].answer <= caller[t].id
  /\ proc.pc \in {"found", "typed"} => proc.msg[2] <= handler[proc.cell].id

Inv == Types /\ Sockets /\ Calls /\ Mapping /\ InOrder /\ Stale /\ Answers
-----------------------------------------------------------------------------
(* There are more cells than callers: one is free for a caller that is     *)
(* idle.                                                                   *)
LEMMA FreeCell ==
  ASSUME Types, NEW t \in Callers, ~Active(t)
  PROVE  \E s \in Slots \ Used : s = CHOOSE c \in Slots \ Used : \A d \in Slots \ Used : c <= d
<1> DEFINE Busy == {u \in Callers : Active(u)}
           f == [u \in Busy |-> caller[u].cell]
<1>1. IsFiniteSet(Callers) /\ Cardinality(Callers) = Cardinality(Invokers) + 1
      /\ Cardinality(Invokers) \in Nat
  BY ClientAssumption, FS_AddElement, FS_CardinalityType DEF Callers
<1>2. IsFiniteSet(Busy) /\ Cardinality(Busy) <= Cardinality(Invokers)
  <2>1. IsFiniteSet(Callers \ {t}) /\ Cardinality(Callers \ {t}) = Cardinality(Invokers)
    <3>1. PICK n \in Nat : n = Cardinality(Invokers)
      BY <1>1
    <3>2. IsFiniteSet(Callers \ {t}) /\ Cardinality(Callers \ {t}) = Cardinality(Callers) - 1
      BY <1>1, FS_RemoveElement
    <3> QED BY <1>1, <3>1, <3>2
  <2>2. Busy \in SUBSET (Callers \ {t})
    OBVIOUS
  <2> HIDE DEF Busy
  <2> QED BY <2>1, <2>2, FS_Subset
<1>3. Used = {f[u] : u \in Busy}
  BY DEF Used, Active
<1>4. IsFiniteSet(Used) /\ Cardinality(Used) <= Cardinality(Busy)
  <2>1. f \in Surjection(Busy, Used)
    BY <1>3 DEF Surjection
  <2> HIDE DEF f, Busy
  <2> QED BY <1>2, <2>1, FS_Surjection
<1>5. Slots \ Used # {}
  <2> SUFFICES ASSUME Slots \ Used = {} PROVE FALSE
    OBVIOUS
  <2>1. Slots \in SUBSET Used
    OBVIOUS
  <2>2. Cardinality(Slots) = NObjects /\ NObjects \in Nat
    BY MapAssumption, FS_Interval DEF Slots, Objects
  <2>3. Cardinality(Slots) <= Cardinality(Used)
    BY <1>4, <2>1, FS_Subset
  <2>4. Cardinality(Used) \in Nat /\ Cardinality(Busy) \in Nat
    BY <1>2, <1>4, FS_CardinalityType
  <2> HIDE DEF Busy
  <2> QED BY <1>1, <1>2, <1>4, <2>2, <2>3, <2>4, ClientAssumption
<1>6. Slots \ Used \in SUBSET Nat
  BY DEF Slots, Objects
<1> QED BY <1>5, <1>6, LeastIs

(* The types of what a message and a place in a sequence give.             *)
LEMMA HeadOfQueue ==
  ASSUME Types, queue # <<>>
  PROVE  /\ Rest \in Seq(QueueType) /\ Head(queue).conn \in Conns
         /\ Taken[1] = Head(queue).conn /\ Taken[2] = Head(queue).msg[2]
         /\ Taken \in (Conns \cup {None}) \X Nat
         /\ IsCommand(Head(queue).msg) => Taken \in Commands
         /\ ~IsCommand(Head(queue).msg) => Taken[2] \in 1 .. MaxCalls
                                           /\ Head(queue).msg = <<"answer", Taken[2]>>
<1>1. queue \in Seq(QueueType)
  BY DEF Types
<1>2. Head(queue) \in QueueType /\ Rest \in Seq(QueueType)
  BY <1>1 DEF Rest
<1>3. PICK q \in Conns, x \in Messages : Head(queue).conn = q /\ Head(queue).msg = x
  BY <1>2 DEF QueueType
<1>4. Taken = <<q, x[2]>> /\ MaxCalls \in Nat /\ MaxCommands \in Nat
  BY <1>3, ClientAssumption DEF Taken
<1>5. CASE x \in {"answer"} \X (1 .. MaxCalls)
  BY <1>2, <1>3, <1>4, <1>5 DEF IsCommand, Conns, None
<1>6. CASE x \in {"command"} \X (1 .. MaxCommands)
  BY <1>2, <1>3, <1>4, <1>6 DEF IsCommand, Conns, None, Commands
<1> QED BY <1>5, <1>6 DEF Messages

(* plat_clnt_send, whatever is sent: it reaches an open connection, or     *)
(* nothing changes.                                                        *)
Sends(n) ==
  \/ link.sock \in Conns /\ net[link.sock].up = "open"
     /\ net' = [net EXCEPT ![link.sock] = n] /\ alive' = alive
  \/ net' = net /\ alive' \in BOOLEAN
(* plat_clnt_send is one of the two.                                       *)
LEMMA SendIs ==
  ASSUME Types, NEW n, plat_clnt_send(n)
  PROVE  Sends(n)
<1>1. link.sock \in Conns \cup {None}
  BY ClientAssumption DEF Types, LinkType, Conns, None
<1>2. CASE Open(link.sock)
  BY <1>1, <1>2 DEF plat_clnt_send, Open, Sends
<1>3. CASE ~Open(link.sock)
  <2>1. net' = net /\ alive' \in {TRUE, net[link.sock].up # "closed_by_peer"}
    BY <1>3 DEF plat_clnt_send
  <2>2. alive' \in BOOLEAN
    BY <2>1, Zenon
  <2> QED BY <2>1, <2>2 DEF Sends
<1> QED BY <1>2, <1>3

(* Everything has its type when the client is started.                     *)
LEMMA InitTypes == Init => Types
<1> SUFFICES ASSUME Init PROVE Types
  OBVIOUS
<1>1. MaxCalls \in Nat /\ MaxConns \in Nat /\ MaxCommands \in Nat
  BY ClientAssumption
<1>2. link \in LinkType /\ connector \in ConnectorPlaces /\ recv \in [Conns -> RecvPlaces]
      /\ queue \in Seq(QueueType)
  BY <1>1 DEF Init, LinkType, ConnectorPlaces, RecvPlaces, None
<1>3. net \in [Conns -> NetType]
  <2>1. [up |-> "none", to_agent |-> <<>>, serving |-> {}, commands |-> 0, replies |-> <<>>] \in NetType
    BY <1>1 DEF NetType
  <2> QED BY <2>1 DEF Init
<1>4. handler \in [Slots -> HandlerType] /\ caller \in [Callers -> CallerType]
  BY <1>1 DEF Init, NewCell, HandlerType, CallerType, ResponseTypes, Places, None
<1>5. proc \in ProcType /\ proc.pc = "pop" /\ early \in 1 .. MaxCalls + 1
  BY <1>1 DEF Init, Nothing, ProcType, None
<1> QED BY <1>2, <1>3, <1>4, <1>5 DEF Init, Types, ToReply

(* A caller's call of clnt_invoke keeps the types, step by step.           *)
LEMMA CallerTypes ==
  ASSUME Types, Calls, NEW t \in Callers, Caller(t)
  PROVE  Types'
<1>1. /\ MaxCalls \in Nat /\ MaxConns \in Nat /\ MaxCommands \in Nat
      /\ link \in LinkType /\ net \in [Conns -> NetType]
      /\ handler \in [Slots -> HandlerType] /\ caller \in [Callers -> CallerType]
      /\ connector \in ConnectorPlaces
  BY ClientAssumption DEF Types
<1>2. \A f \in [Callers -> CallerType], x \in CallerType : [f EXCEPT ![t] = x] \in [Callers -> CallerType]
  OBVIOUS
<1>3. PICK x \in CallerType : x = caller[t]
  BY <1>1
<1>4. CASE Create(t)
  <2>1. link.next \in 1 .. MaxCalls /\ link.next \in 0 .. MaxCalls /\ link.next + 1 \in 1 .. MaxCalls + 1
    <3>1. link.next \in 1 .. MaxCalls + 1 /\ link.next <= MaxCalls
      BY <1>1, <1>4 DEF LinkType, Create
    <3> QED BY <1>1, <3>1
  <2>2. PICK s \in Slots :
          /\ handler' = [handler EXCEPT ![s] = NewCell(MsgId)]
          /\ caller' = [caller EXCEPT ![t].pc = "created", ![t].cell = s, ![t].id = MsgId]
    BY <1>4, FreeCell DEF Create, Active
  <2>3. link' \in LinkType
    BY <1>1, <1>4, <2>1 DEF LinkType, Create
  <2>4. handler' \in [Slots -> HandlerType]
    <3>1. NewCell(MsgId) \in HandlerType
      BY <1>1, <2>1 DEF NewCell, MsgId, HandlerType, ResponseTypes, None
    <3> QED BY <1>1, <2>2, <3>1
  <2>5. caller' \in [Callers -> CallerType]
    <3>1. caller' = [caller EXCEPT ![t] = [x EXCEPT !.pc = "created", !.cell = s, !.id = MsgId]]
      BY <1>1, <1>3, <2>2
    <3>2. [x EXCEPT !.pc = "created", !.cell = s, !.id = MsgId] \in CallerType
      BY <2>1 DEF CallerType, MsgId, Places
    <3> QED BY <1>1, <1>2, <3>1, <3>2
  <2> QED BY <1>4, <2>3, <2>4, <2>5 DEF Types, Create, ToReply
<1>5. CASE Send(t)
  <2>1. PICK n : n = [net[link.sock] EXCEPT !.serving = @ \cup {caller[t].id}] /\ Sends(n)
    BY <1>5, SendIs DEF Send
  <2>2. caller' \in [Callers -> CallerType]
    <3>1. caller' = [caller EXCEPT ![t] = [x EXCEPT !.pc = "sent"]]
      BY <1>1, <1>3, <1>5 DEF Send
    <3>2. [x EXCEPT !.pc = "sent"] \in CallerType
      BY DEF CallerType, Places
    <3> QED BY <1>1, <1>2, <3>1, <3>2
  <2>3. net' \in [Conns -> NetType] /\ alive' \in BOOLEAN
    <3>1. caller[t].id \in 0 .. MaxCalls /\ caller[t].id # 0
      BY <1>1, <1>5 DEF CallerType, Calls, Active, Send, None
    <3>2. caller[t].id \in 1 .. MaxCalls
      BY <1>1, <3>1
    <3>3. link.sock \in Conns => n \in NetType
      <4>1. ASSUME NEW y \in NetType, NEW i \in 1 .. MaxCalls
            PROVE  [y EXCEPT !.serving = @ \cup {i}] \in NetType
        BY <1>1 DEF NetType
      <4> QED BY <1>1, <2>1, <3>2, <4>1
    <3>4. alive \in BOOLEAN
      BY DEF Types
    <3> QED BY <1>1, <2>1, <3>3, <3>4 DEF Sends
  <2> QED BY <1>5, <2>2, <2>3 DEF Types, Send, cells, ToReply
<1>6. CASE Wait(t)
  <2>1. caller' = [caller EXCEPT ![t] = [x EXCEPT !.pc = "waiting"]]
    BY <1>1, <1>3, <1>6 DEF Wait
  <2>2. [x EXCEPT !.pc = "waiting"] \in CallerType
    BY DEF CallerType, Places
  <2>3. caller' \in [Callers -> CallerType]
    BY <1>1, <1>2, <2>1, <2>2
  <2> QED BY <1>6, <2>3 DEF Types, Wait, cells, ToReply
<1>7. CASE Return(t)
  <2>1. PICK s \in Slots : s = caller[t].cell
    BY <1>7 DEF Calls, Active, Return
  <2>2. PICK h \in HandlerType : h = handler[s]
    BY <1>1
  <2>3. caller' = [caller EXCEPT ![t] = [x EXCEPT !.pc = "idle", !.cell = None,
                                                  !.type = h.type, !.answer = h.answer]]
    BY <1>1, <1>3, <1>7, <2>1, <2>2 DEF Return
  <2>4. [x EXCEPT !.pc = "idle", !.cell = None, !.type = h.type, !.answer = h.answer] \in CallerType
    BY DEF CallerType, HandlerType, Places
  <2>5. caller' \in [Callers -> CallerType]
    BY <1>1, <1>2, <2>3, <2>4
  <2>6. handler' \in [Slots -> HandlerType]
    <3>1. handler' = [handler EXCEPT ![s] = NewCell(h.id)]
      BY <1>7, <2>1, <2>2 DEF Return
    <3>2. NewCell(h.id) \in HandlerType
      BY <1>1 DEF HandlerType, NewCell, ResponseTypes, None
    <3> QED BY <1>1, <3>1, <3>2
  <2>7. connector' \in ConnectorPlaces
    BY <1>1, <1>7 DEF Return, ConnectorPlaces
  <2> QED BY <1>7, <2>5, <2>6, <2>7 DEF Types, Return, ToReply
<1>8. CASE clnt_send(t)
  <2>1. PICK p \in {"sending", "sent"} : caller' = [caller EXCEPT ![t] = [x EXCEPT !.pc = p]]
    BY <1>1, <1>3, <1>8 DEF clnt_send
  <2>2. [x EXCEPT !.pc = p] \in CallerType
    BY DEF CallerType, Places
  <2>3. caller' \in [Callers -> CallerType]
    BY <1>1, <1>2, <2>1, <2>2
  <2> QED BY <1>8, <2>3 DEF Types, clnt_send, cells, ToReply
<1>9. CASE Spurious(t)
  <2>1. caller' = [caller EXCEPT ![t] = [x EXCEPT !.pc = "woken"]]
    BY <1>1, <1>3, <1>9 DEF Spurious
  <2>2. [x EXCEPT !.pc = "woken"] \in CallerType
    BY DEF CallerType, Places
  <2>3. caller' \in [Callers -> CallerType]
    BY <1>1, <1>2, <2>1, <2>2
  <2>4. early' \in 1 .. MaxCalls + 1
    <3>1. caller[t].id \in 0 .. MaxCalls /\ caller[t].id # 0
      BY <1>1, <1>9 DEF CallerType, Calls, Active, Spurious, None
    <3>2. early \in 1 .. MaxCalls + 1 /\ early' \in {caller[t].id, early}
      BY <1>9 DEF Types, Spurious
    <3> QED BY <1>1, <3>1, <3>2
  <2> QED BY <1>9, <2>3, <2>4 DEF Types, Spurious, cells, ToReply
<1> QED BY <1>4, <1>5, <1>6, <1>7, <1>8, <1>9 DEF Caller

(* So does every step of the connect thread.                               *)
LEMMA ConnectorTypes ==
  ASSUME Types, Sockets, Connector
  PROVE  Types'
<1>1. /\ MaxConns \in Nat /\ link \in LinkType /\ net \in [Conns -> NetType]
      /\ connector \in ConnectorPlaces /\ recv \in [Conns -> RecvPlaces]
  BY ClientAssumption DEF Types
<1>2. CASE Connect
  <2>1. link.sock \in 0 .. MaxConns /\ link.sock < MaxConns
    BY <1>1, <1>2 DEF Connect, LinkType
  <2>2. link.sock + 1 \in 0 .. MaxConns /\ link.sock + 1 \in Conns
    BY <1>1, <2>1 DEF Conns
  <2>3. link' \in LinkType
    BY <1>1, <1>2, <2>2 DEF Connect, LinkType
  <2>4. net' \in [Conns -> NetType]
    <3>1. PICK c \in Conns : c = link.sock + 1
      BY <2>2
    <3>2. net' = [net EXCEPT ![c].up = "open"]
      BY <1>2, <3>1 DEF Connect
    <3>3. \A y \in NetType : [y EXCEPT !.up = "open"] \in NetType
      BY DEF NetType
    <3> QED BY <1>1, <3>2, <3>3
  <2>5. connector' \in ConnectorPlaces
    BY <1>2 DEF Connect, ConnectorPlaces
  <2> QED BY <1>2, <2>3, <2>4, <2>5 DEF Types, Connect, cells, ToReply
<1>3. CASE StartReceiver
  <2>1. link' \in LinkType
    BY <1>1, <1>3 DEF StartReceiver, LinkType
  <2>2. recv' \in [Conns -> RecvPlaces]
    BY <1>1, <1>3 DEF StartReceiver, RecvPlaces
  <2>3. connector' \in ConnectorPlaces
    BY <1>3 DEF StartReceiver, ConnectorPlaces
  <2> QED BY <1>3, <2>1, <2>2, <2>3 DEF Types, StartReceiver, cells, ToReply
<1>4. CASE TestConnected
  <2>1. connector' \in ConnectorPlaces
    BY <1>4 DEF TestConnected, ConnectorPlaces
  <2> QED BY <1>4, <2>1 DEF Types, TestConnected, cells, ToReply
<1>5. CASE SleepConnector
  <2>1. connector' \in ConnectorPlaces
    BY <1>5 DEF SleepConnector, ConnectorPlaces
  <2> QED BY <1>5, <2>1 DEF Types, SleepConnector, cells, ToReply
<1> QED BY <1>2, <1>3, <1>4, <1>5 DEF Connector

(* A receive thread that runs has its connection behind it.                *)
LEMMA SocketIs ==
  ASSUME Types, Sockets, NEW c \in Conns, recv[c] # "off"
  PROVE  link.sock \in Conns
<1>1. link.sock \in 0 .. MaxConns /\ MaxConns \in Nat /\ c <= link.sock
  BY ClientAssumption DEF Types, LinkType, Sockets
<1> QED BY <1>1 DEF Conns

(* The connections are finitely many, and so are those that are gone.      *)
LEMMA GoneIs ==
  /\ IsFiniteSet(Gone) /\ Cardinality(Gone) \in 0 .. MaxConns
  /\ \A c \in Conns : recv[c] # "dead" => Cardinality(Gone \cup {c}) = Cardinality(Gone) + 1
                                          /\ Cardinality(Gone \cup {c}) <= MaxConns
<1>1. MaxConns \in Nat /\ IsFiniteSet(Conns) /\ Cardinality(Conns) = MaxConns
  BY ClientAssumption, FS_Interval DEF Conns
<1>2. \A G \in SUBSET Conns : IsFiniteSet(G) /\ Cardinality(G) <= MaxConns /\ Cardinality(G) \in Nat
  BY <1>1, FS_Subset, FS_CardinalityType
<1>3. Gone \in SUBSET Conns /\ \A c \in Conns : Gone \cup {c} \in SUBSET Conns
  BY DEF Gone
<1>4. IsFiniteSet(Gone) /\ Cardinality(Gone) <= MaxConns /\ Cardinality(Gone) \in Nat
  BY <1>2, <1>3
<1>5. ASSUME NEW c \in Conns, recv[c] # "dead"
      PROVE  Cardinality(Gone \cup {c}) = Cardinality(Gone) + 1
             /\ Cardinality(Gone \cup {c}) <= MaxConns
  <2>1. c \notin Gone
    BY <1>5 DEF Gone
  <2> QED BY <1>2, <1>3, <1>4, <2>1, FS_AddElement
<1> QED BY <1>1, <1>4, <1>5

(* So does every step of a receive thread.                                 *)
LEMMA ReceiverTypes ==
  ASSUME Types, Sockets, NEW c \in Conns, Receiver(c)
  PROVE  Types'
<1>1. /\ MaxCalls \in Nat /\ MaxConns \in Nat /\ MaxCommands \in Nat
      /\ link \in LinkType /\ net \in [Conns -> NetType]
      /\ handler \in [Slots -> HandlerType] /\ caller \in [Callers -> CallerType]
      /\ connector \in ConnectorPlaces /\ recv \in [Conns -> RecvPlaces]
      /\ queue \in Seq(QueueType) /\ alive \in BOOLEAN
  BY ClientAssumption DEF Types
<1>2. \A x \in RecvPlaces : [recv EXCEPT ![c] = x] \in [Conns -> RecvPlaces]
  BY <1>1
<1>3. CASE Receive(c)
  <2>1. PICK s \in Conns : s = link.sock
    BY <1>3, SocketIs DEF Receive
  <2>2. PICK w \in Seq(Messages) : w = net[s].to_agent
    BY <1>1 DEF NetType
  <2>3. w # <<>> /\ Head(w) \in Messages /\ Tail(w) \in Seq(Messages)
    BY <1>3, <2>1, <2>2 DEF Receive
  <2>4. net' \in [Conns -> NetType]
    <3>1. net' = [net EXCEPT ![s].to_agent = Tail(w)]
      BY <1>3, <2>1, <2>2, <1>1 DEF Receive
    <3>2. \A y \in NetType : [y EXCEPT !.to_agent = Tail(w)] \in NetType
      BY <2>3 DEF NetType
    <3> QED BY <1>1, <3>1, <3>2
  <2>5. queue' \in Seq(QueueType)
    <3>1. PICK q \in QueueType : q = [conn |-> s, msg |-> Head(w)]
      BY <2>3 DEF QueueType
    <3>2. queue' = queue \/ queue' = Append(queue, q)
      BY <1>3, <2>1, <2>2, <3>1 DEF Receive, Pushed
    <3>3. Append(queue, q) \in Seq(QueueType)
      BY <1>1
    <3> QED BY <1>1, <3>2, <3>3
  <2> QED BY <1>3, <2>4, <2>5 DEF Types, Receive, cells, ToReply
<1>4. CASE LeaveLoop(c)
  <2>1. recv' \in [Conns -> RecvPlaces] /\ calm' \in BOOLEAN
    BY <1>2, <1>4 DEF LeaveLoop, RecvPlaces
  <2> QED BY <1>4, <2>1 DEF Types, LeaveLoop, cells, ToReply
<1>5. CASE Disconnect(c)
  <2>1. recv' \in [Conns -> RecvPlaces] /\ link' \in LinkType
    BY <1>1, <1>2, <1>5 DEF Disconnect, RecvPlaces, LinkType
  <2> QED BY <1>5, <2>1 DEF Types, Disconnect, cells, ToReply
<1>6. CASE WalkHandlers(c)
  <2>1. recv' \in [Conns -> RecvPlaces]
    BY <1>2, <1>6 DEF WalkHandlers, RecvPlaces
  <2>2. handler' \in [Slots -> HandlerType]
    <3>1. \A y \in HandlerType : [y EXCEPT !.type = "DISCONNECT"] \in HandlerType
      BY DEF HandlerType, ResponseTypes
    <3> QED BY <1>1, <1>6, <3>1 DEF WalkHandlers
  <2>3. caller' \in [Callers -> CallerType]
    <3>1. \A y \in CallerType : [y EXCEPT !.pc = "woken"] \in CallerType
      BY DEF CallerType, Places
    <3> QED BY <1>1, <1>6, <3>1 DEF WalkHandlers
  <2> QED BY <1>6, <2>1, <2>2, <2>3 DEF Types, WalkHandlers, ToReply
<1>7. CASE CloseSocket(c)
  <2>1. recv' \in [Conns -> RecvPlaces]
    BY <1>2, <1>7 DEF CloseSocket, RecvPlaces
  <2>2. net' \in [Conns -> NetType]
    <3>1. PICK s \in Conns : s = link.sock
      BY <1>7, SocketIs DEF CloseSocket
    <3>2. PICK y \in NetType : y = net[s]
      BY <1>1
    <3>3. net' = [net EXCEPT ![s] = [y EXCEPT !.up = "closed", !.serving = {}, !.to_agent = <<>>]]
      BY <1>1, <1>7, <3>1, <3>2 DEF CloseSocket
    <3>4. [y EXCEPT !.up = "closed", !.serving = {}, !.to_agent = <<>>] \in NetType
      <4>1. PICK w \in Seq(Messages) : w = <<>>
        <5>1. <<>> \in Seq(Messages)
          OBVIOUS
        <5> QED BY <5>1, Zenon
      <4>2. [y EXCEPT !.up = "closed", !.serving = {}, !.to_agent = w] \in NetType
        BY DEF NetType
      <4> QED BY <4>1, <4>2
    <3> QED BY <1>1, <3>3, <3>4
  <2> QED BY <1>7, <2>1, <2>2 DEF Types, CloseSocket, cells, ToReply
<1>8. CASE NotifyConnector(c)
  <2>1. recv' \in [Conns -> RecvPlaces] /\ connector' \in ConnectorPlaces
    BY <1>1, <1>2, <1>8 DEF NotifyConnector, RecvPlaces, ConnectorNotified, ConnectorPlaces
  <2>2. link' \in LinkType
    <3>1. PICK d \in 0 .. MaxConns : d = link.disconnects
      BY <1>1 DEF LinkType
    <3>2. d + 1 \in 0 .. MaxConns
      <4>1. PICK g \in 0 .. MaxConns : g = Cardinality(Gone)
        BY GoneIs
      <4>2. g + 1 <= MaxConns /\ d <= g
        BY <1>8, <3>1, <4>1, GoneIs DEF Sockets, NotifyConnector
      <4> QED BY <1>1, <4>2
    <3> QED BY <1>1, <1>8, <3>1, <3>2 DEF NotifyConnector, LinkType
  <2>3. alive' \in BOOLEAN
    <3>1. (link'.disconnects <= MaxDisconnects) \in BOOLEAN
      BY <1>1, <2>2, ClientAssumption DEF LinkType
    <3>2. alive' \in {FALSE, link'.disconnects <= MaxDisconnects}
      BY <1>8 DEF NotifyConnector
    <3> QED BY <3>1, <3>2, Zenon
  <2> QED BY <1>8, <2>1, <2>2, <2>3 DEF Types, NotifyConnector, cells, ToReply
<1> QED BY <1>3, <1>4, <1>5, <1>6, <1>7, <1>8 DEF Receiver

(* So does every step of the processing thread.                            *)
LEMMA ProcTypes ==
  ASSUME Types, Mapping, Proc
  PROVE  Types'
<1>1. /\ MaxCalls \in Nat /\ MaxConns \in Nat /\ MaxCommands \in Nat
      /\ link \in LinkType /\ net \in [Conns -> NetType]
      /\ handler \in [Slots -> HandlerType] /\ caller \in [Callers -> CallerType]
      /\ queue \in Seq(QueueType) /\ proc \in ProcType /\ hdl_hashmap \in MapType
  BY ClientAssumption DEF Types, Mapping, Chained
<1>2. Nothing \in ProcType /\ Nothing.pc = "pop"
  BY DEF Nothing, ProcType, None
<1>3. CASE ReadHead
  <2>1. queue' \in Seq(QueueType) /\ Taken \in (Conns \cup {None}) \X Nat /\ Taken[2] \in 1 .. MaxCalls
    BY <1>3, HeadOfQueue DEF ReadHead
  <2>2. hdl_hashmap.head[Hash(Taken[2])] \in Slots \cup {None}
    <3>1. Hash(Taken[2]) \in Buckets
      BY <2>1, HashType, <1>1
    <3> QED BY <1>1, <3>1 DEF MapType, Links, Slots, Null, None
  <2>3. proc' = [pc |-> "find", msg |-> Taken, cell |-> hdl_hashmap.head[Hash(Taken[2])]]
    BY <1>3 DEF ReadHead
  <2>4. proc' \in ProcType
    BY <2>1, <2>2, <2>3 DEF ProcType
  <2>5. proc'.pc = "find" /\ proc'.msg[2] \in 1 .. MaxCalls
    BY <2>1, <2>3
  <2> QED BY <1>3, <2>1, <2>4, <2>5 DEF Types, ReadHead, cells, ToReply
<1>4. CASE FindHandler
  <2>1. PICK s : s = Found(proc.cell, proc.msg[2])
    OBVIOUS
  <2>2. proc.cell \in Links /\ proc.msg[2] \in 1 .. MaxCalls
    BY <1>1, <1>4 DEF ProcType, Slots, Links, Null, None, Types, FindHandler
  <2>3. s = Null \/ s \in Slots
    BY <1>1, <2>1, <2>2, FindIs DEF Found, Slots
  <2>4. CASE s = Null
    <3>1. proc' = Nothing
      BY <1>4, <2>1, <2>4 DEF FindHandler
    <3>2. missed' \subseteq 1 .. MaxCalls
      BY <1>4, <2>2 DEF FindHandler, Types
    <3>3. proc' \in ProcType /\ proc'.pc = "pop"
      BY <1>2, <3>1
    <3> QED BY <1>4, <3>2, <3>3 DEF Types, FindHandler, cells, ToReply
  <2>5. CASE s # Null
    <3>1. proc' = [proc EXCEPT !.pc = "found", !.cell = s]
      BY <1>4, <2>1, <2>5 DEF FindHandler
    <3>2. proc' \in ProcType /\ proc'.pc = "found" /\ proc'.msg = proc.msg /\ proc'.cell \in Slots
      BY <1>1, <2>3, <2>5, <3>1 DEF ProcType
    <3>3. missed' \subseteq 1 .. MaxCalls
      BY <1>4, <2>2 DEF FindHandler, Types
    <3> QED BY <1>4, <2>2, <3>2, <3>3 DEF Types, FindHandler, cells, ToReply
  <2> QED BY <2>4, <2>5
<1>5. CASE WriteType
  <2>1. proc' = [proc EXCEPT !.pc = "typed"] /\ proc.pc = "found"
    BY <1>5 DEF WriteType
  <2>2. proc' \in ProcType /\ proc'.pc = "typed" /\ proc'.msg = proc.msg /\ proc'.cell = proc.cell
    BY <1>1, <2>1 DEF ProcType
  <2>3. proc.msg[2] \in 1 .. MaxCalls /\ proc.cell \in Slots
    BY <2>1 DEF Types
  <2>4. handler' \in [Slots -> HandlerType]
    <3>1. PICK s \in Slots : s = proc.cell
      BY <2>3
    <3>2. PICK y \in HandlerType : y = handler[s]
      BY <1>1
    <3>3. handler' = [handler EXCEPT ![s] = [y EXCEPT !.type = "RESPONSE"]] \/ handler' = handler
      BY <1>1, <1>5, <3>1, <3>2 DEF WriteType, HandlerType
    <3>4. [y EXCEPT !.type = "RESPONSE"] \in HandlerType
      BY DEF HandlerType, ResponseTypes
    <3> QED BY <1>1, <3>3, <3>4
  <2> QED BY <1>5, <2>2, <2>3, <2>4 DEF Types, WriteType, ToReply
<1>6. CASE WriteResponse
  <2>1. proc' \in ProcType /\ proc'.pc = "pop" /\ proc.pc = "typed"
    BY <1>2, <1>6 DEF WriteResponse
  <2>2. proc.msg[2] \in 0 .. MaxCalls /\ proc.cell \in Slots
    BY <1>1, <2>1 DEF Types
  <2>3. handler' \in [Slots -> HandlerType]
    <3>1. PICK s \in Slots, i \in 0 .. MaxCalls : s = proc.cell /\ i = proc.msg[2]
      BY <2>2
    <3>2. PICK y \in HandlerType : y = handler[s]
      BY <1>1
    <3>3. handler' = [handler EXCEPT ![s] = [y EXCEPT !.answer = i]] \/ handler' = handler
      BY <1>1, <1>6, <3>1, <3>2 DEF WriteResponse, HandlerType
    <3>4. [y EXCEPT !.answer = i] \in HandlerType
      BY DEF HandlerType
    <3> QED BY <1>1, <3>3, <3>4
  <2>4. caller' \in [Callers -> CallerType]
    <3>1. \A y \in CallerType : [y EXCEPT !.pc = "woken"] \in CallerType
      BY DEF CallerType, Places
    <3> QED BY <1>1, <1>6, <3>1 DEF WriteResponse, Notified
  <2> QED BY <1>6, <2>1, <2>3, <2>4 DEF Types, WriteResponse, ToReply
<1>7. CASE RunCommand
  <2>1. queue' \in Seq(QueueType) /\ Taken \in (Conns \cup {None}) \X Nat /\ Taken \in Commands
    BY <1>7, HeadOfQueue DEF RunCommand
  <2>2. proc' = [pc |-> "reply", msg |-> Taken, cell |-> None]
    BY <1>7 DEF RunCommand
  <2>3. proc' \in ProcType /\ proc'.pc = "reply" /\ proc'.msg \in Commands
    BY <2>1, <2>2 DEF ProcType
  <2> QED BY <1>7, <2>1, <2>3 DEF Types, RunCommand, cells, ToReply
<1>8. CASE Reply
  <2>1. proc' \in ProcType /\ proc'.pc = "pop"
    BY <1>2, <1>8 DEF Reply
  <2>2. PICK n : n = [net[link.sock] EXCEPT !.replies = Append(@, proc.msg)] /\ Sends(n)
    BY <1>8, SendIs DEF Reply
  <2>3. PICK r \in Commands : r = proc.msg
    BY <1>8 DEF Reply, Types, ToReply
  <2>4. link.sock \in Conns => n \in NetType
    <3>1. ASSUME NEW y \in NetType PROVE [y EXCEPT !.replies = Append(@, r)] \in NetType
      <4>1. Append(y.replies, r) \in Seq(Commands)
        BY DEF NetType
      <4> QED BY <4>1 DEF NetType
    <3> QED BY <1>1, <2>2, <2>3, <3>1
  <2>5. net' \in [Conns -> NetType] /\ alive' \in BOOLEAN
    <3>1. alive \in BOOLEAN
      BY DEF Types
    <3> QED BY <1>1, <2>2, <2>4, <3>1 DEF Sends
  <2> QED BY <1>8, <2>1, <2>5 DEF Types, Reply, cells, ToReply
<1>9. CASE TestReply
  <2>1. proc' = Nothing \/ proc' = [proc EXCEPT !.pc = "replying"]
    BY <1>9 DEF TestReply
  <2>2. proc.msg \in Commands
    BY <1>9 DEF TestReply, Types, ToReply
  <2>3. proc' \in ProcType /\ proc'.pc \in {"pop", "replying"} /\ (ToReply' => proc'.msg \in Commands)
    BY <1>1, <1>2, <2>1, <2>2 DEF ProcType, ToReply
  <2> QED BY <1>9, <2>3 DEF Types, TestReply, cells
<1> QED BY <1>3, <1>4, <1>5, <1>6, <1>7, <1>8, <1>9 DEF Proc

(* So does every step of the server.                                       *)
LEMMA ServerTypes ==
  ASSUME Types, NEW c \in Conns, ServerAnswers(c) \/ ServerCommands(c) \/ ServerCloses(c)
  PROVE  Types'
<1>1. MaxCalls \in Nat /\ MaxCommands \in Nat /\ net \in [Conns -> NetType]
  BY ClientAssumption DEF Types
<1>2. PICK y \in NetType : y = net[c]
  BY <1>1
<1>3. \A x \in NetType : [net EXCEPT ![c] = x] \in [Conns -> NetType]
  BY <1>1
<1>4. CASE ServerAnswers(c)
  <2>1. PICK id \in y.serving : net' = [net EXCEPT ![c].serving = @ \ {id},
                                                   ![c].to_agent = Append(@, <<"answer", id>>)]
    BY <1>2, <1>4 DEF ServerAnswers
  <2>2. net' = [net EXCEPT ![c] = [y EXCEPT !.serving = @ \ {id},
                                            !.to_agent = Append(@, <<"answer", id>>)]]
    BY <1>1, <1>2, <2>1
  <2>3. [y EXCEPT !.serving = @ \ {id}, !.to_agent = Append(@, <<"answer", id>>)] \in NetType
    <3>1. id \in 1 .. MaxCalls
      BY DEF NetType
    <3>2. <<"answer", id>> \in Messages
      BY <3>1 DEF Messages
    <3>3. Append(y.to_agent, <<"answer", id>>) \in Seq(Messages)
      BY <3>2 DEF NetType
    <3> QED BY <3>3 DEF NetType
  <2>4. net' \in [Conns -> NetType]
    BY <1>3, <2>2, <2>3
  <2> QED BY <1>4, <2>4 DEF Types, ServerAnswers, cells, ToReply
<1>5. CASE ServerCommands(c)
  <2>1. PICK i \in 1 .. MaxCommands : i = y.commands + 1
    BY <1>1, <1>2, <1>5 DEF ServerCommands, NetType
  <2>2. net' = [net EXCEPT ![c] = [y EXCEPT !.commands = i,
                                            !.to_agent = Append(@, <<"command", i>>)]]
    BY <1>1, <1>2, <1>5, <2>1 DEF ServerCommands
  <2>3. [y EXCEPT !.commands = i, !.to_agent = Append(@, <<"command", i>>)] \in NetType
    <3>1. <<"command", i>> \in Messages
      BY DEF Messages
    <3>2. PICK w \in Seq(Messages) : w = Append(y.to_agent, <<"command", i>>)
      <4>1. Append(y.to_agent, <<"command", i>>) \in Seq(Messages)
        BY <3>1 DEF NetType
      <4> QED BY <4>1, Zenon
    <3>3. i \in 0 .. MaxCommands
      BY <1>1
    <3>4. [y EXCEPT !.commands = i, !.to_agent = w] \in NetType
      BY <3>3 DEF NetType
    <3> QED BY <3>2, <3>4
  <2>4. net' \in [Conns -> NetType]
    BY <1>3, <2>2, <2>3
  <2> QED BY <1>5, <2>4 DEF Types, ServerCommands, cells, ToReply
<1>6. CASE ServerCloses(c)
  <2>1. net' = [net EXCEPT ![c] = [y EXCEPT !.up = "closed_by_peer", !.serving = {}]]
    BY <1>1, <1>2, <1>6 DEF ServerCloses
  <2>2. [y EXCEPT !.up = "closed_by_peer", !.serving = {}] \in NetType
    BY DEF NetType
  <2>3. net' \in [Conns -> NetType]
    BY <1>3, <2>1, <2>2
  <2> QED BY <1>6, <2>3 DEF Types, ServerCloses, cells, ToReply
<1> QED BY <1>4, <1>5, <1>6

(* The types hold in the next state, too.                                  *)
LEMMA TypesStep ==
  ASSUME Types, Sockets, Calls, Mapping, [Next]_vars
  PROVE  Types'
<1>1. CASE Next
  BY <1>1, CallerTypes, ConnectorTypes, ReceiverTypes, ProcTypes, ServerTypes DEF Next
<1>2. CASE UNCHANGED vars
  BY <1>2 DEF vars, cells, Types, ToReply
<1> QED BY <1>1, <1>2
-----------------------------------------------------------------------------
(* The sockets.  Most steps leave them alone.                              *)
Quiet ==
  /\ recv' = recv /\ calm' = calm
  /\ link'.sock = link.sock /\ link'.disconnects = link.disconnects
  /\ connector' = "connected" => connector = "connected"
  /\ \A c \in Conns : c > link.sock => net'[c].replies = net[c].replies
(* They keep what is known of the sockets.                                 *)
LEMMA QuietSockets ==
  ASSUME Sockets, Quiet
  PROVE  Sockets'
<1>1. Gone' = Gone
  BY DEF Gone, Quiet
<1> QED BY <1>1 DEF Sockets, Quiet

(* A receive thread that leaves its loop changes its own place only.       *)
Leaves(c, p) ==
  /\ recv[c] # "off" /\ p # "off" /\ p # "poll"
  /\ recv' = [recv EXCEPT ![c] = p] /\ ~calm'
  /\ link'.sock = link.sock
  /\ connector' = "connected" => connector = "connected"
  /\ \A d \in Conns : net'[d].replies = net[d].replies
(* That keeps it, too.                                                     *)
LEMMA LeavesSockets ==
  ASSUME Types, Sockets, NEW c \in Conns, NEW p, Leaves(c, p),
         link'.disconnects <= Cardinality(Gone')
  PROVE  Sockets'
<1>1. /\ recv' = [recv EXCEPT ![c] = p] /\ recv[c] # "off" /\ p # "off"
      /\ recv \in [Conns -> RecvPlaces] /\ link'.sock = link.sock /\ ~calm'
      /\ connector' = "connected" => connector = "connected"
      /\ \A d \in Conns : net'[d].replies = net[d].replies
  BY DEF Types, Leaves
<1>2. \A d \in Conns : recv'[d] # "off" <=> recv[d] # "off"
  BY <1>1
<1>3. \A d \in Conns : recv'[d] # "off" => d <= link'.sock
  BY <1>1, <1>2 DEF Sockets
<1>4. connector' = "connected" => link'.sock \in Conns /\ recv'[link'.sock] = "off"
  BY <1>1, <1>2 DEF Sockets
<1>5. \A d \in Conns : d > link'.sock => net'[d].replies = <<>>
  BY <1>1 DEF Sockets
<1> QED BY <1>1, <1>3, <1>4, <1>5 DEF Sockets

(* plat_clnt_send leaves the other connections' replies.                        *)
LEMMA SendReplies ==
  ASSUME Types, NEW n, Sends(n)
  PROVE  \A c \in Conns : c # link.sock => net'[c].replies = net[c].replies
BY DEF Sends, Types

(* Every step keeps what is known of the sockets.                          *)
LEMMA SocketsStep ==
  ASSUME Types, Sockets, [Next]_vars
  PROVE  Sockets'
<1>1. /\ MaxConns \in Nat /\ link \in LinkType /\ net \in [Conns -> NetType]
      /\ connector \in ConnectorPlaces /\ recv \in [Conns -> RecvPlaces]
      /\ link.sock \in 0 .. MaxConns
  BY ClientAssumption DEF Types, LinkType
<1>2. \A c \in Conns : c \in Nat
  BY DEF Conns
<1>3. ASSUME NEW t \in Callers, Caller(t) PROVE Sockets'
  <2>1. CASE Create(t)
    <3>1. link'.sock = link.sock /\ link'.disconnects = link.disconnects
      BY <1>1, <2>1 DEF Create, LinkType
    <3> QED BY <2>1, <3>1, QuietSockets DEF Create, Quiet
  <2>2. CASE Send(t)
    <3>1. PICK n : n = [net[link.sock] EXCEPT !.serving = @ \cup {caller[t].id}] /\ Sends(n)
      BY <2>2, SendIs DEF Send
    <3>2. \A c \in Conns : c > link.sock => net'[c].replies = net[c].replies
      BY <1>1, <1>2, <3>1, SendReplies
    <3> QED BY <2>2, <3>2, QuietSockets DEF Send, Quiet
  <2>3. CASE clnt_send(t) \/ Wait(t) \/ Spurious(t)
    BY <2>3, QuietSockets DEF clnt_send, Wait, Spurious, Quiet
  <2>4. CASE Return(t)
    BY <2>4, QuietSockets DEF Return, Quiet
  <2> QED BY <1>3, <2>1, <2>2, <2>3, <2>4 DEF Caller
<1>4. CASE Connect
  <2>1. PICK s \in 0 .. MaxConns, d \in Conns : s = link.sock /\ d = s + 1 /\ s < MaxConns
    BY <1>1, <1>4 DEF Connect, Conns
  <2>2. link'.sock = d /\ link'.disconnects = link.disconnects
    BY <1>1, <1>4, <2>1 DEF Connect, LinkType
  <2>3. \A c \in Conns : net'[c].replies = net[c].replies
    BY <1>1, <1>4 DEF Connect, NetType
  <2>4. recv' = recv /\ calm' = calm /\ Gone' = Gone
    BY <1>4 DEF Connect, Gone
  <2>5. recv[d] = "off"
    BY <1>2, <2>1 DEF Sockets
  <2>6. \A c \in Conns : c <= s => c <= d
    BY <1>2, <2>1
  <2>7. \A c \in Conns : c > d => c > s
    BY <1>2, <2>1
  <2> QED BY <2>1, <2>2, <2>3, <2>4, <2>5, <2>6, <2>7 DEF Sockets
<1>5. CASE StartReceiver
  <2>1. PICK s \in Conns : s = link.sock /\ recv[s] = "off"
    BY <1>5 DEF StartReceiver, Sockets
  <2>2. recv' = [recv EXCEPT ![s] = "poll"] /\ connector' = "hello" /\ calm' = calm /\ net' = net
    BY <1>5, <2>1 DEF StartReceiver
  <2>3. link'.sock = s /\ link'.disconnects = link.disconnects
    BY <1>1, <1>5, <2>1 DEF StartReceiver, LinkType
  <2>4. Gone' = Gone
    BY <1>1, <2>1, <2>2 DEF Gone
  <2>5. \A c \in Conns : recv'[c] # "off" => c <= s
    BY <1>1, <1>2, <2>1, <2>2 DEF Sockets
  <2>6. calm' => \A c \in Conns : recv'[c] \in {"off", "poll"}
    BY <1>1, <2>1, <2>2 DEF Sockets
  <2> QED BY <2>1, <2>2, <2>3, <2>4, <2>5, <2>6 DEF Sockets
<1>6. CASE TestConnected
  BY <1>6, QuietSockets DEF TestConnected, Quiet
<1>7. CASE SleepConnector
  BY <1>7, QuietSockets DEF SleepConnector, Quiet
<1>8. ASSUME NEW c \in Conns, Receiver(c) PROVE Sockets'
  <2>1. CASE Receive(c)
    <3>1. \A d \in Conns : net'[d].replies = net[d].replies
      BY <1>1, <2>1 DEF Receive, NetType
    <3> QED BY <2>1, <3>1, QuietSockets DEF Receive, Quiet
  <2>2. CASE LeaveLoop(c)
    <3>1. Leaves(c, "lost")
      BY <2>2 DEF LeaveLoop, Leaves
    <3>2. Gone' = Gone
      BY <1>1, <2>2 DEF LeaveLoop, Gone
    <3> QED BY <2>2, <3>1, <3>2, LeavesSockets DEF LeaveLoop, Sockets
  <2>3. CASE Disconnect(c)
    <3>1. link'.sock = link.sock /\ link'.disconnects = link.disconnects
      BY <1>1, <2>3 DEF Disconnect, LinkType
    <3>2. Leaves(c, "walk")
      BY <2>3, <3>1 DEF Disconnect, Leaves, Sockets
    <3>3. Gone' = Gone
      BY <1>1, <2>3 DEF Disconnect, Gone
    <3> QED BY <3>1, <3>2, <3>3, LeavesSockets DEF Sockets
  <2>4. CASE WalkHandlers(c)
    <3>1. Leaves(c, "close")
      BY <2>4 DEF WalkHandlers, Leaves, Sockets
    <3>2. Gone' = Gone
      BY <1>1, <2>4 DEF WalkHandlers, Gone
    <3> QED BY <2>4, <3>1, <3>2, LeavesSockets DEF WalkHandlers, Sockets
  <2>5. CASE CloseSocket(c)
    <3>1. \A d \in Conns : net'[d].replies = net[d].replies
      BY <1>1, <2>5 DEF CloseSocket, NetType
    <3>2. Leaves(c, "notify")
      BY <2>5, <3>1 DEF CloseSocket, Leaves, Sockets
    <3>3. Gone' = Gone
      BY <1>1, <2>5 DEF CloseSocket, Gone
    <3> QED BY <2>5, <3>2, <3>3, LeavesSockets DEF CloseSocket, Sockets
  <2>6. CASE NotifyConnector(c)
    <3>1. link'.sock = link.sock /\ link'.disconnects = link.disconnects + 1
      BY <1>1, <2>6 DEF NotifyConnector, LinkType
    <3>2. connector' = "connected" => connector = "connected"
      BY <2>6 DEF NotifyConnector, ConnectorNotified
    <3>3. Leaves(c, "dead")
      BY <2>6, <3>1, <3>2 DEF NotifyConnector, Leaves, Sockets
    <3>4. Gone' = Gone \cup {c}
      BY <1>1, <2>6 DEF NotifyConnector, Gone
    <3>5. link'.disconnects <= Cardinality(Gone')
      <4>1. PICK g \in 0 .. MaxConns : g = Cardinality(Gone)
        BY GoneIs
      <4>2. Cardinality(Gone') = g + 1
        BY <2>6, <3>4, <4>1, GoneIs DEF NotifyConnector
      <4>3. PICK d \in 0 .. MaxConns : d = link.disconnects /\ d <= g
        BY <1>1, <4>1 DEF LinkType, Sockets
      <4> QED BY <1>1, <3>1, <4>2, <4>3
    <3> QED BY <3>3, <3>5, LeavesSockets
  <2> QED BY <1>8, <2>1, <2>2, <2>3, <2>4, <2>5, <2>6 DEF Receiver
<1>9. CASE Proc
  <2>1. CASE ReadHead
    BY <2>1, QuietSockets DEF ReadHead, Quiet
  <2>2. CASE FindHandler
    BY <2>2, QuietSockets DEF FindHandler, Quiet
  <2>3. CASE WriteType
    BY <2>3, QuietSockets DEF WriteType, Quiet
  <2>4. CASE WriteResponse
    BY <2>4, QuietSockets DEF WriteResponse, Quiet
  <2>5. CASE RunCommand
    BY <2>5, QuietSockets DEF RunCommand, Quiet
  <2>7. CASE TestReply
    BY <2>7, QuietSockets DEF TestReply, Quiet
  <2>6. CASE Reply
    <3>1. PICK n : Sends(n)
      BY <2>6, SendIs DEF Reply
    <3>2. \A c \in Conns : c > link.sock => net'[c].replies = net[c].replies
      BY <1>1, <1>2, <3>1, SendReplies
    <3> QED BY <2>6, <3>2, QuietSockets DEF Reply, Quiet
  <2> QED BY <1>9, <2>1, <2>2, <2>3, <2>4, <2>5, <2>6, <2>7 DEF Proc
<1>10. ASSUME NEW c \in Conns, ServerAnswers(c) \/ ServerCommands(c) \/ ServerCloses(c)
       PROVE  Sockets'
  <2>1. \A d \in Conns : net'[d].replies = net[d].replies
    <3>1. CASE ServerAnswers(c)
      BY <1>1, <3>1 DEF ServerAnswers, NetType
    <3>2. CASE ServerCommands(c)
      BY <1>1, <3>2 DEF ServerCommands, NetType
    <3>3. CASE ServerCloses(c)
      BY <1>1, <3>3 DEF ServerCloses, NetType
    <3> QED BY <1>10, <3>1, <3>2, <3>3
  <2> QED BY <1>10, <2>1, QuietSockets DEF ServerAnswers, ServerCommands, ServerCloses, Quiet
<1>11. CASE UNCHANGED vars
  BY <1>11, QuietSockets DEF vars, Quiet
<1> QED BY <1>3, <1>4, <1>5, <1>6, <1>7, <1>8, <1>9, <1>10, <1>11 DEF Next, Connector
-----------------------------------------------------------------------------
(* The calls and the map.  Most steps leave them alone.                    *)
SameCalls ==
  /\ link'.next = link.next /\ hdl_hashmap' = hdl_hashmap
  /\ \A s \in Slots : handler'[s].id = handler[s].id
  /\ \A t \in Callers : /\ caller'[t].cell = caller[t].cell /\ caller'[t].id = caller[t].id
                        /\ caller'[t].pc = "idle" <=> caller[t].pc = "idle"

(* A caller in clnt_invoke has a cell of its own.                          *)
LEMMA OwnCell ==
  ASSUME Calls, NEW t \in Callers, NEW u \in Callers, Active(t), Active(u),
         caller[t].cell = caller[u].cell
  PROVE  t = u
BY DEF Calls

(* The cells in use are cells, found by their callers.                     *)
LEMMA UsedIs ==
  ASSUME Calls
  PROVE  /\ Used \subseteq Slots
         /\ \A s : s \in Used <=> \E t \in Callers : Active(t) /\ caller[t].cell = s
BY DEF Calls, Used, Active

(* What the map should hold, bucket by bucket.                             *)
LEMMA MembersIs ==
  ASSUME Calls
  PROVE  Members \in [Buckets -> SUBSET Slots]
         /\ \A b \in Buckets, s \in Slots : s \in Members[b] <=> s \in Used /\ Hash(handler[s].id) = b
BY UsedIs DEF Members

(* A step that leaves them alone keeps what is known of them.              *)
LEMMA SameCallsStep ==
  ASSUME Calls, Mapping, SameCalls
  PROVE  Calls' /\ Mapping'
<1>1. Used' = Used /\ Used \subseteq Slots
  <2>1. {u \in Callers : caller'[u].pc # "idle"} = {u \in Callers : caller[u].pc # "idle"}
    BY DEF SameCalls
  <2>2. Used' = Used
    BY <2>1 DEF Used, SameCalls
  <2> QED BY <2>2, UsedIs
<1>2. Members' = Members
  <2>1. \A b \in Buckets : {s \in Used : Hash(handler'[s].id) = b} = {s \in Used : Hash(handler[s].id) = b}
    BY <1>1 DEF SameCalls
  <2> QED BY <1>1, <2>1 DEF Members
<1>3. Mapping'
  BY <1>2 DEF Mapping, SameCalls
<1>4. Calls'
  BY DEF Calls, SameCalls, Active
<1> QED BY <1>3, <1>4

(* clnt_create_msg puts the handler of a new call into the map.            *)
LEMMA CreateCalls ==
  ASSUME Types, Calls, Mapping, NEW t \in Callers, Create(t)
  PROVE  Calls' /\ Mapping'
<1>1. PICK next \in 1 .. MaxCalls : next = link.next
  <2>1. link.next \in 1 .. MaxCalls + 1 /\ link.next <= MaxCalls /\ MaxCalls \in Nat
    BY ClientAssumption DEF Types, LinkType, Create
  <2> QED BY <2>1
<1>2. PICK s \in Slots \ Used :
        /\ handler' = [handler EXCEPT ![s] = NewCell(next)]
        /\ hdl_hashmap' = hash_map_insert([hdl_hashmap EXCEPT !.next[s] = Null],
                                          [Ids EXCEPT ![s] = next], s)
        /\ caller' = [caller EXCEPT ![t].pc = "created", ![t].cell = s, ![t].id = next]
        /\ link' = [link EXCEPT !.next = @ + 1]
  BY <1>1, FreeCell DEF Create, MsgId, Active
<1>3. /\ handler \in [Slots -> HandlerType] /\ caller \in [Callers -> CallerType]
      /\ link \in LinkType /\ MaxCalls \in Nat /\ next \in Nat /\ next # None
      /\ caller[t].pc = "idle"
  <2>1. MaxCalls \in Nat /\ next \in Nat /\ next # 0
    BY ClientAssumption
  <2> QED BY <2>1 DEF Types, Create, None
<1>4. /\ handler'[s].id = next /\ \A r \in Slots : r # s => handler'[r] = handler[r]
      /\ \A r \in Slots : handler[r].id \in Nat
  BY <1>2, <1>3 DEF NewCell, HandlerType
<1>5. /\ caller'[t].pc = "created" /\ caller'[t].cell = s /\ caller'[t].id = next
      /\ \A u \in Callers : u # t => caller'[u] = caller[u]
      /\ \A u \in Callers : caller[u].id \in Nat
  BY <1>2, <1>3 DEF CallerType
<1>6. link'.next = next + 1
  BY <1>1, <1>2, <1>3 DEF LinkType
<1>7. /\ \A u \in Callers : caller[u].id < next
      /\ \A r \in Slots : handler[r].id < next
  BY <1>1 DEF Calls
<1>8. Calls'
  <2>1. ASSUME NEW u \in Callers
        PROVE  /\ caller'[u].pc # "idle" => /\ caller'[u].cell \in Slots /\ caller'[u].id # None
                                            /\ handler'[caller'[u].cell].id = caller'[u].id
               /\ caller'[u].id < next + 1
    <3>1. CASE u = t
      BY <1>3, <1>4, <1>5, <3>1
    <3>2. CASE u # t
      <4>1. caller'[u] = caller[u] /\ caller[u].id < next + 1
        BY <1>3, <1>5, <1>7, <3>2
      <4>2. Active(u) => caller[u].cell # s
        BY <1>2, UsedIs
      <4> QED BY <1>4, <4>1, <4>2 DEF Calls, Active
    <3> QED BY <3>1, <3>2
  <2>2. \A r \in Slots : handler'[r].id < next + 1
    BY <1>3, <1>4, <1>7
  <2>3. \A u, v \in Callers : u # v /\ caller'[u].id # None => caller'[u].id # caller'[v].id
    <3> SUFFICES ASSUME NEW u \in Callers, NEW v \in Callers, u # v, caller'[u].id # None
                 PROVE  caller'[u].id # caller'[v].id
      OBVIOUS
    <3>1. caller[u].id # next /\ caller[v].id # next
      BY <1>3, <1>5, <1>7
    <3>2. CASE u = t \/ v = t
      BY <1>5, <3>1, <3>2
    <3>3. CASE u # t /\ v # t
      BY <1>5, <3>3 DEF Calls
    <3> QED BY <3>2, <3>3
  <2>4. \A q, r \in Slots : q # r /\ handler'[q].id # None => handler'[q].id # handler'[r].id
    <3> SUFFICES ASSUME NEW q \in Slots, NEW r \in Slots, q # r, handler'[q].id # None
                 PROVE  handler'[q].id # handler'[r].id
      OBVIOUS
    <3>1. handler[q].id # next /\ handler[r].id # next
      BY <1>3, <1>4, <1>7
    <3>2. CASE q = s \/ r = s
      BY <1>4, <3>1, <3>2
    <3>3. CASE q # s /\ r # s
      BY <1>4, <3>3 DEF Calls
    <3> QED BY <3>2, <3>3
  <2> QED BY <1>6, <2>1, <2>2, <2>3, <2>4 DEF Calls, Active
<1>9. Mapping'
  <2> DEFINE unlinked == [hdl_hashmap EXCEPT !.next[s] = Null]
             key == [Ids EXCEPT ![s] = next]
             F == [Members EXCEPT ![Hash(key[s])] = @ \cup {s}]
  <2>1. \A b \in Buckets : s \notin Members[b]
    BY <1>2, MembersIs
  <2>2. Chained(unlinked, Members) /\ unlinked.next[s] = Null
    BY <2>1, ClearKeeps DEF Mapping, Slots
  <2>3. key \in [Objects -> Nat] /\ key[s] = next /\ \A x \in Slots : x # s => key[x] = handler[x].id
    BY <1>3, <1>4 DEF Ids, Slots
  <2>4. Hash(next) \in Buckets /\ s \in Objects
    BY <1>3, HashType DEF Slots
  <2>5. \A x \in Members[Hash(key[s])] : key[x] # key[s]
    <3> SUFFICES ASSUME NEW x \in Members[Hash(next)] PROVE key[x] # next
      BY <2>3
    <3>1. x \in Slots /\ x # s
      BY <2>1, <2>4, MembersIs
    <3>2. key[x] = handler[x].id /\ handler[x].id < next
      BY <1>7, <2>3, <3>1
    <3> QED BY <1>3, <1>4, <3>1, <3>2
  <2> HIDE DEF unlinked, key
  <2>6. Chained(hash_map_insert(unlinked, key, s), F)
    BY <2>1, <2>2, <2>3, <2>4, <2>5, InsertKeeps
  <2>7. hdl_hashmap' = hash_map_insert(unlinked, key, s)
    BY <1>2 DEF unlinked, key
  <2>8. Used' = Used \cup {s}
    <3>1. {u \in Callers : caller'[u].pc # "idle"} = {u \in Callers : caller[u].pc # "idle"} \cup {t}
      BY <1>3, <1>5
    <3>2. \A u \in Callers : caller[u].pc # "idle" => u # t
      BY <1>3
    <3> QED BY <1>5, <3>1, <3>2 DEF Used
  <2>9. Members' = F
    <3>1. Members \in [Buckets -> SUBSET Slots]
      BY MembersIs
    <3>2. ASSUME NEW b \in Buckets
          PROVE  {r \in Used' : Hash(handler'[r].id) = b} = F[b]
      <4>1. Used \subseteq Slots /\ s \notin Used
        BY <1>2, UsedIs
      <4>2. Members[b] = {r \in Used : Hash(handler[r].id) = b}
        BY DEF Members
      <4>3. {r \in Used : Hash(handler'[r].id) = b} = Members[b]
        BY <1>4, <4>1, <4>2
      <4>4. F[b] = IF b = Hash(next) THEN Members[b] \cup {s} ELSE Members[b]
        BY <2>3, <3>1
      <4>5. \A r : r \in {q \in Used' : Hash(handler'[q].id) = b}
                     <=> r \in {q \in Used : Hash(handler'[q].id) = b} \/ (r = s /\ Hash(next) = b)
        BY <1>4, <2>8
      <4> QED BY <4>3, <4>4, <4>5
    <3>3. F = [b \in Buckets |-> F[b]]
      BY <3>1
    <3>4. Members' = [b \in Buckets |-> {r \in Used' : Hash(handler'[r].id) = b}]
      BY DEF Members
    <3> HIDE DEF F
    <3> QED BY <3>2, <3>3, <3>4
  <2> QED BY <2>6, <2>7, <2>9 DEF Mapping
<1> QED BY <1>8, <1>9

(* clnt_delete_handler takes it out again.                                 *)
LEMMA ReturnCalls ==
  ASSUME Types, Calls, Mapping, NEW t \in Callers, Return(t)
  PROVE  Calls' /\ Mapping'
<1>1. PICK s \in Slots : s = caller[t].cell /\ handler[s].id = caller[t].id /\ caller[t].id # None
  BY DEF Calls, Active, Return
<1>2. /\ handler \in [Slots -> HandlerType] /\ caller \in [Callers -> CallerType]
      /\ caller[t].pc = "woken" /\ Active(t)
  BY DEF Types, Return, Active
<1>3. \A r \in Slots : handler'[r].id = handler[r].id /\ handler[r].id \in Nat
  <2>1. handler' = [handler EXCEPT ![s] = NewCell(handler[s].id)]
    BY <1>1 DEF Return
  <2> QED BY <1>2, <2>1, ClientAssumption DEF HandlerType, NewCell
<1>4. /\ caller'[t].pc = "idle" /\ caller'[t].id = caller[t].id
      /\ \A u \in Callers : u # t => caller'[u] = caller[u]
  BY <1>2 DEF Return, CallerType
<1>5. link' = link /\ hdl_hashmap' = hash_map_remove(hdl_hashmap, Ids, s)
  BY <1>1 DEF Return, Unmapped
<1>6. Calls'
  <2>1. \A u \in Callers : /\ caller'[u].id = caller[u].id
                           /\ caller'[u].pc # "idle" =>
                                caller[u].pc # "idle" /\ caller'[u].cell = caller[u].cell
    BY <1>4
  <2> QED BY <1>3, <1>5, <2>1 DEF Calls, Active
<1>7. Mapping'
  <2> DEFINE F == [Members EXCEPT ![Hash(Ids[s])] = @ \ {s}]
  <2>1. Ids \in [Objects -> Nat] /\ Ids[s] = handler[s].id /\ Hash(Ids[s]) \in Buckets /\ s \in Objects
    BY <1>3, HashType DEF Ids, Slots
  <2>2. s \in Members[Hash(Ids[s])]
    BY <1>1, <1>2, <2>1, MembersIs, UsedIs
  <2>3. Chained(hash_map_remove(hdl_hashmap, Ids, s), F)
    BY <2>1, <2>2, RemoveKeeps DEF Mapping
  <2>4. Used' = Used \ {s}
    <3>1. \A u \in Callers : Active(u) /\ u # t => caller[u].cell # s
      BY <1>1, <1>2, OwnCell
    <3>2. {u \in Callers : caller'[u].pc # "idle"} = {u \in Callers : caller[u].pc # "idle"} \ {t}
      BY <1>4
    <3>3. Used' = {caller'[u].cell : u \in {v \in Callers : caller[v].pc # "idle"} \ {t}}
      BY <3>2 DEF Used
    <3>4. Used' = {caller[u].cell : u \in {v \in Callers : caller[v].pc # "idle"} \ {t}}
      BY <1>4, <3>3
    <3>5. ASSUME NEW r PROVE r \in Used' <=> r \in Used \ {s}
      BY <1>1, <3>1, <3>4 DEF Used, Active
    <3> QED BY <3>5
  <2>5. Members' = F
    <3>1. Members \in [Buckets -> SUBSET Slots] /\ Used \subseteq Slots
      BY MembersIs, UsedIs
    <3>2. ASSUME NEW b \in Buckets
          PROVE  {r \in Used' : Hash(handler'[r].id) = b} = F[b]
      <4>1. Members[b] = {r \in Used : Hash(handler[r].id) = b}
        BY DEF Members
      <4>2. F[b] = IF b = Hash(Ids[s]) THEN Members[b] \ {s} ELSE Members[b]
        BY <3>1
      <4>3. s \in Members[b] => b = Hash(Ids[s])
        BY <2>1, <4>1
      <4>4. {r \in Used' : Hash(handler'[r].id) = b} = Members[b] \ {s}
        BY <1>3, <2>4, <3>1, <4>1
      <4> QED BY <4>2, <4>3, <4>4
    <3>3. F = [b \in Buckets |-> F[b]]
      BY <3>1
    <3>4. Members' = [b \in Buckets |-> {r \in Used' : Hash(handler'[r].id) = b}]
      BY DEF Members
    <3> HIDE DEF F
    <3> QED BY <3>2, <3>3, <3>4
  <2> QED BY <1>5, <2>3, <2>5 DEF Mapping
<1> QED BY <1>6, <1>7

(* Every step keeps what is known of the calls and the map.                *)
LEMMA CallsStep ==
  ASSUME Types, Sockets, Calls, Mapping, [Next]_vars
  PROVE  Calls' /\ Mapping'
<1>1. /\ link \in LinkType /\ handler \in [Slots -> HandlerType]
      /\ caller \in [Callers -> CallerType]
  BY DEF Types
<1>2. ASSUME NEW t \in Callers, Caller(t) PROVE Calls' /\ Mapping'
  <2>1. CASE Create(t)
    BY <2>1, CreateCalls
  <2>2. CASE Send(t)
    <3>1. SameCalls
      BY <1>1, <2>2 DEF Send, SameCalls, CallerType, cells
    <3> QED BY <3>1, SameCallsStep
  <2>3. CASE Wait(t)
    <3>1. SameCalls
      BY <1>1, <2>3 DEF Wait, SameCalls, CallerType, cells
    <3> QED BY <3>1, SameCallsStep
  <2>4. CASE Return(t)
    BY <2>4, ReturnCalls
  <2>5. CASE clnt_send(t)
    <3>1. SameCalls
      BY <1>1, <2>5 DEF clnt_send, SameCalls, CallerType, cells
    <3> QED BY <3>1, SameCallsStep
  <2>6. CASE Spurious(t)
    <3>1. SameCalls
      BY <1>1, <2>6 DEF Spurious, SameCalls, CallerType, cells
    <3> QED BY <3>1, SameCallsStep
  <2> QED BY <1>2, <2>1, <2>2, <2>3, <2>4, <2>5, <2>6 DEF Caller
<1>3. CASE Connector
  <2>1. CASE Connect
    <3>1. link'.next = link.next
      BY <1>1, <2>1 DEF Connect, LinkType
    <3> QED BY <2>1, <3>1, SameCallsStep DEF Connect, SameCalls, cells
  <2>2. CASE StartReceiver
    <3>1. link'.next = link.next
      BY <1>1, <2>2 DEF StartReceiver, LinkType
    <3> QED BY <2>2, <3>1, SameCallsStep DEF StartReceiver, SameCalls, cells
  <2>3. CASE TestConnected
    BY <2>3, SameCallsStep DEF TestConnected, SameCalls, cells
  <2>4. CASE SleepConnector
    BY <2>4, SameCallsStep DEF SleepConnector, SameCalls, cells
  <2> QED BY <1>3, <2>1, <2>2, <2>3, <2>4 DEF Connector
<1>4. ASSUME NEW c \in Conns, Receiver(c) PROVE Calls' /\ Mapping'
  <2>1. CASE Receive(c)
    BY <2>1, SameCallsStep DEF Receive, SameCalls, cells
  <2>2. CASE LeaveLoop(c)
    BY <2>2, SameCallsStep DEF LeaveLoop, SameCalls, cells
  <2>3. CASE Disconnect(c)
    <3>1. link'.next = link.next
      BY <1>1, <2>3 DEF Disconnect, LinkType
    <3> QED BY <2>3, <3>1, SameCallsStep DEF Disconnect, SameCalls, cells
  <2>4. CASE WalkHandlers(c)
    <3>1. \A s \in Slots : handler'[s].id = handler[s].id
      BY <1>1, <2>4 DEF WalkHandlers, HandlerType
    <3>2. \A t \in Callers : /\ caller'[t].cell = caller[t].cell /\ caller'[t].id = caller[t].id
                             /\ caller'[t].pc = "idle" <=> caller[t].pc = "idle"
      BY <1>1, <2>4 DEF WalkHandlers, CallerType
    <3> QED BY <2>4, <3>1, <3>2, SameCallsStep DEF WalkHandlers, SameCalls
  <2>5. CASE CloseSocket(c)
    BY <2>5, SameCallsStep DEF CloseSocket, SameCalls, cells
  <2>6. CASE NotifyConnector(c)
    <3>1. link'.next = link.next
      BY <1>1, <2>6 DEF NotifyConnector, LinkType
    <3> QED BY <2>6, <3>1, SameCallsStep DEF NotifyConnector, SameCalls, cells
  <2> QED BY <1>4, <2>1, <2>2, <2>3, <2>4, <2>5, <2>6 DEF Receiver
<1>5. CASE Proc
  <2>1. CASE ReadHead
    BY <2>1, SameCallsStep DEF ReadHead, SameCalls, cells
  <2>2. CASE FindHandler
    BY <2>2, SameCallsStep DEF FindHandler, SameCalls, cells
  <2>3. CASE WriteType
    <3>1. \A s \in Slots : handler'[s].id = handler[s].id
      BY <1>1, <2>3 DEF WriteType, HandlerType
    <3> QED BY <2>3, <3>1, SameCallsStep DEF WriteType, SameCalls
  <2>4. CASE WriteResponse
    <3>1. \A s \in Slots : handler'[s].id = handler[s].id
      BY <1>1, <2>4 DEF WriteResponse, HandlerType
    <3>2. \A t \in Callers : /\ caller'[t].cell = caller[t].cell /\ caller'[t].id = caller[t].id
                             /\ caller'[t].pc = "idle" <=> caller[t].pc = "idle"
      BY <1>1, <2>4 DEF WriteResponse, Notified, CallerType
    <3> QED BY <2>4, <3>1, <3>2, SameCallsStep DEF WriteResponse, SameCalls
  <2>5. CASE RunCommand
    BY <2>5, SameCallsStep DEF RunCommand, SameCalls, cells
  <2>6. CASE TestReply \/ Reply
    BY <2>6, SameCallsStep DEF TestReply, Reply, SameCalls, cells
  <2> QED BY <1>5, <2>1, <2>2, <2>3, <2>4, <2>5, <2>6 DEF Proc
<1>6. ASSUME NEW c \in Conns, ServerAnswers(c) \/ ServerCommands(c) \/ ServerCloses(c)
      PROVE  Calls' /\ Mapping'
  BY <1>6, SameCallsStep DEF ServerAnswers, ServerCommands, ServerCloses, SameCalls, cells
<1>7. CASE UNCHANGED vars
  BY <1>7, SameCallsStep DEF vars, SameCalls, cells
<1> QED BY <1>2, <1>3, <1>4, <1>5, <1>6, <1>7 DEF Next
-----------------------------------------------------------------------------
(* The order of the commands.  Most steps add none to the wire: what there *)
(* is keeps its order, or moves ahead.                                     *)
WireShrinks ==
  \A c \in Conns :
    /\ net'[c].commands = net[c].commands
    /\ \E off \in Nat : \A k \in DOMAIN net'[c].to_agent :
         IsCommand(net'[c].to_agent[k]) =>
           k + off \in DOMAIN net[c].to_agent /\ net'[c].to_agent[k] = net[c].to_agent[k + off]
QueueShrinks ==
  \E off \in Nat : \A k \in DOMAIN queue' :
    k + off \in DOMAIN queue /\ queue'[k] = queue[k + off]

(* The places in the wire and in the queue are numbers.                    *)
LEMMA PlacesAre ==
  ASSUME Types
  PROVE  /\ \A c \in Conns : \A k \in DOMAIN net[c].to_agent : k \in Nat \ {0}
         /\ \A k \in DOMAIN queue : k \in Nat \ {0}
<1>1. \A c \in Conns : net[c].to_agent \in Seq(Messages)
  BY DEF Types, NetType
<1>2. queue \in Seq(QueueType)
  BY DEF Types
<1> QED BY <1>1, <1>2

(* What a message, a command under way and a reply have as their number.   *)
LEMMA NumbersAre ==
  ASSUME Types
  PROVE  /\ \A x \in Messages : x[2] \in Nat
         /\ \A c \in Conns : \A k \in DOMAIN net[c].to_agent : net[c].to_agent[k] \in Messages
         /\ \A c \in Conns : \A k \in DOMAIN net[c].replies : net[c].replies[k] \in Commands
                                                              /\ k \in Nat
         /\ \A k \in DOMAIN queue : queue[k].msg \in Messages /\ queue[k].conn \in Conns
         /\ \A x \in Commands : x[2] \in Nat /\ x[1] \in Conns
         /\ \A c \in Conns : net[c].commands \in Nat /\ c \in Nat
<1>1. MaxCalls \in Nat /\ MaxCommands \in Nat /\ MaxConns \in Nat
  BY ClientAssumption
<1>2. \A c \in Conns : net[c].to_agent \in Seq(Messages) /\ net[c].replies \in Seq(Commands)
                       /\ net[c].commands \in 0 .. MaxCommands
  BY DEF Types, NetType
<1>3. queue \in Seq(QueueType)
  BY DEF Types
<1>4. \A k \in DOMAIN queue : queue[k] \in QueueType
  BY <1>3
<1>5. \A k \in DOMAIN queue : queue[k].msg \in Messages /\ queue[k].conn \in Conns
  BY <1>4 DEF QueueType
<1>6. \A x \in Messages : x[2] \in Nat
  BY <1>1 DEF Messages
<1>7. \A x \in Commands : x[2] \in Nat /\ x[1] \in Conns
  BY <1>1 DEF Commands
<1>8. \A c \in Conns : c \in Nat
  BY <1>1 DEF Conns
<1> QED BY <1>1, <1>2, <1>5, <1>6, <1>7, <1>8

(* Then what is in order on the wire stays so, ...                         *)
LEMMA WireStays ==
  ASSUME Types, Types', WireShrinks
  PROVE  /\ \A c \in Conns : WireInOrder(c) => WireInOrder(c)'
         /\ \A n : OffWire(n) => OffWire(n)'
<1>1. ASSUME NEW c \in Conns, WireInOrder(c) PROVE WireInOrder(c)'
  <2> DEFINE w == net[c].to_agent
             v == net'[c].to_agent
  <2>1. PICK off \in Nat : \A k \in DOMAIN v :
          IsCommand(v[k]) => k + off \in DOMAIN w /\ v[k] = w[k + off]
    BY DEF WireShrinks
  <2>2. net'[c].commands = net[c].commands
    BY DEF WireShrinks
  <2>3. \A k \in DOMAIN w : IsCommand(w[k]) =>
          /\ c = 1 /\ w[k][2] <= net[c].commands
          /\ \A j \in 1 .. k - 1 : IsCommand(w[j]) => w[j][2] < w[k][2]
    BY <1>1 DEF WireInOrder
  <2>4. (\A k \in DOMAIN v : k \in Nat \ {0}) /\ \E l \in Nat : DOMAIN v = 1 .. l
    <3>1. v \in Seq(Messages)
      BY DEF Types, NetType
    <3> QED BY <3>1
  <2> HIDE DEF v, w
  <2>5. ASSUME NEW k \in DOMAIN v, IsCommand(v[k])
        PROVE  /\ c = 1 /\ v[k][2] <= net'[c].commands
               /\ \A j \in 1 .. k - 1 : IsCommand(v[j]) => v[j][2] < v[k][2]
    <3>1. k + off \in DOMAIN w /\ v[k] = w[k + off]
      BY <2>1, <2>5
    <3>2. ASSUME NEW j \in 1 .. k - 1, IsCommand(v[j]) PROVE v[j][2] < v[k][2]
      <4>1. j \in DOMAIN v
        BY <2>4
      <4>2. j + off \in 1 .. (k + off) - 1
        BY <2>4
      <4> QED BY <2>1, <2>3, <2>5, <3>1, <3>2, <4>1, <4>2
    <3> QED BY <2>2, <2>3, <2>5, <3>1, <3>2
  <2> QED BY <2>5 DEF WireInOrder, v
<1>2. ASSUME NEW n, OffWire(n) PROVE OffWire(n)'
  <2>1. ASSUME NEW c \in Conns, NEW k \in DOMAIN net'[c].to_agent, IsCommand(net'[c].to_agent[k])
        PROVE  n < net'[c].to_agent[k][2]
    <3>1. PICK j \in DOMAIN net[c].to_agent : net'[c].to_agent[k] = net[c].to_agent[j]
      BY <2>1 DEF WireShrinks
    <3> QED BY <1>2, <2>1, <3>1 DEF OffWire
  <2>2. \A c \in Conns : c = 1 => n <= net'[c].commands
    BY <1>2 DEF OffWire, WireShrinks
  <2> QED BY <2>1, <2>2 DEF OffWire
<1> QED BY <1>1, <1>2

(* ... and so do the queue and what is off it, if the queue only shrinks,  *)
(* too.                                                                    *)
LEMMA QueueStays ==
  ASSUME Types, Types', WireShrinks, QueueShrinks
  PROVE  /\ QueueInOrder => QueueInOrder'
         /\ \A n : OffQueue(n) => OffQueue(n)'
<1>1. PICK off \in Nat : \A k \in DOMAIN queue' : k + off \in DOMAIN queue /\ queue'[k] = queue[k + off]
  BY DEF QueueShrinks
<1>2. (\A k \in DOMAIN queue' : k \in Nat \ {0}) /\ \E l \in Nat : DOMAIN queue' = 1 .. l
  <2>1. queue' \in Seq(QueueType)
    BY DEF Types
  <2> QED BY <2>1
<1>3. ASSUME QueueInOrder PROVE QueueInOrder'
  <2>1. ASSUME NEW k \in DOMAIN queue', IsCommand(queue'[k].msg)
        PROVE  /\ queue'[k].conn = 1 /\ OffWire(queue'[k].msg[2])
               /\ \A j \in 1 .. k - 1 : IsCommand(queue'[j].msg) => queue'[j].msg[2] < queue'[k].msg[2]
    <3>1. k + off \in DOMAIN queue /\ queue'[k] = queue[k + off]
      BY <1>1
    <3>2. ASSUME NEW j \in 1 .. k - 1, IsCommand(queue'[j].msg)
          PROVE  queue'[j].msg[2] < queue'[k].msg[2]
      <4>1. j \in DOMAIN queue'
        BY <1>2
      <4>2. j + off \in 1 .. (k + off) - 1
        BY <1>2
      <4> QED BY <1>1, <1>3, <2>1, <3>1, <3>2, <4>1, <4>2 DEF QueueInOrder
    <3> QED BY <1>3, <2>1, <3>1, <3>2 DEF QueueInOrder
  <2>2. \A n : OffWire(n) => OffWire(n)'
    BY WireStays
  <2>3. ASSUME NEW k \in DOMAIN queue', IsCommand(queue'[k].msg)
        PROVE  \A c \in Conns :
                 /\ c = 1 => queue'[k].msg[2] <= net'[c].commands
                 /\ \A i \in DOMAIN net'[c].to_agent :
                      IsCommand(net'[c].to_agent[i]) => queue'[k].msg[2] < net'[c].to_agent[i][2]
    <3>1. PICK n : n = queue'[k].msg[2]
      OBVIOUS
    <3>2. OffWire(n)'
      BY <2>1, <2>2, <2>3, <3>1
    <3> QED BY <3>1, <3>2 DEF OffWire
  <2> QED BY <2>1, <2>3 DEF QueueInOrder, OffWire
<1>4. ASSUME NEW n, OffQueue(n) PROVE OffQueue(n)'
  <2>1. OffWire(n)'
    BY <1>4, WireStays DEF OffQueue
  <2>2. \A k \in DOMAIN queue' : IsCommand(queue'[k].msg) => n < queue'[k].msg[2]
    BY <1>1, <1>4 DEF OffQueue
  <2> QED BY <2>1, <2>2 DEF OffQueue
<1> QED BY <1>3, <1>4

(* If the replies and what the thread replies to stay, too, so does all.   *)
LEMMA OrderStays ==
  ASSUME Types, Types', InOrder, WireShrinks, QueueShrinks,
         \A c \in Conns : net'[c].replies = net[c].replies,
         ToReply' => ToReply /\ proc'.msg = proc.msg
  PROVE  InOrder'
<1>1. \A c \in Conns : WireInOrder(c)'
  BY WireStays DEF InOrder
<1>2. QueueInOrder'
  BY QueueStays DEF InOrder
<1>3. \A n : OffQueue(n) => OffQueue(n)'
  BY QueueStays
<1>4. ToReply' => proc'.msg[1] = 1
  BY DEF InOrder
<1>5. \A n \in 1 .. MaxCommands : Replying(n)' => OffQueue(n)'
  BY <1>3 DEF InOrder, Replying
<1>6. ASSUME NEW r \in Commands, HasReply(r)' PROVE Replied(r)'
  <2>1. Replied(r)
    BY <1>6 DEF InOrder, HasReply
  <2> QED BY <1>3, <2>1 DEF Replied
<1>7. RepliesInOrder'
  BY DEF InOrder, RepliesInOrder
<1> QED BY <1>1, <1>2, <1>4, <1>5, <1>6, <1>7 DEF InOrder

(* Nothing is under way when the client is started.                        *)
LEMMA InitOrder == Init => InOrder
<1> SUFFICES ASSUME Init PROVE InOrder
  OBVIOUS
<1>1. \A c \in Conns : net[c].to_agent = <<>> /\ net[c].replies = <<>>
  BY DEF Init
<1>2. queue = <<>> /\ ~ToReply
  BY DEF Init, Nothing, ToReply
<1>3. DOMAIN <<>> = {}
  OBVIOUS
<1> QED BY <1>1, <1>2, <1>3 DEF InOrder, WireInOrder, QueueInOrder, Replying, HasReply, RepliesInOrder

(* What of a sequence is left when its head is taken.                      *)
LEMMA TailIs ==
  ASSUME NEW S, NEW w \in Seq(S), w # <<>>
  PROVE  /\ Head(w) = w[1] /\ 1 \in DOMAIN w
         /\ \A k \in DOMAIN Tail(w) : k + 1 \in DOMAIN w /\ Tail(w)[k] = w[k + 1] /\ k \in Nat /\ k # 0
         /\ \A k \in DOMAIN w : k # 1 => k - 1 \in DOMAIN Tail(w) /\ Tail(w)[k - 1] = w[k]
<1>1. PICK l \in Nat : l = Len(w) /\ l # 0 /\ DOMAIN w = 1 .. l
  OBVIOUS
<1>2. /\ Len(Tail(w)) = l - 1 /\ DOMAIN Tail(w) = 1 .. l - 1
      /\ \A k \in 1 .. l - 1 : Tail(w)[k] = w[k + 1]
  BY <1>1
<1> QED BY <1>1, <1>2
(* What is new in a sequence when one more is appended.                    *)
LEMMA AppendIs ==
  ASSUME NEW S, NEW w \in Seq(S), NEW x \in S
  PROVE  /\ Len(w) + 1 \in DOMAIN Append(w, x) /\ Append(w, x)[Len(w) + 1] = x /\ Len(w) \in Nat
         /\ \A k \in DOMAIN w : k \in DOMAIN Append(w, x) /\ Append(w, x)[k] = w[k] /\ k \in 1 .. Len(w)
         /\ \A k \in DOMAIN Append(w, x) : k \in DOMAIN w \/ k = Len(w) + 1
<1>1. PICK l \in Nat : l = Len(w) /\ DOMAIN w = 1 .. l
  OBVIOUS
<1>2. /\ DOMAIN Append(w, x) = 1 .. l + 1 /\ Append(w, x)[l + 1] = x
      /\ \A k \in 1 .. l : Append(w, x)[k] = w[k]
  BY <1>1
<1> QED BY <1>1, <1>2

(* What is under way to the agent changes for one connection at a time.    *)
LEMMA WireIs ==
  ASSUME Types, NEW s \in Conns, NEW w, net' = [net EXCEPT ![s].to_agent = w]
  PROVE  /\ net'[s].to_agent = w /\ \A c \in Conns : c # s => net'[c].to_agent = net[c].to_agent
         /\ \A c \in Conns : /\ net'[c].commands = net[c].commands
                             /\ net'[c].replies = net[c].replies
                             /\ net'[c].serving = net[c].serving
                             /\ net'[c].up = net[c].up
BY DEF Types, NetType

(* clnt_recv_thread takes the first message off the wire and pushes it     *)
(* (or drops it), ...                                                      *)
LEMMA ReceiveOrder ==
  ASSUME Types, Types', Sockets, InOrder, NEW c \in Conns, Receive(c)
  PROVE  InOrder'
<1>1. PICK s \in Conns : s = link.sock
  BY SocketIs DEF Receive
<1>2. PICK w \in Seq(Messages) : w = net[s].to_agent
  BY DEF Types, NetType
<1>3. w # <<>> /\ net' = [net EXCEPT ![s].to_agent = Tail(w)]
  BY <1>1, <1>2 DEF Receive, Types, NetType
<1>4. /\ net'[s].to_agent = Tail(w) /\ \A d \in Conns : d # s => net'[d].to_agent = net[d].to_agent
      /\ \A d \in Conns : net'[d].commands = net[d].commands /\ net'[d].replies = net[d].replies
  BY <1>3, WireIs
<1>5. /\ Head(w) = w[1] /\ 1 \in DOMAIN w
      /\ \A k \in DOMAIN Tail(w) : k + 1 \in DOMAIN w /\ Tail(w)[k] = w[k + 1] /\ k \in Nat /\ k # 0
  BY <1>3, TailIs
<1>6. WireShrinks
  <2>1. \A k \in DOMAIN net'[s].to_agent :
          k + 1 \in DOMAIN net[s].to_agent /\ net'[s].to_agent[k] = net[s].to_agent[k + 1]
    BY <1>2, <1>4, <1>5
  <2>2. ASSUME NEW d \in Conns, d # s
        PROVE  \A k \in DOMAIN net'[d].to_agent :
                 k + 0 \in DOMAIN net[d].to_agent /\ net'[d].to_agent[k] = net[d].to_agent[k + 0]
    BY <1>4, <2>2, PlacesAre
  <2>3. 0 \in Nat /\ 1 \in Nat
    OBVIOUS
  <2> QED BY <1>4, <2>1, <2>2, <2>3 DEF WireShrinks
<1>7. proc' = proc
  BY DEF Receive
<1>8. CASE queue' = queue
  <2>1. QueueShrinks
    <3>1. \A k \in DOMAIN queue' : k + 0 \in DOMAIN queue /\ queue'[k] = queue[k + 0]
      BY <1>8, PlacesAre
    <3> QED BY <3>1 DEF QueueShrinks
  <2> QED BY <1>4, <1>6, <1>7, <2>1, OrderStays DEF ToReply
<1>9. CASE queue' = Append(queue, [conn |-> s, msg |-> Head(w)])
  <2>1. PICK q \in QueueType : q = [conn |-> s, msg |-> Head(w)]
    <3>1. Head(w) \in Messages
      BY <1>3
    <3>2. [conn |-> s, msg |-> Head(w)] \in QueueType
      BY <3>1 DEF QueueType
    <3> QED BY <3>2, Zenon
  <2>2. PICK l \in Nat : l = Len(queue)
    BY DEF Types
  <2>3. /\ queue'[l + 1] = q /\ l + 1 \in DOMAIN queue'
        /\ \A k \in DOMAIN queue : queue'[k] = queue[k] /\ k \in 1 .. l
        /\ \A k \in DOMAIN queue' : k \in DOMAIN queue \/ k = l + 1
    BY <1>9, <2>1, <2>2, AppendIs DEF Types
  <2>4. q.conn = s /\ q.msg = w[1]
    BY <1>5, <2>1
  <2>5. IsCommand(q.msg) => /\ s = 1 /\ q.msg[2] <= net'[s].commands
                            /\ \A d \in Conns : \A k \in DOMAIN net'[d].to_agent :
                                 IsCommand(net'[d].to_agent[k]) => q.msg[2] < net'[d].to_agent[k][2]
                            /\ \A n : OffWire(n) => n < q.msg[2]
    <3> SUFFICES ASSUME IsCommand(q.msg)
                 PROVE  /\ s = 1 /\ q.msg[2] <= net'[s].commands
                        /\ \A d \in Conns : \A k \in DOMAIN net'[d].to_agent :
                             IsCommand(net'[d].to_agent[k]) => q.msg[2] < net'[d].to_agent[k][2]
                        /\ \A n : OffWire(n) => n < q.msg[2]
      OBVIOUS
    <3>1. WireInOrder(s) /\ \A d \in Conns : WireInOrder(d)
      BY DEF InOrder
    <3>2. s = 1 /\ q.msg[2] <= net[s].commands
      BY <1>2, <1>5, <2>4, <3>1 DEF WireInOrder
    <3>3. ASSUME NEW d \in Conns, NEW k \in DOMAIN net'[d].to_agent, IsCommand(net'[d].to_agent[k])
          PROVE  q.msg[2] < net'[d].to_agent[k][2]
      <4>1. CASE d = s
        <5>1. k + 1 \in DOMAIN w /\ net'[d].to_agent[k] = w[k + 1] /\ k \in Nat /\ k # 0
          BY <1>4, <1>5, <3>3, <4>1
        <5>2. 1 \in 1 .. (k + 1) - 1
          BY <5>1
        <5> QED BY <1>2, <2>4, <3>1, <3>3, <5>1, <5>2 DEF WireInOrder
      <4>2. CASE d # s
        <5>1. d = 1
          BY <1>4, <3>1, <3>3, <4>2 DEF WireInOrder
        <5> QED BY <3>2, <4>2, <5>1
      <4> QED BY <4>1, <4>2
    <3>4. \A n : OffWire(n) => n < q.msg[2]
      BY <1>2, <1>5, <2>4 DEF OffWire
    <3> QED BY <1>4, <3>2, <3>3, <3>4
  <2>6. \A n : OffWire(n) => OffWire(n)'
    BY <1>6, WireStays
  <2>7. \A n : OffQueue(n) => OffQueue(n)'
    <3> SUFFICES ASSUME NEW n, OffQueue(n) PROVE OffQueue(n)'
      OBVIOUS
    <3>1. OffWire(n) /\ OffWire(n)'
      BY <2>6 DEF OffQueue
    <3>2. \A k \in DOMAIN queue' : IsCommand(queue'[k].msg) => n < queue'[k].msg[2]
      BY <2>3, <2>5, <3>1 DEF OffQueue
    <3> QED BY <3>1, <3>2 DEF OffQueue
  <2>8. QueueInOrder'
    <3>1. ASSUME NEW k \in DOMAIN queue', IsCommand(queue'[k].msg)
          PROVE  /\ queue'[k].conn = 1
                 /\ \A n : n = queue'[k].msg[2] => OffWire(n)'
                 /\ \A j \in 1 .. k - 1 : IsCommand(queue'[j].msg) => queue'[j].msg[2] < queue'[k].msg[2]
      <4>1. CASE k \in DOMAIN queue
        <5>1. queue'[k] = queue[k] /\ OffWire(queue[k].msg[2]) /\ queue[k].conn = 1
          BY <2>3, <3>1, <4>1 DEF InOrder, QueueInOrder
        <5>2. ASSUME NEW j \in 1 .. k - 1, IsCommand(queue'[j].msg)
              PROVE  queue'[j].msg[2] < queue'[k].msg[2]
          <6>1. j \in DOMAIN queue
            BY <2>2, <2>3, <4>1 DEF Types
          <6> QED BY <2>3, <3>1, <4>1, <5>1, <5>2, <6>1 DEF InOrder, QueueInOrder
        <5> QED BY <2>6, <5>1, <5>2
      <4>2. CASE k = l + 1
        <5>1. IsCommand(q.msg) /\ queue'[k] = q
          BY <2>3, <3>1, <4>2
        <5>2. \A n : n = q.msg[2] => OffWire(n)'
          <6>1. \A d \in Conns : d = 1 => q.msg[2] <= net'[d].commands
            BY <2>5, <5>1
          <6> QED BY <2>5, <5>1, <6>1 DEF OffWire
        <5>3. ASSUME NEW j \in 1 .. k - 1, IsCommand(queue'[j].msg)
              PROVE  queue'[j].msg[2] < q.msg[2]
          <6>1. j \in DOMAIN queue
            BY <2>2, <4>2 DEF Types
          <6>2. queue'[j] = queue[j] /\ OffWire(queue[j].msg[2])
            BY <2>3, <5>3, <6>1 DEF InOrder, QueueInOrder
          <6> QED BY <2>5, <5>1, <6>2
        <5> QED BY <2>4, <2>5, <5>1, <5>2, <5>3
      <4> QED BY <2>3, <4>1, <4>2
    <3>2. ASSUME NEW k \in DOMAIN queue', IsCommand(queue'[k].msg)
          PROVE  \A d \in Conns :
                   /\ d = 1 => queue'[k].msg[2] <= net'[d].commands
                   /\ \A i \in DOMAIN net'[d].to_agent :
                        IsCommand(net'[d].to_agent[i]) => queue'[k].msg[2] < net'[d].to_agent[i][2]
      BY <3>1, <3>2 DEF OffWire
    <3> QED BY <3>1, <3>2 DEF QueueInOrder, OffWire
  <2>9. \A d \in Conns : WireInOrder(d)'
    BY <1>6, WireStays DEF InOrder
  <2>10. \A n \in 1 .. MaxCommands : Replying(n)' => OffQueue(n)'
    BY <1>7, <2>7 DEF InOrder, Replying, ToReply
  <2>11. ASSUME NEW r \in Commands, HasReply(r)' PROVE Replied(r)'
    <3>1. Replied(r)
      BY <1>4, <2>11 DEF InOrder, HasReply
    <3> QED BY <1>7, <2>7, <3>1 DEF Replied, ToReply
  <2>12. RepliesInOrder'
    BY <1>4 DEF InOrder, RepliesInOrder
  <2> QED BY <1>7, <2>8, <2>9, <2>10, <2>11, <2>12 DEF InOrder, ToReply
<1> QED BY <1>1, <1>2, <1>8, <1>9 DEF Receive, Pushed

(* ... clnt_proc_thread takes the first command from the queue, ...        *)
LEMMA RunOrder ==
  ASSUME Types, Types', InOrder, RunCommand
  PROVE  InOrder'
<1>1. PICK n \in 1 .. MaxCommands : n = Head(queue).msg[2] /\ Taken = <<Head(queue).conn, n>>
  BY HeadOfQueue DEF RunCommand, Commands, Taken
<1>2. queue \in Seq(QueueType) /\ queue # <<>> /\ queue' = Tail(queue)
  BY DEF Types, RunCommand, Rest
<1>3. /\ Head(queue) = queue[1] /\ 1 \in DOMAIN queue
      /\ \A k \in DOMAIN queue' : k + 1 \in DOMAIN queue /\ queue'[k] = queue[k + 1] /\ k \in Nat /\ k # 0
  BY <1>2, TailIs
<1>4. net' = net /\ proc'.pc = "reply" /\ proc'.msg = Taken /\ IsCommand(queue[1].msg)
  BY <1>3 DEF RunCommand
<1>5. WireShrinks
  <2>1. \A d \in Conns : \A k \in DOMAIN net[d].to_agent : k + 0 \in DOMAIN net[d].to_agent /\ k + 0 = k
    BY PlacesAre
  <2> QED BY <1>4, <2>1 DEF WireShrinks
<1>6. QueueShrinks
  BY <1>3 DEF QueueShrinks
<1>7. \A i : OffQueue(i) => OffQueue(i)'
  BY <1>5, <1>6, QueueStays
<1>8. queue[1].conn = 1 /\ OffWire(n) /\ OffWire(n)'
  BY <1>1, <1>3, <1>4, <1>5, WireStays DEF InOrder, QueueInOrder
<1>9. OffQueue(n)'
  <2>1. ASSUME NEW k \in DOMAIN queue', IsCommand(queue'[k].msg) PROVE n < queue'[k].msg[2]
    <3>1. 1 \in 1 .. (k + 1) - 1 /\ k + 1 \in DOMAIN queue /\ queue'[k] = queue[k + 1]
      BY <1>3
    <3> QED BY <1>1, <1>3, <1>4, <2>1, <3>1 DEF InOrder, QueueInOrder
  <2> QED BY <1>8, <2>1 DEF OffQueue
<1>10. (\A d \in Conns : WireInOrder(d)') /\ QueueInOrder'
  BY <1>5, <1>6, WireStays, QueueStays DEF InOrder
<1>11. proc'.msg[1] = 1 /\ proc'.msg[2] = n
  BY <1>1, <1>3, <1>4, <1>8
<1>12. \A i \in 1 .. MaxCommands : Replying(i)' => OffQueue(i)'
  BY <1>9, <1>11 DEF Replying
<1>13. ASSUME NEW r \in Commands, HasReply(r)' PROVE Replied(r)'
  <2>1. Replied(r)
    BY <1>4, <1>13 DEF InOrder, HasReply
  <2>2. r[2] < n
    BY <1>1, <1>3, <1>4, <2>1 DEF Replied, OffQueue
  <2> QED BY <1>7, <1>11, <2>1, <2>2 DEF Replied
<1>14. RepliesInOrder'
  BY <1>4 DEF InOrder, RepliesInOrder
<1> QED BY <1>10, <1>11, <1>12, <1>13, <1>14 DEF InOrder

(* ... and sends the reply, on whatever connection there is.               *)
LEMMA ReplyOrder ==
  ASSUME Types, Types', Sockets, InOrder, Reply
  PROVE  InOrder'
<1>1. PICK x \in Commands : x = proc.msg
  BY DEF Types, Reply, ToReply
<1>2. PICK n : n = [net[link.sock] EXCEPT !.replies = Append(@, x)] /\ Sends(n)
  BY <1>1, SendIs DEF Reply
<1>3. ToReply /\ ~ToReply' /\ queue' = queue
  BY DEF Reply, Nothing, ToReply
<1>4. QueueShrinks
  <2>1. \A k \in DOMAIN queue' : k + 0 \in DOMAIN queue /\ queue'[k] = queue[k + 0]
    BY <1>3, PlacesAre
  <2> QED BY <2>1 DEF QueueShrinks
<1>5. CASE net' = net
  <2>1. WireShrinks
    <3>1. \A d \in Conns : \A k \in DOMAIN net[d].to_agent : k + 0 \in DOMAIN net[d].to_agent /\ k + 0 = k
      BY PlacesAre
    <3> QED BY <1>5, <3>1 DEF WireShrinks
  <2> QED BY <1>3, <1>4, <1>5, <2>1, OrderStays
<1>6. CASE link.sock \in Conns /\ net' = [net EXCEPT ![link.sock] = n]
  <2>1. PICK s \in Conns : s = link.sock
    BY <1>6
  <2>2. PICK y \in Seq(Commands) : y = net[s].replies
    BY DEF Types, NetType
  <2>3. /\ net'[s].replies = Append(y, x)
        /\ \A c \in Conns : c # s => net'[c].replies = net[c].replies
        /\ \A c \in Conns : net'[c].to_agent = net[c].to_agent /\ net'[c].commands = net[c].commands
    <3>1. net' = [net EXCEPT ![s] = [net[s] EXCEPT !.replies = Append(y, x)]]
      BY <1>2, <1>6, <2>1, <2>2 DEF Types, NetType
    <3> QED BY <3>1 DEF Types, NetType
  <2>4. WireShrinks
    <3>1. \A d \in Conns : \A k \in DOMAIN net[d].to_agent : k + 0 \in DOMAIN net[d].to_agent /\ k + 0 = k
      BY PlacesAre
    <3> QED BY <2>3, <3>1 DEF WireShrinks
  <2>5. PICK l \in Nat : l = Len(y)
    OBVIOUS
  <2>6. /\ l + 1 \in DOMAIN net'[s].replies /\ net'[s].replies[l + 1] = x
        /\ \A k \in DOMAIN y : net'[s].replies[k] = y[k] /\ k \in 1 .. l
        /\ \A k \in DOMAIN net'[s].replies : k \in DOMAIN y \/ k = l + 1
    BY <2>3, <2>5, AppendIs
  <2>7. x[1] = 1 /\ OffQueue(x[2]) /\ \A r \in Commands : HasReply(r) => Replied(r) /\ r[2] < x[2]
    <3>1. PICK i \in 1 .. MaxCommands : i = x[2]
      BY DEF Commands
    <3>2. OffQueue(i)
      BY <1>1, <1>3, <3>1 DEF InOrder, Replying
    <3> QED BY <1>1, <1>3, <3>1, <3>2 DEF InOrder, Replied
  <2>8. \A i : OffQueue(i) => OffQueue(i)'
    BY <1>4, <2>4, QueueStays
  <2>9. ASSUME NEW r \in Commands, HasReply(r)' PROVE Replied(r)'
    <3>1. HasReply(r) \/ r = x
      BY <2>2, <2>3, <2>6, <2>9 DEF HasReply
    <3>2. r[1] = 1 /\ OffQueue(r[2])
      BY <2>7, <3>1 DEF Replied
    <3> QED BY <1>3, <2>8, <3>2 DEF Replied
  <2>10. RepliesInOrder'
    <3>1. ASSUME NEW c \in Conns, NEW d \in Conns,
                 NEW j \in DOMAIN net'[c].replies, NEW k \in DOMAIN net'[d].replies,
                 net'[c].replies[j][1] = net'[d].replies[k][1], c < d \/ (c = d /\ j < k)
          PROVE  net'[c].replies[j][2] < net'[d].replies[k][2]
      <4>1. CASE d = s /\ k = l + 1
        <5>1. HasReply(net'[c].replies[j]) /\ net'[c].replies[j] \in Commands
          <6>1. c # s \/ j # l + 1
            BY <2>1, <3>1, <4>1, NumbersAre
          <6>2. j \in DOMAIN net[c].replies /\ net'[c].replies[j] = net[c].replies[j]
            BY <2>2, <2>3, <2>6, <6>1
          <6> QED BY <6>2, NumbersAre DEF HasReply
        <5> QED BY <2>6, <2>7, <4>1, <5>1
      <4>2. CASE ~(d = s /\ k = l + 1)
        <5>1. k \in DOMAIN net[d].replies /\ net'[d].replies[k] = net[d].replies[k]
          BY <2>2, <2>3, <2>6, <4>2
        <5>2. c # s \/ j # l + 1
          <6>1. CASE c < d
            <7>1. d <= link.sock
              <8>1. net[d].replies # <<>>
                BY <5>1
              <8>2. d \in Nat /\ link.sock \in Nat
                BY <2>1, NumbersAre
              <8> QED BY <8>1, <8>2 DEF Sockets
            <7> QED BY <2>1, <6>1, <7>1, NumbersAre
          <6>2. CASE c = d /\ j < k
            <7>1. d = s => k \in 1 .. l
              BY <2>2, <2>6, <5>1
            <7>2. j = l + 1 => ~(k \in 1 .. l)
              BY <6>2
            <7> QED BY <6>2, <7>1, <7>2
          <6> QED BY <3>1, <6>1, <6>2
        <5>3. j \in DOMAIN net[c].replies /\ net'[c].replies[j] = net[c].replies[j]
          BY <2>2, <2>3, <2>6, <5>2
        <5> QED BY <3>1, <5>1, <5>3 DEF InOrder, RepliesInOrder
      <4> QED BY <4>1, <4>2
    <3> QED BY <3>1 DEF RepliesInOrder
  <2>11. (\A c \in Conns : WireInOrder(c)') /\ QueueInOrder'
    BY <1>4, <2>4, WireStays, QueueStays DEF InOrder
  <2> QED BY <1>3, <2>9, <2>10, <2>11 DEF InOrder, Replying
<1> QED BY <1>2, <1>5, <1>6 DEF Sends

(* The server's next command comes after all the others.                   *)
LEMMA CommandOrder ==
  ASSUME Types, Types', InOrder, NEW c \in Conns, ServerCommands(c)
  PROVE  InOrder'
<1>1. c = 1
  BY DEF ServerCommands
<1>2. PICK n \in Nat : n = net[c].commands /\ n + 1 \in 1 .. MaxCommands
  <2>1. net[c].commands \in 0 .. MaxCommands /\ net[c].commands < MaxCommands /\ MaxCommands \in Nat
    BY ClientAssumption DEF Types, NetType, ServerCommands
  <2> QED BY <2>1
<1>3. PICK w \in Seq(Messages), x \in Messages : w = net[c].to_agent /\ x = <<"command", n + 1>>
  <2>1. <<"command", n + 1>> \in Messages
    BY <1>2 DEF Messages
  <2>2. net[c].to_agent \in Seq(Messages)
    BY DEF Types, NetType
  <2> QED BY <2>1, <2>2, Zenon
<1>4. /\ net'[c].to_agent = Append(w, x) /\ net'[c].commands = n + 1
      /\ \A d \in Conns : d # c => net'[d] = net[d]
      /\ \A d \in Conns : net'[d].replies = net[d].replies
  <2>1. net' = [net EXCEPT ![c] = [net[c] EXCEPT !.commands = n + 1, !.to_agent = Append(w, x)]]
    BY <1>2, <1>3 DEF ServerCommands, Types, NetType
  <2> QED BY <2>1 DEF Types, NetType
<1>5. PICK l \in Nat : l = Len(w)
  OBVIOUS
<1>6. /\ l + 1 \in DOMAIN net'[c].to_agent /\ net'[c].to_agent[l + 1] = x
      /\ \A k \in DOMAIN w : net'[c].to_agent[k] = w[k] /\ k \in 1 .. l
      /\ \A k \in DOMAIN net'[c].to_agent : k \in DOMAIN w \/ k = l + 1
      /\ DOMAIN w = 1 .. l
  BY <1>3, <1>4, <1>5, AppendIs
<1>7. x[2] = n + 1
  BY <1>3
<1>8. /\ queue' = queue /\ proc' = proc
  BY DEF ServerCommands
<1>9. \A i \in Nat : OffWire(i) => OffWire(i)'
  <2> SUFFICES ASSUME NEW i \in Nat, OffWire(i) PROVE OffWire(i)'
    OBVIOUS
  <2>1. i <= n
    BY <1>1, <1>2 DEF OffWire
  <2>2. ASSUME NEW d \in Conns PROVE d = 1 => i <= net'[d].commands
    BY <1>1, <1>2, <1>4, <2>1
  <2>3. ASSUME NEW d \in Conns, NEW k \in DOMAIN net'[d].to_agent, IsCommand(net'[d].to_agent[k])
        PROVE  i < net'[d].to_agent[k][2]
    <3>1. CASE d = c /\ k = l + 1
      BY <1>6, <1>7, <2>1, <3>1
    <3>2. CASE ~(d = c /\ k = l + 1)
      <4>1. k \in DOMAIN net[d].to_agent /\ net'[d].to_agent[k] = net[d].to_agent[k]
        BY <1>3, <1>4, <1>6, <2>3, <3>2
      <4> QED BY <2>3, <4>1 DEF OffWire
    <3> QED BY <3>1, <3>2
  <2> QED BY <2>2, <2>3 DEF OffWire
<1>10. ASSUME NEW d \in Conns PROVE WireInOrder(d)'
  <2>1. ASSUME NEW k \in DOMAIN net'[d].to_agent, IsCommand(net'[d].to_agent[k])
        PROVE  /\ d = 1 /\ net'[d].to_agent[k][2] <= net'[d].commands
               /\ \A j \in 1 .. k - 1 : IsCommand(net'[d].to_agent[j]) =>
                    net'[d].to_agent[j][2] < net'[d].to_agent[k][2]
    <3>1. WireInOrder(d)
      BY DEF InOrder
    <3>2. CASE d # c
      BY <1>4, <2>1, <3>1, <3>2 DEF WireInOrder
    <3>3. CASE d = c /\ k \in DOMAIN w
      <4>1. net'[d].to_agent[k] = w[k] /\ w[k][2] <= n /\ w[k][2] \in Nat
        BY <1>2, <1>3, <1>6, <2>1, <3>1, <3>3, NumbersAre DEF WireInOrder
      <4>2. \A j \in 1 .. k - 1 : j \in DOMAIN w /\ net'[d].to_agent[j] = w[j]
        BY <1>5, <1>6, <3>3
      <4>3. d = 1 /\ net'[d].to_agent[k][2] <= net'[d].commands
        BY <1>1, <1>4, <3>3, <4>1
      <4>4. \A j \in 1 .. k - 1 : IsCommand(w[j]) => w[j][2] < w[k][2]
        BY <1>3, <2>1, <3>1, <3>3, <4>1 DEF WireInOrder
      <4> QED BY <4>1, <4>2, <4>3, <4>4
    <3>4. CASE d = c /\ k = l + 1
      <4>1. net'[d].to_agent[k][2] = n + 1
        BY <1>6, <1>7, <3>4
      <4>2. ASSUME NEW j \in 1 .. k - 1, IsCommand(net'[d].to_agent[j])
            PROVE  net'[d].to_agent[j][2] < n + 1
        <5>1. j \in DOMAIN w /\ net'[d].to_agent[j] = w[j]
          BY <1>6, <3>4
        <5>2. w[j][2] <= n /\ w[j][2] \in Nat
          BY <1>2, <1>3, <3>1, <3>4, <4>2, <5>1, NumbersAre DEF WireInOrder
        <5> QED BY <5>1, <5>2
      <4> QED BY <1>1, <1>4, <3>4, <4>1, <4>2
    <3> QED BY <1>6, <3>2, <3>3, <3>4
  <2> QED BY <2>1 DEF WireInOrder
<1>11. \A i \in Nat : OffQueue(i) => OffQueue(i)'
  BY <1>8, <1>9 DEF OffQueue
<1>12. QueueInOrder'
  <2>1. \A k \in DOMAIN queue : queue[k].msg[2] \in Nat
    BY NumbersAre
  <2>2. ASSUME NEW k \in DOMAIN queue, IsCommand(queue[k].msg)
        PROVE  \A d \in Conns :
                 /\ d = 1 => queue[k].msg[2] <= net'[d].commands
                 /\ \A i \in DOMAIN net'[d].to_agent :
                      IsCommand(net'[d].to_agent[i]) => queue[k].msg[2] < net'[d].to_agent[i][2]
    <3>1. PICK i \in Nat : i = queue[k].msg[2] /\ OffWire(i)
      BY <2>1, <2>2 DEF InOrder, QueueInOrder
    <3>2. OffWire(i)'
      BY <1>9, <3>1
    <3> QED BY <3>1, <3>2 DEF OffWire
  <2> QED BY <1>8, <2>2 DEF InOrder, QueueInOrder, OffWire
<1>13. \A i \in 1 .. MaxCommands : Replying(i)' => OffQueue(i)'
  BY <1>8, <1>11 DEF InOrder, Replying, ToReply
<1>14. ASSUME NEW r \in Commands, HasReply(r)' PROVE Replied(r)'
  <2>1. Replied(r) /\ r[2] \in Nat
    BY <1>4, <1>14, NumbersAre DEF InOrder, HasReply
  <2> QED BY <1>8, <1>11, <2>1 DEF Replied, ToReply
<1>15. RepliesInOrder'
  BY <1>4 DEF InOrder, RepliesInOrder
<1>16. ToReply' => proc'.msg[1] = 1
  BY <1>8 DEF InOrder, ToReply
<1> QED BY <1>10, <1>12, <1>13, <1>14, <1>15, <1>16 DEF InOrder

(* Every step keeps the order of the commands.                             *)
LEMMA OrderStep ==
  ASSUME Types, Types', Sockets, InOrder, [Next]_vars
  PROVE  InOrder'
<1>1. net \in [Conns -> NetType]
  BY DEF Types
<1>2. \A d \in Conns : \A k \in DOMAIN net[d].to_agent : k + 0 \in DOMAIN net[d].to_agent /\ k + 0 = k
  BY PlacesAre
<1>3. \A k \in DOMAIN queue : k + 0 \in DOMAIN queue /\ k + 0 = k
  BY PlacesAre
<1>4. ASSUME \A c \in Conns : net'[c].commands = net[c].commands /\ net'[c].to_agent = net[c].to_agent
      PROVE  WireShrinks
  BY <1>2, <1>4 DEF WireShrinks
<1>5. ASSUME queue' = queue PROVE QueueShrinks
  BY <1>3, <1>5 DEF QueueShrinks
<1>6. ASSUME \A c \in Conns : /\ net'[c].commands = net[c].commands
                              /\ net'[c].to_agent = net[c].to_agent
                              /\ net'[c].replies = net[c].replies,
             queue' = queue, proc' = proc
      PROVE  InOrder'
  <2>1. WireShrinks /\ QueueShrinks
    BY <1>4, <1>5, <1>6
  <2> QED BY <1>6, <2>1, OrderStays DEF ToReply
<1>7. ASSUME NEW t \in Callers, Caller(t) PROVE InOrder'
  <2>1. CASE Create(t)
    BY <1>6, <2>1 DEF Create
  <2>2. CASE Send(t)
    <3>1. PICK n : n = [net[link.sock] EXCEPT !.serving = @ \cup {caller[t].id}] /\ Sends(n)
      BY <2>2, SendIs DEF Send
    <3>2. \A c \in Conns : /\ net'[c].commands = net[c].commands
                           /\ net'[c].to_agent = net[c].to_agent
                           /\ net'[c].replies = net[c].replies
      BY <1>1, <3>1 DEF Sends, NetType
    <3> QED BY <1>6, <2>2, <3>2 DEF Send
  <2>3. CASE clnt_send(t) \/ Wait(t) \/ Spurious(t)
    BY <1>6, <2>3 DEF clnt_send, Wait, Spurious
  <2>4. CASE Return(t)
    BY <1>6, <2>4 DEF Return
  <2> QED BY <1>7, <2>1, <2>2, <2>3, <2>4 DEF Caller
<1>8. CASE Connector
  <2>1. CASE Connect
    <3>1. \A c \in Conns : /\ net'[c].commands = net[c].commands
                           /\ net'[c].to_agent = net[c].to_agent
                           /\ net'[c].replies = net[c].replies
      BY <1>1, <2>1 DEF Connect, NetType
    <3> QED BY <1>6, <2>1, <3>1 DEF Connect
  <2> QED BY <1>6, <1>8, <2>1 DEF Connector, StartReceiver, TestConnected, SleepConnector
<1>9. ASSUME NEW c \in Conns, Receiver(c) PROVE InOrder'
  <2>1. CASE Receive(c)
    BY <2>1, ReceiveOrder
  <2>2. CASE CloseSocket(c)
    <3>1. PICK s \in Conns : s = link.sock
      BY <2>2, SocketIs DEF CloseSocket
    <3>2. net'[s].to_agent = <<>> /\ \A d \in Conns : d # s => net'[d].to_agent = net[d].to_agent
      BY <1>1, <2>2, <3>1 DEF CloseSocket, NetType
    <3>3. \A d \in Conns : net'[d].commands = net[d].commands /\ net'[d].replies = net[d].replies
      BY <1>1, <2>2 DEF CloseSocket, NetType
    <3>4. WireShrinks
      BY <1>2, <3>2, <3>3 DEF WireShrinks
    <3>5. queue' = queue /\ proc' = proc
      BY <2>2 DEF CloseSocket
    <3> QED BY <1>5, <3>3, <3>4, <3>5, OrderStays DEF ToReply
  <2>3. CASE LeaveLoop(c) \/ Disconnect(c) \/ WalkHandlers(c) \/ NotifyConnector(c)
    BY <1>6, <2>3 DEF LeaveLoop, Disconnect, WalkHandlers, NotifyConnector
  <2> QED BY <1>9, <2>1, <2>2, <2>3 DEF Receiver
<1>10. CASE Proc
  <2>1. CASE ReadHead
    <3>1. queue \in Seq(QueueType) /\ queue # <<>> /\ queue' = Tail(queue)
      BY <2>1 DEF Types, ReadHead, Rest
    <3>2. \A k \in DOMAIN queue' : k + 1 \in DOMAIN queue /\ queue'[k] = queue[k + 1]
      BY <3>1, TailIs
    <3>3. QueueShrinks
      BY <3>2 DEF QueueShrinks
    <3>4. net' = net /\ proc'.pc = "find"
      BY <2>1 DEF ReadHead
    <3>5. WireShrinks
      BY <1>4, <3>4
    <3> QED BY <3>3, <3>4, <3>5, OrderStays DEF ToReply
  <2>2. CASE FindHandler \/ WriteType \/ WriteResponse
    <3>1. net' = net /\ queue' = queue
      BY <2>2 DEF FindHandler, WriteType, WriteResponse
    <3>2. ~ToReply'
      <4>1. proc \in ProcType
        BY DEF Types
      <4>2. CASE FindHandler
        BY <4>1, <4>2 DEF FindHandler, Nothing, ProcType, ToReply
      <4>3. CASE WriteType
        BY <4>1, <4>3 DEF WriteType, Nothing, ProcType, ToReply
      <4>4. CASE WriteResponse
        BY <4>4 DEF WriteResponse, Nothing, ToReply
      <4> QED BY <2>2, <4>2, <4>3, <4>4
    <3>3. WireShrinks /\ QueueShrinks
      BY <1>4, <1>5, <3>1
    <3> QED BY <3>1, <3>2, <3>3, OrderStays
  <2>3. CASE RunCommand
    BY <2>3, RunOrder
  <2>4. CASE Reply
    BY <2>4, ReplyOrder
  <2>5. CASE TestReply
    <3>1. net' = net /\ queue' = queue
      BY <2>5 DEF TestReply
    <3>2. ToReply' => ToReply /\ proc'.msg = proc.msg
      <4>1. proc \in ProcType /\ Nothing.pc = "pop"
        BY DEF Types, Nothing
      <4> QED BY <2>5, <4>1 DEF TestReply, ProcType, ToReply
    <3>3. WireShrinks /\ QueueShrinks
      BY <1>4, <1>5, <3>1
    <3> QED BY <3>1, <3>2, <3>3, OrderStays
  <2> QED BY <1>10, <2>1, <2>2, <2>3, <2>4, <2>5 DEF Proc
<1>11. ASSUME NEW c \in Conns, ServerAnswers(c) \/ ServerCommands(c) \/ ServerCloses(c)
       PROVE  InOrder'
  <2>1. CASE ServerAnswers(c)
    <3>1. PICK id : net' = [net EXCEPT ![c].serving = @ \ {id},
                                       ![c].to_agent = Append(@, <<"answer", id>>)]
      BY <2>1 DEF ServerAnswers
    <3>2. PICK w \in Seq(Messages) : w = net[c].to_agent
      BY <1>1 DEF NetType
    <3> DEFINE v == net'[c].to_agent
    <3>3. v = Append(w, <<"answer", id>>) /\ \A d \in Conns : d # c => net'[d].to_agent = net[d].to_agent
      BY <1>1, <3>1, <3>2 DEF NetType
    <3>4. \A d \in Conns : net'[d].commands = net[d].commands /\ net'[d].replies = net[d].replies
      BY <1>1, <3>1 DEF NetType
    <3>5. \A k \in DOMAIN v : IsCommand(v[k]) => k + 0 \in DOMAIN w /\ v[k] = w[k + 0]
      <4>1. PICK l \in Nat : l = Len(w) /\ DOMAIN w = 1 .. l
        OBVIOUS
      <4>2. DOMAIN v = 1 .. l + 1 /\ v[l + 1] = <<"answer", id>> /\ \A k \in 1 .. l : v[k] = w[k]
        BY <3>3, <4>1
      <4> QED BY <4>1, <4>2 DEF IsCommand
    <3>6. WireShrinks
      <4>1. 0 \in Nat
        OBVIOUS
      <4> QED BY <1>2, <3>2, <3>3, <3>4, <3>5, <4>1 DEF WireShrinks
    <3>7. queue' = queue /\ proc' = proc
      BY <2>1 DEF ServerAnswers
    <3> QED BY <1>5, <3>4, <3>6, <3>7, OrderStays DEF ToReply
  <2>2. CASE ServerCommands(c)
    BY <2>2, CommandOrder
  <2>3. CASE ServerCloses(c)
    <3>1. \A d \in Conns : /\ net'[d].commands = net[d].commands
                           /\ net'[d].to_agent = net[d].to_agent
                           /\ net'[d].replies = net[d].replies
      BY <1>1, <2>3 DEF ServerCloses, NetType
    <3> QED BY <1>6, <2>3, <3>1 DEF ServerCloses
  <2> QED BY <1>11, <2>1, <2>2, <2>3
<1>12. CASE UNCHANGED vars
  BY <1>6, <1>12 DEF vars
<1> QED BY <1>7, <1>8, <1>9, <1>10, <1>11, <1>12 DEF Next
-----------------------------------------------------------------------------
(* The answers.                                                            *)

(* Until a connection is lost, nothing is where a lost one puts it.        *)
LEMMA CalmIs ==
  ASSUME Types, Sockets, [Next]_vars, calm'
  PROVE  /\ calm
         /\ ~\E c \in Conns : LeaveLoop(c) \/ Disconnect(c) \/ WalkHandlers(c) \/ CloseSocket(c)
                              \/ NotifyConnector(c)
<1>1. ASSUME NEW c \in Conns PROVE ~LeaveLoop(c)
  BY DEF LeaveLoop
<1>2. calm
  <2>1. CASE UNCHANGED vars
    BY <2>1 DEF vars
  <2>2. CASE Next
    <3>1. ASSUME NEW t \in Callers, Caller(t) PROVE calm
      BY <3>1 DEF Caller, Create, clnt_send, Send, Wait, Spurious, Return
    <3>2. CASE Connector
      BY <3>2 DEF Connector, Connect, StartReceiver, TestConnected, SleepConnector
    <3>3. ASSUME NEW c \in Conns, Receiver(c) PROVE calm
      BY <1>1, <3>3 DEF Receiver, Receive, Disconnect, WalkHandlers, CloseSocket, NotifyConnector
    <3>4. CASE Proc
      BY <3>4 DEF Proc, ReadHead, FindHandler, WriteType, WriteResponse, RunCommand, TestReply, Reply
    <3>5. ASSUME NEW c \in Conns, ServerAnswers(c) \/ ServerCommands(c) \/ ServerCloses(c) PROVE calm
      BY <3>5 DEF ServerAnswers, ServerCommands, ServerCloses
    <3> QED BY <2>2, <3>1, <3>2, <3>3, <3>4, <3>5 DEF Next
  <2> QED BY <2>1, <2>2
<1>3. \A c \in Conns : recv[c] \in {"off", "poll"}
  BY <1>2 DEF Sockets
<1> QED BY <1>1, <1>2, <1>3 DEF Disconnect, WalkHandlers, CloseSocket, NotifyConnector

(* A step that adds no place for an answer, and leaves who expects it.     *)
LessPlaces(id) ==
  /\ \A c \in Conns : Asked(id, c)' => Asked(id, c)
  /\ \A c \in Conns : \E off \in Nat : \A k \in Nat : OnWire(id, c, k)' => OnWire(id, c, k + off)
  /\ \E off \in Nat : \A k \in Nat : Queued(id, k)' => Queued(id, k + off)
  /\ Handled(id)' => Handled(id)
(* It keeps every answer in one place.                                     *)
LEMMA PlacesStay ==
  ASSUME NEW id, OnePlace(id), LessPlaces(id),
         \A t \in Callers : Expects(t, id) => Expects(t, id)'
  PROVE  OnePlace(id)'
<1>1. \A c, d \in Conns : Asked(id, c)' /\ Asked(id, d)' => c = d
  BY DEF OnePlace, LessPlaces
<1>2. ASSUME NEW c \in Conns, NEW d \in Conns, NEW j \in Nat, NEW k \in Nat,
             OnWire(id, c, j)', OnWire(id, d, k)'
      PROVE  c = d /\ j = k
  <2>1. PICK o \in Nat : \A i \in Nat : OnWire(id, c, i)' => OnWire(id, c, i + o)
    BY DEF LessPlaces
  <2>2. PICK p \in Nat : \A i \in Nat : OnWire(id, d, i)' => OnWire(id, d, i + p)
    BY DEF LessPlaces
  <2>3. OnWire(id, c, j + o) /\ OnWire(id, d, k + p) /\ j + o \in Nat /\ k + p \in Nat
    BY <1>2, <2>1, <2>2
  <2>4. c = d
    BY <2>3 DEF OnePlace
  <2>5. OnWire(id, c, k + o) /\ k + o \in Nat
    BY <1>2, <2>1, <2>4
  <2>6. j + o = k + o
    BY <2>3, <2>5 DEF OnePlace
  <2> QED BY <2>4, <2>6
<1>3. ASSUME NEW j \in Nat, NEW k \in Nat, Queued(id, j)', Queued(id, k)'
      PROVE  j = k
  <2>1. PICK o \in Nat : \A i \in Nat : Queued(id, i)' => Queued(id, i + o)
    BY DEF LessPlaces
  <2>2. Queued(id, j + o) /\ Queued(id, k + o) /\ j + o \in Nat /\ k + o \in Nat
    BY <1>3, <2>1
  <2>3. j + o = k + o
    BY <2>2 DEF OnePlace
  <2> QED BY <2>3
<1>4. SomeAsked(id)' => SomeAsked(id)
  BY DEF SomeAsked, LessPlaces
<1>5. SomeOnWire(id)' => SomeOnWire(id)
  <2> SUFFICES ASSUME NEW c \in Conns, NEW k \in Nat, OnWire(id, c, k)' PROVE SomeOnWire(id)
    BY DEF SomeOnWire
  <2>1. PICK o \in Nat : OnWire(id, c, k + o)
    BY DEF LessPlaces
  <2>2. k + o \in Nat
    OBVIOUS
  <2> QED BY <2>1, <2>2 DEF SomeOnWire
<1>6. SomeQueued(id)' => SomeQueued(id)
  <2> SUFFICES ASSUME NEW k \in Nat, Queued(id, k)' PROVE SomeQueued(id)
    BY DEF SomeQueued
  <2>1. PICK o \in Nat : Queued(id, k + o)
    BY DEF LessPlaces
  <2>2. k + o \in Nat
    OBVIOUS
  <2> QED BY <2>1, <2>2 DEF SomeQueued
<1>7. Handled(id)' => Handled(id)
  BY DEF LessPlaces
<1> QED BY <1>1, <1>2, <1>3, <1>4, <1>5, <1>6, <1>7 DEF OnePlace

(* A clean call has an id that is given.                                   *)
LEMMA CleanIs ==
  ASSUME Types
  PROVE  /\ Clean \subseteq 1 .. MaxCalls
         /\ \A i \in Nat, j \in Nat : i \notin Clean /\ i # None /\ i <= j => j \notin Clean
<1>1. early \in 1 .. MaxCalls + 1 /\ MaxCalls \in Nat
  BY ClientAssumption DEF Types
<1> QED BY <1>1 DEF Clean, None

(* Some caller expects the answer.                                         *)
Expected(id) == \E t \in Callers : Expects(t, id)
(* An answer that is expected is in one place, if it is nowhere else.      *)
LEMMA PlacedOnce ==
  ASSUME NEW id, Expected(id)',
         \/ /\ ~SomeOnWire(id)' /\ ~SomeQueued(id)' /\ ~Handled(id)'
            /\ \A c, d \in Conns : Asked(id, c)' /\ Asked(id, d)' => c = d
         \/ /\ ~SomeAsked(id)' /\ ~SomeQueued(id)' /\ ~Handled(id)'
            /\ \A c, d \in Conns : \A j, k \in Nat :
                 OnWire(id, c, j)' /\ OnWire(id, d, k)' => c = d /\ j = k
         \/ /\ ~SomeAsked(id)' /\ ~SomeOnWire(id)' /\ ~Handled(id)'
            /\ \A j, k \in Nat : Queued(id, j)' /\ Queued(id, k)' => j = k
         \/ ~SomeAsked(id)' /\ ~SomeOnWire(id)' /\ ~SomeQueued(id)'
  PROVE  OnePlace(id)'
BY DEF OnePlace, Expected, SomeAsked, SomeOnWire, SomeQueued

(* A call that nobody expects an answer to has none under way.             *)
LEMMA NowhereIs ==
  ASSUME NEW id, OnePlace(id), \A t \in Callers : ~Expects(t, id)
  PROVE  ~SomeAsked(id) /\ ~SomeOnWire(id) /\ ~SomeQueued(id) /\ ~Handled(id)
BY DEF OnePlace

(* The results stay if nobody touches the cells and the callers.           *)
LEMMA ResultsStay ==
  ASSUME Results, handler' = handler, caller' = caller, early' = early,
         proc'.pc \in {"found", "typed"} => proc' = proc
  PROVE  Results'
<1>1. Clean' = Clean
  BY DEF Clean
<1>2. Writes' => Writes /\ proc' = proc
  BY <1>1 DEF Writes
<1>3. \A t \in Callers : /\ Answered(t) => Answered(t)'
                         /\ HasAnswer(t) => HasAnswer(t)'
                         /\ proc' = proc /\ Serves(t) => Serves(t)'
  BY DEF Answered, HasAnswer, Serves, Expects
<1>4. Writes' => \E t \in Callers : Serves(t)'
  BY <1>2, <1>3 DEF Results
<1>5. Writes' /\ proc'.pc = "typed" => handler'[proc'.cell].type = "RESPONSE"
  BY <1>2 DEF Results
<1>6. \A t \in Callers : caller'[t].id \in Clean' =>
        /\ caller'[t].pc = "idle" => Answered(t)'
        /\ caller'[t].pc = "woken" => HasAnswer(t)'
  BY <1>1, <1>3 DEF Results
<1> QED BY <1>4, <1>5, <1>6 DEF Results

(* The caller whose answer the thread has found is served; its cell is its *)
(* own, and in the map.                                                    *)
LEMMA ServedIs ==
  ASSUME Types, Calls, Mapping, NEW t \in Callers, Serves(t)
  PROVE  /\ proc.cell \in Slots /\ Active(t) /\ Mapped(hdl_hashmap, proc.cell)
         /\ caller[t].id = proc.msg[2] /\ handler[proc.cell].id = proc.msg[2]
         /\ \A u \in Callers : Active(u) /\ caller[u].cell = proc.cell => u = t
<1>1. Active(t) /\ caller[t].cell = proc.cell /\ caller[t].id = proc.msg[2]
  BY DEF Serves, Expects, Active
<1>2. proc.cell \in Slots /\ handler[proc.cell].id = proc.msg[2] /\ proc.cell \in Used
  BY <1>1, UsedIs DEF Calls
<1>3. Mapped(hdl_hashmap, proc.cell)
  <2>1. PICK b \in Buckets : b = Hash(handler[proc.cell].id)
    <3>1. handler[proc.cell].id \in Nat
      BY <1>2, ClientAssumption DEF Types, HandlerType
    <3> QED BY <3>1, HashType
  <2>2. proc.cell \in Members[b]
    BY <1>2, <2>1, MembersIs
  <2> QED BY <2>1, <2>2, MappedIs DEF Mapping
<1>4. \A u \in Callers : Active(u) /\ caller[u].cell = proc.cell => u = t
  BY <1>1, OwnCell
<1> QED BY <1>1, <1>2, <1>3, <1>4

(* clnt_create_msg: nobody knows the new call yet.                         *)
LEMMA CreateAnswers ==
  ASSUME Types, Calls, Mapping, (\A id \in Clean : OnePlace(id)), Results,
         NEW t \in Callers, Create(t)
  PROVE  (\A id \in Clean : OnePlace(id)') /\ Results'
<1>1. PICK s \in Slots \ Used :
        /\ handler' = [handler EXCEPT ![s] = NewCell(MsgId)]
        /\ caller' = [caller EXCEPT ![t].pc = "created", ![t].cell = s, ![t].id = MsgId]
  BY FreeCell DEF Create, Active
<1>2. /\ caller[t].pc = "idle" /\ net' = net /\ queue' = queue /\ proc' = proc
      /\ Clean' = Clean
  BY DEF Create, Clean
<1>3. /\ caller'[t].pc = "created" /\ \A u \in Callers : u # t => caller'[u] = caller[u]
      /\ \A r \in Slots : r # s => handler'[r] = handler[r]
  BY <1>1 DEF Types, CallerType
<1>4. ASSUME NEW id \in Clean PROVE OnePlace(id)'
  <2>1. LessPlaces(id)
    <3>1. \A k \in Nat : k + 0 = k
      OBVIOUS
    <3> QED BY <1>2, <3>1 DEF LessPlaces, Asked, OnWire, Queued, Handled
  <2>2. \A u \in Callers : Expects(u, id) => Expects(u, id)'
    BY <1>2, <1>3 DEF Expects
  <2> QED BY <2>1, <2>2, PlacesStay
<1>5. Results'
  <2>1. \A u \in Callers : caller[u].pc # "idle" => caller[u].cell # s
    BY <1>1, UsedIs DEF Active
  <2>2. ASSUME NEW u \in Callers, caller'[u].id \in Clean
        PROVE  /\ caller'[u].pc = "idle" => Answered(u)'
               /\ caller'[u].pc = "woken" => HasAnswer(u)'
    <3>1. CASE u = t
      BY <1>3, <3>1
    <3>2. CASE u # t
      <4>1. caller'[u] = caller[u]
        BY <1>3, <3>2
      <4>2. caller[u].pc = "woken" => caller[u].cell \in Slots /\ caller[u].cell # s
        BY <2>1 DEF Calls, Active
      <4> QED BY <1>3, <2>2, <4>1, <4>2 DEF Results, Answered, HasAnswer
    <3> QED BY <3>1, <3>2
  <2>3. ASSUME NEW u \in Callers, Serves(u)
        PROVE  Serves(u)' /\ proc.cell # s /\ proc.cell \in Slots
    <3>1. caller'[u] = caller[u] /\ caller[u].pc # "idle"
      BY <1>2, <1>3, <2>3 DEF Serves, Expects
    <3> QED BY <1>2, <2>1, <2>3, <3>1, ServedIs DEF Serves, Expects
  <2>4. Writes' => \E u \in Callers : Serves(u)'
    BY <1>2, <2>3 DEF Results, Writes
  <2>5. Writes' /\ proc'.pc = "typed" => handler'[proc'.cell].type = "RESPONSE"
    BY <1>2, <1>3, <2>3 DEF Results, Writes
  <2> QED BY <1>2, <2>2, <2>4, <2>5 DEF Results
<1> QED BY <1>4, <1>5

(* The call is sent: the server is asked, if it is connected.              *)
LEMMA SendAnswers ==
  ASSUME Types, Calls, (\A id \in Clean : OnePlace(id)), Results,
         NEW t \in Callers, Send(t)
  PROVE  (\A id \in Clean : OnePlace(id)') /\ Results'
<1>1. PICK i : i = caller[t].id
  OBVIOUS
<1>2. PICK n : n = [net[link.sock] EXCEPT !.serving = @ \cup {i}] /\ Sends(n)
  BY <1>1, SendIs DEF Send
<1>3. /\ caller[t].pc = "sending" /\ caller'[t].pc = "sent" /\ caller'[t].id = i
      /\ \A u \in Callers : u # t => caller'[u] = caller[u]
      /\ \A u \in Callers : caller'[u].cell = caller[u].cell /\ caller'[u].id = caller[u].id
      /\ queue' = queue /\ proc' = proc /\ handler' = handler /\ Clean' = Clean
  BY <1>1 DEF Send, Types, CallerType, cells, Clean
<1>4. /\ \A c \in Conns : net'[c].to_agent = net[c].to_agent
      /\ \A c \in Conns : net'[c].serving = net[c].serving
                          \/ (c = link.sock /\ net'[c].serving = net[c].serving \cup {i})
  <2>1. CASE link.sock \in Conns /\ net' = [net EXCEPT ![link.sock] = n]
    <3>1. PICK s \in Conns : s = link.sock
      BY <2>1
    <3>2. net' = [net EXCEPT ![s] = [net[s] EXCEPT !.serving = @ \cup {i}]]
      BY <1>2, <2>1, <3>1
    <3>3. net[s] \in NetType /\ net \in [Conns -> NetType]
      BY DEF Types
    <3>4. net'[s].to_agent = net[s].to_agent /\ net'[s].serving = net[s].serving \cup {i}
      BY <3>2, <3>3 DEF NetType
    <3>5. \A c \in Conns : c # s => net'[c] = net[c]
      BY <3>2, <3>3
    <3> QED BY <3>1, <3>4, <3>5
  <2>2. CASE net' = net
    BY <2>2
  <2> QED BY <1>2, <2>1, <2>2 DEF Sends
<1>5. \A u \in Callers : Active(u) /\ caller[u].id = i => u = t
  BY <1>1, <1>3 DEF Calls, Active
<1>6. ASSUME NEW id \in Clean PROVE OnePlace(id)'
  <2>1. /\ \A c \in Conns, k \in Nat : OnWire(id, c, k)' => OnWire(id, c, k)
        /\ \A k \in Nat : Queued(id, k)' => Queued(id, k)
        /\ Handled(id)' => Handled(id)
    BY <1>3, <1>4 DEF OnWire, Queued, Handled
  <2>2. \A u \in Callers : Expects(u, id) => Expects(u, id)'
    BY <1>3 DEF Expects
  <2>3. CASE id # i
    <3>1. \A c \in Conns : Asked(id, c)' => Asked(id, c)
      BY <1>4, <2>3 DEF Asked
    <3>2. LessPlaces(id)
      <4>1. \A k \in Nat : k + 0 = k
        OBVIOUS
      <4> QED BY <2>1, <3>1, <4>1 DEF LessPlaces
    <3> QED BY <2>2, <3>2, PlacesStay
  <2>4. CASE id = i
    <3>1. \A u \in Callers : ~Expects(u, id)
      BY <1>3, <1>5, <2>4 DEF Expects, Active
    <3>2. ~SomeAsked(id) /\ ~SomeOnWire(id) /\ ~SomeQueued(id) /\ ~Handled(id)
      BY <3>1, NowhereIs
    <3>3. Expected(id)'
      BY <1>3, <2>4 DEF Expected, Expects
    <3>4. \A c \in Conns : Asked(id, c)' => c = link.sock
      BY <1>4, <3>2 DEF Asked, SomeAsked
    <3>5. ~SomeOnWire(id)' /\ ~SomeQueued(id)' /\ ~Handled(id)'
      BY <2>1, <3>2 DEF SomeOnWire, SomeQueued
    <3>6. \A c, d \in Conns : Asked(id, c)' /\ Asked(id, d)' => c = d
      BY <3>4
    <3> QED BY <3>3, <3>5, <3>6, PlacedOnce
  <2> QED BY <2>3, <2>4
<1>7. Results'
  <2>1. ASSUME NEW u \in Callers, caller'[u].id \in Clean
        PROVE  /\ caller'[u].pc = "idle" => Answered(u)'
               /\ caller'[u].pc = "woken" => HasAnswer(u)'
    BY <1>3, <2>1 DEF Results, Answered, HasAnswer
  <2>2. \A u \in Callers : Serves(u) => Serves(u)'
    BY <1>3 DEF Serves, Expects
  <2>3. Writes' => \E u \in Callers : Serves(u)'
    BY <1>3, <2>2 DEF Results, Writes
  <2>4. Writes' /\ proc'.pc = "typed" => handler'[proc'.cell].type = "RESPONSE"
    BY <1>3 DEF Results, Writes
  <2> QED BY <1>3, <2>1, <2>3, <2>4 DEF Results
<1> QED BY <1>6, <1>7

(* The caller looks whether the client is connected, and later waits.      *)
LEMMA WaitAnswers ==
  ASSUME Types, (\A id \in Clean : OnePlace(id)), Results,
         NEW t \in Callers, clnt_send(t) \/ Wait(t)
  PROVE  (\A id \in Clean : OnePlace(id)') /\ Results'
<1>1. /\ \/ caller[t].pc = "created" /\ caller'[t].pc \in {"sending", "sent"}
         \/ caller[t].pc = "sent" /\ caller'[t].pc = "waiting"
      /\ \A u \in Callers : u # t => caller'[u] = caller[u]
      /\ \A u \in Callers : caller'[u].cell = caller[u].cell /\ caller'[u].id = caller[u].id
      /\ net' = net /\ queue' = queue /\ proc' = proc /\ handler' = handler
      /\ \A u \in Callers : caller'[u].type = caller[u].type /\ caller'[u].answer = caller[u].answer
      /\ Clean' = Clean
  <2>1. PICK p \in {"sending", "sent", "waiting"} :
          /\ caller' = [caller EXCEPT ![t].pc = p]
          /\ \/ caller[t].pc = "created" /\ p \in {"sending", "sent"}
             \/ caller[t].pc = "sent" /\ p = "waiting"
    <3>1. CASE clnt_send(t)
      BY <3>1 DEF clnt_send
    <3>2. CASE Wait(t)
      BY <3>2 DEF Wait
    <3> QED BY <3>1, <3>2
  <2>2. net' = net /\ queue' = queue /\ proc' = proc /\ handler' = handler /\ Clean' = Clean
    BY DEF clnt_send, Wait, cells, Clean
  <2> QED BY <2>1, <2>2 DEF Types, CallerType
<1>2. ASSUME NEW id \in Clean PROVE OnePlace(id)'
  <2>1. LessPlaces(id)
    <3>1. \A k \in Nat : k + 0 = k
      OBVIOUS
    <3> QED BY <1>1, <3>1 DEF LessPlaces, Asked, OnWire, Queued, Handled
  <2>2. \A u \in Callers : Expects(u, id) => Expects(u, id)'
    BY <1>1 DEF Expects
  <2> QED BY <2>1, <2>2, PlacesStay
<1>3. Results'
  <2>1. ASSUME NEW u \in Callers, caller'[u].id \in Clean
        PROVE  /\ caller'[u].pc = "idle" => Answered(u)'
               /\ caller'[u].pc = "woken" => HasAnswer(u)'
    BY <1>1, <2>1 DEF Results, Answered, HasAnswer
  <2>2. \A u \in Callers : Serves(u) => Serves(u)'
    BY <1>1 DEF Serves, Expects
  <2>3. Writes' => \E u \in Callers : Serves(u)'
    BY <1>1, <2>2 DEF Results, Writes
  <2>4. Writes' /\ proc'.pc = "typed" => handler'[proc'.cell].type = "RESPONSE"
    BY <1>1 DEF Results, Writes
  <2> QED BY <1>1, <2>1, <2>3, <2>4 DEF Results
<1> QED BY <1>2, <1>3

(* The wait ends early: from then on only the calls made before count.     *)
LEMMA SpuriousAnswers ==
  ASSUME Types, Calls, (\A id \in Clean : OnePlace(id)), Results, NEW t \in Callers, Spurious(t)
  PROVE  (\A id \in Clean' : OnePlace(id)') /\ Results'
<1>1. /\ caller[t].pc = "waiting" /\ caller'[t].pc = "woken"
      /\ \A u \in Callers : u # t => caller'[u] = caller[u]
      /\ \A u \in Callers : caller'[u].cell = caller[u].cell /\ caller'[u].id = caller[u].id
      /\ net' = net /\ queue' = queue /\ proc' = proc /\ handler' = handler
  BY DEF Spurious, Types, CallerType, cells
<1>2. Clean' \subseteq Clean /\ caller[t].id \notin Clean'
  <2>1. early \in Nat /\ caller[t].id \in Nat
    BY ClientAssumption DEF Types, CallerType
  <2>2. early' = IF caller[t].id < early THEN caller[t].id ELSE early
    BY DEF Spurious
  <2> QED BY <2>1, <2>2 DEF Clean
<1>3. \A u \in Callers : caller'[u].id \in Clean' => u # t /\ caller'[u] = caller[u]
  BY <1>1, <1>2
<1>4. ASSUME NEW id \in Clean' PROVE OnePlace(id)'
  <2>1. LessPlaces(id)
    <3>1. \A k \in Nat : k + 0 = k
      OBVIOUS
    <3>2. net' = net /\ queue' = queue /\ proc' = proc
      BY <1>1
    <3> QED BY <3>1, <3>2 DEF LessPlaces, Asked, OnWire, Queued, Handled
  <2>2. \A u \in Callers : Expects(u, id) => Expects(u, id)'
    BY <1>1, <1>3 DEF Expects
  <2>3. OnePlace(id)
    BY <1>2
  <2> QED BY <2>1, <2>2, <2>3, PlacesStay
<1>5. Results'
  <2>1. ASSUME NEW u \in Callers, caller'[u].id \in Clean'
        PROVE  /\ caller'[u].pc = "idle" => Answered(u)'
               /\ caller'[u].pc = "woken" => HasAnswer(u)'
    <3>1. caller'[u] = caller[u] /\ caller[u].id \in Clean
      BY <1>2, <1>3, <2>1
    <3> QED BY <1>1, <3>1 DEF Results, Answered, HasAnswer
  <2>2. Writes' => Writes
    BY <1>1, <1>2 DEF Writes
  <2>3. ASSUME Writes' PROVE \E u \in Callers : Serves(u)'
    <3>1. PICK u \in Callers : Serves(u)
      BY <2>2, <2>3 DEF Results
    <3>2. caller'[u] = caller[u]
      BY <1>1, <1>3, <2>3, <3>1 DEF Writes, Serves, Expects
    <3> QED BY <1>1, <3>1, <3>2 DEF Serves, Expects
  <2>4. Writes' /\ proc'.pc = "typed" => handler'[proc'.cell].type = "RESPONSE"
    BY <1>1, <2>2 DEF Results
  <2> QED BY <2>1, <2>3, <2>4 DEF Results
<1> QED BY <1>4, <1>5

(* The call returns: what it takes from its cell is the answer.            *)
LEMMA ReturnAnswers ==
  ASSUME Types, Calls, Mapping, (\A id \in Clean : OnePlace(id)), Results,
         NEW t \in Callers, Return(t)
  PROVE  (\A id \in Clean : OnePlace(id)') /\ Results'
<1>1. PICK s \in Slots : s = caller[t].cell
  BY DEF Calls, Active, Return
<1>2. /\ caller[t].pc = "woken" /\ caller'[t].pc = "idle" /\ caller'[t].id = caller[t].id
      /\ caller'[t].type = handler[s].type /\ caller'[t].answer = handler[s].answer
      /\ \A u \in Callers : u # t => caller'[u] = caller[u]
      /\ \A r \in Slots : r # s => handler'[r] = handler[r]
      /\ net' = net /\ queue' = queue /\ proc' = proc /\ Clean' = Clean
  BY <1>1 DEF Return, Types, CallerType, Clean
<1>3. ASSUME NEW u \in Callers, Active(u), u # t PROVE caller[u].cell # s /\ caller[u].cell \in Slots
  BY <1>1, <1>2, <1>3, OwnCell DEF Active, Calls
<1>4. ASSUME NEW id \in Clean PROVE OnePlace(id)'
  <2>1. LessPlaces(id)
    <3>1. \A k \in Nat : k + 0 = k
      OBVIOUS
    <3>2. net' = net /\ queue' = queue /\ proc' = proc
      BY <1>2
    <3> QED BY <3>1, <3>2 DEF LessPlaces, Asked, OnWire, Queued, Handled
  <2>2. \A u \in Callers : Expects(u, id) => Expects(u, id)'
    BY <1>2 DEF Expects
  <2> QED BY <2>1, <2>2, PlacesStay
<1>5. Results'
  <2>1. ASSUME NEW u \in Callers, caller'[u].id \in Clean
        PROVE  /\ caller'[u].pc = "idle" => Answered(u)'
               /\ caller'[u].pc = "woken" => HasAnswer(u)'
    <3>1. CASE u = t
      BY <1>1, <1>2, <2>1, <3>1 DEF Results, Answered, HasAnswer
    <3>2. CASE u # t
      <4>1. caller'[u] = caller[u]
        BY <1>2, <3>2
      <4>2. caller[u].pc = "woken" => handler'[caller[u].cell] = handler[caller[u].cell]
        BY <1>2, <1>3, <3>2 DEF Active
      <4> QED BY <2>1, <4>1, <4>2 DEF Results, Answered, HasAnswer
    <3> QED BY <3>1, <3>2
  <2>2. ASSUME NEW u \in Callers, Serves(u)
        PROVE  Serves(u)' /\ proc.cell # s /\ proc.cell \in Slots
    <3>1. u # t /\ Active(u) /\ caller[u].cell = proc.cell
      BY <1>2, <2>2 DEF Serves, Expects, Active
    <3> QED BY <1>2, <1>3, <2>2, <3>1 DEF Serves, Expects
  <2>3. Writes' => \E u \in Callers : Serves(u)'
    BY <1>2, <2>2 DEF Results, Writes
  <2>4. Writes' /\ proc'.pc = "typed" => handler'[proc'.cell].type = "RESPONSE"
    BY <1>2, <2>2 DEF Results, Writes
  <2> QED BY <1>2, <2>1, <2>3, <2>4 DEF Results
<1> QED BY <1>4, <1>5

(* clnt_process_response: the answer is taken from the queue, ...          *)
LEMMA ReadAnswers ==
  ASSUME Types, (\A id \in Clean : OnePlace(id)), Results, ReadHead \/ RunCommand
  PROVE  (\A id \in Clean : OnePlace(id)') /\ Results'
<1>1. /\ queue \in Seq(QueueType) /\ queue # <<>> /\ queue' = Tail(queue)
      /\ net' = net /\ caller' = caller /\ handler' = handler
      /\ proc.pc = "pop" /\ proc'.pc \in {"find", "reply"} /\ early' = early
  BY DEF ReadHead, RunCommand, Types, Rest, cells
<1>2. /\ \A k \in DOMAIN queue' : k + 1 \in DOMAIN queue /\ queue'[k] = queue[k + 1] /\ k \in Nat /\ k # 0
      /\ Head(queue) = queue[1] /\ 1 \in DOMAIN queue
  BY <1>1, TailIs
<1>3. ASSUME NEW id \in Clean PROVE OnePlace(id)'
  <2>1. /\ \A c \in Conns : Asked(id, c)' => Asked(id, c)
        /\ \A c \in Conns, k \in Nat : OnWire(id, c, k)' => OnWire(id, c, k)
        /\ \A k \in Nat : Queued(id, k)' => Queued(id, k + 1) /\ k + 1 # 1
    BY <1>1, <1>2 DEF Asked, OnWire, Queued
  <2>2. \A u \in Callers : Expects(u, id) => Expects(u, id)'
    BY <1>1 DEF Expects
  <2>3. CASE ~Handled(id)'
    <3>1. LessPlaces(id)
      <4>1. (\A k \in Nat : k + 0 = k) /\ 0 \in Nat /\ 1 \in Nat
        OBVIOUS
      <4> QED BY <2>1, <2>3, <4>1 DEF LessPlaces
    <3> QED BY <2>2, <3>1, PlacesStay
  <2>4. CASE Handled(id)'
    <3>1. Queued(id, 1)
      <4>1. ReadHead
        BY <1>1, <2>4 DEF Handled, RunCommand
      <4>2. proc'.msg = Taken /\ Head(queue).msg = <<"answer", Taken[2]>>
        BY <4>1, HeadOfQueue DEF ReadHead
      <4>3. Taken[2] = id
        BY <2>4, <4>2 DEF Handled
      <4> QED BY <1>2, <4>2, <4>3 DEF Queued
    <3>2. SomeQueued(id) /\ 1 \in Nat
      BY <3>1 DEF SomeQueued
    <3>3. ~SomeAsked(id) /\ ~SomeOnWire(id) /\ Expected(id)
      BY <3>2 DEF OnePlace, Expected
    <3>4. ~SomeAsked(id)' /\ ~SomeOnWire(id)'
      BY <2>1, <3>3 DEF SomeAsked, SomeOnWire
    <3>5. ~SomeQueued(id)'
      <4>1. \A k \in Nat : Queued(id, k) => k = 1
        BY <3>1, <3>2 DEF OnePlace
      <4>2. \A k \in Nat : k + 1 \in Nat
        OBVIOUS
      <4> QED BY <2>1, <4>1, <4>2 DEF SomeQueued
    <3>6. Expected(id)'
      BY <2>2, <3>3 DEF Expected
    <3> QED BY <3>4, <3>5, <3>6, PlacedOnce
  <2> QED BY <2>3, <2>4
<1>4. Results'
  BY <1>1, ResultsStay
<1> QED BY <1>3, <1>4

(* ... its handler is looked up: one that is found is the right one, ...   *)
LEMMA FindAnswers ==
  ASSUME Types, Calls, Mapping, (\A id \in Clean : OnePlace(id)), Results, FindHandler
  PROVE  (\A id \in Clean : OnePlace(id)') /\ Results'
<1>1. PICK i \in 1 .. MaxCalls : i = proc.msg[2]
  BY DEF Types, FindHandler
<1>2. PICK s : s = Found(proc.cell, i)
  OBVIOUS
<1>3. /\ net' = net /\ queue' = queue /\ caller' = caller /\ handler' = handler /\ proc.pc = "find"
      /\ early' = early /\ Clean' = Clean
      /\ proc' = IF s = Null THEN Nothing ELSE [proc EXCEPT !.pc = "found", !.cell = s]
  BY <1>1, <1>2 DEF FindHandler, cells, Clean
<1>4. s = Null \/ (s \in Slots /\ handler[s].id = i)
  <2>1. proc.cell \in Links /\ hdl_hashmap \in MapType
    BY DEF Types, ProcType, Slots, Links, Null, None, Mapping, Chained
  <2>2. s = Null \/ (s \in Slots /\ Ids[s] = i)
    BY <1>2, <2>1, FindIs DEF Found, Slots
  <2> QED BY <2>2 DEF Ids
<1>5. /\ s = Null => proc'.pc = "pop"
      /\ s # Null => proc'.pc = "found" /\ proc'.msg = proc.msg /\ proc'.cell = s
  BY <1>3 DEF Nothing, Types, ProcType
<1>6. ASSUME NEW id \in Clean PROVE OnePlace(id)'
  <2>1. Handled(id)' => Handled(id)
    BY <1>3, <1>5 DEF Handled
  <2>2. LessPlaces(id)
    <3>1. \A k \in Nat : k + 0 = k
      OBVIOUS
    <3> QED BY <1>3, <2>1, <3>1 DEF LessPlaces, Asked, OnWire, Queued
  <2>3. \A u \in Callers : Expects(u, id) => Expects(u, id)'
    BY <1>3 DEF Expects
  <2> QED BY <2>2, <2>3, PlacesStay
<1>7. Results'
  <2>1. CASE s = Null
    BY <1>3, <1>5, <2>1, ResultsStay
  <2>2. CASE s # Null
    <3> SUFFICES ASSUME i \in Clean PROVE \E u \in Callers : Serves(u)'
      <4>1. Writes' => i \in Clean
        BY <1>1, <1>3, <1>5, <2>2 DEF Writes
      <4>2. \A u \in Callers : caller'[u].id \in Clean' =>
              /\ caller'[u].pc = "idle" => Answered(u)'
              /\ caller'[u].pc = "woken" => HasAnswer(u)'
        BY <1>3 DEF Results, Answered, HasAnswer
      <4>3. proc'.pc # "typed"
        BY <1>5, <2>2
      <4> QED BY <4>1, <4>2, <4>3 DEF Results
    <3>1. PICK t \in Callers : Expects(t, i)
      BY <1>1, <1>3 DEF OnePlace, Handled
    <3>2. caller[t].cell \in Slots /\ handler[caller[t].cell].id = i /\ i # None
      BY <1>1, <3>1 DEF Calls, Active, Expects, None
    <3>3. caller[t].cell = s
      BY <1>4, <2>2, <3>2 DEF Calls
    <3>4. Serves(t)'
      BY <1>1, <1>3, <1>5, <2>2, <3>1, <3>3 DEF Serves, Expects
    <3> QED BY <3>4
  <2> QED BY <2>1, <2>2
<1> QED BY <1>6, <1>7

(* What is written for a call that does not count, or to a cell that is    *)
(* free or used again, is not written to the cell of one that does.        *)
LEMMA OthersCell ==
  ASSUME Types, Calls, Stale, proc.pc \in {"found", "typed"}, ~Writes,
         NEW t \in Callers, Active(t), caller[t].id \in Clean
  PROVE  caller[t].cell # proc.cell
<1>1. /\ proc.msg[2] \in Nat /\ proc.msg[2] # None /\ proc.cell \in Slots
      /\ handler[proc.cell].id \in Nat
  BY ClientAssumption DEF Types, HandlerType, None
<1>2. proc.msg[2] \notin Clean /\ proc.msg[2] <= handler[proc.cell].id
  BY DEF Writes, Stale
<1>3. handler[proc.cell].id \notin Clean
  BY <1>1, <1>2, CleanIs
<1> QED BY <1>3 DEF Calls

(* ... the response is written to it, ...                                  *)
LEMMA TypeAnswers ==
  ASSUME Types, Calls, Mapping, Stale, (\A id \in Clean : OnePlace(id)), Results, WriteType
  PROVE  (\A id \in Clean : OnePlace(id)') /\ Results'
<1>1. /\ net' = net /\ queue' = queue /\ caller' = caller /\ proc.pc = "found"
      /\ proc'.pc = "typed" /\ proc'.msg = proc.msg /\ proc'.cell = proc.cell
      /\ Clean' = Clean
  BY DEF WriteType, Types, ProcType, Clean
<1>2. /\ proc.cell \in Slots
      /\ \A r \in Slots : handler'[r].answer = handler[r].answer
                          /\ (r # proc.cell => handler'[r] = handler[r])
                          /\ handler'[r].type \in {handler[r].type, "RESPONSE"}
      /\ Mapped(hdl_hashmap, proc.cell) => handler'[proc.cell].type = "RESPONSE"
  <2>1. proc.cell \in Slots
    BY <1>1 DEF Types
  <2>2. handler' = [handler EXCEPT ![proc.cell].type =
                      IF Mapped(hdl_hashmap, proc.cell) THEN "RESPONSE" ELSE @]
    BY DEF WriteType
  <2> QED BY <2>1, <2>2 DEF Types, HandlerType
<1>3. ASSUME NEW id \in Clean PROVE OnePlace(id)'
  <2>1. LessPlaces(id)
    <3>1. \A k \in Nat : k + 0 = k
      OBVIOUS
    <3> QED BY <1>1, <3>1 DEF LessPlaces, Asked, OnWire, Queued, Handled
  <2>2. \A u \in Callers : Expects(u, id) => Expects(u, id)'
    BY <1>1 DEF Expects
  <2> QED BY <2>1, <2>2, PlacesStay
<1>4. ASSUME NEW u \in Callers, caller'[u].id \in Clean
      PROVE  /\ caller'[u].pc = "idle" => Answered(u)'
             /\ caller'[u].pc = "woken" => HasAnswer(u)'
  <2>1. caller[u].pc = "woken" => caller[u].cell \in Slots
    BY DEF Calls, Active
  <2> QED BY <1>1, <1>2, <1>4, <2>1 DEF Results, Answered, HasAnswer
<1>5. ASSUME Writes'
      PROVE  /\ \E u \in Callers : Serves(u)'
             /\ handler'[proc'.cell].type = "RESPONSE"
  <2>1. PICK t \in Callers : Serves(t)
    BY <1>1, <1>5 DEF Results, Writes
  <2>2. Mapped(hdl_hashmap, proc.cell)
    BY <2>1, ServedIs
  <2>3. Serves(t)'
    BY <1>1, <2>1 DEF Serves, Expects
  <2> QED BY <1>1, <1>2, <2>2, <2>3
<1>6. Results'
  BY <1>1, <1>4, <1>5 DEF Results
<1> QED BY <1>3, <1>6

(* ... and the caller is woken, if it waits already.                       *)
LEMMA WriteAnswers ==
  ASSUME Types, Calls, Mapping, Stale, (\A id \in Clean : OnePlace(id)), Results, WriteResponse
  PROVE  (\A id \in Clean : OnePlace(id)') /\ Results'
<1>1. /\ net' = net /\ queue' = queue /\ caller' = Notified(proc.cell) /\ proc.pc = "typed"
      /\ proc'.pc = "pop" /\ Clean' = Clean
  BY DEF WriteResponse, Nothing, Clean
<1>2. PICK i \in 1 .. MaxCalls : i = proc.msg[2]
  BY <1>1 DEF Types
<1>3. /\ proc.cell \in Slots
      /\ \A r \in Slots : handler'[r].type = handler[r].type
                          /\ (r # proc.cell => handler'[r] = handler[r])
      /\ Mapped(hdl_hashmap, proc.cell) => handler'[proc.cell].answer = i
  <2>1. proc.cell \in Slots
    BY <1>1 DEF Types
  <2>2. handler' = [handler EXCEPT ![proc.cell].answer =
                      IF Mapped(hdl_hashmap, proc.cell) THEN i ELSE @]
    BY <1>2 DEF WriteResponse
  <2> QED BY <2>1, <2>2 DEF Types, HandlerType
<1>4. \A u \in Callers :
        /\ caller'[u].id = caller[u].id /\ caller'[u].cell = caller[u].cell
        /\ caller'[u].type = caller[u].type /\ caller'[u].answer = caller[u].answer
        /\ \/ caller'[u] = caller[u]
           \/ caller[u].pc = "waiting" /\ caller[u].cell = proc.cell /\ caller'[u].pc = "woken"
  BY <1>1 DEF Notified, Types, CallerType
<1>5. ASSUME NEW u \in Callers, caller[u].id \in Clean, Active(u), caller[u].cell = proc.cell
      PROVE  Serves(u) /\ caller[u].id = i /\ Writes /\ Mapped(hdl_hashmap, proc.cell)
  <2>1. Writes
    BY <1>1, <1>5, OthersCell
  <2>2. PICK t \in Callers : Serves(t)
    BY <2>1 DEF Results
  <2>3. u = t
    BY <1>5, <2>2, ServedIs
  <2> QED BY <1>2, <2>1, <2>2, <2>3, ServedIs
<1>6. ASSUME NEW id \in Clean PROVE OnePlace(id)'
  <2>1. LessPlaces(id)
    <3>1. \A k \in Nat : k + 0 = k
      OBVIOUS
    <3> QED BY <1>1, <3>1 DEF LessPlaces, Asked, OnWire, Queued, Handled
  <2>2. CASE id # i
    <3>1. \A u \in Callers : Expects(u, id) => Expects(u, id)'
      BY <1>4, <1>5, <2>2 DEF Expects, Active
    <3> QED BY <2>1, <3>1, PlacesStay
  <2>3. CASE id = i
    <3>1. Handled(id)
      BY <1>1, <1>2, <2>3 DEF Handled
    <3>2. ~SomeAsked(id) /\ ~SomeOnWire(id) /\ ~SomeQueued(id)
      BY <3>1 DEF OnePlace
    <3>3. ~SomeAsked(id)' /\ ~SomeOnWire(id)' /\ ~SomeQueued(id)' /\ ~Handled(id)'
      BY <1>1, <3>2 DEF SomeAsked, SomeOnWire, SomeQueued, Asked, OnWire, Queued, Handled
    <3> QED BY <3>3 DEF OnePlace, SomeAsked, SomeOnWire, SomeQueued
  <2> QED BY <2>2, <2>3
<1>7. ASSUME NEW u \in Callers, caller'[u].id \in Clean
      PROVE  /\ caller'[u].pc = "idle" => Answered(u)'
             /\ caller'[u].pc = "woken" => HasAnswer(u)'
  <2>1. CASE ~Active(u)
    BY <1>4, <1>7, <2>1 DEF Results, Answered, Active
  <2>2. CASE Active(u) /\ caller[u].cell # proc.cell
    <3>1. caller'[u] = caller[u] /\ caller[u].cell \in Slots
      BY <1>4, <2>2 DEF Calls
    <3> QED BY <1>3, <1>7, <2>2, <3>1 DEF Results, HasAnswer, Active
  <2>3. CASE Active(u) /\ caller[u].cell = proc.cell
    <3>1. Serves(u) /\ caller[u].id = i /\ Writes /\ Mapped(hdl_hashmap, proc.cell)
      BY <1>4, <1>5, <1>7, <2>3
    <3>2. caller'[u].pc # "idle"
      BY <1>4, <2>3 DEF Active
    <3>3. handler'[proc.cell].type = "RESPONSE" /\ handler'[proc.cell].answer = i
      BY <1>1, <1>3, <3>1 DEF Results
    <3> QED BY <1>4, <2>3, <3>1, <3>2, <3>3 DEF HasAnswer
  <2> QED BY <2>1, <2>2, <2>3
<1>8. Results'
  BY <1>1, <1>7 DEF Results, Writes
<1> QED BY <1>6, <1>8

(* clnt_recv_thread: an answer goes from the wire to the queue.            *)
LEMMA ReceiveAnswers ==
  ASSUME Types, Sockets, (\A id \in Clean : OnePlace(id)), Results,
         NEW c \in Conns, Receive(c)
  PROVE  (\A id \in Clean : OnePlace(id)') /\ Results'
<1>1. PICK s \in Conns : s = link.sock
  BY SocketIs DEF Receive
<1>2. PICK w \in Seq(Messages) : w = net[s].to_agent
  BY DEF Types, NetType
<1>3. w # <<>> /\ net' = [net EXCEPT ![s].to_agent = Tail(w)]
  BY <1>1, <1>2 DEF Receive, Types, NetType
<1>4. /\ net'[s].to_agent = Tail(w) /\ \A d \in Conns : d # s => net'[d].to_agent = net[d].to_agent
      /\ \A d \in Conns : net'[d].serving = net[d].serving
  BY <1>3, WireIs
<1>5. /\ Head(w) = w[1] /\ 1 \in DOMAIN w
      /\ \A k \in DOMAIN Tail(w) : k + 1 \in DOMAIN w /\ Tail(w)[k] = w[k + 1] /\ k \in Nat /\ k # 0
  BY <1>3, TailIs
<1>6. proc' = proc /\ caller' = caller /\ handler' = handler /\ early' = early
  BY DEF Receive, cells
<1>7. queue' = queue \/ queue' = Append(queue, [conn |-> s, msg |-> Head(w)])
  BY <1>1, <1>2 DEF Receive, Pushed
<1>8. PICK q \in QueueType : q = [conn |-> s, msg |-> Head(w)] /\ q.msg = w[1]
  <2>1. Head(w) \in Messages
    BY <1>3
  <2>2. [conn |-> s, msg |-> Head(w)] \in QueueType
    BY <2>1 DEF QueueType
  <2>3. [conn |-> s, msg |-> Head(w)].msg = w[1]
    BY <1>5
  <2> QED BY <2>2, <2>3, Zenon
<1>9. PICK l \in Nat : l = Len(queue)
  BY DEF Types
<1>10. ASSUME queue' # queue
       PROVE  /\ queue'[l + 1] = q
              /\ \A k \in DOMAIN queue' : (k \in DOMAIN queue /\ queue'[k] = queue[k]) \/ k = l + 1
  BY <1>7, <1>8, <1>9, <1>10, AppendIs DEF Types
<1>11. ASSUME NEW id \in Clean PROVE OnePlace(id)'
  <2>1. /\ \A d \in Conns : Asked(id, d)' => Asked(id, d)
        /\ \A d \in Conns, k \in Nat : d # s /\ OnWire(id, d, k)' => OnWire(id, d, k)
        /\ \A k \in Nat : OnWire(id, s, k)' => OnWire(id, s, k + 1) /\ k + 1 # 1
        /\ Handled(id)' => Handled(id)
    BY <1>2, <1>4, <1>5, <1>6, SMTT(30) DEF Asked, OnWire, Handled
  <2>2. \A u \in Callers : Expects(u, id) => Expects(u, id)'
    BY <1>6 DEF Expects
  <2>3. \A k \in Nat : Queued(id, k)' =>
          Queued(id, k) \/ (queue' # queue /\ k = l + 1 /\ w[1] = <<"answer", id>>)
    <3>1. CASE queue' = queue
      BY <3>1 DEF Queued
    <3>2. CASE queue' # queue
      BY <1>8, <1>10, <3>2 DEF Queued
    <3> QED BY <3>1, <3>2
  <2>4. CASE w[1] # <<"answer", id>>
    <3>1. \A k \in Nat : Queued(id, k)' => Queued(id, k)
      BY <2>3, <2>4
    <3>2. LessPlaces(id)
      <4>1. (\A k \in Nat : k + 0 = k) /\ 0 \in Nat /\ 1 \in Nat
        OBVIOUS
      <4>2. ASSUME NEW d \in Conns
            PROVE  \E off \in Nat : \A k \in Nat : OnWire(id, d, k)' => OnWire(id, d, k + off)
        <5>1. CASE d = s
          BY <2>1, <4>1, <5>1
        <5>2. CASE d # s
          BY <2>1, <4>1, <5>2
        <5> QED BY <5>1, <5>2
      <4> QED BY <2>1, <3>1, <4>1, <4>2 DEF LessPlaces
    <3> QED BY <2>2, <3>2, PlacesStay
  <2>5. CASE w[1] = <<"answer", id>>
    <3>1. OnWire(id, s, 1) /\ 1 \in Nat
      BY <1>2, <1>5, <2>5 DEF OnWire
    <3>2. SomeOnWire(id)
      BY <3>1 DEF SomeOnWire
    <3>3. /\ ~SomeAsked(id) /\ ~SomeQueued(id) /\ ~Handled(id) /\ Expected(id)
          /\ \A d \in Conns, k \in Nat : OnWire(id, d, k) => d = s /\ k = 1
      BY <3>1, <3>2 DEF OnePlace, Expected
    <3>4. ~SomeAsked(id)' /\ ~Handled(id)' /\ Expected(id)'
      BY <2>1, <2>2, <3>3 DEF SomeAsked, Expected
    <3>5. ~SomeOnWire(id)'
      <4>1. \A k \in Nat : k + 1 \in Nat
        OBVIOUS
      <4> QED BY <2>1, <3>3, <4>1 DEF SomeOnWire
    <3>6. \A j, k \in Nat : Queued(id, j)' /\ Queued(id, k)' => j = k
      BY <2>3, <3>3 DEF SomeQueued
    <3> QED BY <3>4, <3>5, <3>6, PlacedOnce
  <2> QED BY <2>4, <2>5
<1>12. Results'
  BY <1>6, ResultsStay
<1> QED BY <1>11, <1>12

(* The server: a call that it was asked is answered.                       *)
LEMMA ServerPlaces ==
  ASSUME Types, (\A id \in Clean : OnePlace(id)), Results,
         NEW c \in Conns, ServerAnswers(c)
  PROVE  (\A id \in Clean : OnePlace(id)') /\ Results'
<1>1. PICK i \in net[c].serving : net' = [net EXCEPT ![c].serving = @ \ {i},
                                                     ![c].to_agent = Append(@, <<"answer", i>>)]
  BY DEF ServerAnswers
<1>2. net \in [Conns -> NetType] /\ net[c] \in NetType /\ i \in 1 .. MaxCalls
  BY DEF Types, NetType
<1>3. PICK w \in Seq(Messages), x \in Messages : w = net[c].to_agent /\ x = <<"answer", i>>
  <2>1. <<"answer", i>> \in Messages /\ net[c].to_agent \in Seq(Messages)
    BY <1>2 DEF Messages, NetType
  <2> QED BY <2>1, Zenon
<1>4. /\ net'[c].to_agent = Append(w, x) /\ net'[c].serving = net[c].serving \ {i}
      /\ \A d \in Conns : d # c => net'[d] = net[d]
  <2>1. net' = [net EXCEPT ![c] = [net[c] EXCEPT !.serving = @ \ {i}, !.to_agent = Append(w, x)]]
    BY <1>1, <1>2, <1>3
  <2> QED BY <1>2, <2>1 DEF NetType
<1>5. PICK l \in Nat : l = Len(w)
  OBVIOUS
<1>6. /\ \A k \in DOMAIN w : net'[c].to_agent[k] = w[k]
      /\ \A k \in DOMAIN net'[c].to_agent : k \in DOMAIN w \/ k = l + 1
      /\ net'[c].to_agent[l + 1] = x
  BY <1>3, <1>4, <1>5, AppendIs
<1>7. queue' = queue /\ proc' = proc /\ caller' = caller /\ handler' = handler /\ early' = early
  BY DEF ServerAnswers, cells
<1>8. ASSUME NEW id \in Clean PROVE OnePlace(id)'
  <2>1. /\ \A d \in Conns : Asked(id, d)' => Asked(id, d) /\ ~(d = c /\ id = i)
        /\ \A k \in Nat : Queued(id, k)' => Queued(id, k)
        /\ Handled(id)' => Handled(id)
        /\ \A u \in Callers : Expects(u, id) => Expects(u, id)'
    BY <1>4, <1>7 DEF Asked, Queued, Handled, Expects
  <2>2. ASSUME NEW d \in Conns, NEW k \in Nat, OnWire(id, d, k)'
        PROVE  OnWire(id, d, k) \/ (d = c /\ k = l + 1 /\ id = i)
    <3>1. CASE d # c
      BY <1>4, <2>2, <3>1 DEF OnWire
    <3>2. CASE d = c /\ k \in DOMAIN w
      BY <1>3, <1>6, <2>2, <3>2 DEF OnWire
    <3>3. CASE d = c /\ k = l + 1
      <4>1. <<"answer", i>> = <<"answer", id>>
        BY <1>3, <1>6, <2>2, <3>3 DEF OnWire
      <4>2. id = i
        BY <4>1
      <4> QED BY <3>3, <4>2
    <3> QED BY <1>6, <2>2, <3>1, <3>2, <3>3 DEF OnWire
  <2>3. CASE id # i
    <3>1. LessPlaces(id)
      <4>1. (\A k \in Nat : k + 0 = k) /\ 0 \in Nat
        OBVIOUS
      <4> QED BY <2>1, <2>2, <2>3, <4>1 DEF LessPlaces
    <3> QED BY <2>1, <3>1, PlacesStay
  <2>4. CASE id = i
    <3>1. Asked(id, c)
      BY <2>4 DEF Asked
    <3>2. /\ SomeAsked(id) /\ Expected(id)
          /\ ~SomeOnWire(id) /\ ~SomeQueued(id) /\ ~Handled(id)
          /\ \A d \in Conns : Asked(id, d) => d = c
      BY <3>1 DEF OnePlace, SomeAsked, Expected
    <3>3. ~SomeAsked(id)' /\ ~SomeQueued(id)' /\ ~Handled(id)' /\ Expected(id)'
      BY <2>1, <2>4, <3>2 DEF SomeAsked, SomeQueued, Expected
    <3>4. \A d, e \in Conns : \A j, k \in Nat :
            OnWire(id, d, j)' /\ OnWire(id, e, k)' => d = e /\ j = k
      BY <2>2, <3>2 DEF SomeOnWire
    <3> QED BY <3>3, <3>4, PlacedOnce
  <2> QED BY <2>3, <2>4
<1>9. Results'
  BY <1>7, ResultsStay
<1> QED BY <1>8, <1>9

(* The other steps move no answer and touch no cell.                       *)
NoneAnswered ==
  /\ \A c \in Conns : net'[c].serving \subseteq net[c].serving
  /\ \A c \in Conns : \A k \in DOMAIN net'[c].to_agent :
       \/ net'[c].to_agent[k][1] # "answer"
       \/ k \in DOMAIN net[c].to_agent /\ net[c].to_agent[k] = net'[c].to_agent[k]
  /\ queue' = queue /\ caller' = caller /\ handler' = handler /\ early' = early
  /\ proc' = proc \/ proc'.pc \in {"pop", "replying"}
(* They keep the answers with their calls.                                 *)
LEMMA OtherAnswers ==
  ASSUME (\A id \in Clean : OnePlace(id)), Results, NoneAnswered
  PROVE  (\A id \in Clean : OnePlace(id)') /\ Results'
<1>1. /\ queue' = queue /\ caller' = caller /\ handler' = handler /\ early' = early
      /\ proc' = proc \/ proc'.pc \in {"pop", "replying"}
  BY DEF NoneAnswered
<1>2. ASSUME NEW id \in Clean PROVE OnePlace(id)'
  <2>1. \A c \in Conns, k \in Nat : OnWire(id, c, k)' => OnWire(id, c, k)
    <3>1. <<"answer", id>>[1] = "answer"
      OBVIOUS
    <3> QED BY <3>1 DEF NoneAnswered, OnWire
  <2>2. /\ \A c \in Conns : Asked(id, c)' => Asked(id, c)
        /\ \A k \in Nat : Queued(id, k)' => Queued(id, k)
        /\ Handled(id)' => Handled(id)
        /\ \A u \in Callers : Expects(u, id) => Expects(u, id)'
    BY <1>1 DEF NoneAnswered, Asked, Queued, Handled, Expects
  <2>3. LessPlaces(id)
    <3>1. (\A k \in Nat : k + 0 = k) /\ 0 \in Nat
      OBVIOUS
    <3> QED BY <2>1, <2>2, <3>1 DEF LessPlaces
  <2> QED BY <2>2, <2>3, PlacesStay
<1>3. Results'
  BY <1>1, ResultsStay
<1> QED BY <1>2, <1>3

(* Only a wait that ends early makes fewer calls count.                    *)
LEMMA EarlyIs ==
  ASSUME [Next]_vars, ~\E t \in Callers : Spurious(t)
  PROVE  Clean' = Clean
<1>1. early' = early
  <2>1. ASSUME NEW t \in Callers, Caller(t) PROVE early' = early
    BY <2>1 DEF Caller, Create, clnt_send, Send, Wait, Return
  <2>2. CASE Connector
    BY <2>2 DEF Connector, Connect, StartReceiver, TestConnected, SleepConnector
  <2>3. ASSUME NEW c \in Conns, Receiver(c) PROVE early' = early
    BY <2>3 DEF Receiver, Receive, LeaveLoop, Disconnect, WalkHandlers, CloseSocket, NotifyConnector
  <2>4. CASE Proc
    BY <2>4 DEF Proc, ReadHead, FindHandler, WriteType, WriteResponse, RunCommand, TestReply, Reply
  <2>5. ASSUME NEW c \in Conns, ServerAnswers(c) \/ ServerCommands(c) \/ ServerCloses(c)
        PROVE  early' = early
    BY <2>5 DEF ServerAnswers, ServerCommands, ServerCloses
  <2>6. CASE UNCHANGED vars
    BY <2>6 DEF vars
  <2> QED BY <2>1, <2>2, <2>3, <2>4, <2>5, <2>6 DEF Next
<1> QED BY <1>1 DEF Clean

(* Every step keeps the answers with their calls.                          *)
LEMMA AnswersStep ==
  ASSUME Types, Sockets, Calls, Mapping, Stale, Answers, [Next]_vars
  PROVE  Answers'
<1> SUFFICES ASSUME calm'
             PROVE  (\A id \in Clean' : OnePlace(id)') /\ Results'
  BY DEF Answers
<1>1. /\ calm /\ (\A id \in Clean : OnePlace(id)) /\ Results
      /\ ~\E c \in Conns : LeaveLoop(c) \/ Disconnect(c) \/ WalkHandlers(c) \/ CloseSocket(c)
                           \/ NotifyConnector(c)
  BY CalmIs DEF Answers
<1>2. net \in [Conns -> NetType]
  BY DEF Types
<1>3. ASSUME NEW t \in Callers, Caller(t), ~Spurious(t)
      PROVE  (\A id \in Clean : OnePlace(id)') /\ Results'
  BY <1>1, <1>3, CreateAnswers, SendAnswers, WaitAnswers, ReturnAnswers DEF Caller
<1>4. ASSUME Connector
      PROVE  (\A id \in Clean : OnePlace(id)') /\ Results'
  <2>1. CASE Connect
    <3>1. \A c \in Conns : net'[c].serving = net[c].serving /\ net'[c].to_agent = net[c].to_agent
      BY <1>2, <2>1 DEF Connect, NetType
    <3>2. NoneAnswered
      BY <2>1, <3>1 DEF Connect, NoneAnswered, cells
    <3> QED BY <1>1, <3>2, OtherAnswers
  <2>2. CASE StartReceiver \/ TestConnected \/ SleepConnector
    <3>1. NoneAnswered
      BY <2>2 DEF StartReceiver, TestConnected, SleepConnector, NoneAnswered, cells
    <3> QED BY <1>1, <3>1, OtherAnswers
  <2> QED BY <1>4, <2>1, <2>2 DEF Connector
<1>5. ASSUME NEW c \in Conns, Receiver(c)
      PROVE  (\A id \in Clean : OnePlace(id)') /\ Results'
  BY <1>1, <1>5, ReceiveAnswers DEF Receiver
<1>6. ASSUME Proc
      PROVE  (\A id \in Clean : OnePlace(id)') /\ Results'
  <2>1. CASE Reply
    <3>1. PICK n : n = [net[link.sock] EXCEPT !.replies = Append(@, proc.msg)] /\ Sends(n)
      BY <2>1, SendIs DEF Reply
    <3>2. \A c \in Conns : net'[c].serving = net[c].serving /\ net'[c].to_agent = net[c].to_agent
      <4>1. CASE net' = net
        BY <4>1
      <4>2. CASE link.sock \in Conns /\ net' = [net EXCEPT ![link.sock] = n]
        <5>1. PICK s \in Conns : s = link.sock
          BY <4>2
        <5>2. net' = [net EXCEPT ![s] = [net[s] EXCEPT !.replies = Append(@, proc.msg)]]
          BY <3>1, <4>2, <5>1
        <5> QED BY <1>2, <5>2 DEF NetType
      <4> QED BY <3>1, <4>1, <4>2 DEF Sends
    <3>3. NoneAnswered
      BY <2>1, <3>2 DEF Reply, Nothing, NoneAnswered, cells
    <3> QED BY <1>1, <3>3, OtherAnswers
  <2>2. CASE TestReply
    <3>1. proc' \in {proc, Nothing} \/ proc'.pc = "replying"
      BY <2>2 DEF TestReply, Types, ProcType
    <3>2. NoneAnswered
      BY <2>2, <3>1 DEF TestReply, Nothing, NoneAnswered, cells
    <3> QED BY <1>1, <3>2, OtherAnswers
  <2> QED BY <1>1, <1>6, <2>1, <2>2, ReadAnswers, FindAnswers, TypeAnswers, WriteAnswers DEF Proc
<1>7. ASSUME NEW c \in Conns, ServerAnswers(c) \/ ServerCommands(c) \/ ServerCloses(c)
      PROVE  (\A id \in Clean : OnePlace(id)') /\ Results'
  <2>1. CASE ServerCommands(c)
    <3> DEFINE i == net[c].commands + 1
    <3>1. PICK w \in Seq(Messages) : w = net[c].to_agent
      BY <1>2 DEF NetType
    <3>2. /\ net'[c].to_agent = Append(w, <<"command", i>>)
          /\ \A d \in Conns : d # c => net'[d] = net[d]
          /\ \A d \in Conns : net'[d].serving = net[d].serving
      <4>1. net' = [net EXCEPT ![c] = [net[c] EXCEPT !.commands = i,
                                                     !.to_agent = Append(w, <<"command", i>>)]]
        BY <1>2, <2>1, <3>1 DEF ServerCommands, NetType
      <4> QED BY <1>2, <4>1 DEF NetType
    <3>3. \A k \in DOMAIN net'[c].to_agent :
            \/ net'[c].to_agent[k] = <<"command", i>>
            \/ k \in DOMAIN w /\ w[k] = net'[c].to_agent[k]
      <4>1. PICK l \in Nat : l = Len(w) /\ DOMAIN w = 1 .. l
        OBVIOUS
      <4>2. DOMAIN Append(w, <<"command", i>>) = 1 .. l + 1
            /\ Append(w, <<"command", i>>)[l + 1] = <<"command", i>>
            /\ \A k \in 1 .. l : Append(w, <<"command", i>>)[k] = w[k]
        BY <4>1
      <4> QED BY <3>2, <4>1, <4>2
    <3>4. ASSUME NEW d \in Conns, NEW k \in DOMAIN net'[d].to_agent
          PROVE  \/ net'[d].to_agent[k][1] # "answer"
                 \/ k \in DOMAIN net[d].to_agent /\ net[d].to_agent[k] = net'[d].to_agent[k]
      <4>1. CASE d = c
        <5>1. <<"command", i>>[1] # "answer"
          OBVIOUS
        <5>2. CASE net'[d].to_agent[k] = <<"command", i>>
          BY <5>1, <5>2
        <5>3. CASE k \in DOMAIN w /\ w[k] = net'[d].to_agent[k]
          BY <3>1, <4>1, <5>3
        <5> QED BY <3>3, <3>4, <4>1, <5>2, <5>3
      <4>2. CASE d # c
        BY <3>2, <3>4, <4>2
      <4> QED BY <4>1, <4>2
    <3>5. NoneAnswered
      <4>1. queue' = queue /\ caller' = caller /\ handler' = handler /\ proc' = proc /\ early' = early
        BY <2>1 DEF ServerCommands, cells
      <4>2. \A d \in Conns : net'[d].serving \subseteq net[d].serving
        BY <3>2
      <4> QED BY <3>4, <4>1, <4>2 DEF NoneAnswered
    <3> QED BY <1>1, <3>5, OtherAnswers
  <2>2. CASE ServerCloses(c)
    <3>1. /\ \A d \in Conns : net'[d].to_agent = net[d].to_agent
          /\ \A d \in Conns : net'[d].serving \subseteq net[d].serving
      BY <1>2, <2>2 DEF ServerCloses, NetType
    <3>2. NoneAnswered
      BY <2>2, <3>1 DEF ServerCloses, NoneAnswered, cells
    <3> QED BY <1>1, <3>2, OtherAnswers
  <2> QED BY <1>1, <1>7, <2>1, <2>2, ServerPlaces
<1>8. ASSUME UNCHANGED vars
      PROVE  (\A id \in Clean : OnePlace(id)') /\ Results'
  <2>1. NoneAnswered
    BY <1>8 DEF vars, cells, NoneAnswered
  <2> QED BY <1>1, <2>1, OtherAnswers
<1>9. CASE \E t \in Callers : Spurious(t)
  BY <1>1, <1>9, SpuriousAnswers
<1>10. CASE ~\E t \in Callers : Spurious(t)
  <2>1. Clean' = Clean
    BY <1>10, EarlyIs
  <2> QED BY <1>3, <1>4, <1>5, <1>6, <1>7, <1>8, <1>10, <2>1 DEF Next
<1> QED BY <1>9, <1>10

(* An answer stays in the cell of its call or of a later one.              *)
LEMMA StaleStep ==
  ASSUME Types, Sockets, Calls, Mapping, Stale, [Next]_vars
  PROVE  Stale'
<1>1. /\ handler \in [Slots -> HandlerType] /\ caller \in [Callers -> CallerType]
      /\ proc \in ProcType /\ MaxCalls \in Nat
      /\ \A r \in Slots : handler[r].id \in Nat /\ handler[r].answer \in Nat
      /\ \A u \in Callers : caller[u].id \in Nat /\ caller[u].answer \in Nat
  BY ClientAssumption DEF Types, HandlerType, CallerType
<1>2. ASSUME \A r \in Slots : handler'[r].id = handler[r].id /\ handler'[r].answer = handler[r].answer,
             \A u \in Callers : caller'[u].id = caller[u].id /\ caller'[u].answer = caller[u].answer,
             proc'.pc \in {"found", "typed"} =>
               proc.pc \in {"found", "typed"} /\ proc'.msg = proc.msg /\ proc'.cell = proc.cell
      PROVE  Stale'
  <2>1. proc.pc \in {"found", "typed"} => proc.cell \in Slots
    BY DEF Types
  <2> QED BY <1>2, <2>1 DEF Stale
<1>3. ASSUME NEW t \in Callers, Caller(t) PROVE Stale'
  <2>1. CASE Create(t)
    <3>1. PICK s \in Slots \ Used :
            /\ handler' = [handler EXCEPT ![s] = NewCell(MsgId)]
            /\ caller' = [caller EXCEPT ![t].pc = "created", ![t].cell = s, ![t].id = MsgId]
      BY <2>1, FreeCell DEF Create, Active
    <3>2. /\ MsgId \in Nat /\ proc' = proc
          /\ \A r \in Slots : handler[r].id < MsgId
          /\ \A u \in Callers : caller[u].id < MsgId
      <4>1. link.next \in Nat
        BY <1>1 DEF Types, LinkType
      <4> QED BY <2>1, <4>1 DEF Create, Calls, MsgId
    <3>3. \A r \in Slots : handler'[r].answer <= handler'[r].id /\ handler[r].id <= handler'[r].id
                           /\ handler'[r].id \in Nat
      BY <1>1, <3>1, <3>2 DEF Stale, NewCell, None, HandlerType
    <3>4. \A u \in Callers : caller'[u].answer <= caller'[u].id
      BY <1>1, <3>1, <3>2 DEF Stale, CallerType
    <3>5. proc'.pc \in {"found", "typed"} => proc'.msg[2] <= handler'[proc'.cell].id
      <4> SUFFICES ASSUME proc.pc \in {"found", "typed"}
                   PROVE  proc.msg[2] <= handler'[proc.cell].id
        BY <3>2
      <4>1. proc.cell \in Slots /\ proc.msg[2] \in Nat /\ proc.msg[2] <= handler[proc.cell].id
        BY <1>1 DEF Types, Stale
      <4> QED BY <1>1, <3>3, <4>1
    <3> QED BY <3>3, <3>4, <3>5 DEF Stale
  <2>2. CASE clnt_send(t) \/ Send(t) \/ Wait(t) \/ Spurious(t)
    <3>1. handler' = handler /\ proc' = proc
          /\ \A u \in Callers : caller'[u].id = caller[u].id /\ caller'[u].answer = caller[u].answer
      BY <1>1, <2>2 DEF clnt_send, Send, Wait, Spurious, cells, CallerType
    <3> QED BY <1>2, <3>1
  <2>3. CASE Return(t)
    <3>1. PICK s \in Slots : s = caller[t].cell /\ handler[s].id = caller[t].id
      BY <2>3 DEF Calls, Active, Return
    <3>2. proc' = proc /\ \A r \in Slots : /\ handler'[r].id = handler[r].id
                                           /\ handler'[r].answer \in {handler[r].answer, 0}
      BY <1>1, <2>3, <3>1 DEF Return, NewCell, HandlerType, None
    <3>3. /\ \A u \in Callers : caller'[u].id = caller[u].id
          /\ \A u \in Callers : u # t => caller'[u].answer = caller[u].answer
          /\ caller'[t].answer = handler[s].answer
      BY <1>1, <2>3, <3>1 DEF Return, CallerType
    <3>4. \A r \in Slots : handler'[r].answer <= handler'[r].id
      BY <1>1, <3>2 DEF Stale
    <3>5. \A u \in Callers : caller'[u].answer <= caller'[u].id
      BY <1>1, <3>1, <3>3 DEF Stale
    <3>6. proc'.pc \in {"found", "typed"} => proc'.msg[2] <= handler'[proc'.cell].id
      BY <3>2 DEF Types, Stale
    <3> QED BY <3>4, <3>5, <3>6 DEF Stale
  <2> QED BY <1>3, <2>1, <2>2, <2>3 DEF Caller
<1>4. CASE Connector
  BY <1>2, <1>4 DEF Connector, Connect, StartReceiver, TestConnected, SleepConnector, cells
<1>5. ASSUME NEW c \in Conns, Receiver(c) PROVE Stale'
  <2>1. CASE WalkHandlers(c)
    <3>1. proc' = proc
          /\ (\A r \in Slots : handler'[r].id = handler[r].id /\ handler'[r].answer = handler[r].answer)
      BY <1>1, <2>1 DEF WalkHandlers, HandlerType
    <3>2. \A u \in Callers : caller'[u].id = caller[u].id /\ caller'[u].answer = caller[u].answer
      BY <1>1, <2>1 DEF WalkHandlers, CallerType
    <3> QED BY <1>2, <3>1, <3>2
  <2>2. CASE ~WalkHandlers(c)
    BY <1>2, <1>5, <2>2 DEF Receiver, Receive, LeaveLoop, Disconnect, CloseSocket, NotifyConnector, cells
  <2> QED BY <2>1, <2>2
<1>6. CASE Proc
  <2>1. CASE ReadHead \/ RunCommand
    BY <1>2, <2>1 DEF ReadHead, RunCommand, cells
  <2>2. CASE TestReply \/ Reply
    <3>1. handler' = handler /\ caller' = caller /\ proc'.pc \notin {"found", "typed"}
      BY <1>1, <2>2 DEF TestReply, Reply, Nothing, ProcType, cells
    <3> QED BY <1>2, <3>1
  <2>3. CASE FindHandler
    <3>1. PICK i \in 1 .. MaxCalls : i = proc.msg[2]
      BY <2>3 DEF Types, FindHandler
    <3>2. PICK s : s = Found(proc.cell, i)
      OBVIOUS
    <3>3. s = Null \/ (s \in Slots /\ handler[s].id = i)
      <4>1. proc.cell \in Links /\ hdl_hashmap \in MapType
        BY <1>1 DEF ProcType, Slots, Links, Null, None, Mapping, Chained
      <4>2. s = Null \/ (s \in Slots /\ Ids[s] = i)
        BY <3>2, <4>1, FindIs DEF Found, Slots
      <4> QED BY <4>2 DEF Ids
    <3>4. /\ handler' = handler /\ caller' = caller
          /\ s = Null => proc'.pc = "pop"
          /\ s # Null => proc'.msg = proc.msg /\ proc'.cell = s
      BY <1>1, <2>3, <3>1, <3>2 DEF FindHandler, Nothing, ProcType, cells
    <3>5. proc'.pc \in {"found", "typed"} => proc'.msg[2] <= handler'[proc'.cell].id
      BY <3>1, <3>3, <3>4
    <3> QED BY <3>4, <3>5 DEF Stale
  <2>4. CASE WriteType
    <3>1. \A r \in Slots : handler'[r].id = handler[r].id /\ handler'[r].answer = handler[r].answer
      BY <1>1, <2>4 DEF WriteType, HandlerType
    <3>2. caller' = caller /\ proc.pc = "found" /\ proc'.msg = proc.msg /\ proc'.cell = proc.cell
      BY <1>1, <2>4 DEF WriteType, ProcType
    <3> QED BY <1>2, <3>1, <3>2
  <2>5. CASE WriteResponse
    <3>1. proc.cell \in Slots /\ proc.msg[2] <= handler[proc.cell].id /\ proc'.pc = "pop"
      BY <2>5 DEF WriteResponse, Types, Stale, Nothing
    <3>2. \A r \in Slots : /\ handler'[r].id = handler[r].id
                           /\ \/ handler'[r].answer = handler[r].answer
                              \/ r = proc.cell /\ handler'[r].answer = proc.msg[2]
      BY <1>1, <2>5, <3>1 DEF WriteResponse, HandlerType
    <3>3. \A u \in Callers : caller'[u].id = caller[u].id /\ caller'[u].answer = caller[u].answer
      BY <1>1, <2>5 DEF WriteResponse, Notified, CallerType
    <3> QED BY <3>1, <3>2, <3>3 DEF Stale
  <2> QED BY <1>6, <2>1, <2>2, <2>3, <2>4, <2>5 DEF Proc
<1>7. ASSUME NEW c \in Conns, ServerAnswers(c) \/ ServerCommands(c) \/ ServerCloses(c) PROVE Stale'
  BY <1>2, <1>7 DEF ServerAnswers, ServerCommands, ServerCloses, cells
<1>8. CASE UNCHANGED vars
  BY <1>2, <1>8 DEF vars, cells
<1> QED BY <1>3, <1>4, <1>5, <1>6, <1>7, <1>8 DEF Next

(* Nothing has happened yet when the client is started.                    *)
LEMMA InitInv == Init => Inv
<1> SUFFICES ASSUME Init PROVE Inv
  OBVIOUS
<1>1. Types /\ InOrder
  BY InitTypes, InitOrder
<1>2. MaxConns \in Nat /\ Cardinality(Gone) \in Nat
  BY ClientAssumption, GoneIs
<1>3. Sockets
  BY <1>2 DEF Init, Sockets, None, Gone, Conns
<1>4. /\ \A t \in Callers : caller[t].pc = "idle" /\ caller[t].id = None
      /\ \A s \in Slots : handler[s].id = None
      /\ link.next = 1
  BY DEF Init, NewCell
<1>5. Calls
  BY <1>4 DEF Calls, Active, None
<1>6. Mapping
  <2>1. Used = {}
    BY <1>4 DEF Used
  <2>2. Members = [b \in Buckets |-> {}]
    BY <2>1 DEF Members
  <2> QED BY <2>2, MapBegins DEF Mapping, Init
<1>7. Answers
  <2>1. \A c \in Conns : net[c].serving = {} /\ net[c].to_agent = <<>>
    BY DEF Init
  <2>2. queue = <<>> /\ proc.pc = "pop" /\ DOMAIN <<>> = {}
    BY DEF Init, Nothing
  <2>3. ASSUME NEW id \in 1 .. MaxCalls PROVE OnePlace(id)
    BY <2>1, <2>2 DEF OnePlace, SomeAsked, SomeOnWire, SomeQueued, Asked, OnWire, Queued, Handled
  <2>4. Results
    BY <1>4, <2>2 DEF Results, Writes, Clean, None
  <2>5. Clean \subseteq 1 .. MaxCalls
    BY <1>1, CleanIs
  <2> QED BY <2>3, <2>4, <2>5 DEF Answers
<1>8. Stale
  BY <1>2 DEF Init, Stale, NewCell, Nothing, None
<1> QED BY <1>1, <1>3, <1>5, <1>6, <1>7, <1>8 DEF Inv

(* The invariant is inductive.                                             *)
LEMMA InvStep == Inv /\ [Next]_vars => Inv'
<1> SUFFICES ASSUME Inv, [Next]_vars PROVE Inv'
  OBVIOUS
<1>1. Types /\ Sockets /\ Calls /\ Mapping /\ InOrder /\ Stale /\ Answers
  BY DEF Inv
<1>2. Types'
  BY <1>1, TypesStep
<1>3. Sockets'
  BY <1>1, SocketsStep
<1>4. Calls' /\ Mapping'
  BY <1>1, CallsStep
<1>5. InOrder'
  BY <1>1, <1>2, OrderStep
<1>6. Answers'
  BY <1>1, AnswersStep
<1>7. Stale'
  BY <1>1, StaleStep
<1> QED BY <1>2, <1>3, <1>4, <1>5, <1>6, <1>7 DEF Inv

(* It holds in every state the client reaches.                             *)
THEOREM Invariance == Spec => []Inv
<1> QED BY InitInv, InvStep, PTL DEF Spec
-----------------------------------------------------------------------------
(* clnt_proc_thread, clnt_send: for any number of calls, connections and   *)
(* commands, the commands of a connection are replied to at most once and  *)
(* in the order they were sent, also when the reply goes out on a later    *)
(* connection.                                                             *)
THEOREM ClientRepliesInOrder == Spec => []RepliesInOrder
<1>1. Inv => RepliesInOrder
  BY DEF Inv, InOrder
<1> QED BY <1>1, Invariance, PTL

(* clnt_create_msg, clnt_delete_handler, hashmap.c: for any number of      *)
(* threads, cells and buckets the map holds exactly one handler for every  *)
(* call in progress, under its own id, through all disconnections.         *)
THEOREM ClientOneHandlerPerCall == Spec => []OneHandlerPerCall
<1>1. Inv => OneHandlerPerCall
  <2> SUFFICES ASSUME Inv PROVE OneHandlerPerCall
    OBVIOUS
  <2>1. Types /\ Sockets /\ Calls /\ Mapping
    BY DEF Inv
  <2>2. TypeOK
    BY <2>1 DEF Types, Sockets, TypeOK, LinkType, NetType, HandlerType, CallerType, ProcType,
                QueueType, RecvPlaces, ConnectorPlaces, ResponseTypes
  <2>3. ASSUME NEW t \in Callers, caller[t].pc # "idle"
        PROVE  /\ handler[caller[t].cell].id = caller[t].id
               /\ Holds(hdl_hashmap, Hash(caller[t].id), caller[t].cell)
    <3>1. caller[t].cell \in Used /\ caller[t].cell \in Slots
          /\ handler[caller[t].cell].id = caller[t].id /\ caller[t].id \in Nat
      BY <2>1, <2>3, UsedIs, ClientAssumption DEF Calls, Active, Types, CallerType
    <3>2. caller[t].cell \in Members[Hash(caller[t].id)] /\ Hash(caller[t].id) \in Buckets
      BY <2>1, <3>1, MembersIs, HashType
    <3> QED BY <2>1, <3>1, <3>2, HoldsIs DEF Mapping
  <2>4. \A t, u \in Callers : (t # u /\ caller[t].id # None) => caller[t].id # caller[u].id
    BY <2>1 DEF Calls
  <2>5. ASSUME NEW b \in DOMAIN hdl_hashmap.head,
               NEW j \in DOMAIN Bucket(hdl_hashmap, b), NEW k \in DOMAIN Bucket(hdl_hashmap, b)
        PROVE  /\ Bucket(hdl_hashmap, b)[j] \in Used
               /\ Bucket(hdl_hashmap, b)[j] = Bucket(hdl_hashmap, b)[k] => j = k
    <3>1. b \in Buckets
      BY <2>1 DEF Mapping, Chained, MapType
    <3>2. PICK c : c = Bucket(hdl_hashmap, b)
      OBVIOUS
    <3>3. /\ ChainFrom(hdl_hashmap, hdl_hashmap.head[b], c) /\ DOMAIN c = 1 .. Len(c)
          /\ \A o : (\E i \in 1 .. Len(c) : c[i] = o) <=> o \in Members[b]
      BY <2>1, <3>1, <3>2, BucketIs DEF Mapping
    <3>4. c[j] \in Members[b] /\ (c[j] = c[k] => j = k)
      BY <3>2, <3>3 DEF ChainFrom
    <3> QED BY <3>1, <3>2, <3>4 DEF Members
  <2> QED BY <2>2, <2>3, <2>4, <2>5 DEF OneHandlerPerCall
<1> QED BY <1>1, Invariance, PTL

(* clnt_invoke, clnt_process_response: for any number of threads and       *)
(* calls, a call never returns with the answer to a later one; until the   *)
(* first lost connection, every call made before one whose wait ended      *)
(* without a notification returns with the complete answer to itself, and  *)
(* each of their answers under way has a call that waits or is about to.   *)
THEOREM ClientAnswersMatchCalls == Spec => []AnswersMatchCalls
<1>1. Inv => AnswersMatchCalls
  <2> SUFFICES ASSUME Inv PROVE AnswersMatchCalls
    OBVIOUS
  <2>1. Types /\ Stale /\ Answers
    BY DEF Inv
  <2>2. \A t \in Callers : caller[t].answer <= caller[t].id
    BY <2>1 DEF Stale
  <2>3. \A i \in Nat : i # None /\ i < early => i \in Clean
    BY <2>1, ClientAssumption DEF Types, Clean, None
  <2>4. ASSUME calm, NEW t \in Callers, caller[t].pc = "idle", caller[t].id # None,
               caller[t].id < early
        PROVE  caller[t].type = "RESPONSE" /\ caller[t].answer = caller[t].id
    <3>1. caller[t].id \in Nat
      BY <2>1, ClientAssumption DEF Types, CallerType
    <3>2. caller[t].id \in Clean
      BY <2>3, <2>4, <3>1
    <3> QED BY <2>1, <2>4, <3>2 DEF Answers, Results, Answered
  <2>5. ASSUME calm, NEW id \in 1 .. MaxCalls, id < early,
               \/ \E c \in Conns : \E k \in DOMAIN net[c].to_agent :
                    net[c].to_agent[k] = <<"answer", id>>
               \/ \E k \in DOMAIN queue : queue[k].msg = <<"answer", id>>
        PROVE  \E t \in Callers : caller[t].id = id /\ caller[t].pc \in {"sent", "waiting"}
    <3>1. SomeOnWire(id) \/ SomeQueued(id)
      BY <2>1, <2>5, PlacesAre DEF SomeOnWire, SomeQueued, OnWire, Queued
    <3>2. OnePlace(id)
      BY <2>1, <2>3, <2>5 DEF Answers, None
    <3> QED BY <3>1, <3>2 DEF OnePlace, Expects
  <2> QED BY <2>2, <2>4, <2>5 DEF AnswersMatchCalls
<1> QED BY <1>1, Invariance, PTL
=============================================================================
