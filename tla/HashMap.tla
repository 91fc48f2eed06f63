------------------------------ MODULE HashMap ------------------------------
(***************************************************************************)
(* The hash map (libtscommon/src/hashmap.c): an array of chains that are   *)
(* linked through a field of the objects themselves.  A map is             *)
(* [head, next]; next is a field of the object, so it outlives the         *)
(* object's stay in the map.  The functions are what is done under         *)
(* hm_mutex.                                                               *)
(***************************************************************************)
EXTENDS Integers, Sequences

CONSTANTS NObjects,    \* objects are 1 .. NObjects
          NBuckets     \* hm_size

ASSUME MapAssumption == NObjects \in Nat /\ NBuckets \in Nat \ {0}

Objects == 1 .. NObjects
Null == 0

hash_map_init == [head |-> [b \in 0 .. NBuckets - 1 |-> Null],
                  next |-> [o \in Objects |-> Null]]

Hash(key) == key % NBuckets

(* The objects from o on, in the order of a walk; a chain that ran into    *)
(* itself would repeat.                                                    *)
Walk(m, o) ==
  LET Nth[k \in Objects] ==
        IF k = 1 THEN o ELSE IF Nth[k - 1] = Null THEN Null ELSE m.next[Nth[k - 1]]
  IN Nth
From(m, o) ==
  LET walk == Walk(m, o)
  IN [k \in {j \in Objects : walk[j] # Null} |-> walk[k]]

Bucket(m, hash) == From(m, m.head[hash])
Holds(m, hash, o) == LET chain == Bucket(m, hash) IN \E k \in DOMAIN chain : chain[k] = o
Mapped(m, o) == \E b \in DOMAIN m.head : Holds(m, b, o)

(* A slip the runs must notice: an object taken out with all that follows. *)
SlipFollowing(m, o) == Null

Appended(m, chain, o) == [m EXCEPT !.next[chain[Len(chain)]] = o]
hash_map_insert(m, key, o) ==
  LET chain == Bucket(m, Hash(key[o]))
  IN IF chain = <<>> THEN [m EXCEPT !.head[Hash(key[o])] = o]
     ELSE IF \E k \in DOMAIN chain : key[chain[k]] = key[o] THEN m
     ELSE Appended(m, chain, o)

(* The code asserts that the bucket is not empty.                          *)
Following(m, o) == m.next[o]
hash_map_remove(m, key, o) ==
  LET chain == Bucket(m, Hash(key[o]))
  IN IF \A k \in DOMAIN chain : chain[k] # o THEN m
     ELSE LET k == CHOOSE j \in DOMAIN chain : chain[j] = o
          IN IF k = 1 THEN [m EXCEPT !.head[Hash(key[o])] = Following(m, o)]
             ELSE [m EXCEPT !.next[chain[k - 1]] = Following(m, o)]

(* hash_map_find, from the head that was read before the lock was taken.   *)
hash_map_find(m, key, start, wanted) ==
  LET chain == From(m, start)
      hits == {k \in DOMAIN chain : key[chain[k]] = wanted}
  IN IF hits = {} THEN Null ELSE chain[CHOOSE k \in hits : \A j \in hits : k <= j]
=============================================================================
