------------------------------ MODULE MultiMap ------------------------------
(***************************************************************************)
(* src/src/multi_map.rs.  Every entry is one heap box; `map1` and `map2`   *)
(* hold raw pointers to it, and the hash keys themselves are pointers into *)
(* the box, so a box must stay allocated exactly as long as either map     *)
(* reaches it.  The heap is explicit here: that is what the `unsafe` code  *)
(* could get wrong and what the borrow checker does not see.               *)
(***************************************************************************)
CONSTANTS K1, K2, V,
          Addr,      \* addresses the allocator can hand out
          Null,      \* a key that is absent from a map
          Free       \* an address that holds no box

ASSUME NullAssumption == Null \notin Addr

VARIABLES map1, map2, heap

vars == <<map1, map2, heap>>

Item == [k1 : K1, k2 : K2, v : V]

ASSUME FreeAssumption == Free \notin Item

TypeOK ==
  /\ map1 \in [K1 -> Addr \cup {Null}]
  /\ map2 \in [K2 -> Addr \cup {Null}]
  /\ heap \in [Addr -> Item \cup {Free}]

Init ==
  /\ map1 = [k \in K1 |-> Null]
  /\ map2 = [k \in K2 |-> Null]
  /\ heap = [a \in Addr |-> Free]

\* Mutant of Insert: the membership test looks at the first key only.
InsertChecksOneKey(k1, k2, v, a) ==
  /\ map1[k1] = Null
  /\ heap[a] = Free
  /\ heap' = [heap EXCEPT ![a] = [k1 |-> k1, k2 |-> k2, v |-> v]]
  /\ map1' = [map1 EXCEPT ![k1] = a]
  /\ map2' = [map2 EXCEPT ![k2] = a]

\* insert() refuses a key that either map contains; otherwise one box is
\* allocated and both maps point at it.
Insert(k1, k2, v, a) ==
  /\ map1[k1] = Null /\ map2[k2] = Null
  /\ heap[a] = Free
  /\ heap' = [heap EXCEPT ![a] = [k1 |-> k1, k2 |-> k2, v |-> v]]
  /\ map1' = [map1 EXCEPT ![k1] = a]
  /\ map2' = [map2 EXCEPT ![k2] = a]

Get1(k1) == IF map1[k1] = Null THEN Null ELSE heap[map1[k1]].v

Get2(k2) == IF map2[k2] = Null THEN Null ELSE heap[map2[k2]].v

\* Mutant of Remove1: the second index keeps its pointer to the dropped box.
Remove1KeepsMap2(k1) ==
  LET a == map1[k1] IN
  /\ a # Null
  /\ map1' = [map1 EXCEPT ![k1] = Null]
  /\ map2' = map2
  /\ heap' = [heap EXCEPT ![a] = Free]

\* remove1() unlinks the box from map1, takes it back with Box::from_raw,
\* unlinks its second key from map2 and drops the box.
Remove1(k1) ==
  LET a == map1[k1] IN
  /\ a # Null
  /\ map1' = [map1 EXCEPT ![k1] = Null]
  /\ map2' = [map2 EXCEPT ![heap[a].k2] = Null]
  /\ heap' = [heap EXCEPT ![a] = Free]

Remove2(k2) ==
  LET a == map2[k2] IN
  /\ a # Null
  /\ map2' = [map2 EXCEPT ![k2] = Null]
  /\ map1' = [map1 EXCEPT ![heap[a].k1] = Null]
  /\ heap' = [heap EXCEPT ![a] = Free]

\* Mutant of DropAll: both maps are cleared and no box is taken back.
DropAllForgetsBoxes ==
  /\ map1' = [k \in K1 |-> Null]
  /\ map2' = [k \in K2 |-> Null]
  /\ heap' = heap

\* Drop clears map1 without freeing anything and frees what map2 drains.
DropAll ==
  /\ map1' = [k \in K1 |-> Null]
  /\ map2' = [k \in K2 |-> Null]
  /\ heap' = [a \in Addr |-> IF \E k \in K2 : map2[k] = a THEN Free ELSE heap[a]]

Next ==
  \/ \E k1 \in K1, k2 \in K2, v \in V, a \in Addr : Insert(k1, k2, v, a)
  \/ \E k1 \in K1 : Remove1(k1)
  \/ \E k2 \in K2 : Remove2(k2)
  \/ DropAll

Spec == Init /\ [][Next]_vars

-----------------------------------------------------------------------------
\* No dangling pointer: a pointer either map holds leads to an allocated box
\* that carries the key it is filed under, and the other map holds the same
\* pointer under the box's other key.  get1/get2/remove1/remove2 dereference
\* these pointers without a check.
NoDangling ==
  /\ \A k \in K1 : map1[k] # Null =>
       /\ heap[map1[k]] # Free
       /\ heap[map1[k]].k1 = k
       /\ map2[heap[map1[k]].k2] = map1[k]
  /\ \A k \in K2 : map2[k] # Null =>
       /\ heap[map2[k]] # Free
       /\ heap[map2[k]].k2 = k
       /\ map1[heap[map2[k]].k1] = map2[k]

\* No leak: an allocated box is reachable from map1 (so some later remove or
\* drop frees it), in particular every box is freed once the map is dropped.
NoLeak == \A a \in Addr : heap[a] # Free => map1[heap[a].k1] = a

\* The inductive invariant of the proofs.
Inv == TypeOK /\ NoDangling /\ NoLeak

\* The entries a caller can reach: what TwoKeyDict calls its dictionary.
Reachable == {heap[map1[k]] : k \in {k \in K1 : map1[k] # Null}}

\* get1 and get2 agree: a value found by the service digest is the one found by
\* the session key of the same entry, and each lookup finds nothing else.  The
\* server looks a channel up by session key and removes it by digest.
LookupsAgree ==
  /\ \A e \in Reachable : Get1(e.k1) = e.v /\ Get2(e.k2) = e.v
  /\ \A k \in K1 : map1[k] # Null => \E e \in Reachable : e.k1 = k
  /\ \A k \in K2 : map2[k] # Null => \E e \in Reachable : e.k2 = k

Abstract == INSTANCE TwoKeyDict WITH entries <- Reachable

\* The pointer structure behaves as a dictionary with two keys per entry.
ImplementsDict == Abstract!Spec
=============================================================================
