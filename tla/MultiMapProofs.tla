--------------------------- MODULE MultiMapProofs ---------------------------
(***************************************************************************)
(* Memory safety of the pointer-based MultiMap and its refinement of the   *)
(* two-key dictionary, for every set of keys, values and addresses.        *)
(***************************************************************************)
EXTENDS MultiMap, TLAPS

\* The empty map has no pointer and no box.
LEMMA InvInit == Init => Inv
  BY NullAssumption, FreeAssumption
  DEF Init, Inv, TypeOK, NoDangling, NoLeak, Item

\* insert() keeps both maps and the heap in step, because it refuses a key
\* that either map already holds.
LEMMA InsertInv ==
  ASSUME Inv, NEW k1 \in K1, NEW k2 \in K2, NEW v \in V, NEW a \in Addr,
         Insert(k1, k2, v, a)
  PROVE  Inv'
<1> DEFINE item == [k1 |-> k1, k2 |-> k2, v |-> v]
<1>0. item \in Item /\ item # Free
  BY FreeAssumption DEF Item
<1>1. TypeOK'
  BY <1>0 DEF Inv, TypeOK, Insert
<1>2. \A k \in K1 : map1[k] # a
  BY NullAssumption DEF Inv, TypeOK, NoDangling, Insert
<1>3. \A k \in K2 : map2[k] # a
  BY NullAssumption DEF Inv, TypeOK, NoDangling, Insert
<1>4. NoDangling'
  BY <1>0, <1>2, <1>3, NullAssumption
  DEF Inv, TypeOK, NoDangling, Insert, Item
<1>5. NoLeak'
  BY <1>0, <1>2, <1>3, NullAssumption
  DEF Inv, TypeOK, NoLeak, NoDangling, Insert, Item
<1>6. QED
  BY <1>1, <1>4, <1>5 DEF Inv

\* remove1() unlinks the box from both maps before it drops it.
LEMMA Remove1Inv ==
  ASSUME Inv, NEW k1 \in K1, Remove1(k1)
  PROVE  Inv'
<1> DEFINE a == map1[k1]
<1>1. a \in Addr /\ heap[a] \in Item /\ heap[a].k1 = k1 /\ map2[heap[a].k2] = a
  BY NullAssumption, FreeAssumption DEF Inv, TypeOK, NoDangling, Remove1
<1>2. TypeOK'
  BY <1>1 DEF Inv, TypeOK, Remove1, Item
<1>3. \A k \in K1 : map1[k] = a => k = k1
  BY <1>1, NullAssumption DEF Inv, TypeOK, NoDangling
<1>4. \A k \in K2 : map2[k] = a => k = heap[a].k2
  BY <1>1, NullAssumption DEF Inv, TypeOK, NoDangling
<1>5. NoDangling'
  BY <1>1, <1>3, <1>4, NullAssumption, FreeAssumption
  DEF Inv, TypeOK, NoDangling, Remove1, Item
<1>6. NoLeak'
  BY <1>1, <1>3, <1>4, NullAssumption, FreeAssumption
  DEF Inv, TypeOK, NoLeak, NoDangling, Remove1, Item
<1>7. QED
  BY <1>2, <1>5, <1>6 DEF Inv

\* remove2() is the mirror image of remove1().
LEMMA Remove2Inv ==
  ASSUME Inv, NEW k2 \in K2, Remove2(k2)
  PROVE  Inv'
<1> DEFINE a == map2[k2]
<1>1. a \in Addr /\ heap[a] \in Item /\ heap[a].k2 = k2 /\ map1[heap[a].k1] = a
  BY NullAssumption, FreeAssumption DEF Inv, TypeOK, NoDangling, Remove2
<1>2. TypeOK'
  BY <1>1 DEF Inv, TypeOK, Remove2, Item
<1>3. \A k \in K1 : map1[k] = a => k = heap[a].k1
  BY <1>1, NullAssumption DEF Inv, TypeOK, NoDangling
<1>4. \A k \in K2 : map2[k] = a => k = k2
  BY <1>1, NullAssumption DEF Inv, TypeOK, NoDangling
<1>5. NoDangling'
  BY <1>1, <1>3, <1>4, NullAssumption, FreeAssumption
  DEF Inv, TypeOK, NoDangling, Remove2, Item
<1>6. NoLeak'
  BY <1>1, <1>3, <1>4, NullAssumption, FreeAssumption
  DEF Inv, TypeOK, NoLeak, NoDangling, Remove2, Item
<1>7. QED
  BY <1>2, <1>5, <1>6 DEF Inv

\* Dropping the map frees every box: all of them are reachable from map2.
LEMMA DropAllInv ==
  ASSUME Inv, DropAll
  PROVE  Inv' /\ \A a \in Addr : heap'[a] = Free
<1>1. \A a \in Addr : heap[a] # Free => \E k \in K2 : map2[k] = a
  <2> SUFFICES ASSUME NEW a \in Addr, heap[a] # Free
               PROVE  \E k \in K2 : map2[k] = a
    OBVIOUS
  <2>1. heap[a] \in Item /\ map1[heap[a].k1] = a
    BY DEF Inv, TypeOK, NoLeak
  <2>2. map2[heap[a].k2] = a
    BY <2>1, NullAssumption DEF Inv, TypeOK, NoDangling, Item
  <2>3. QED
    BY <2>1, <2>2 DEF Item
<1>2. \A a \in Addr : heap'[a] = Free
  BY <1>1 DEF DropAll
<1>3. TypeOK'
  BY DEF Inv, TypeOK, DropAll
<1>4. NoDangling' /\ NoLeak'
  BY <1>2 DEF DropAll, NoDangling, NoLeak
<1>5. QED
  BY <1>2, <1>3, <1>4 DEF Inv

\* Every operation keeps the invariant.
LEMMA NextInv == Inv /\ [Next]_vars => Inv'
<1> SUFFICES ASSUME Inv, [Next]_vars PROVE Inv'
  OBVIOUS
<1>1. ASSUME NEW k1 \in K1, NEW k2 \in K2, NEW v \in V, NEW a \in Addr,
             Insert(k1, k2, v, a)
      PROVE  Inv'
  BY <1>1, InsertInv
<1>2. ASSUME NEW k1 \in K1, Remove1(k1) PROVE Inv'
  BY <1>2, Remove1Inv
<1>3. ASSUME NEW k2 \in K2, Remove2(k2) PROVE Inv'
  BY <1>3, Remove2Inv
<1>4. ASSUME DropAll PROVE Inv'
  BY <1>4, DropAllInv
<1>5. CASE UNCHANGED vars
  BY <1>5 DEF vars, Inv, TypeOK, NoDangling, NoLeak
<1>6. QED
  BY <1>1, <1>2, <1>3, <1>4, <1>5 DEF Next

\* Memory safety of multi_map.rs: no dangling pointer is ever dereferenced,
\* whatever operations a caller performs and in whatever order.
THEOREM MemorySafety == Spec => []NoDangling
<1>1. Inv => NoDangling
  BY DEF Inv
<1> QED  BY <1>1, InvInit, NextInv, PTL DEF Spec

\* No box is lost: every one that is allocated is reachable, and the drop of the
\* map frees it (the operations of multi_map.rs).
THEOREM NothingLeaks == Spec => []NoLeak
<1>1. Inv => NoLeak
  BY DEF Inv
<1> QED  BY <1>1, InvInit, NextInv, PTL DEF Spec

\* Both keys of an entry lead to its value (get1 and get2).
THEOREM LookupsConsistent == Spec => []LookupsAgree
<1>2. Inv => LookupsAgree
  <2> SUFFICES ASSUME Inv PROVE LookupsAgree
    OBVIOUS
  <2>1. \A e \in Reachable : Get1(e.k1) = e.v /\ Get2(e.k2) = e.v
    <3> SUFFICES ASSUME NEW k \in K1, map1[k] # Null
                 PROVE  /\ Get1(heap[map1[k]].k1) = heap[map1[k]].v
                        /\ Get2(heap[map1[k]].k2) = heap[map1[k]].v
      BY DEF Reachable
    <3> QED
      BY DEF Inv, NoDangling, Get1, Get2
  <2>2. \A k \in K1 : map1[k] # Null => \E e \in Reachable : e.k1 = k
    BY DEF Inv, NoDangling, Reachable
  <2>3. \A k \in K2 : map2[k] # Null => \E e \in Reachable : e.k2 = k
    <3> SUFFICES ASSUME NEW k \in K2, map2[k] # Null
                 PROVE  \E e \in Reachable : e.k2 = k
      OBVIOUS
    <3>1. heap[map2[k]] \in Item /\ heap[map2[k]].k2 = k
          /\ map1[heap[map2[k]].k1] = map2[k]
      BY DEF Inv, TypeOK, NoDangling
    <3>2. heap[map2[k]].k1 \in K1
      BY <3>1 DEF Item
    <3>3. heap[map2[k]] \in Reachable
      BY <3>1, <3>2 DEF Reachable
    <3> QED
      BY <3>1, <3>3
  <2> QED
    BY <2>1, <2>2, <2>3 DEF LookupsAgree
<1>3. QED
  BY InvInit, NextInv, <1>2, PTL DEF Spec

-----------------------------------------------------------------------------
\* Every operation of the pointer structure is the dictionary's operation of
\* the same name, seen through the entries that map1 reaches.
LEMMA StepRefinement ==
  ASSUME Inv, [Next]_vars
  PROVE  [Abstract!Next]_Reachable
<1> USE DEF Abstract!Next, Abstract!Insert, Abstract!Remove1,
            Abstract!Remove2, Abstract!Clear, Abstract!Entry,
            Abstract!Matching
<1>1. ASSUME NEW k1 \in K1, NEW k2 \in K2, NEW v \in V, NEW a \in Addr,
             Insert(k1, k2, v, a)
      PROVE  Abstract!Next
  <2> DEFINE item == [k1 |-> k1, k2 |-> k2, v |-> v]
  <2>1. \A k \in K1 : map1[k] # a
    BY <1>1, NullAssumption DEF Inv, TypeOK, NoDangling, Insert
  <2>2. Reachable' = Reachable \cup {item}
    BY <1>1, <2>1, NullAssumption DEF Inv, TypeOK, Insert, Reachable
  <2>3. \A e \in Reachable : e.k1 # k1 /\ e.k2 # k2
    BY <1>1, NullAssumption DEF Inv, TypeOK, NoDangling, Insert, Reachable
  <2>4. item \in Abstract!Entry /\ item.k1 = k1 /\ item.k2 = k2
    OBVIOUS
  <2>5. Abstract!Insert(item)
    BY <2>2, <2>3, <2>4
  <2>6. QED
    BY <2>4, <2>5
<1>2. ASSUME NEW k1 \in K1, Remove1(k1) PROVE Abstract!Next
  <2>0. map1[k1] \in Addr /\ heap[map1[k1]].k1 = k1
    BY <1>2, NullAssumption DEF Inv, TypeOK, NoDangling, Remove1
  <2>1. \A k \in K1 : map1[k] = map1[k1] => k = k1
    BY <1>2, <2>0, NullAssumption DEF Inv, TypeOK, NoDangling, Remove1
  <2>2. Reachable' = {e \in Reachable : e.k1 # k1}
    BY <1>2, <2>1, NullAssumption
    DEF Inv, TypeOK, NoDangling, Remove1, Reachable
  <2>3. \E e \in Reachable : e.k1 = k1
    BY <1>2, <2>0 DEF Remove1, Reachable
  <2>4. QED
    BY <2>2, <2>3
<1>3. ASSUME NEW k2 \in K2, Remove2(k2) PROVE Abstract!Next
  <2> DEFINE a == map2[k2]
             k == heap[a].k1
  <2>0. /\ a \in Addr /\ heap[a] \in Item /\ heap[a].k2 = k2
        /\ k \in K1 /\ map1[k] = a
    BY <1>3, NullAssumption, FreeAssumption
    DEF Inv, TypeOK, NoDangling, Remove2, Item
  <2>1. \A j \in K1 : map1[j] # Null /\ heap[map1[j]].k2 = k2 => j = k
    BY <2>0, NullAssumption DEF Inv, TypeOK, NoDangling
  <2>2. \A j \in K1 : map1[j] = a => j = k
    BY <2>0, NullAssumption DEF Inv, TypeOK, NoDangling
  <2>3. Reachable' = {e \in Reachable : e.k2 # k2}
    BY <1>3, <2>0, <2>1, <2>2, NullAssumption
    DEF Inv, TypeOK, NoDangling, Remove2, Reachable
  <2>4. \E e \in Reachable : e.k2 = k2
    BY <1>3, <2>0 DEF Remove2, Reachable
  <2>5. QED
    BY <2>3, <2>4
<1>4. ASSUME DropAll PROVE Abstract!Next
  BY <1>4 DEF DropAll, Reachable
<1>5. CASE UNCHANGED vars
  BY <1>5 DEF vars, Reachable
<1>6. QED
  BY <1>1, <1>2, <1>3, <1>4, <1>5 DEF Next

\* multi_map.rs implements the two-key dictionary, so the server may be
\* reasoned about as if `control_channels` were one.
THEOREM MultiMapRefinement == Spec => ImplementsDict
<1>1. Init => Abstract!Init
  BY DEF Init, Abstract!Init, Reachable
<1>2. QED
  BY InvInit, NextInv, StepRefinement, <1>1, PTL
  DEF Spec, ImplementsDict, Abstract!Spec
=============================================================================
