----------------------------- MODULE TwoKeyDict -----------------------------
(***************************************************************************)
(* What `MultiMap` (src/src/multi_map.rs) promises: a dictionary whose     *)
(* entries carry two keys, each of which identifies at most one entry.     *)
(* MultiMap.tla is shown to implement it; ServerControl.tla uses it as the *)
(* type of the server's `control_channels`.                                *)
(***************************************************************************)
CONSTANTS K1, K2, V

VARIABLE entries

Entry == [k1 : K1, k2 : K2, v : V]

\* Entries of a dictionary that carry the first or the second of two keys.
Matching(dict, k1, k2) == {e \in dict : e.k1 = k1 \/ e.k2 = k2}

Init == entries = {}

\* A key that is in use is refused, whichever of the two it is.
Insert(e) ==
  /\ Matching(entries, e.k1, e.k2) = {}
  /\ entries' = entries \cup {e}

Remove1(k1) ==
  /\ \E e \in entries : e.k1 = k1
  /\ entries' = {e \in entries : e.k1 # k1}

Remove2(k2) ==
  /\ \E e \in entries : e.k2 = k2
  /\ entries' = {e \in entries : e.k2 # k2}

Clear == entries' = {}

Next ==
  \/ \E e \in Entry : Insert(e)
  \/ \E k1 \in K1 : Remove1(k1)
  \/ \E k2 \in K2 : Remove2(k2)
  \/ Clear

Spec == Init /\ [][Next]_entries
=============================================================================
