------------------------------- MODULE StdMap -------------------------------
(***************************************************************************)
(* The part of std::map that the simulator's bookkeeping relies on.  A map *)
(* is a function whose domain is the set of keys present.                  *)
(***************************************************************************)

\* An empty container.
EmptyMap == [k \in {} |-> k]

\* std::map::insert: a key that is already present keeps its old value.
MapInsert(m, k, v) ==
  [x \in DOMAIN m \cup {k} |-> IF x \in DOMAIN m THEN m[x] ELSE v]

\* operator[] on the left of an assignment: inserts or overwrites.
MapAssign(m, k, v) ==
  [x \in DOMAIN m \cup {k} |-> IF x = k THEN v ELSE m[x]]

\* std::map::erase by key; erasing an absent key is a no-op.
MapErase(m, k) == [x \in DOMAIN m \ {k} |-> m[x]]

\* m is a container of elements of S under keys of K.
IsMap(m, K, S) == DOMAIN m \subseteq K /\ m \in [DOMAIN m -> S]
=============================================================================
