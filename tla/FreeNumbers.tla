---------------------------- MODULE FreeNumbers ----------------------------
(***************************************************************************)
(* The number allocator of a virtual node.  get_virtual_id and get_sim_id  *)
(* return the least natural number that no object of the list carries.     *)
(* remote_merge_from calls get_sim_id in a loop and appends the new object *)
(* before the next call, so its k-th call (k = 0, 1, ...) returns the      *)
(* (k+1)-th least natural number that was free before the loop.            *)
(*                                                                         *)
(* "used" is the set of the numbers carried by the objects of the list.    *)
(***************************************************************************)
EXTENDS Integers, FiniteSets

\* The (k+1)-th number that is not in used.  Both callers look no further
\* than the length of the list, which bounds the search here too.
NthFree(used, k) ==
  CHOOSE j \in 0 .. (Cardinality(used) + k) :
    /\ j \notin used
    /\ Cardinality((0 .. (j-1)) \ used) = k

\* MUTANT: the length of the list is taken for a free number
ListLength(used) == Cardinality(used)

\* The number one call returns.
FirstFree(used) == NthFree(used, 0)
=============================================================================
