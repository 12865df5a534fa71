--------------------------- MODULE MCVirtualNodes ---------------------------
(* Instances of VirtualNodes for TLC.                                      *)
EXTENDS VirtualNodes, TLC

\* Qubits are interchangeable, and so are the nodes.
Symmetry == Permutations(Qubits) \cup Permutations(Nodes)
=============================================================================
