---------------------------- MODULE MCGlobalLocks ----------------------------
(* Instances of GlobalLocks for TLC: a session is a node and a number.     *)
EXTENDS GlobalLocks, TLC

CONSTANTS alice, bob, charlie   \* the nodes

\* a session at each node
A1 == <<alice, 1>>
B1 == <<bob, 1>>
C1 == <<charlie, 1>>

AtNode == [c \in Clients |-> c[1]]

\* merges at two nodes, in competition with sends, gates and measurements
MergeClients == {A1, B1, C1}
MergeKinds == (A1 :> {"cnot"}) @@ (B1 :> {"cnot", "send"})
                @@ (C1 :> {"gate", "measure"})

\* one session takes several locks, the others one at a time
LiveClients == {A1, B1, C1}
LiveKinds == (A1 :> {"cnot", "send"}) @@ (B1 :> {"gate"})
               @@ (C1 :> {"gate", "measure"})

\* sends in both directions
SendClients == {A1, B1}
SendKinds == [c \in SendClients |-> {"send"}]

\* a two-qubit gate that may time out, next to other operations
TimeoutClients == {A1, B1}
TimeoutKinds == (A1 :> {"cnot"}) @@ (B1 :> {"gate", "send"})
=============================================================================
