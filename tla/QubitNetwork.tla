---------------------------- MODULE QubitNetwork ----------------------------
(***************************************************************************)
(* What SimulaQron promises to its applications: a network of qubits as    *)
(* real hardware would hold them.  A qubit is at one node, is acted upon   *)
(* only there, moves when it is sent, and what it carries depends on       *)
(* nothing but the operations applied to it.  Simulated qubits, registers  *)
(* and merges do not appear: docs/Overview.rst calls them handled          *)
(* transparently by the backend.                                           *)
(*                                                                         *)
(* What a qubit carries is abstracted to a classical bit.  X stands for    *)
(* the single-qubit gates, Cnot for the two-qubit gates.                   *)
(***************************************************************************)
EXTENDS Integers

CONSTANTS Nodes,     \* the nodes of the network
          Qubits,    \* identities of the qubits an application can hold
          Nowhere    \* the place of a qubit that does not exist

VARIABLES home,      \* home[q]: the node at which q is available
          bit,       \* bit[q]: what q carries
          outcome    \* the result of the last measurement

vars == <<home, bit, outcome>>

Init ==
  /\ home = [q \in Qubits |-> Nowhere]
  /\ bit = [q \in Qubits |-> 0]
  /\ outcome = 0

\* A fresh qubit is in |0>.
Create(n, q) ==
  /\ home[q] = Nowhere
  /\ home' = [home EXCEPT ![q] = n]
  /\ UNCHANGED <<bit, outcome>>

X(n, q) ==
  /\ home[q] = n
  /\ bit' = [bit EXCEPT ![q] = 1 - @]
  /\ UNCHANGED <<home, outcome>>

Cnot(n, c, t) ==
  /\ c # t
  /\ home[c] = n
  /\ home[t] = n
  /\ bit' = [bit EXCEPT ![t] = IF bit[c] = 1 THEN 1 - @ ELSE @]
  /\ UNCHANGED <<home, outcome>>

MeasureInPlace(n, q) ==
  /\ home[q] = n
  /\ outcome' = bit[q]
  /\ UNCHANGED <<home, bit>>

\* A qubit that is measured out is gone; its identity may be used again.
Measure(n, q) ==
  /\ home[q] = n
  /\ outcome' = bit[q]
  /\ home' = [home EXCEPT ![q] = Nowhere]
  /\ bit' = [bit EXCEPT ![q] = 0]

Send(n, q, m) ==
  /\ n # m
  /\ home[q] = n
  /\ home' = [home EXCEPT ![q] = m]
  /\ UNCHANGED <<bit, outcome>>

Next ==
  \E n \in Nodes :
    \/ \E q \in Qubits :
         \/ Create(n, q)
         \/ X(n, q)
         \/ MeasureInPlace(n, q)
         \/ Measure(n, q)
         \/ \E m \in Nodes : Send(n, q, m)
    \/ \E c, t \in Qubits : Cnot(n, c, t)

Spec == Init /\ [][Next]_vars
=============================================================================
