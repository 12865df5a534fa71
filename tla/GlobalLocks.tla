---------------------------- MODULE GlobalLocks ----------------------------
(***************************************************************************)
(* The locking protocol of virtual_node/virtual.py.  Every virtual node    *)
(* has one global lock.  An operation of a client acquires the locks of    *)
(* the nodes it touches, some by remote calls, checks that its qubits are  *)
(* still simulated where they were when it asked, works, and releases.     *)
(* Meanwhile a merge done for another client may move a register, and with *)
(* it the simulation of qubits of any node, to a new simulating node.      *)
(*                                                                         *)
(* The code between two yields is one action: asking for locks, each       *)
(* acquisition, the check after the last one, the work, each release.      *)
(* A lock is the bit a DeferredLock keeps; holds[c] is a ghost, the locks  *)
(* operation c was granted and has not released.                           *)
(*                                                                         *)
(* Registers are abstracted to classes of qubits: regOf[q] names the class.*)
(* What gates and measurements do to positions is in VirtualNodes.         *)
(***************************************************************************)
EXTENDS Integers, FiniteSets

CONSTANTS Nodes,        \* the virtual nodes
          Qubits,       \* the qubits in the network
          Clients,      \* client sessions; a session runs one operation at a time
          At,           \* At[c]: the node session c is connected to
          Kinds,        \* Kinds[c]: the operations session c asks for
          MaxOps,       \* BOUND: operations per session
          MaxTimeouts   \* BOUND: lock timeouts in all (0: none expires)

AllKinds == {"gate", "measure", "cnot", "send"}

ASSUME ConstantsAssumption ==
  /\ Qubits # {}
  /\ At \in [Clients -> Nodes]
  /\ Kinds \in [Clients -> SUBSET AllKinds]
  /\ MaxOps \in Nat
  /\ MaxTimeouts \in Nat

VARIABLES
  locked,    \* locked[n]: the global lock of node n is taken
  holds,     \* holds[c]: nodes whose lock session c was granted (ghost)
  need,      \* need[c]: nodes whose lock session c has asked for
  todo,      \* todo[c]: nodes session c still has to release
  orphans,   \* orphans[n]: requests at n whose caller has given up
  pc,        \* pc[c]: where the operation of session c is
  op,        \* op[c]: the operation of session c
  again,     \* again[c]: start over once everything is released
  started,   \* started[c]: operations begun by session c
  timeouts,  \* lock timeouts so far
  listed,    \* listed[n]: qubits in virtQubits of node n
  sim,       \* sim[q]: simNode of qubit q
  regOf      \* regOf[q]: the register q is in

lockVars == <<locked, holds, need, todo, orphans>>
controlVars == <<pc, op, again, started, timeouts>>
qubitVars == <<listed, sim, regOf>>
vars == <<locked, holds, need, todo, orphans, pc, op, again, started,
          timeouts, listed, sim, regOf>>

\* q and r are the qubits (r = q unless it is a cnot), dest is the node a
\* qubit is sent to (the own node otherwise), simQ and simR are the
\* simulating nodes noted when the locks were asked for.
Operation == [kind : AllKinds, q : Qubits, r : Qubits, dest : Nodes,
              simQ : Nodes, simR : Nodes]

Stages == {"idle", "acquiring", "critical", "delivering", "delivered",
           "releasing"}

TypeOK ==
  /\ locked \in [Nodes -> BOOLEAN]
  /\ holds \in [Clients -> SUBSET Nodes]
  /\ need \in [Clients -> SUBSET Nodes]
  /\ todo \in [Clients -> SUBSET Nodes]
  /\ orphans \in [Nodes -> Nat]
  /\ pc \in [Clients -> Stages]
  /\ op \in [Clients -> Operation]
  /\ again \in [Clients -> BOOLEAN]
  /\ started \in [Clients -> 0 .. MaxOps]
  /\ timeouts \in 0 .. MaxTimeouts
  /\ listed \in [Nodes -> SUBSET Qubits]
  /\ sim \in [Qubits -> Nodes]
  /\ regOf \in [Qubits -> Qubits]

\* Any placement can be set up by creating, entangling and sending qubits:
\* each qubit is at one node and simulated at some node, and the qubits of a
\* register share their simulating node.
Init ==
  /\ \E place \in [Qubits -> Nodes] :
       listed = [n \in Nodes |-> {q \in Qubits : place[q] = n}]
  /\ sim \in [Qubits -> Nodes]
  /\ regOf \in [Qubits -> Qubits]
  /\ \A q \in Qubits : regOf[regOf[q]] = regOf[q] /\ sim[regOf[q]] = sim[q]
  /\ locked = [n \in Nodes |-> FALSE]
  /\ holds = [c \in Clients |-> {}]
  /\ need = [c \in Clients |-> {}]
  /\ todo = [c \in Clients |-> {}]
  /\ orphans = [n \in Nodes |-> 0]
  /\ pc = [c \in Clients |-> "idle"]
  /\ op = [c \in Clients |->
             LET q == CHOOSE p \in Qubits : TRUE
             IN  [kind |-> "gate", q |-> q, r |-> q, dest |-> At[c],
                  simQ |-> At[c], simR |-> At[c]]]
  /\ again = [c \in Clients |-> FALSE]
  /\ started = [c \in Clients |-> 0]
  /\ timeouts = 0

Goto(c, stage) == pc' = [pc EXCEPT ![c] = stage]

-----------------------------------------------------------------------------
(* Asking for locks.                                                       *)

\* MUTANT: the node that simulates the target is not locked
LocksForControl(c, kind, a, b) ==
  CASE kind \in {"gate", "measure"} -> {a}
    [] kind = "cnot" -> {At[c], a}
    [] kind = "send" -> {At[c]}

\* the locks an operation takes, with its qubits simulated at nodes a and b:
\* _lock_simulating_node, _lock_nodes, and _get_global_lock in send_qubit
LocksFor(c, kind, a, b) ==
  CASE kind \in {"gate", "measure"} -> {a}
    [] kind = "cnot" -> {At[c], a, b}
    [] kind = "send" -> {At[c]}

\* Note where the qubits are simulated and ask the nodes for their locks.
Request(c, o) ==
  /\ op' = [op EXCEPT ![c] =
              [o EXCEPT !.simQ = sim[o.q], !.simR = sim[o.r]]]
  /\ need' = [need EXCEPT ![c] =
                LocksFor(c, o.kind, sim[o.q], sim[o.r])]
  /\ Goto(c, "acquiring")

\* A client asks for an operation on qubits it finds at its node.  The test
\* of the active flag is made here, before any lock is held.
Start(c, kind, q, r, dest) ==
  /\ pc[c] = "idle"
  /\ started[c] < MaxOps
  /\ kind \in Kinds[c]
  /\ {q, r} \subseteq listed[At[c]]
  /\ (kind = "cnot") <=> (q # r)
  /\ (kind = "send") <=> (dest # At[c])
  /\ Request(c, [op[c] EXCEPT !.kind = kind, !.q = q, !.r = r, !.dest = dest])
  /\ started' = [started EXCEPT ![c] = @ + 1]
  /\ UNCHANGED <<locked, holds, todo, orphans, again, timeouts>>
  /\ UNCHANGED qubitVars

\* MUTANT: the lock is taken without a look at it
AcquireBlindly(c, n) ==
  /\ pc[c] = "acquiring"
  /\ n \in need[c] \ holds[c]
  /\ locked' = [locked EXCEPT ![n] = TRUE]
  /\ holds' = [holds EXCEPT ![c] = @ \cup {n}]
  /\ UNCHANGED <<need, todo, orphans>>
  /\ UNCHANGED controlVars
  /\ UNCHANGED qubitVars

\* _get_global_lock: poll until the lock is free, then take it.
Acquire(c, n) ==
  /\ pc[c] = "acquiring"
  /\ n \in need[c] \ holds[c]
  /\ ~locked[n]
  /\ locked' = [locked EXCEPT ![n] = TRUE]
  /\ holds' = [holds EXCEPT ![c] = @ \cup {n}]
  /\ UNCHANGED <<need, todo, orphans>>
  /\ UNCHANGED controlVars
  /\ UNCHANGED qubitVars

\* MUTANT: a request is answered although none is left
AcquireAnswered(n) ==
  /\ ~locked[n]
  /\ locked' = [locked EXCEPT ![n] = TRUE]
  /\ orphans' = [orphans EXCEPT ![n] = @ - 1]
  /\ UNCHANGED <<holds, need, todo>>
  /\ UNCHANGED controlVars
  /\ UNCHANGED qubitVars

\* The poll of a remote request whose caller has timed out goes on: the
\* request cannot be cancelled from the calling side.
AcquireOrphan(n) ==
  /\ orphans[n] > 0
  /\ ~locked[n]
  /\ locked' = [locked EXCEPT ![n] = TRUE]
  /\ orphans' = [orphans EXCEPT ![n] = @ - 1]
  /\ UNCHANGED <<holds, need, todo>>
  /\ UNCHANGED controlVars
  /\ UNCHANGED qubitVars

\* the locks op c releases next, and whether it starts over after that
ReleaseAll(c, nodes, retry) ==
  /\ todo' = [todo EXCEPT ![c] = nodes]
  /\ again' = [again EXCEPT ![c] = retry]
  /\ need' = [need EXCEPT ![c] = {}]
  /\ Goto(c, "releasing")

\* MUTANT: nobody looks again
NeverMoved(c) == FALSE

\* a gate on one or two qubits looks again where they are simulated
Moved(c) ==
  /\ op[c].kind # "send"
  /\ \/ sim[op[c].q] # op[c].simQ
     \/ op[c].kind = "cnot" /\ sim[op[c].r] # op[c].simR

\* MUTANT: the locks released are those of the new simulating nodes
CheckReleasesNew(c) ==
  /\ pc[c] = "acquiring"
  /\ need[c] \subseteq holds[c]
  /\ IF Moved(c)
     THEN ReleaseAll(c, LocksFor(c, op[c].kind, sim[op[c].q], sim[op[c].r]),
                     TRUE)
     ELSE /\ Goto(c, "critical")
          /\ UNCHANGED <<todo, again, need>>
  /\ UNCHANGED <<locked, holds, orphans, op, started, timeouts>>
  /\ UNCHANGED qubitVars

\* All locks are there.  If a qubit is simulated elsewhere by now, the locks
\* are of no use: release them and try again; if not, go on.
Check(c) ==
  /\ pc[c] = "acquiring"
  /\ need[c] \subseteq holds[c]
  /\ IF Moved(c)
     THEN ReleaseAll(c, need[c], TRUE)
     ELSE /\ Goto(c, "critical")
          /\ UNCHANGED <<todo, again, need>>
  /\ UNCHANGED <<locked, holds, orphans, op, started, timeouts>>
  /\ UNCHANGED qubitVars

\* The random timeout of _lock_nodes fires before all locks are there.  The
\* cancellation marks every request as called, so the locks of all the nodes
\* are released, also the ones that another operation holds.  A request at
\* another node is orphaned; a poll at the own node is really cancelled.
Timeout(c) ==
  /\ pc[c] = "acquiring"
  /\ op[c].kind = "cnot"
  /\ ~ need[c] \subseteq holds[c]
  /\ timeouts < MaxTimeouts
  /\ timeouts' = timeouts + 1
  /\ orphans' = [n \in Nodes |->
                   IF n \in need[c] \ (holds[c] \cup {At[c]})
                   THEN orphans[n] + 1 ELSE orphans[n]]
  /\ ReleaseAll(c, need[c], TRUE)
  /\ UNCHANGED <<locked, holds, op, started>>
  /\ UNCHANGED qubitVars

\* _release_global_lock: whoever calls it, a taken lock becomes free.
Release(c, n) ==
  /\ pc[c] = "releasing"
  /\ n \in todo[c]
  /\ locked' = [locked EXCEPT ![n] = FALSE]
  /\ holds' = [holds EXCEPT ![c] = @ \ {n}]
  /\ todo' = [todo EXCEPT ![c] = @ \ {n}]
  /\ UNCHANGED <<need, orphans>>
  /\ UNCHANGED controlVars
  /\ UNCHANGED qubitVars

Retry(c) ==
  /\ pc[c] = "releasing"
  /\ todo[c] = {}
  /\ again[c]
  /\ Request(c, op[c])
  /\ UNCHANGED <<locked, holds, todo, orphans, again, started, timeouts>>
  /\ UNCHANGED qubitVars

Finish(c) ==
  /\ pc[c] = "releasing"
  /\ todo[c] = {}
  /\ ~again[c]
  /\ Goto(c, "idle")
  /\ UNCHANGED lockVars
  /\ UNCHANGED <<op, again, started, timeouts>>
  /\ UNCHANGED qubitVars

-----------------------------------------------------------------------------
(* Working with the locks held.                                            *)

\* MUTANT: the own node stays locked
LeaveOwnLocked(c) ==
  /\ ReleaseAll(c, holds[c] \ {At[c]}, FALSE)
  /\ UNCHANGED <<locked, holds, orphans, op, started, timeouts>>

\* end the critical section, by an error or not
Leave(c) ==
  /\ ReleaseAll(c, holds[c], FALSE)
  /\ UNCHANGED <<locked, holds, orphans, op, started, timeouts>>

Gate(c) ==
  /\ pc[c] = "critical"
  /\ op[c].kind = "gate"
  /\ Leave(c)
  /\ UNCHANGED qubitVars

\* The simulated qubit is removed, then the virtual one.  If it is no longer
\* listed here, the removal from the list raises.
Measure(c) ==
  LET q == op[c].q
  IN  /\ pc[c] = "critical"
      /\ op[c].kind = "measure"
      /\ Leave(c)
      /\ listed' = [listed EXCEPT ![At[c]] = @ \ {q}]
      /\ UNCHANGED <<sim, regOf>>

\* MUTANT: only the two qubits of the gate learn where they are simulated now
CnotMovesTwo(c) ==
  LET a == sim[op[c].q]
      b == sim[op[c].r]
      place == IF a = b THEN a ELSE At[c]
      merged == {p \in Qubits : regOf[p] \in {regOf[op[c].q], regOf[op[c].r]}}
  IN  /\ pc[c] = "critical"
      /\ op[c].kind = "cnot"
      /\ sim' = [sim EXCEPT ![op[c].q] = place, ![op[c].r] = place]
      /\ regOf' = [p \in Qubits |->
                     IF p \in merged THEN regOf[op[c].q] ELSE regOf[p]]
      /\ Leave(c)
      /\ UNCHANGED listed

\* _two_qubit_gate: the two registers become one, at the control's node if
\* they are at the same node or the control is simulated here, at this node
\* otherwise.  Every qubit of the two registers goes along.
Cnot(c) ==
  LET a == sim[op[c].q]
      b == sim[op[c].r]
      place == IF a = b THEN a ELSE At[c]
      merged == {p \in Qubits : regOf[p] \in {regOf[op[c].q], regOf[op[c].r]}}
  IN  /\ pc[c] = "critical"
      /\ op[c].kind = "cnot"
      /\ sim' = [p \in Qubits |-> IF p \in merged THEN place ELSE sim[p]]
      /\ regOf' = [p \in Qubits |->
                     IF p \in merged THEN regOf[op[c].q] ELSE regOf[p]]
      /\ Leave(c)
      /\ UNCHANGED listed

\* remote_send_qubit.  A qubit simulated elsewhere: the statement that should
\* lock the simulating node names attributes a virtualNode does not have, so
\* it raises, and the finally clause releases the own lock.
SendRemotelySimulated(c) ==
  /\ pc[c] = "critical"
  /\ op[c].kind = "send"
  /\ sim[op[c].q] # At[c]
  /\ Leave(c)
  /\ UNCHANGED qubitVars

\* A qubit simulated here: call add_qubit at the target, own lock held.
SendLocallySimulated(c) ==
  /\ pc[c] = "critical"
  /\ op[c].kind = "send"
  /\ sim[op[c].q] = At[c]
  /\ Goto(c, "delivering")
  /\ UNCHANGED lockVars
  /\ UNCHANGED <<op, again, started, timeouts>>
  /\ UNCHANGED qubitVars

\* MUTANT: a target without room for the qubit does not make the sender fail
AddQubitOrDrop(c) ==
  /\ pc[c] = "delivering"
  /\ ~locked[op[c].dest]
  /\ listed' \in {listed,
                  [listed EXCEPT ![op[c].dest] = @ \cup {op[c].q}]}
  /\ Goto(c, "delivered")
  /\ UNCHANGED lockVars
  /\ UNCHANGED <<op, again, started, timeouts, sim, regOf>>

\* remote_add_qubit at the target: its lock is polled for without a timeout,
\* taken, and released again before the handler yields.
AddQubit(c) ==
  /\ pc[c] = "delivering"
  /\ ~locked[op[c].dest]
  /\ listed' = [listed EXCEPT ![op[c].dest] = @ \cup {op[c].q}]
  /\ Goto(c, "delivered")
  /\ UNCHANGED lockVars
  /\ UNCHANGED <<op, again, started, timeouts, sim, regOf>>

\* Back at the sender: the qubit is struck from the list.  If it is not
\* there any more, the removal raises.
HandOver(c) ==
  /\ pc[c] = "delivered"
  /\ Leave(c)
  /\ listed' = [listed EXCEPT ![At[c]] = @ \ {op[c].q}]
  /\ UNCHANGED <<sim, regOf>>

-----------------------------------------------------------------------------

\* the steps of an operation that has begun
Step(c) ==
  \/ \E n \in Nodes : Acquire(c, n) \/ Release(c, n)
  \/ Check(c)
  \/ Retry(c)
  \/ Finish(c)
  \/ Gate(c)
  \/ Measure(c)
  \/ Cnot(c)
  \/ SendRemotelySimulated(c)
  \/ SendLocallySimulated(c)
  \/ AddQubit(c)
  \/ HandOver(c)

Next ==
  \/ \E c \in Clients :
       \/ \E kind \in Kinds[c], q, r \in Qubits, dest \in Nodes :
            Start(c, kind, q, r, dest)
       \/ Step(c)
       \/ Timeout(c)
  \/ \E n \in Nodes : AcquireOrphan(n)

Spec == Init /\ [][Next]_vars

\* The reactor runs every pending callback, reply and poll in the end.
\* Clients need not ask for anything, and no timeout has to fire.
FairSpec ==
  /\ Spec
  /\ \A c \in Clients : WF_vars(Step(c))
  /\ \A n \in Nodes : WF_vars(AcquireOrphan(n))

-----------------------------------------------------------------------------
(* Correctness.                                                            *)

\* A node's global lock is held by one operation at a time.
Exclusive ==
  \A c, d \in Clients : c # d => holds[c] \cap holds[d] = {}

\* The lock is taken exactly while an operation under way holds it: none is
\* forgotten, none is released on behalf of somebody else.
HeldByWorker(n) == \E c \in Clients : pc[c] # "idle" /\ n \in holds[c]

NoLostLock == \A n \in Nodes : locked[n] <=> HeldByWorker(n)

\* An operation that works on its qubits holds the lock of the nodes that
\* simulate them now, not of the ones that did when it asked: this is what
\* asking again after the acquisition is for (virtual.py:1427, 1745).
SimulatorLocked ==
  \A c \in Clients :
    pc[c] = "critical" /\ op[c].kind # "send" =>
      {sim[op[c].q], sim[op[c].r]} \subseteq holds[c]

\* While an operation is at work on a qubit, nobody else moves the qubit's
\* simulation to another node.
AtWork(c) == \/ pc[c] = "critical" /\ op[c].kind # "send"
             \/ pc[c] = "delivering"

NotMovedUnderneath ==
  [][\A c \in Clients :
       AtWork(c) /\ pc'[c] = pc[c] =>
         /\ sim'[op[c].q] = sim[op[c].q]
         /\ sim'[op[c].r] = sim[op[c].r]]_vars

\* Qubits of one register are simulated at one node, whatever is merged.
RegisterInOnePlace ==
  \A p, q \in Qubits : regOf[p] = regOf[q] => sim[p] = sim[q]

\* A qubit is never lost on the way: it is listed at some node until it is
\* measured, also while it is being sent.  A session is taken to do nothing
\* after its measurement.  If locks time out, only one node may send: a list
\* is a set here, so a qubit that comes back to a node that has not struck it
\* yet is struck with it; virtQubits would hold two objects.
Measured(c, q) == op[c].kind = "measure" /\ op[c].q = q /\ pc[c] \in {"releasing", "idle"}

NeverLost ==
  \A q \in Qubits :
    \/ \E n \in Nodes : q \in listed[n]
    \/ \E c \in Clients : Measured(c, q)

\* Every operation that was started comes to an end.
OperationsFinish ==
  \A c \in Clients : pc[c] # "idle" ~> pc[c] = "idle"
=============================================================================
