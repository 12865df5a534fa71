------------------------- MODULE GlobalLocks_proofs -------------------------
(***************************************************************************)
(* What the global locks guarantee, for any number of nodes, qubits and    *)
(* sessions.  As long as no lock request times out the locks exclude each  *)
(* other and an operation works on qubits that nobody moves; the runs show *)
(* that a timeout destroys this.  Nor is a qubit lost that is being sent.  *)
(***************************************************************************)
EXTENDS GlobalLocks, TLAPS

-----------------------------------------------------------------------------
(* Types and registers: with or without timeouts.                          *)

(* The simulating nodes of an operation are nodes, and so are its locks. *)
LEMMA LocksAreNodes ==
  ASSUME NEW c \in Clients, NEW kind \in AllKinds, NEW a \in Nodes, NEW b \in Nodes
  PROVE  LocksFor(c, kind, a, b) \in SUBSET Nodes
BY ConstantsAssumption DEF LocksFor, AllKinds

(* An operation that asks for its locks stays well typed. *)
LEMMA RequestType ==
  ASSUME TypeOK, NEW c \in Clients, NEW o \in Operation, Request(c, o)
  PROVE  /\ op' \in [Clients -> Operation]
         /\ need' \in [Clients -> SUBSET Nodes]
         /\ pc' \in [Clients -> Stages]
<1>1. sim[o.q] \in Nodes /\ sim[o.r] \in Nodes /\ o.kind \in AllKinds
  BY DEF TypeOK, Operation
<1>2. [o EXCEPT !.simQ = sim[o.q], !.simR = sim[o.r]] \in Operation
  BY <1>1 DEF Operation
<1>3. op' \in [Clients -> Operation]
  BY <1>2 DEF TypeOK, Request
<1>4. LocksFor(c, o.kind, sim[o.q], sim[o.r]) \in SUBSET Nodes
  BY <1>1, LocksAreNodes
<1>5. need' \in [Clients -> SUBSET Nodes]
  BY <1>4 DEF TypeOK, Request
<1>6. pc' \in [Clients -> Stages]
  BY DEF TypeOK, Request, Goto, Stages
<1>7. QED
  BY <1>3, <1>5, <1>6

(* The end of a critical section keeps its variables well typed. *)
LEMMA LeaveType ==
  ASSUME TypeOK, NEW c \in Clients, Leave(c)
  PROVE  /\ locked' \in [Nodes -> BOOLEAN]
         /\ holds' \in [Clients -> SUBSET Nodes]
         /\ need' \in [Clients -> SUBSET Nodes]
         /\ todo' \in [Clients -> SUBSET Nodes]
         /\ orphans' \in [Nodes -> Nat]
         /\ pc' \in [Clients -> Stages]
         /\ op' \in [Clients -> Operation]
         /\ again' \in [Clients -> BOOLEAN]
         /\ started' \in [Clients -> 0 .. MaxOps]
         /\ timeouts' \in 0 .. MaxTimeouts
BY DEF TypeOK, Leave, ReleaseAll, Goto, Stages

LEMMA InitTyped == Init => TypeOK
<1> SUFFICES ASSUME Init PROVE TypeOK
  OBVIOUS
<1>1. \A c \in Clients : op[c] \in Operation
  BY ConstantsAssumption DEF Init, Operation, AllKinds
<1>2. op \in [Clients -> Operation]
  BY <1>1 DEF Init
<1>3. listed \in [Nodes -> SUBSET Qubits]
  BY DEF Init
<1>4. QED
  BY <1>2, <1>3, ConstantsAssumption DEF Init, TypeOK, Stages

LEMMA NextTyped == TypeOK /\ [Next]_vars => TypeOK'
<1> SUFFICES ASSUME TypeOK, [Next]_vars PROVE TypeOK'
  OBVIOUS
<1>1. ASSUME NEW c \in Clients, NEW kind \in Kinds[c], NEW q \in Qubits,
             NEW r \in Qubits, NEW dest \in Nodes, Start(c, kind, q, r, dest)
      PROVE  TypeOK'
  <2>1. kind \in AllKinds
    BY ConstantsAssumption
  <2>2. [op[c] EXCEPT !.kind = kind, !.q = q, !.r = r, !.dest = dest] \in Operation
    <3>1. op[c] \in Operation
      BY DEF TypeOK
    <3>2. QED
      BY <2>1, <3>1, ZenonT(30) DEF Operation
  <2>3. /\ op' \in [Clients -> Operation]
        /\ need' \in [Clients -> SUBSET Nodes]
        /\ pc' \in [Clients -> Stages]
    BY <1>1, <2>2, RequestType DEF Start
  <2>4. started' \in [Clients -> 0 .. MaxOps]
    BY <1>1, ConstantsAssumption DEF Start, TypeOK
  <2>5. QED
    BY <1>1, <2>3, <2>4 DEF Start, TypeOK, qubitVars
<1>2. ASSUME NEW c \in Clients, NEW n \in Nodes, Acquire(c, n) PROVE TypeOK'
  BY <1>2 DEF Acquire, TypeOK, controlVars, qubitVars
<1>3. ASSUME NEW c \in Clients, NEW n \in Nodes, Release(c, n) PROVE TypeOK'
  BY <1>3 DEF Release, TypeOK, controlVars, qubitVars
<1>4. ASSUME NEW c \in Clients, Check(c) PROVE TypeOK'
  <2>1. CASE Moved(c)
    BY <1>4, <2>1 DEF Check, ReleaseAll, Goto, Stages, TypeOK, qubitVars
  <2>2. CASE ~Moved(c)
    BY <1>4, <2>2 DEF Check, Goto, Stages, TypeOK, qubitVars
  <2>3. QED
    BY <2>1, <2>2
<1>5. ASSUME NEW c \in Clients, Retry(c) PROVE TypeOK'
  <2>1. op[c] \in Operation
    BY DEF TypeOK
  <2>2. /\ op' \in [Clients -> Operation]
        /\ need' \in [Clients -> SUBSET Nodes]
        /\ pc' \in [Clients -> Stages]
    BY <1>5, <2>1, RequestType DEF Retry
  <2>3. QED
    BY <1>5, <2>2 DEF Retry, TypeOK, qubitVars
<1>6. ASSUME NEW c \in Clients, Finish(c) PROVE TypeOK'
  BY <1>6 DEF Finish, Goto, Stages, TypeOK, lockVars, qubitVars
<1>7. ASSUME NEW c \in Clients, Gate(c) PROVE TypeOK'
  <2>1. Leave(c) /\ UNCHANGED qubitVars
    BY <1>7 DEF Gate
  <2>2. QED
    BY <2>1, LeaveType DEF TypeOK, qubitVars
<1>8. ASSUME NEW c \in Clients, Measure(c) PROVE TypeOK'
  <2>1. Leave(c)
    BY <1>8 DEF Measure
  <2>2. listed' \in [Nodes -> SUBSET Qubits] /\ UNCHANGED <<sim, regOf>>
    BY <1>8 DEF Measure, TypeOK
  <2>3. QED
    BY <2>1, <2>2, LeaveType DEF TypeOK
<1>9. ASSUME NEW c \in Clients, Cnot(c) PROVE TypeOK'
  <2>1. Leave(c) /\ UNCHANGED listed
    BY <1>9 DEF Cnot
  <2>2. op[c].q \in Qubits /\ op[c].r \in Qubits /\ At[c] \in Nodes
    BY ConstantsAssumption DEF TypeOK, Operation
  <2>3. sim' \in [Qubits -> Nodes] /\ regOf' \in [Qubits -> Qubits]
    BY <1>9, <2>2 DEF Cnot, TypeOK
  <2>4. QED
    BY <2>1, <2>3, LeaveType DEF TypeOK
<1>10. ASSUME NEW c \in Clients, SendRemotelySimulated(c) PROVE TypeOK'
  <2>1. Leave(c) /\ UNCHANGED qubitVars
    BY <1>10 DEF SendRemotelySimulated
  <2>2. QED
    BY <2>1, LeaveType DEF TypeOK, qubitVars
<1>11. ASSUME NEW c \in Clients, SendLocallySimulated(c) PROVE TypeOK'
  BY <1>11 DEF SendLocallySimulated, Goto, Stages, TypeOK, lockVars, qubitVars
<1>12. ASSUME NEW c \in Clients, AddQubit(c) PROVE TypeOK'
  <2>1. op[c].q \in Qubits
    BY DEF TypeOK, Operation
  <2>2. listed' \in [Nodes -> SUBSET Qubits]
    BY <1>12, <2>1 DEF AddQubit, TypeOK
  <2>3. QED
    BY <1>12, <2>2 DEF AddQubit, Goto, Stages, TypeOK, lockVars
<1>13. ASSUME NEW c \in Clients, HandOver(c) PROVE TypeOK'
  <2>1. Leave(c)
    BY <1>13 DEF HandOver
  <2>2. listed' \in [Nodes -> SUBSET Qubits] /\ UNCHANGED <<sim, regOf>>
    BY <1>13 DEF HandOver, TypeOK
  <2>3. QED
    BY <2>1, <2>2, LeaveType DEF TypeOK
<1>14. ASSUME NEW c \in Clients, Timeout(c) PROVE TypeOK'
  <2>1. timeouts' \in 0 .. MaxTimeouts
    BY <1>14, ConstantsAssumption DEF Timeout, TypeOK
  <2>2. orphans' \in [Nodes -> Nat]
    BY <1>14 DEF Timeout, TypeOK
  <2>3. QED
    BY <1>14, <2>1, <2>2 DEF Timeout, ReleaseAll, Goto, Stages, TypeOK, qubitVars
<1>15. ASSUME NEW n \in Nodes, AcquireOrphan(n) PROVE TypeOK'
  <2>1. orphans' \in [Nodes -> Nat]
    BY <1>15 DEF AcquireOrphan, TypeOK
  <2>2. QED
    BY <1>15, <2>1 DEF AcquireOrphan, TypeOK, controlVars, qubitVars
<1>16. CASE UNCHANGED vars
  BY <1>16 DEF vars, TypeOK
<1>17. QED
  BY <1>1, <1>2, <1>3, <1>4, <1>5, <1>6, <1>7, <1>8, <1>9, <1>10, <1>11,
     <1>12, <1>13, <1>14, <1>15, <1>16 DEF Next, Step

(* Every variable of the locking protocol keeps its type. *)
THEOREM LocksTypeCorrect == Spec => []TypeOK
BY InitTyped, NextTyped, PTL DEF Spec

-----------------------------------------------------------------------------
(* Registers move as a whole.                                              *)

(* A step of any other action than Cnot moves no qubit. *)
LEMMA OnlyCnotMoves ==
  ASSUME [Next]_vars, \A c \in Clients : ~Cnot(c)
  PROVE  sim' = sim /\ regOf' = regOf
<1>1. ASSUME NEW c \in Clients, NEW n \in Nodes, Acquire(c, n) \/ Release(c, n)
      PROVE  sim' = sim /\ regOf' = regOf
  BY <1>1 DEF Acquire, Release, qubitVars
<1>2. ASSUME NEW c \in Clients, NEW kind, NEW q, NEW r, NEW dest,
             Start(c, kind, q, r, dest)
      PROVE  sim' = sim /\ regOf' = regOf
  BY <1>2 DEF Start, qubitVars
<1>3. ASSUME NEW c \in Clients,
             \/ Check(c) \/ Retry(c) \/ Finish(c) \/ Gate(c) \/ Measure(c)
             \/ Timeout(c)
      PROVE  sim' = sim /\ regOf' = regOf
  BY <1>3 DEF Check, Retry, Finish, Gate, Measure, Timeout, qubitVars
<1>4. ASSUME NEW c \in Clients,
             \/ SendRemotelySimulated(c) \/ SendLocallySimulated(c)
             \/ AddQubit(c) \/ HandOver(c)
      PROVE  sim' = sim /\ regOf' = regOf
  BY <1>4 DEF SendRemotelySimulated, SendLocallySimulated, AddQubit, HandOver,
              qubitVars
<1>5. ASSUME NEW n \in Nodes, AcquireOrphan(n) PROVE sim' = sim /\ regOf' = regOf
  BY <1>5 DEF AcquireOrphan, qubitVars
<1>6. CASE UNCHANGED vars
  BY <1>6 DEF vars
<1>7. QED
  BY <1>1, <1>2, <1>3, <1>4, <1>5, <1>6 DEF Next, Step

(* What a two-qubit gate does to a qubit: it moves if it is in one of the two
   registers, which become one, and stays where it is otherwise. *)
LEMMA CnotMoves ==
  ASSUME TypeOK, NEW d \in Clients, Cnot(d)
  PROVE  \E place \in {At[d], sim[op[d].q]} : \A p \in Qubits :
           IF regOf[p] \in {regOf[op[d].q], regOf[op[d].r]}
           THEN sim'[p] = place /\ regOf'[p] = regOf[op[d].q]
           ELSE sim'[p] = sim[p] /\ regOf'[p] = regOf[p]
<1>1. PICK place \in {At[d], sim[op[d].q]} :
        place = IF sim[op[d].q] = sim[op[d].r] THEN sim[op[d].q] ELSE At[d]
  OBVIOUS
<1>2. \A p \in Qubits :
        IF regOf[p] \in {regOf[op[d].q], regOf[op[d].r]}
        THEN sim'[p] = place /\ regOf'[p] = regOf[op[d].q]
        ELSE sim'[p] = sim[p] /\ regOf'[p] = regOf[p]
  BY <1>1 DEF Cnot
<1>3. QED
  BY <1>2

LEMMA RegistersMoveWhole ==
  ASSUME TypeOK, RegisterInOnePlace, [Next]_vars
  PROVE  RegisterInOnePlace'
<1>1. CASE \A c \in Clients : ~Cnot(c)
  BY <1>1, OnlyCnotMoves DEF RegisterInOnePlace
<1>2. ASSUME NEW d \in Clients, Cnot(d) PROVE RegisterInOnePlace'
  <2>1. op[d].q \in Qubits /\ op[d].r \in Qubits
    BY DEF TypeOK, Operation
  <2>2. PICK place \in {At[d], sim[op[d].q]} : \A p \in Qubits :
           IF regOf[p] \in {regOf[op[d].q], regOf[op[d].r]}
           THEN sim'[p] = place /\ regOf'[p] = regOf[op[d].q]
           ELSE sim'[p] = sim[p] /\ regOf'[p] = regOf[p]
    BY <1>2, CnotMoves
  <2>3. SUFFICES ASSUME NEW p \in Qubits, NEW q \in Qubits, regOf'[p] = regOf'[q]
                 PROVE  sim'[p] = sim'[q]
    BY DEF RegisterInOnePlace
  <2>4. QED
    BY <2>1, <2>2, <2>3 DEF RegisterInOnePlace
<1>3. QED
  BY <1>1, <1>2

(* Qubits of one register are simulated at one node, with or without lock
   timeouts: a merge moves registers as a whole. *)
THEOREM RegistersStayTogether == Spec => []RegisterInOnePlace
<1>1. Init => RegisterInOnePlace
  BY DEF Init, RegisterInOnePlace
<1>2. TypeOK /\ RegisterInOnePlace /\ [Next]_vars => RegisterInOnePlace'
  BY RegistersMoveWhole
<1>3. QED
  BY <1>1, <1>2, LocksTypeCorrect, PTL DEF Spec

-----------------------------------------------------------------------------
(* The locks, as long as no request times out.                             *)

\* What is true of session c at each stage of its operation.
Phase(c) ==
  /\ op[c].kind # "cnot" => op[c].r = op[c].q
  /\ pc[c] = "idle" => holds[c] = {}
  /\ pc[c] = "acquiring" =>
       /\ holds[c] \subseteq need[c]
       /\ need[c] = LocksFor(c, op[c].kind, op[c].simQ, op[c].simR)
  /\ pc[c] = "critical" =>
       /\ op[c].kind # "send" => {sim[op[c].q], sim[op[c].r]} \subseteq holds[c]
       /\ op[c].kind \in {"cnot", "send"} => At[c] \in holds[c]
  /\ pc[c] = "delivering" =>
       /\ op[c].kind = "send"
       /\ sim[op[c].q] = At[c]
       /\ At[c] \in holds[c]
  /\ pc[c] = "releasing" => todo[c] = holds[c]

LockedIffHeld == \A n \in Nodes : locked[n] <=> \E c \in Clients : n \in holds[c]

\* The inductive invariant.
LocksConsistent ==
  /\ TypeOK
  /\ RegisterInOnePlace
  /\ Exclusive
  /\ LockedIffHeld
  /\ \A n \in Nodes : orphans[n] = 0
  /\ \A c \in Clients : Phase(c)

(* The lock of a node that simulates a qubit somebody works on is his. *)
LEMMA WorkerHolds ==
  ASSUME LocksConsistent, NEW c \in Clients, AtWork(c)
  PROVE  {sim[op[c].q], sim[op[c].r]} \subseteq holds[c]
BY DEF LocksConsistent, Phase, AtWork

(* A step of another session does not move the qubits of an operation at
   work: a two-qubit gate moves only qubits simulated at nodes it has locked. *)
LEMMA OthersStay ==
  ASSUME LocksConsistent, NEW c \in Clients, NEW d \in Clients, c # d, Cnot(d),
         AtWork(c)
  PROVE  sim'[op[c].q] = sim[op[c].q] /\ sim'[op[c].r] = sim[op[c].r]
<1>1. \A e \in Clients : op[e].q \in Qubits /\ op[e].r \in Qubits
  BY DEF LocksConsistent, TypeOK, Operation
<1>2. AtWork(d)
  BY DEF Cnot, AtWork
<1>3. /\ {sim[op[c].q], sim[op[c].r]} \subseteq holds[c]
      /\ {sim[op[d].q], sim[op[d].r]} \subseteq holds[d]
  BY <1>2, WorkerHolds
<1>4. ASSUME NEW p \in Qubits, sim[p] \in holds[c] PROVE sim'[p] = sim[p]
  <2>1. holds[c] \cap holds[d] = {}
    BY DEF LocksConsistent, Exclusive
  <2>2. regOf[p] \notin {regOf[op[d].q], regOf[op[d].r]}
    BY <1>1, <1>3, <1>4, <2>1 DEF LocksConsistent, RegisterInOnePlace
  <2>3. PICK place \in {At[d], sim[op[d].q]} : \A r \in Qubits :
           IF regOf[r] \in {regOf[op[d].q], regOf[op[d].r]}
           THEN sim'[r] = place /\ regOf'[r] = regOf[op[d].q]
           ELSE sim'[r] = sim[r] /\ regOf'[r] = regOf[r]
    BY CnotMoves DEF LocksConsistent
  <2>4. QED
    BY <2>2, <2>3
<1>5. QED
  BY <1>1, <1>3, <1>4

(* A session keeps its phase while another one takes a step. *)
LEMMA PhaseKept ==
  ASSUME NEW c \in Clients, Phase(c),
         pc'[c] = pc[c], op'[c] = op[c], holds'[c] = holds[c],
         need'[c] = need[c], todo'[c] = todo[c],
         AtWork(c) => sim'[op[c].q] = sim[op[c].q] /\ sim'[op[c].r] = sim[op[c].r]
  PROVE  Phase(c)'
<1>1. LocksFor(c, op'[c].kind, op'[c].simQ, op'[c].simR) =
        LocksFor(c, op[c].kind, op[c].simQ, op[c].simR)
  OBVIOUS
<1>2. QED
  BY <1>1 DEF Phase, AtWork

(* Granting, keeping and giving back locks leaves them exclusive. *)
LEMMA LocksTaken ==
  ASSUME TypeOK, Exclusive, LockedIffHeld, NEW c \in Clients, NEW n \in Nodes,
         Acquire(c, n)
  PROVE  Exclusive' /\ LockedIffHeld'
<1>1. ~locked[n]
  BY DEF Acquire
<1>2. \A d \in Clients : n \notin holds[d]
  BY <1>1 DEF LockedIffHeld
<1>3. /\ locked' = [locked EXCEPT ![n] = TRUE]
      /\ holds' = [holds EXCEPT ![c] = @ \cup {n}]
  BY DEF Acquire
<1>4. /\ holds'[c] = holds[c] \cup {n}
      /\ \A d \in Clients : d # c => holds'[d] = holds[d]
      /\ locked'[n] = TRUE
      /\ \A m \in Nodes : m # n => locked'[m] = locked[m]
  BY <1>3 DEF TypeOK
<1>5. Exclusive'
  BY <1>2, <1>4 DEF Exclusive
<1>6. LockedIffHeld'
  <2>1. ASSUME NEW m \in Nodes PROVE locked'[m] <=> \E d \in Clients : m \in holds'[d]
    <3>1. CASE m = n
      BY <3>1, <1>4
    <3>2. CASE m # n
      <4>1. locked'[m] = locked[m] /\ \A d \in Clients : m \in holds'[d] <=> m \in holds[d]
        BY <3>2, <1>4
      <4>2. QED
        BY <4>1 DEF LockedIffHeld
    <3>3. QED
      BY <3>1, <3>2
  <2>2. QED
    BY <2>1 DEF LockedIffHeld
<1>7. QED
  BY <1>5, <1>6

LEMMA LocksGivenBack ==
  ASSUME TypeOK, Exclusive, LockedIffHeld, NEW c \in Clients, NEW n \in holds[c],
         locked' = [locked EXCEPT ![n] = FALSE],
         holds' = [holds EXCEPT ![c] = @ \ {n}]
  PROVE  Exclusive' /\ LockedIffHeld'
<1>1. n \in Nodes
  BY DEF TypeOK
<1>2. /\ holds'[c] = holds[c] \ {n}
      /\ \A d \in Clients : d # c => holds'[d] = holds[d]
      /\ locked'[n] = FALSE
      /\ \A m \in Nodes : m # n => locked'[m] = locked[m]
  BY <1>1 DEF TypeOK
<1>3. \A d \in Clients : n \notin holds'[d]
  BY <1>2 DEF Exclusive
<1>4. Exclusive'
  BY <1>2 DEF Exclusive
<1>5. LockedIffHeld'
  <2>1. ASSUME NEW m \in Nodes PROVE locked'[m] <=> \E d \in Clients : m \in holds'[d]
    <3>1. CASE m = n
      BY <3>1, <1>2, <1>3
    <3>2. CASE m # n
      <4>1. locked'[m] = locked[m] /\ \A d \in Clients : m \in holds'[d] <=> m \in holds[d]
        BY <3>2, <1>2
      <4>2. QED
        BY <4>1 DEF LockedIffHeld
    <3>3. QED
      BY <3>1, <3>2
  <2>2. QED
    BY <2>1 DEF LockedIffHeld
<1>6. QED
  BY <1>4, <1>5

LEMMA LocksUntouched ==
  ASSUME Exclusive, LockedIffHeld, locked' = locked, holds' = holds
  PROVE  Exclusive' /\ LockedIffHeld'
BY DEF Exclusive, LockedIffHeld

(* The same with the session that takes the step and those that do not: what
   is left to show for an action that leaves the locks alone. *)
LEMMA QuietStep ==
  ASSUME LocksConsistent, [Next]_vars, NEW d \in Clients,
         locked' = locked, holds' = holds, orphans' = orphans,
         \A c \in Clients : c # d =>
            pc'[c] = pc[c] /\ op'[c] = op[c] /\ need'[c] = need[c] /\ todo'[c] = todo[c],
         \A c \in Clients : c # d /\ AtWork(c) =>
            sim'[op[c].q] = sim[op[c].q] /\ sim'[op[c].r] = sim[op[c].r],
         Phase(d)'
  PROVE  LocksConsistent'
<1>1. TypeOK' /\ RegisterInOnePlace'
  BY NextTyped, RegistersMoveWhole DEF LocksConsistent
<1>2. Exclusive' /\ LockedIffHeld'
  BY LocksUntouched DEF LocksConsistent
<1>3. ASSUME NEW c \in Clients PROVE Phase(c)'
  <2>1. CASE c = d
    BY <2>1
  <2>2. CASE c # d
    BY <2>2, PhaseKept DEF LocksConsistent
  <2>3. QED
    BY <2>1, <2>2
<1>4. QED
  BY <1>1, <1>2, <1>3 DEF LocksConsistent

(* A request asks for the locks of the nodes it has just noted. *)
LEMMA RequestPhase ==
  ASSUME TypeOK, NEW d \in Clients, NEW o \in Operation, Request(d, o),
         holds[d] = {}, UNCHANGED <<locked, holds>>, o.kind # "cnot" => o.r = o.q
  PROVE  /\ Phase(d)'
         /\ \A c \in Clients : c # d =>
              pc'[c] = pc[c] /\ op'[c] = op[c] /\ need'[c] = need[c]
<1>1. /\ op'[d] = [o EXCEPT !.simQ = sim[o.q], !.simR = sim[o.r]]
      /\ need'[d] = LocksFor(d, o.kind, sim[o.q], sim[o.r])
      /\ pc'[d] = "acquiring"
      /\ holds'[d] = {}
  BY DEF Request, Goto, TypeOK
<1>2. /\ op'[d].kind = o.kind /\ op'[d].q = o.q /\ op'[d].r = o.r
      /\ op'[d].simQ = sim[o.q] /\ op'[d].simR = sim[o.r]
  BY <1>1 DEF Operation
<1>3. need'[d] = LocksFor(d, op'[d].kind, op'[d].simQ, op'[d].simR)
  BY <1>1, <1>2
<1>4. Phase(d)'
  BY <1>1, <1>2, <1>3 DEF Phase
<1>5. QED
  BY <1>4 DEF Request, Goto, TypeOK

(* At the end of a critical section everything held is to be released. *)
LEMMA LeavePhase ==
  ASSUME LocksConsistent, NEW d \in Clients, Leave(d)
  PROVE  /\ Phase(d)'
         /\ \A c \in Clients : c # d =>
              pc'[c] = pc[c] /\ op'[c] = op[c] /\ need'[c] = need[c] /\ todo'[c] = todo[c]
<1>1. /\ pc'[d] = "releasing" /\ todo'[d] = holds[d] /\ holds'[d] = holds[d]
      /\ op'[d] = op[d]
  BY DEF Leave, ReleaseAll, Goto, LocksConsistent, TypeOK
<1>2. op'[d].kind = op[d].kind /\ op'[d].q = op[d].q /\ op'[d].r = op[d].r
  BY <1>1 DEF LocksConsistent, TypeOK, Operation
<1>3. Phase(d)'
  BY <1>1, <1>2 DEF Phase, LocksConsistent
<1>4. QED
  BY <1>3 DEF Leave, ReleaseAll, Goto, LocksConsistent, TypeOK

LEMMA NextLocks ==
  ASSUME MaxTimeouts = 0, LocksConsistent, [Next]_vars
  PROVE  LocksConsistent'
<1>1. TypeOK' /\ RegisterInOnePlace'
  BY NextTyped, RegistersMoveWhole DEF LocksConsistent
<1>2. TypeOK /\ Exclusive /\ LockedIffHeld /\ \A c \in Clients : Phase(c)
  BY DEF LocksConsistent
<1>3. ASSUME NEW d \in Clients, NEW kind \in Kinds[d], NEW q \in Qubits,
             NEW r \in Qubits, NEW dest \in Nodes, Start(d, kind, q, r, dest)
      PROVE  LocksConsistent'
  <2>1. PICK o : o = [op[d] EXCEPT !.kind = kind, !.q = q, !.r = r, !.dest = dest]
    OBVIOUS
  <2>2. kind \in AllKinds /\ op[d] \in Operation
    BY <1>2, ConstantsAssumption DEF TypeOK
  <2>3. o \in Operation
    BY <2>1, <2>2, ZenonT(30) DEF Operation
  <2>4. o.kind = kind /\ o.q = q /\ o.r = r
    BY <2>1, <2>2 DEF Operation
  <2>5. Request(d, o)
    BY <1>3, <2>1 DEF Start
  <2>6. /\ holds[d] = {} /\ (kind # "cnot" => r = q)
        /\ UNCHANGED <<locked, holds, todo, orphans, sim, regOf>>
    BY <1>2, <1>3 DEF Start, Phase, qubitVars
  <2>7. /\ Phase(d)'
        /\ \A c \in Clients : c # d =>
             pc'[c] = pc[c] /\ op'[c] = op[c] /\ need'[c] = need[c]
    BY <1>2, <2>3, <2>4, <2>5, <2>6, RequestPhase
  <2>8. QED
    BY <2>6, <2>7, QuietStep
<1>4. ASSUME NEW d \in Clients, NEW n \in Nodes, Acquire(d, n)
      PROVE  LocksConsistent'
  <2>1. Exclusive' /\ LockedIffHeld'
    BY <1>2, <1>4, LocksTaken
  <2>2. /\ UNCHANGED <<need, todo, orphans, pc, op, sim, regOf>>
        /\ pc[d] = "acquiring" /\ n \in need[d]
        /\ holds'[d] = holds[d] \cup {n}
        /\ \A c \in Clients : c # d => holds'[c] = holds[c]
    BY <1>2, <1>4 DEF Acquire, controlVars, qubitVars, TypeOK
  <2>3. Phase(d)'
    BY <1>2, <2>2 DEF Phase
  <2>4. ASSUME NEW c \in Clients, c # d PROVE Phase(c)'
    BY <1>2, <2>2, <2>4, PhaseKept
  <2>5. QED
    BY <1>1, <2>1, <2>2, <2>3, <2>4 DEF LocksConsistent
<1>5. ASSUME NEW d \in Clients, NEW n \in Nodes, Release(d, n)
      PROVE  LocksConsistent'
  <2>1. /\ n \in holds[d] /\ todo[d] = holds[d] /\ pc[d] = "releasing"
        /\ locked' = [locked EXCEPT ![n] = FALSE]
        /\ holds' = [holds EXCEPT ![d] = @ \ {n}]
    BY <1>2, <1>5 DEF Release, Phase
  <2>2. Exclusive' /\ LockedIffHeld'
    BY <1>2, <2>1, LocksGivenBack
  <2>3. /\ UNCHANGED <<need, orphans, pc, op, sim, regOf>>
        /\ holds'[d] = holds[d] \ {n} /\ todo'[d] = todo[d] \ {n}
        /\ \A c \in Clients : c # d => holds'[c] = holds[c] /\ todo'[c] = todo[c]
    BY <1>2, <1>5 DEF Release, controlVars, qubitVars, TypeOK
  <2>4. Phase(d)'
    BY <1>2, <2>1, <2>3 DEF Phase
  <2>5. ASSUME NEW c \in Clients, c # d PROVE Phase(c)'
    BY <1>2, <2>3, <2>5, PhaseKept
  <2>6. QED
    BY <1>1, <2>2, <2>3, <2>4, <2>5 DEF LocksConsistent
<1>6. ASSUME NEW d \in Clients, Check(d) PROVE LocksConsistent'
  <2>1. /\ holds[d] = need[d] /\ pc[d] = "acquiring"
        /\ need[d] = LocksFor(d, op[d].kind, op[d].simQ, op[d].simR)
        /\ UNCHANGED <<locked, holds, orphans, op, sim, regOf>>
    BY <1>2, <1>6 DEF Check, Phase, qubitVars
  <2>2. /\ \A c \in Clients : c # d =>
             pc'[c] = pc[c] /\ op'[c] = op[c] /\ need'[c] = need[c] /\ todo'[c] = todo[c]
    BY <1>2, <1>6 DEF Check, ReleaseAll, Goto, TypeOK
  <2>3. Phase(d)'
    <3>1. CASE Moved(d)
      <4>1. pc'[d] = "releasing" /\ todo'[d] = need[d]
        BY <1>2, <1>6, <3>1 DEF Check, ReleaseAll, Goto, TypeOK
      <4>2. QED
        BY <1>2, <2>1, <4>1 DEF Phase
    <3>2. CASE ~Moved(d)
      <4>1. pc'[d] = "critical"
        BY <1>2, <1>6, <3>2 DEF Check, Goto, TypeOK
      <4>2. op[d].kind # "cnot" => op[d].r = op[d].q
        BY <1>2 DEF Phase
      <4>3. op[d].kind \in AllKinds
        BY <1>2 DEF TypeOK, Operation
      <4>4. op[d].kind # "send" => {sim[op[d].q], sim[op[d].r]} \subseteq holds[d]
        BY <2>1, <3>2, <4>2, <4>3 DEF Moved, LocksFor, AllKinds
      <4>5. op[d].kind \in {"cnot", "send"} => At[d] \in holds[d]
        BY <2>1 DEF LocksFor
      <4>6. QED
        BY <2>1, <4>1, <4>2, <4>4, <4>5 DEF Phase
    <3>3. QED
      BY <3>1, <3>2
  <2>4. QED
    BY <2>1, <2>2, <2>3, QuietStep
<1>7. ASSUME NEW d \in Clients, Retry(d) PROVE LocksConsistent'
  <2>1. /\ op[d] \in Operation /\ Request(d, op[d]) /\ holds[d] = {}
        /\ (op[d].kind # "cnot" => op[d].r = op[d].q)
        /\ UNCHANGED <<locked, holds, todo, orphans, sim, regOf>>
    BY <1>2, <1>7 DEF Retry, Phase, TypeOK, qubitVars
  <2>2. /\ Phase(d)'
        /\ \A c \in Clients : c # d =>
             pc'[c] = pc[c] /\ op'[c] = op[c] /\ need'[c] = need[c]
    BY <1>2, <2>1, RequestPhase
  <2>3. QED
    BY <2>1, <2>2, QuietStep
<1>8. ASSUME NEW d \in Clients, Finish(d) PROVE LocksConsistent'
  <2>1. /\ pc[d] = "releasing" /\ pc'[d] = "idle" /\ todo[d] = {}
        /\ \A c \in Clients : c # d => pc'[c] = pc[c]
        /\ UNCHANGED <<locked, holds, need, todo, orphans, op, sim, regOf>>
    BY <1>2, <1>8 DEF Finish, Goto, lockVars, qubitVars, TypeOK
  <2>2. Phase(d)'
    BY <1>2, <2>1 DEF Phase
  <2>3. QED
    BY <2>1, <2>2, QuietStep
<1>9. ASSUME NEW d \in Clients, Leave(d), UNCHANGED <<sim, regOf>>
      PROVE  LocksConsistent'
  <2>1. /\ Phase(d)'
        /\ \A c \in Clients : c # d =>
             pc'[c] = pc[c] /\ op'[c] = op[c] /\ need'[c] = need[c] /\ todo'[c] = todo[c]
    BY <1>9, LeavePhase
  <2>2. UNCHANGED <<locked, holds, orphans>>
    BY <1>9 DEF Leave
  <2>3. QED
    BY <1>9, <2>1, <2>2, QuietStep
<1>10. ASSUME NEW d \in Clients,
              Gate(d) \/ Measure(d) \/ SendRemotelySimulated(d) \/ HandOver(d)
       PROVE  LocksConsistent'
  <2>1. UNCHANGED <<sim, regOf>>
    BY <1>10 DEF Gate, Measure, SendRemotelySimulated, HandOver, qubitVars
  <2>2. Leave(d)
    BY <1>10, Zenon DEF Gate, Measure, SendRemotelySimulated, HandOver
  <2>3. QED
    BY <1>9, <2>1, <2>2
<1>11. ASSUME NEW d \in Clients, Cnot(d) PROVE LocksConsistent'
  <2>1. Leave(d)
    BY <1>11 DEF Cnot
  <2>2. /\ Phase(d)'
        /\ \A c \in Clients : c # d =>
             pc'[c] = pc[c] /\ op'[c] = op[c] /\ need'[c] = need[c] /\ todo'[c] = todo[c]
    BY <2>1, LeavePhase
  <2>3. UNCHANGED <<locked, holds, orphans>>
    BY <2>1 DEF Leave
  <2>4. \A c \in Clients : c # d /\ AtWork(c) =>
            sim'[op[c].q] = sim[op[c].q] /\ sim'[op[c].r] = sim[op[c].r]
    BY <1>11, OthersStay
  <2>5. QED
    BY <2>2, <2>3, <2>4, QuietStep
<1>12. ASSUME NEW d \in Clients, SendLocallySimulated(d) PROVE LocksConsistent'
  <2>1. /\ pc[d] = "critical" /\ pc'[d] = "delivering" /\ op[d].kind = "send"
        /\ sim[op[d].q] = At[d]
        /\ \A c \in Clients : c # d => pc'[c] = pc[c]
        /\ UNCHANGED <<locked, holds, need, todo, orphans, op, sim, regOf>>
    BY <1>2, <1>12 DEF SendLocallySimulated, Goto, lockVars, qubitVars, TypeOK
  <2>2. Phase(d)'
    BY <1>2, <2>1 DEF Phase
  <2>3. QED
    BY <2>1, <2>2, QuietStep
<1>13. ASSUME NEW d \in Clients, AddQubit(d) PROVE LocksConsistent'
  <2>1. /\ pc'[d] = "delivered"
        /\ \A c \in Clients : c # d => pc'[c] = pc[c]
        /\ UNCHANGED <<locked, holds, need, todo, orphans, op, sim, regOf>>
    BY <1>2, <1>13 DEF AddQubit, Goto, lockVars, TypeOK
  <2>2. Phase(d)'
    BY <1>2, <2>1 DEF Phase
  <2>3. QED
    BY <2>1, <2>2, QuietStep
<1>14. \A d \in Clients : ~Timeout(d)
  BY <1>2 DEF Timeout, TypeOK
<1>15. \A n \in Nodes : ~AcquireOrphan(n)
  BY DEF AcquireOrphan, LocksConsistent
<1>16. CASE UNCHANGED vars
  <2>1. UNCHANGED <<locked, holds, need, todo, orphans, pc, op, sim, regOf>>
    BY <1>16 DEF vars
  <2>2. ASSUME NEW c \in Clients PROVE Phase(c)'
    BY <1>2, <2>1, PhaseKept
  <2>3. QED
    BY <1>1, <1>2, <2>1, <2>2, LocksUntouched DEF LocksConsistent
<1>17. QED
  BY <1>3, <1>4, <1>5, <1>6, <1>7, <1>8, <1>10, <1>11, <1>12, <1>13, <1>14,
     <1>15, <1>16 DEF Next, Step

LEMMA InitLocks == Init => LocksConsistent
<1> SUFFICES ASSUME Init PROVE LocksConsistent
  OBVIOUS
<1>1. TypeOK /\ RegisterInOnePlace
  BY InitTyped DEF Init, RegisterInOnePlace
<1>2. Exclusive /\ LockedIffHeld /\ \A n \in Nodes : orphans[n] = 0
  BY DEF Init, Exclusive, LockedIffHeld
<1>3. ASSUME NEW c \in Clients PROVE Phase(c)
  <2>1. op[c].r = op[c].q
    <3>1. PICK q : q = CHOOSE p \in Qubits : TRUE
      OBVIOUS
    <3>2. op[c] = [kind |-> "gate", q |-> q, r |-> q, dest |-> At[c],
                   simQ |-> At[c], simR |-> At[c]]
      BY <3>1, Zenon DEF Init
    <3>3. QED
      BY <3>2
  <2>2. pc[c] = "idle" /\ holds[c] = {}
    BY DEF Init
  <2>3. QED
    BY <2>1, <2>2 DEF Phase
<1>4. QED
  BY <1>1, <1>2, <1>3 DEF LocksConsistent

(* The inductive invariant holds as long as no lock request times out. *)
LEMMA AlwaysLocksConsistent ==
  ASSUME MaxTimeouts = 0
  PROVE  Spec => []LocksConsistent
<1>1. LocksConsistent /\ [Next]_vars => LocksConsistent'
  BY NextLocks
<1>2. QED
  BY <1>1, InitLocks, PTL DEF Spec

(* Without timeouts a node's global lock is held by one operation at a time. *)
THEOREM LocksExclude ==
  ASSUME MaxTimeouts = 0
  PROVE  Spec => []Exclusive
<1>1. LocksConsistent => Exclusive
  BY DEF LocksConsistent
<1>2. QED
  BY <1>1, AlwaysLocksConsistent, PTL

(* Without timeouts a lock that is taken is held by an operation under way,
   whatever fails or is refused on its way: none stays taken for ever. *)
THEOREM NoLockForgotten ==
  ASSUME MaxTimeouts = 0
  PROVE  Spec => []NoLostLock
<1>1. LocksConsistent => NoLostLock
  <2> SUFFICES ASSUME LocksConsistent PROVE NoLostLock
    OBVIOUS
  <2>1. \A c \in Clients, n \in Nodes : n \in holds[c] => pc[c] # "idle"
    BY DEF LocksConsistent, Phase
  <2>2. QED
    BY <2>1 DEF LocksConsistent, LockedIffHeld, NoLostLock, HeldByWorker
<1>2. QED
  BY <1>1, AlwaysLocksConsistent, PTL

(* Without timeouts an operation at work holds the locks of the nodes that
   simulate its qubits now, however merges have moved them while it waited. *)
THEOREM WorkersHoldTheLock ==
  ASSUME MaxTimeouts = 0
  PROVE  Spec => []SimulatorLocked
<1>1. LocksConsistent => SimulatorLocked
  BY DEF LocksConsistent, Phase, SimulatorLocked
<1>2. QED
  BY <1>1, AlwaysLocksConsistent, PTL

(* Without timeouts nobody moves a qubit to another simulating node while an
   operation is at work on it. *)
THEOREM WorkersUndisturbed ==
  ASSUME MaxTimeouts = 0
  PROVE  Spec => NotMovedUnderneath
<1>1. ASSUME LocksConsistent, [Next]_vars, NEW c \in Clients, AtWork(c),
             pc'[c] = pc[c]
      PROVE  sim'[op[c].q] = sim[op[c].q] /\ sim'[op[c].r] = sim[op[c].r]
  <2>1. CASE \A d \in Clients : ~Cnot(d)
    BY <1>1, <2>1, OnlyCnotMoves
  <2>2. ASSUME NEW d \in Clients, Cnot(d)
        PROVE  sim'[op[c].q] = sim[op[c].q] /\ sim'[op[c].r] = sim[op[c].r]
    <3>1. pc[d] = "critical" /\ pc'[d] = "releasing"
      BY <1>1, <2>2 DEF Cnot, Leave, ReleaseAll, Goto, LocksConsistent, TypeOK
    <3>2. c # d
      BY <1>1, <3>1
    <3>3. QED
      BY <1>1, <2>2, <3>2, OthersStay
  <2>3. QED
    BY <2>1, <2>2
<1>2. LocksConsistent /\ [Next]_vars =>
        [\A c \in Clients : AtWork(c) /\ pc'[c] = pc[c] =>
           /\ sim'[op[c].q] = sim[op[c].q]
           /\ sim'[op[c].r] = sim[op[c].r]]_vars
  BY <1>1
<1>3. QED
  BY <1>2, AlwaysLocksConsistent, PTL DEF NotMovedUnderneath, Spec

-----------------------------------------------------------------------------
(* Qubits on the way.                                                      *)

\* What is true of a qubit that session c sends: until it is struck from the
\* list of the sender it stays simulated there, under the sender's lock.
Travel(c) ==
  /\ op[c].kind = "send" => op[c].dest # At[c]
  /\ pc[c] # "idle" => started[c] = MaxOps
  /\ pc[c] = "delivered" =>
       /\ op[c].kind = "send"
       /\ sim[op[c].q] = At[c]
       /\ At[c] \in holds[c]
       /\ op[c].q \in listed[op[c].dest]

\* Session c has measured qubit q and will ask for nothing any more.
MeasuredForGood(c, q) ==
  /\ op[c].kind = "measure"
  /\ op[c].q = q
  /\ started[c] = MaxOps
  /\ pc[c] = "idle" \/ (pc[c] = "releasing" /\ ~again[c])

Accounted(q) ==
  \/ \E n \in Nodes : q \in listed[n]
  \/ \E c \in Clients : MeasuredForGood(c, q)

\* The inductive invariant, in addition to LocksConsistent.
NothingDropped ==
  /\ \A c \in Clients : Travel(c)
  /\ \A q \in Qubits : Accounted(q)

(* A step of a session changes nothing of the others. *)
LEMMA OthersUntouched ==
  ASSUME TypeOK, NEW c \in Clients, NEW d \in Clients, c # d,
         \/ \E kind \in Kinds[d], q, r \in Qubits, dest \in Nodes :
              Start(d, kind, q, r, dest)
         \/ Step(d)
  PROVE  /\ pc'[c] = pc[c] /\ op'[c] = op[c] /\ holds'[c] = holds[c]
         /\ started'[c] = started[c] /\ again'[c] = again[c]
<1>1. ASSUME NEW kind \in Kinds[d], NEW q \in Qubits, NEW r \in Qubits,
             NEW dest \in Nodes, Start(d, kind, q, r, dest)
      PROVE  /\ pc'[c] = pc[c] /\ op'[c] = op[c] /\ holds'[c] = holds[c]
             /\ started'[c] = started[c] /\ again'[c] = again[c]
  BY <1>1 DEF Start, Request, Goto, TypeOK
<1>2. ASSUME NEW n \in Nodes, Acquire(d, n) \/ Release(d, n)
      PROVE  /\ pc'[c] = pc[c] /\ op'[c] = op[c] /\ holds'[c] = holds[c]
             /\ started'[c] = started[c] /\ again'[c] = again[c]
  BY <1>2 DEF Acquire, Release, TypeOK, controlVars
<1>3. ASSUME Check(d)
      PROVE  /\ pc'[c] = pc[c] /\ op'[c] = op[c] /\ holds'[c] = holds[c]
             /\ started'[c] = started[c] /\ again'[c] = again[c]
  BY <1>3 DEF Check, ReleaseAll, Goto, TypeOK
<1>4. ASSUME Retry(d) \/ Finish(d)
      PROVE  /\ pc'[c] = pc[c] /\ op'[c] = op[c] /\ holds'[c] = holds[c]
             /\ started'[c] = started[c] /\ again'[c] = again[c]
  BY <1>4 DEF Retry, Finish, Request, Goto, TypeOK, lockVars
<1>5. ASSUME Leave(d)
      PROVE  /\ pc'[c] = pc[c] /\ op'[c] = op[c] /\ holds'[c] = holds[c]
             /\ started'[c] = started[c] /\ again'[c] = again[c]
  BY <1>5 DEF Leave, ReleaseAll, Goto, TypeOK
<1>6. ASSUME Gate(d) \/ Measure(d) \/ Cnot(d) \/ SendRemotelySimulated(d) \/ HandOver(d)
      PROVE  Leave(d)
  BY <1>6, Zenon DEF Gate, Measure, Cnot, SendRemotelySimulated, HandOver
<1>7. ASSUME SendLocallySimulated(d) \/ AddQubit(d)
      PROVE  /\ pc'[c] = pc[c] /\ op'[c] = op[c] /\ holds'[c] = holds[c]
             /\ started'[c] = started[c] /\ again'[c] = again[c]
  BY <1>7 DEF SendLocallySimulated, AddQubit, Goto, TypeOK, lockVars
<1>8. QED
  BY <1>1, <1>2, <1>3, <1>4, <1>5, <1>6, <1>7 DEF Step

(* Only a measurement or the end of a transfer takes a qubit from a list. *)
LEMMA OnlyTheseRemove ==
  ASSUME TypeOK, [Next]_vars, NEW n \in Nodes, NEW q \in listed[n],
         \A d \in Clients : Measure(d) \/ HandOver(d) => op[d].q # q
  PROVE  q \in listed'[n]
<1>1. ASSUME NEW d \in Clients, NEW kind \in Kinds[d], NEW p \in Qubits,
             NEW r \in Qubits, NEW dest \in Nodes, Start(d, kind, p, r, dest)
      PROVE  listed' = listed
  BY <1>1 DEF Start, qubitVars
<1>2. ASSUME NEW d \in Clients, NEW m \in Nodes, Acquire(d, m) \/ Release(d, m)
      PROVE  listed' = listed
  BY <1>2 DEF Acquire, Release, qubitVars
<1>3. ASSUME NEW d \in Clients,
             \/ Check(d) \/ Retry(d) \/ Finish(d) \/ Gate(d) \/ Cnot(d)
             \/ Timeout(d) \/ SendRemotelySimulated(d) \/ SendLocallySimulated(d)
      PROVE  listed' = listed
  BY <1>3 DEF Check, Retry, Finish, Gate, Cnot, Timeout,
              SendRemotelySimulated, SendLocallySimulated, qubitVars
<1>4. ASSUME NEW d \in Clients, AddQubit(d) PROVE q \in listed'[n]
  BY <1>4 DEF AddQubit, TypeOK
<1>5. ASSUME NEW d \in Clients, Measure(d) \/ HandOver(d) PROVE q \in listed'[n]
  BY <1>5 DEF Measure, HandOver, TypeOK
<1>6. ASSUME NEW m \in Nodes, AcquireOrphan(m) PROVE listed' = listed
  BY <1>6 DEF AcquireOrphan, qubitVars
<1>7. CASE UNCHANGED vars
  BY <1>7 DEF vars
<1>8. QED
  BY <1>1, <1>2, <1>3, <1>4, <1>5, <1>6, <1>7 DEF Next, Step

(* Nobody else works on a qubit that has arrived and is not struck from the
   sender's list yet: its simulation is behind the sender's lock. *)
LEMMA OnTheWayAlone ==
  ASSUME LocksConsistent, NothingDropped, NEW c \in Clients, NEW d \in Clients,
         c # d, pc[c] = "delivered"
  PROVE  /\ Measure(d) \/ HandOver(d) => op[d].q # op[c].q
         /\ Cnot(d) => sim'[op[c].q] = sim[op[c].q]
<1>1. sim[op[c].q] \in holds[c] /\ op[c].q \in Qubits
  BY DEF NothingDropped, Travel, LocksConsistent, TypeOK, Operation
<1>2. sim[op[c].q] \notin holds[d]
  BY <1>1 DEF LocksConsistent, Exclusive
<1>3. ASSUME HandOver(d) PROVE op[d].q # op[c].q
  BY <1>2, <1>3 DEF HandOver, NothingDropped, Travel
<1>4. ASSUME Measure(d) PROVE op[d].q # op[c].q
  <2>1. AtWork(d)
    BY <1>4 DEF Measure, AtWork
  <2>2. QED
    BY <1>2, <2>1, WorkerHolds
<1>5. ASSUME Cnot(d) PROVE sim'[op[c].q] = sim[op[c].q]
  <2>1. AtWork(d) /\ op[d].q \in Qubits /\ op[d].r \in Qubits
    BY <1>5 DEF Cnot, AtWork, LocksConsistent, TypeOK, Operation
  <2>2. regOf[op[c].q] \notin {regOf[op[d].q], regOf[op[d].r]}
    BY <1>1, <1>2, <2>1, WorkerHolds DEF LocksConsistent, RegisterInOnePlace
  <2>3. PICK place \in {At[d], sim[op[d].q]} : \A r \in Qubits :
           IF regOf[r] \in {regOf[op[d].q], regOf[op[d].r]}
           THEN sim'[r] = place /\ regOf'[r] = regOf[op[d].q]
           ELSE sim'[r] = sim[r] /\ regOf'[r] = regOf[r]
    BY <1>5, CnotMoves DEF LocksConsistent
  <2>4. QED
    BY <1>1, <2>2, <2>3
<1>6. QED
  BY <1>3, <1>4, <1>5

(* A transfer survives the steps of the other sessions. *)
LEMMA TravelOfOthers ==
  ASSUME LocksConsistent, NothingDropped, [Next]_vars,
         NEW c \in Clients,
         pc'[c] = pc[c], op'[c] = op[c], holds'[c] = holds[c], started'[c] = started[c]
  PROVE  Travel(c)'
<1>1. Travel(c)
  BY DEF NothingDropped
<1>2. ASSUME pc[c] = "delivered"
      PROVE  sim'[op[c].q] = sim[op[c].q] /\ op[c].q \in listed'[op[c].dest]
  <2>1. /\ op[c].q \in listed[op[c].dest]
        /\ op[c].dest \in Nodes
    BY <1>1, <1>2 DEF Travel, LocksConsistent, TypeOK, Operation
  <2>2. \A d \in Clients :
          /\ Measure(d) \/ HandOver(d) => op[d].q # op[c].q
          /\ Cnot(d) => sim'[op[c].q] = sim[op[c].q]
    <3>1. ~Measure(c) /\ ~Cnot(c)
      BY <1>2 DEF Measure, Cnot
    <3>2. ~HandOver(c)
      BY <1>2 DEF HandOver, Leave, ReleaseAll, Goto, LocksConsistent, TypeOK
    <3>3. QED
      BY <1>2, <3>1, <3>2, OnTheWayAlone
  <2>3. op[c].q \in listed'[op[c].dest]
    BY <2>1, <2>2, OnlyTheseRemove DEF LocksConsistent
  <2>4. sim'[op[c].q] = sim[op[c].q]
    BY <2>2, OnlyCnotMoves
  <2>5. QED
    BY <2>3, <2>4
<1>3. QED
  BY <1>1, <1>2 DEF Travel

(* And it survives the steps of its own session. *)
LEMMA TravelOfItsOwn ==
  ASSUME MaxOps \in {0, 1}, LocksConsistent, NothingDropped, NEW d \in Clients,
         \/ \E kind \in Kinds[d], q, r \in Qubits, dest \in Nodes :
              Start(d, kind, q, r, dest)
         \/ Step(d)
  PROVE  Travel(d)'
<1> USE DEF LocksConsistent, NothingDropped
<1>0. op[d] \in Operation /\ started[d] \in 0 .. MaxOps
  BY DEF TypeOK
<1>1. ASSUME NEW kind \in Kinds[d], NEW q \in Qubits, NEW r \in Qubits,
             NEW dest \in Nodes, Start(d, kind, q, r, dest)
      PROVE  Travel(d)'
  <2>1. PICK o : o = [op[d] EXCEPT !.kind = kind, !.q = q, !.r = r, !.dest = dest]
    OBVIOUS
  <2>2. o.kind = kind /\ o.dest = dest
    BY <1>0, <2>1 DEF Operation
  <2>3. op'[d] = [o EXCEPT !.simQ = sim[o.q], !.simR = sim[o.r]]
    BY <1>1, <2>1 DEF Start, Request, TypeOK
  <2>4. op'[d].kind = kind /\ op'[d].dest = dest
    <3>1. kind \in AllKinds
      BY ConstantsAssumption
    <3>2. o \in Operation
      BY <1>0, <2>1, <3>1, ZenonT(30) DEF Operation
    <3>3. QED
      BY <2>2, <2>3, <3>2 DEF Operation
  <2>5. pc'[d] = "acquiring" /\ started'[d] = started[d] + 1 /\ started[d] < MaxOps
    BY <1>1 DEF Start, Request, Goto, TypeOK
  <2>6. started'[d] = MaxOps
    BY <1>0, <2>5
  <2>7. QED
    BY <1>1, <2>4, <2>5, <2>6 DEF Start, Travel
<1>2. ASSUME NEW n \in Nodes, Acquire(d, n) \/ Release(d, n) PROVE Travel(d)'
  <2>1. /\ pc'[d] = pc[d] /\ pc[d] \in {"acquiring", "releasing"}
        /\ op'[d] = op[d] /\ started'[d] = started[d]
    BY <1>2 DEF Acquire, Release, controlVars
  <2>2. QED
    BY <2>1 DEF Travel
<1>3. ASSUME Check(d) PROVE Travel(d)'
  <2>1. /\ pc[d] = "acquiring" /\ pc'[d] \in {"releasing", "critical"}
        /\ op'[d] = op[d] /\ started'[d] = started[d]
    BY <1>3 DEF Check, ReleaseAll, Goto, TypeOK
  <2>2. QED
    BY <2>1 DEF Travel
<1>4. ASSUME Retry(d) PROVE Travel(d)'
  <2>1. op'[d] = [op[d] EXCEPT !.simQ = sim[op[d].q], !.simR = sim[op[d].r]]
    BY <1>4 DEF Retry, Request, TypeOK
  <2>2. op'[d].kind = op[d].kind /\ op'[d].dest = op[d].dest
    BY <1>0, <2>1 DEF Operation
  <2>3. pc[d] = "releasing" /\ pc'[d] = "acquiring" /\ started'[d] = started[d]
    BY <1>4 DEF Retry, Request, Goto, TypeOK
  <2>4. QED
    BY <2>2, <2>3 DEF Travel
<1>5. ASSUME Finish(d) PROVE Travel(d)'
  <2>1. pc'[d] = "idle" /\ op'[d] = op[d]
    BY <1>5 DEF Finish, Goto, TypeOK
  <2>2. QED
    BY <2>1 DEF Travel
<1>6. ASSUME Leave(d), pc[d] # "idle" PROVE Travel(d)'
  <2>1. pc'[d] = "releasing" /\ op'[d] = op[d] /\ started'[d] = started[d]
    BY <1>6 DEF Leave, ReleaseAll, Goto, TypeOK
  <2>2. QED
    BY <1>6, <2>1 DEF Travel
<1>7. ASSUME Gate(d) \/ Measure(d) \/ Cnot(d) \/ SendRemotelySimulated(d) \/ HandOver(d)
      PROVE  Leave(d) /\ pc[d] # "idle"
  BY <1>7, Zenon DEF Gate, Measure, Cnot, SendRemotelySimulated, HandOver
<1>8. ASSUME SendLocallySimulated(d) PROVE Travel(d)'
  <2>1. /\ pc[d] = "critical" /\ pc'[d] = "delivering" /\ op'[d] = op[d]
        /\ started'[d] = started[d]
    BY <1>8 DEF SendLocallySimulated, Goto, TypeOK
  <2>2. QED
    BY <2>1 DEF Travel
<1>9. ASSUME AddQubit(d) PROVE Travel(d)'
  <2>1. /\ pc[d] = "delivering" /\ pc'[d] = "delivered" /\ op'[d] = op[d]
        /\ started'[d] = started[d] /\ holds'[d] = holds[d] /\ sim' = sim
        /\ op[d].dest \in Nodes
        /\ listed'[op[d].dest] = listed[op[d].dest] \cup {op[d].q}
    BY <1>0, <1>9 DEF AddQubit, Goto, TypeOK, lockVars, Operation
  <2>2. op[d].kind = "send" /\ sim[op[d].q] = At[d] /\ At[d] \in holds[d]
    BY <2>1 DEF Phase
  <2>3. QED
    BY <2>1, <2>2 DEF Travel
<1>10. QED
  BY <1>1, <1>2, <1>3, <1>4, <1>5, <1>6, <1>7, <1>8, <1>9 DEF Step

(* Who has measured a qubit for good does not do anything else. *)
LEMMA MeasuredStays ==
  ASSUME LocksConsistent, NEW c \in Clients, NEW d \in Clients, NEW q,
         MeasuredForGood(c, q),
         \/ \E kind \in Kinds[d], p, r \in Qubits, dest \in Nodes :
              Start(d, kind, p, r, dest)
         \/ Step(d)
  PROVE  MeasuredForGood(c, q)'
<1>1. CASE c # d
  BY <1>1, OthersUntouched DEF LocksConsistent, MeasuredForGood
<1>2. CASE c = d
  <2>0. started[c] \in 0 .. MaxOps /\ MaxOps \in Nat
    BY ConstantsAssumption DEF LocksConsistent, TypeOK
  <2>1. ASSUME NEW kind \in Kinds[d], NEW p \in Qubits, NEW r \in Qubits,
               NEW dest \in Nodes
        PROVE  ~Start(d, kind, p, r, dest)
    <3>1. ~(started[d] < MaxOps)
      BY <1>2, <2>0 DEF MeasuredForGood
    <3>2. QED
      BY <3>1 DEF Start
  <2>2. /\ \A n \in Nodes : ~Acquire(d, n)
        /\ ~Check(d) /\ ~Retry(d) /\ ~Gate(d) /\ ~Measure(d) /\ ~Cnot(d)
        /\ ~SendRemotelySimulated(d) /\ ~SendLocallySimulated(d)
        /\ ~AddQubit(d) /\ ~HandOver(d)
    BY <1>2 DEF MeasuredForGood, Acquire, Check, Retry, Gate, Measure, Cnot,
                SendRemotelySimulated, SendLocallySimulated, AddQubit, HandOver
  <2>3. ASSUME NEW n \in Nodes, Release(d, n) PROVE MeasuredForGood(c, q)'
    BY <2>3 DEF Release, controlVars, MeasuredForGood
  <2>4. ASSUME Finish(d) PROVE MeasuredForGood(c, q)'
    <3>1. pc'[c] = "idle" /\ op' = op /\ started' = started
      BY <1>2, <2>4 DEF Finish, Goto, LocksConsistent, TypeOK
    <3>2. QED
      BY <3>1 DEF MeasuredForGood
  <2>5. QED
    BY <2>1, <2>2, <2>3, <2>4 DEF Step
<1>3. QED
  BY <1>1, <1>2

LEMMA NextDrops ==
  ASSUME MaxTimeouts = 0, MaxOps \in {0, 1}, LocksConsistent, NothingDropped,
         [Next]_vars
  PROVE  NothingDropped'
<1>0. TypeOK
  BY DEF LocksConsistent
<1>1. ASSUME NEW d \in Clients,
             \/ \E kind \in Kinds[d], q, r \in Qubits, dest \in Nodes :
                  Start(d, kind, q, r, dest)
             \/ Step(d)
      PROVE  NothingDropped'
  <2>1. ASSUME NEW c \in Clients PROVE Travel(c)'
    <3>1. CASE c = d
      BY <1>1, <3>1, TravelOfItsOwn
    <3>2. CASE c # d
      <4>1. /\ pc'[c] = pc[c] /\ op'[c] = op[c] /\ holds'[c] = holds[c]
            /\ started'[c] = started[c]
        BY <1>0, <1>1, <3>2, OthersUntouched
      <4>2. QED
        BY <4>1, TravelOfOthers
    <3>3. QED
      BY <3>1, <3>2
  <2>2. ASSUME NEW q \in Qubits PROVE Accounted(q)'
    <3>1. ASSUME NEW c \in Clients, MeasuredForGood(c, q) PROVE Accounted(q)'
      BY <1>1, <3>1, MeasuredStays DEF Accounted
    <3>2. ASSUME NEW n \in Nodes, q \in listed[n],
                 \A e \in Clients : Measure(e) \/ HandOver(e) => op[e].q # q
          PROVE  Accounted(q)'
      BY <1>0, <3>2, OnlyTheseRemove DEF Accounted
    <3>3. ASSUME NEW e \in Clients, Measure(e), op[e].q = q PROVE Accounted(q)'
      <4>1. /\ pc[e] = "critical" /\ op[e].kind = "measure"
            /\ pc'[e] = "releasing" /\ again'[e] = FALSE
            /\ op' = op /\ started' = started
        BY <1>0, <3>3 DEF Measure, Leave, ReleaseAll, Goto, TypeOK
      <4>2. started[e] = MaxOps
        BY <4>1 DEF NothingDropped, Travel
      <4>3. MeasuredForGood(e, q)'
        BY <3>3, <4>1, <4>2 DEF MeasuredForGood
      <4>4. QED
        BY <4>3 DEF Accounted
    <3>4. ASSUME NEW e \in Clients, HandOver(e), op[e].q = q PROVE Accounted(q)'
      <4>1. /\ q \in listed[op[e].dest] /\ op[e].dest # At[e]
            /\ op[e].dest \in Nodes
        BY <1>0, <3>4 DEF HandOver, NothingDropped, Travel, TypeOK, Operation
      <4>2. q \in listed'[op[e].dest]
        BY <1>0, <3>4, <4>1 DEF HandOver, TypeOK
      <4>3. QED
        BY <4>1, <4>2 DEF Accounted
    <3>5. QED
      BY <3>1, <3>2, <3>3, <3>4 DEF NothingDropped, Accounted
  <2>3. QED
    BY <2>1, <2>2 DEF NothingDropped
<1>2. \A d \in Clients : ~Timeout(d)
  BY <1>0 DEF Timeout, TypeOK
<1>3. \A n \in Nodes : ~AcquireOrphan(n)
  BY DEF AcquireOrphan, LocksConsistent
<1>4. CASE UNCHANGED vars
  <2>1. /\ UNCHANGED <<pc, op, holds, started, again>>
        /\ sim' = sim /\ listed' = listed
    BY <1>4 DEF vars
  <2>2. ASSUME NEW c \in Clients PROVE Travel(c)'
    BY <2>1 DEF NothingDropped, Travel
  <2>3. ASSUME NEW q \in Qubits PROVE Accounted(q)'
    BY <2>1 DEF NothingDropped, Accounted, MeasuredForGood
  <2>4. QED
    BY <2>2, <2>3 DEF NothingDropped
<1>5. QED
  BY <1>1, <1>2, <1>3, <1>4 DEF Next

LEMMA InitDrops == Init => NothingDropped
<1> SUFFICES ASSUME Init PROVE NothingDropped
  OBVIOUS
<1>1. ASSUME NEW c \in Clients PROVE Travel(c)
  <2>1. PICK q : q = CHOOSE p \in Qubits : TRUE
    OBVIOUS
  <2>2. op[c] = [kind |-> "gate", q |-> q, r |-> q, dest |-> At[c],
                 simQ |-> At[c], simR |-> At[c]]
    BY <2>1, Zenon DEF Init
  <2>3. pc[c] = "idle"
    BY DEF Init
  <2>4. QED
    BY <2>2, <2>3 DEF Travel
<1>2. ASSUME NEW q \in Qubits PROVE Accounted(q)
  <2>1. PICK place \in [Qubits -> Nodes] :
          listed = [n \in Nodes |-> {p \in Qubits : place[p] = n}]
    BY DEF Init
  <2>2. place[q] \in Nodes /\ q \in listed[place[q]]
    BY <2>1
  <2>3. QED
    BY <2>2 DEF Accounted
<1>3. QED
  BY <1>1, <1>2 DEF NothingDropped

(* Among sessions of one operation each, however many there are, and without
   timeouts, no qubit is lost on the way: it is listed at some node until it
   is measured, although the sender strikes it from its list in a step of its
   own and any session may measure it, send it on or merge its register as
   soon as the target lists it. *)
THEOREM QubitsAreKept ==
  ASSUME MaxTimeouts = 0, MaxOps \in {0, 1}
  PROVE  Spec => []NeverLost
<1>1. NothingDropped => NeverLost
  <2> SUFFICES ASSUME NothingDropped, NEW q \in Qubits
               PROVE  \/ \E n \in Nodes : q \in listed[n]
                      \/ \E c \in Clients : Measured(c, q)
    BY DEF NeverLost
  <2>1. QED
    BY DEF NothingDropped, Accounted, MeasuredForGood, Measured
<1>2. LocksConsistent /\ NothingDropped /\ [Next]_vars => NothingDropped'
  BY NextDrops
<1>3. QED
  BY <1>1, <1>2, InitDrops, AlwaysLocksConsistent, PTL DEF Spec
=============================================================================
