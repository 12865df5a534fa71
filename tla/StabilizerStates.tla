--------------------------- MODULE StabilizerStates ---------------------------
(***************************************************************************)
(* The stabilizer engine (virtual_node/stabilizer_simulator.py) and the    *)
(* class StabilizerState (toolbox/stabilizer_states.py) it is built on.    *)
(*                                                                         *)
(* _group is a sequence of rows.  A row of 2n+1 Booleans is a record: the  *)
(* X columns that are true, the Z columns that are true, the phase.        *)
(* num_qubits is the number of rows.  Where the code permutes columns for  *)
(* a time, what differs is the order in which they are eliminated, so the  *)
(* order is a parameter here.                                              *)
(***************************************************************************)
EXTENDS Paulis, FiniteSetsExt

CONSTANTS Engines,    \* engines, one per register
          MaxQubits,  \* MaxQubits[e]: maxQubits of engine e
          Called,     \* BOUND: names of the gates that clients call
          MaxInAll    \* BOUND: qubits in all engines together

ASSUME StabilizerAssumption ==
  /\ MaxQubits \in [Engines -> Nat]
  /\ Called \subseteq OneQubitGates \cup TwoQubitGates
  /\ MaxInAll \in Nat

VARIABLE group  \* group[e]: qubitReg._group of engine e

numQubits(e) == Len(group[e])
Positions(rows) == 0 .. Len(rows) - 1

TypeOK ==
  /\ DOMAIN group = Engines
  /\ \A e \in Engines :
       /\ numQubits(e) <= MaxQubits[e]
       /\ group[e] \in Seq(PauliOps(Positions(group[e])))

Init == group = [e \in Engines |-> << >>]

-----------------------------------------------------------------------------
(* Rows.                                                                   *)

Toggle(S, q, on) == IF on THEN SymDiff(S, {q}) ELSE S
Put(S, q, on) == IF on THEN S \cup {q} ELSE S \ {q}
FlipIf(row, flip) == [row EXCEPT !.neg = @ # flip]

\* qubits where a row has X, Y and Z
Xs(row) == row.x \ row.z
Ys(row) == row.x \cap row.z
Zs(row) == row.z \ row.x

\* _get_i_mask, and with the rows swapped _get_minus_i_mask: where the
\* product of the Paulis gives an i
IMask(r1, r2) ==
  (Xs(r1) \cap Ys(r2)) \cup (Ys(r1) \cap Zs(r2)) \cup (Zs(r1) \cap Xs(r2))

\* MUTANT: the products that give -i are not counted
MultiplyOnlyI(r1, r2) ==
  [x |-> SymDiff(r1.x, r2.x),
   z |-> SymDiff(r1.z, r2.z),
   neg |-> (r1.neg # r2.neg) # (Cardinality(IMask(r1, r2)) % 4 # 0)]

\* _multiply_stabilizers
Multiply(r1, r2) ==
  LET k == Cardinality(IMask(r1, r2)) - Cardinality(IMask(r2, r1))
  IN  [x |-> SymDiff(r1.x, r2.x),
       z |-> SymDiff(r1.z, r2.z),
       neg |-> (r1.neg # r2.neg) # (k % 4 # 0)]

-----------------------------------------------------------------------------
(* Gates, row by row.  Conditions on changed columns are on their new      *)
(* values where the code reads them after the change.                      *)

ApplyX(row, q) == FlipIf(row, q \in row.z)
ApplyY(row, q) == FlipIf(row, (q \in row.x) # (q \in row.z))
ApplyZ(row, q) == FlipIf(row, q \in row.x)

ApplyH(row, q) ==
  FlipIf([row EXCEPT !.x = Put(@, q, q \in row.z),
                     !.z = Put(@, q, q \in row.x)], q \in row.x \cap row.z)

ApplyK(row, q) ==
  LET new == [row EXCEPT !.x = Toggle(@, q, q \in row.z)]
  IN  FlipIf(new, q \in new.x \ new.z)

ApplyS(row, q) ==
  LET new == [row EXCEPT !.z = Toggle(@, q, q \in row.x)]
  IN  FlipIf(new, q \in new.x \ new.z)

\* MUTANT: the phase is not corrected
CNOTWithoutPhase(row, c, t) ==
  [row EXCEPT !.x = Toggle(@, t, c \in row.x), !.z = Toggle(@, c, t \in row.z)]

ApplyCNOT(row, c, t) ==
  LET new == [row EXCEPT !.x = Toggle(@, t, c \in row.x),
                         !.z = Toggle(@, c, t \in row.z)]
  IN  FlipIf(new, /\ c \in new.x /\ t \in new.z
                  /\ (c \in new.z) = (t \in new.x))

ApplyCZ(row, c, t) ==
  LET flip == {c, t} \subseteq row.x /\ (c \in row.z) # (t \in row.z)
  IN  FlipIf([row EXCEPT !.z = Toggle(Toggle(@, t, c \in row.x),
                                      c, t \in row.x)], flip)

Apply(g, row) ==
  LET q == g.on[1]
  IN  CASE g.name = "X" -> ApplyX(row, q)
        [] g.name = "Y" -> ApplyY(row, q)
        [] g.name = "Z" -> ApplyZ(row, q)
        [] g.name = "H" -> ApplyH(row, q)
        [] g.name = "K" -> ApplyK(row, q)
        [] g.name = "S" -> ApplyS(row, q)
        [] g.name = "sqrt_minIX" -> ApplyZ(ApplyK(row, q), q)
        [] g.name = "sqrt_IZ" -> ApplyS(ApplyZ(row, q), q)
        [] g.name = "CNOT" -> ApplyCNOT(row, q, g.on[2])
        [] g.name = "CZ" -> ApplyCZ(row, q, g.on[2])

-----------------------------------------------------------------------------
(* Gaussian elimination.                                                   *)

Bit(row, col) == CASE col[1] = "x" -> col[2] \in row.x
                   [] col[1] = "z" -> col[2] \in row.z
                   [] col[1] = "phase" -> row.neg

\* the columns of n qubits with those of one qubit first, in each part
Columns(n, first) ==
  LET qubit(i) == IF i = 1 THEN first
                  ELSE IF i <= first + 1 THEN i - 2 ELSE i - 1
  IN  [c \in 1 .. 2 * n + 1 |->
         IF c <= n THEN <<"x", qubit(c)>>
         ELSE IF c <= 2 * n THEN <<"z", qubit(c - n)>>
         ELSE <<"phase", 0>>]

\* MUTANT: the pivot is added to the rows below it only
PivotBelow(s, col) ==
  LET nonZero == {i \in DOMAIN s.rows : Bit(s.rows[i], col)}
      under == {i \in nonZero : i >= s.h}
      iMax == Min(under)
      swapped == [s.rows EXCEPT ![s.h] = s.rows[iMax], ![iMax] = s.rows[s.h]]
  IN  IF under = {} THEN s
      ELSE [h |-> s.h + 1,
            rows |-> [i \in DOMAIN swapped |->
                        IF i \in under \ {iMax}
                        THEN Multiply(swapped[i], swapped[s.h])
                        ELSE swapped[i]]]

\* One column: the first row from h on that has it comes to h and is added
\* to all others that have it.
Pivot(s, col) ==
  LET nonZero == {i \in DOMAIN s.rows : Bit(s.rows[i], col)}
      under == {i \in nonZero : i >= s.h}
      iMax == Min(under)
      swapped == [s.rows EXCEPT ![s.h] = s.rows[iMax], ![iMax] = s.rows[s.h]]
  IN  IF under = {} THEN s
      ELSE [h |-> s.h + 1,
            rows |-> [i \in DOMAIN swapped |->
                        IF i \in nonZero \ {iMax}
                        THEN Multiply(swapped[i], swapped[s.h])
                        ELSE swapped[i]]]

\* boolean_gaussian_elimination
Eliminate(rows, cols) ==
  LET s[k \in 0 .. Len(cols)] ==
        IF k = 0 THEN [h |-> 1, rows |-> rows] ELSE Pivot(s[k - 1], cols[k])
  IN  s[Len(cols)].rows

\* to_array(standard_form=True), put_in_standard_form; __eq__ compares these
StandardForm(rows) == Eliminate(rows, Columns(Len(rows), 0))

IsSymplectic(rows) ==
  \A i, j \in DOMAIN rows : Commute(rows[i], rows[j])

\* _contains: appended to the generators, row reduces to nothing
InGroup(rows, row, cols) ==
  LET extended == Append(rows, row)
      reduced == Eliminate(extended, cols)
  IN  /\ IsSymplectic(extended)
      /\ Cardinality({i \in DOMAIN reduced : reduced[i] = Identity}) = 1

-----------------------------------------------------------------------------
(* Joining and measuring.                                                  *)

\* MUTANT: the columns of the second are not moved
TensorInPlace(rows, other) == rows \o other

\* MUTANT: only the X columns of the second are moved
TensorHalf(rows, other) ==
  rows \o [i \in DOMAIN other |->
             [other[i] EXCEPT !.x = Behind(@, Len(rows))]]

TensorProduct(rows, other) ==
  LET n == Len(rows)
  IN  rows \o [i \in DOMAIN other |->
                 [other[i] EXCEPT !.x = Behind(@, n), !.z = Behind(@, n)]]

\* MUTANT: the columns behind p are not renumbered
DropOnly(rows, p) ==
  [i \in DOMAIN rows |->
     [rows[i] EXCEPT !.x = @ \ {p}, !.z = @ \ {p}]]

\* rows without the columns of p
DropColumns(rows, p) ==
  [i \in DOMAIN rows |->
     [rows[i] EXCEPT !.x = MoveUp(@ \ {p}, p), !.z = MoveUp(@ \ {p}, p)]]

\* the elimination with which measure begins
Prepared(rows, p) == Eliminate(rows, Columns(Len(rows), p))

\* "first generator does not commute with Z": the outcome is random
IsRandom(m, p) == p \in m[1].x

\* _is_first_qubit_in_zero
FixedOutcome(m, p) ==
  IF InGroup(m, Observed(p, 0), Columns(Len(m), p)) THEN 0 ELSE 1

Outcomes(m, p) == IF IsRandom(m, p) THEN {0, 1} ELSE {FixedOutcome(m, p)}

\* after the random outcome 1, rows with Z at p change their sign
Signed(m, p, b) ==
  [i \in DOMAIN m |-> FlipIf(m[i], b = 1 /\ p \in m[i].z)]

\* rows without those that have Z at p
WithoutZ(rows, p) ==
  LET kept[i \in 0 .. Len(rows)] ==
        IF i = 0 THEN << >>
        ELSE IF p \in rows[i].z THEN kept[i - 1]
        ELSE Append(kept[i - 1], rows[i])
  IN  kept[Len(rows)]

\* MUTANT: the outcome does not reach the other generators
RemovedUnsigned(m, p, b) ==
  IF IsRandom(m, p) THEN DropColumns(Tail(m), p)
  ELSE DropColumns(WithoutZ(m, p), p)

\* the generators after measuring p with outcome b and removing it
Removed(m, p, b) ==
  IF IsRandom(m, p) THEN DropColumns(Tail(Signed(m, p, b)), p)
  ELSE DropColumns(WithoutZ(m, p), p)

\* the generators after measuring p in place
Kept(m, p, b) ==
  IF IsRandom(m, p)
  THEN LET rest == Tail(Signed(m, p, b))
       IN  <<Observed(p, b)>> \o
             [i \in DOMAIN rest |-> [rest[i] EXCEPT !.z = @ \ {p}]]
  ELSE m

-----------------------------------------------------------------------------
(* The engine.  A call that raises an error changes nothing.               *)

Update(e, rows) == group' = [group EXCEPT ![e] = rows]

AddFreshQubit(e) ==
  /\ numQubits(e) < MaxQubits[e]
  /\ SumFunction([d \in Engines |-> numQubits(d)]) < MaxInAll
  /\ Update(e, TensorProduct(group[e], <<ZAt(0)>>))

AfterGate(g, rows) == [i \in DOMAIN rows |-> Apply(g, rows[i])]

\* The engine offers X, Y, Z, H, K, CNOT and CZ (as CPHASE); S and the square
\* roots are methods of its StabilizerState.
ApplyGate(e, g) ==
  /\ g.name \in Called
  /\ Update(e, AfterGate(g, group[e]))

\* both calls of measure: m is the tableau prepared for p, b the outcome
MeasureQubitInPlace(e, p, m, b) == Update(e, Kept(m, p, b))

\* measure_qubit, and remove_qubit, which ignores the outcome
MeasureQubit(e, p, m, b) == Update(e, Removed(m, p, b))

\* absorb, absorb_parts: the virtual node deletes the other register
Absorb(e, f) ==
  /\ numQubits(e) + numQubits(f) <= MaxQubits[e]
  /\ group' = [group EXCEPT ![e] = TensorProduct(@, group[f]), ![f] = << >>]

PutInStandardForm(e) == Update(e, StandardForm(group[e]))

Next ==
  \E e \in Engines :
    \/ AddFreshQubit(e)
    \/ \E g \in GatesOn(Positions(group[e])) : ApplyGate(e, g)
    \/ \E p \in Positions(group[e]) :
         LET m == Prepared(group[e], p)
         IN  \E b \in Outcomes(m, p) :
               MeasureQubitInPlace(e, p, m, b) \/ MeasureQubit(e, p, m, b)
    \/ \E f \in Engines \ {e} : Absorb(e, f)
    \/ PutInStandardForm(e)

Spec == Init /\ [][Next]_group

-----------------------------------------------------------------------------
(* Correctness.  A tableau stands for the group it generates.              *)

\* The generators commute and are independent and do not generate -I.  The
\* elimination takes this for granted (a note in _contains says so).
ProperTableau ==
  \A e \in Engines :
    LET all == Span(group[e])
    IN  /\ IsSymplectic(group[e])
        /\ Cardinality(all) = 2 ^ numQubits(e)
        /\ Minus(Identity) \notin all

\* Every gate takes every generator there can be to its conjugate by the
\* unitary of the gate, on the qubits at the positions asked for and in their
\* roles.  Conjugation is multiplicative, so the state follows.  What becomes
\* of a generator does not depend on the others, so it is enough to try each
\* once for each number of qubits: where the qubits are fresh.
Fresh(e) == \A i \in DOMAIN group[e] : group[e][i] = ZAt(i - 1)

GatesConjugate ==
  \A e \in Engines :
    Fresh(e) => \A row \in PauliOps(Positions(group[e])),
                   g \in GatesOn(Positions(group[e])) :
                  Apply(g, row) = Conjugate(g, row)

\* A measurement can return exactly the outcomes that the state allows, and
\* leaves the state which belongs to the outcome, with or without the qubit,
\* whichever generators represent the state.
MeasurementsCollapse ==
  \A e \in Engines :
    LET all == Span(group[e])
    IN  \A p \in Positions(group[e]) :
          LET m == Prepared(group[e], p)
              possible == Outcomes(m, p)
          IN  /\ possible = {b \in {0, 1} : CanObserve(all, p, b)}
              /\ \A b \in possible :
                   LET collapsed == Collapse(all, p, b)
                   IN  /\ Span(Kept(m, p, b)) = collapsed
                       /\ Span(Removed(m, p, b)) = Without(collapsed, p)

\* Registers that are merged stand side by side, each in its state.
MergesJoin ==
  \A e, f \in Engines :
    e # f => Span(TensorProduct(group[e], group[f])) =
               Join(Span(group[e]), numQubits(e), Span(group[f]))

\* contains finds every stabilizer of the state, and none with the opposite
\* sign.  (What commutes with all generators is one or the other.)
ContainsExact ==
  \A e \in Engines : \A P \in Span(group[e]) :
    LET cols == Columns(numQubits(e), 0)
    IN  InGroup(group[e], P, cols) /\ ~InGroup(group[e], Minus(P), cols)

\* Equality of states compares standard forms: it must not depend on the
\* generators.  Adding one generator to another leads from any generators of
\* a state to any other.
StandardFormCanonical ==
  \A e \in Engines :
    LET form == StandardForm(group[e])
    IN  \A i, j \in DOMAIN group[e] :
          i # j => StandardForm([group[e] EXCEPT ![i] =
                                   Multiply(@, group[e][j])]) = form

\* Clients tell states apart by both, and must get one answer from both.
StatesRecognized == ContainsExact /\ StandardFormCanonical
=============================================================================
