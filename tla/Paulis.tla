-------------------------------- MODULE Paulis --------------------------------
(***************************************************************************)
(* Reference definitions: Pauli operators on qubits numbered 0, 1, ...,    *)
(* products, conjugation by Clifford gates, and measurement of a           *)
(* stabilizer group, each from its definition.  Nothing here looks at      *)
(* generators; the algorithms of the code are in StabilizerStates.         *)
(*                                                                         *)
(* A Pauli operator is given by the qubits where it is X or Y, those where *)
(* it is Z or Y, and its sign.  A term stands for i^k X^x Z^z; Y is i X Z. *)
(***************************************************************************)
EXTENDS Integers, FiniteSets, Sequences, SequencesExt

PauliOps(qubits) == [x : SUBSET qubits, z : SUBSET qubits, neg : BOOLEAN]

Identity == [x |-> {}, z |-> {}, neg |-> FALSE]
Minus(P) == [P EXCEPT !.neg = ~@]
XAt(q) == [x |-> {q}, z |-> {}, neg |-> FALSE]
YAt(q) == [x |-> {q}, z |-> {q}, neg |-> FALSE]
ZAt(q) == [x |-> {}, z |-> {q}, neg |-> FALSE]

\* Z on q with the eigenvalue of outcome b
Observed(q, b) == [x |-> {}, z |-> {q}, neg |-> b = 1]

Commute(P, R) ==
  (Cardinality(P.x \cap R.z) + Cardinality(P.z \cap R.x)) % 2 = 0

Term(P) == [x |-> P.x, z |-> P.z,
            k |-> (Cardinality(P.x \cap P.z) + IF P.neg THEN 2 ELSE 0) % 4]
OfTerm(t) == [x |-> t.x, z |-> t.z,
              neg |-> t.k # Cardinality(t.x \cap t.z) % 4]

\* moving Z past X on the same qubit costs a sign
Times(s, t) == [x |-> SymDiff(s.x, t.x), z |-> SymDiff(s.z, t.z),
                k |-> (s.k + t.k + 2 * Cardinality(s.z \cap t.x)) % 4]

Product(P, R) == OfTerm(Times(Term(P), Term(R)))

\* the group generated by commuting operators
Span(rows) ==
  LET span[k \in 0 .. Len(rows)] ==
        IF k = 0 THEN {Identity}
        ELSE LET before == span[k - 1]
             IN  before \cup {Product(P, rows[k]) : P \in before}
  IN  span[Len(rows)]

-----------------------------------------------------------------------------
(* A gate is a name and the qubits it acts on.  Conjugation by it is given *)
(* by the images of X and Z on these qubits and is multiplicative.         *)

OneQubitGates == {"X", "Y", "Z", "H", "K", "S", "sqrt_minIX", "sqrt_IZ"}
TwoQubitGates == {"CNOT", "CZ"}

GatesOn(qubits) ==
  [name : OneQubitGates, on : {<<q>> : q \in qubits}]
    \cup [name : TwoQubitGates,
          on : {p \in qubits \X qubits : p[1] # p[2]}]

ImageOfX(g, q) ==
  CASE g.name \in {"X", "sqrt_minIX"} -> XAt(q)
    [] g.name \in {"Y", "Z", "K"} -> Minus(XAt(q))
    [] g.name = "H" -> ZAt(q)
    [] g.name = "S" -> YAt(q)
    [] g.name = "sqrt_IZ" -> Minus(YAt(q))
    [] g.name = "CNOT" /\ q = g.on[1] -> Product(XAt(q), XAt(g.on[2]))
    [] g.name = "CNOT" /\ q = g.on[2] -> XAt(q)
    [] g.name = "CZ" /\ q = g.on[1] -> Product(XAt(q), ZAt(g.on[2]))
    [] g.name = "CZ" /\ q = g.on[2] -> Product(XAt(q), ZAt(g.on[1]))

ImageOfZ(g, q) ==
  CASE g.name \in {"Z", "S", "sqrt_IZ", "CZ"} -> ZAt(q)
    [] g.name \in {"X", "Y"} -> Minus(ZAt(q))
    [] g.name = "H" -> XAt(q)
    [] g.name = "K" -> YAt(q)
    [] g.name = "sqrt_minIX" -> Minus(YAt(q))
    [] g.name = "CNOT" /\ q = g.on[1] -> ZAt(q)
    [] g.name = "CNOT" /\ q = g.on[2] -> Product(ZAt(g.on[1]), ZAt(q))

\* X to the power x, or Z to the power z, becomes a power of the image.
Power(P, on) == Term(IF on THEN P ELSE Identity)

Conjugate(g, P) ==
  LET on == ToSet(g.on)
      rest == [x |-> P.x \ on, z |-> P.z \ on, k |-> Term(P).k]
      x(q) == Power(ImageOfX(g, q), q \in P.x)
      z(q) == Power(ImageOfZ(g, q), q \in P.z)
      c == g.on[1]
      t == g.on[2]
  IN  OfTerm(IF Len(g.on) = 1
             THEN Times(Times(rest, x(c)), z(c))
             ELSE Times(Times(Times(Times(rest, x(c)), x(t)), z(c)), z(t)))

-----------------------------------------------------------------------------
(* Groups: measuring a qubit, leaving it out, joining two groups.          *)

CanObserve(group, q, b) == Minus(Observed(q, b)) \notin group

\* the stabilizers that the measurement leaves, and the outcome itself
Collapse(group, q, b) ==
  LET kept == {P \in group : Commute(P, ZAt(q))}
  IN  kept \cup {Product(P, Observed(q, b)) : P \in kept}

\* qubits behind q move up by one
MoveUp(S, q) == {IF i > q THEN i - 1 ELSE i : i \in S}
Behind(S, n) == {i + n : i \in S}

Without(group, q) ==
  {[P EXCEPT !.x = MoveUp(@, q), !.z = MoveUp(@, q)] :
     P \in {R \in group : q \notin R.x \cup R.z}}

\* a group on n qubits beside another
Join(group, n, other) ==
  {Product(P, [R EXCEPT !.x = Behind(@, n), !.z = Behind(@, n)]) :
     P \in group, R \in other}
=============================================================================
