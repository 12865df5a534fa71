---------------------------- MODULE NetworkConfig ----------------------------
(***************************************************************************)
(* The networks file and its constructor: toolbox/manage_nodes.py, and the *)
(* named topologies of network.py.  All hosts are localhost, which is what *)
(* the command line gives unless it is told otherwise, so that a socket    *)
(* address is a port.                                                      *)
(*                                                                         *)
(* A file is a function from the names of its networks to networks.  The   *)
(* constructor keeps, in addition, the ports it has seen or given away.    *)
(***************************************************************************)
EXTENDS Integers, Sequences, FiniteSetsExt, SequencesExt

CONSTANTS
  Nodes,       \* names of nodes
  MaxPort,     \* the ports are 1 .. MaxPort, for 8000 .. 9000
  NoPort,      \* None for a port
  NoTopology   \* None for a topology: fully connected

ASSUME ConfigAssumption ==
  /\ MaxPort \in Nat
  /\ NoPort \notin Nat
  /\ \A X \in SUBSET Nodes :
       NoTopology # X /\ \A f \in [X -> SUBSET Nodes] : NoTopology # f

Ports == 1 .. MaxPort
Kinds == {"app", "qnodeos", "vnode"}

Sockets == [Kinds -> Ports \cup {NoPort}]
IsPartial(f, S, T) == DOMAIN f \subseteq S /\ Range(f) \subseteq T

\* what a file may hold
IsFile(file, names) ==
  /\ DOMAIN file \subseteq names
  /\ \A n \in DOMAIN file :
       /\ IsPartial(file[n].nodes, Nodes, Sockets)
       /\ \/ file[n].topology = NoTopology
          \/ IsPartial(file[n].topology, Nodes, SUBSET Nodes)

EmptyNetwork == [nodes |-> << >>, topology |-> NoTopology]

\* read_from_file; a new constructor without a file has no networks.
PortsIn(file) ==
  UNION {UNION {Range(file[n].nodes[x]) : x \in DOMAIN file[n].nodes} :
           n \in DOMAIN file}

\* MUTANT: what is in the file is not noted as used
ForgetfulConstructor(file) == [networks |-> file, used |-> {}]

Constructor(file) == [networks |-> file, used |-> PortsIn(file)]

\* MUTANT: counts on, also beyond the last port
NextPort(used, bound) == Max(used \cup bound \cup {0}) + 1

\* _get_unused_port, with _check_port_available: the first that no config
\* uses and that can be bound now
UnusedPort(used, bound) ==
  LET free == Ports \ (used \cup bound)
  IN  IF free = {} THEN NoPort ELSE Min(free)

\* The sockets of a new node: given ones or unused ones, one after the other.
NodeSockets(used, bound, given) ==
  LET port(kind, drawn) ==
        IF given[kind] = NoPort THEN UnusedPort(used \cup drawn, bound)
                                ELSE given[kind]
      a == port("app", {})
      q == port("qnodeos", {a})
      v == port("vnode", {a, q})
  IN  [app |-> a, qnodeos |-> q, vnode |-> v]

AnyPorts == [kind \in Kinds |-> NoPort]

\* add_node raises for a given port that is used or bound, also one that this
\* call has used for the sockets before it.
Available(used, bound, given) ==
  LET s == NodeSockets(used, bound, given)
      free(kind, before) ==
        \/ given[kind] = NoPort
        \/ given[kind] \notin used \cup bound \cup before
  IN  /\ free("app", {})
      /\ free("qnodeos", {s.app})
      /\ free("vnode", {s.app, s.qnodeos})

\* f[k] = v, for a dictionary
Assigned(f, k, v) == [y \in DOMAIN f \cup {k} |-> IF y = k THEN v ELSE f[y]]

\* MUTANT: without neighbours, all nodes so far become neighbours of the node
WithAllNeighbors(network, x, sockets, neighbors) ==
  LET complete == [y \in DOMAIN network.nodes |-> DOMAIN network.nodes \ {y}]
      before == IF network.topology = NoTopology THEN complete
                                                 ELSE network.topology
      own == IF neighbors = NoTopology THEN DOMAIN network.nodes \ {x}
                                       ELSE neighbors
  IN  [nodes |-> Assigned(network.nodes, x, sockets),
       topology |-> IF neighbors = NoTopology /\ network.topology = NoTopology
                    THEN NoTopology
                    ELSE Assigned(before, x, own)]

\* _NetworkConfig.add_node: with neighbours, a network without a topology gets
\* one in which the nodes so far are fully connected.  Without, the topology
\* stays as it is.
WithNode(network, x, sockets, neighbors) ==
  LET complete == [y \in DOMAIN network.nodes |-> DOMAIN network.nodes \ {y}]
      before == IF network.topology = NoTopology THEN complete
                                                 ELSE network.topology
  IN  [nodes |-> Assigned(network.nodes, x, sockets),
       topology |-> IF neighbors = NoTopology
                    THEN network.topology
                    ELSE Assigned(before, x, neighbors)]

\* add_node
AddNode(c, n, x, given, neighbors, bound) ==
  LET s == NodeSockets(c.used, bound, given)
      network == IF n \in DOMAIN c.networks THEN c.networks[n] ELSE EmptyNetwork
  IN  [networks |-> Assigned(c.networks, n, WithNode(network, x, s, neighbors)),
       used |-> c.used \cup Range(s)]

\* remove_node: the topology keeps the node.
RemoveNode(c, n, x) ==
  IF n \in DOMAIN c.networks
  THEN [c EXCEPT !.networks[n].nodes = Restrict(@, DOMAIN @ \ {x})]
  ELSE c

\* remove_network: its ports stay used for this constructor.
RemoveNetwork(c, n) ==
  [c EXCEPT !.networks = Restrict(@, DOMAIN @ \ {n})]

\* add_network
AddNetwork(c, n, xs, topology, bound) ==
  LET neighbors(x) == IF topology = NoTopology THEN NoTopology ELSE topology[x]
      add[i \in 0 .. Len(xs)] ==
        IF i = 0
        THEN RemoveNetwork(c, n)
        ELSE AddNode(add[i - 1], n, xs[i], AnyPorts, neighbors(xs[i]), bound)
  IN  add[Len(xs)]

\* reset
DefaultConfig(n, xs, bound) ==
  AddNetwork(Constructor(<< >>), n, xs, NoTopology, bound).networks

-----------------------------------------------------------------------------
(* construct_topology_config.  A topology is a function that gives every   *)
(* node its neighbours.                                                    *)

Shapes == {"none", "complete", "ring", "path", "random_tree", "random_connected"}

Connected(adj) ==
  \A S \in SUBSET DOMAIN adj :
    S # {} /\ S # DOMAIN adj => \E x \in S : adj[x] \ S # {}

\* all that get_random_tree and get_random_connected, with any number of
\* edges, may return
Undirected(X) ==
  {adj \in [X -> SUBSET X] :
     \A x, y \in X : x \notin adj[x] /\ (y \in adj[x] <=> x \in adj[y])}
Edges(adj) == UNION {{{x, y} : y \in adj[x]} : x \in DOMAIN adj}
RandomConnected(X) == {adj \in Undirected(X) : X # {} /\ Connected(adj)}
RandomTrees(X) ==
  {adj \in RandomConnected(X) : Cardinality(Edges(adj)) = Cardinality(X) - 1}

\* nodes[i % nn], counted from 1
At(xs, i) == xs[((i - 1) % Len(xs)) + 1]

Ring(xs) ==
  [x \in Range(xs) |-> LET i == CHOOSE j \in DOMAIN xs : xs[j] = x
                       IN  {At(xs, i - 1 + Len(xs)), At(xs, i + 1)}]

Path(xs) ==
  [x \in Range(xs) |-> LET i == CHOOSE j \in DOMAIN xs : xs[j] = x
                       IN  {xs[j] : j \in {i - 1, i + 1} \cap DOMAIN xs}]

Topologies(shape, xs) ==
  CASE shape = "none" -> {NoTopology}
    [] shape = "complete" -> {[x \in Range(xs) |-> Range(xs) \ {x}]}
    [] shape = "ring" -> {Ring(xs)}
    [] shape = "path" -> IF Len(xs) = 1 THEN {} ELSE {Path(xs)}
    [] shape = "random_tree" -> RandomTrees(Range(xs))
    [] shape = "random_connected" -> RandomConnected(Range(xs))

\* NetQASMFactory.is_adjacent, at a node that has read topology
Adjacent(topology, x, y) ==
  topology = NoTopology \/ (x \in DOMAIN topology /\ y \in topology[x])
=============================================================================
