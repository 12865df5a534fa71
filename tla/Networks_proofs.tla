-------------------------- MODULE Networks_proofs --------------------------
(***************************************************************************)
(* The ports of a network: the sockets that the constructor gives to a new *)
(* node are apart from all it knows of and from each other.  What          *)
(* add_network makes of a network, and what topologies can be asked for.   *)
(* Then networks that are started, stopped and edited: what is in the file *)
(* and what the processes of a network make of it.                         *)
(***************************************************************************)
EXTENDS Networks, FreeNumbers_proofs, SequenceTheorems

(* A set of natural numbers that is not empty has a least element, which is
   what Min denotes. *)
LEMMA MinIsIn ==
  ASSUME NEW S \in SUBSET Nat, S # {}
  PROVE  Min(S) \in S
<1>1. PICK x \in S : \A y \in S : x <= y
  BY LeastElement
<1>2. QED
  BY <1>1 DEF Min

(* _get_unused_port returns a port that no config uses and that can be bound,
   and None only if there is none. *)
LEMMA UnusedPortIsFree ==
  ASSUME NEW used, NEW bound
  PROVE  LET free == Ports \ (used \cup bound)
         IN  \/ free # {} /\ UnusedPort(used, bound) \in free
             \/ free = {} /\ UnusedPort(used, bound) = NoPort
<1> DEFINE free == Ports \ (used \cup bound)
<1>1. free \in SUBSET Nat
  BY ConfigAssumption DEF Ports
<1>2. CASE free = {}
  BY <1>2 DEF UnusedPort
<1>3. CASE free # {}
  <2>1. Min(free) \in free
    <3> HIDE DEF free
    <3> QED BY <1>1, <1>3, MinIsIn
  <2>2. UnusedPort(used, bound) = Min(free)
    BY <1>3 DEF UnusedPort
  <2>3. QED
    BY <1>3, <2>1, <2>2
<1>4. QED
  BY <1>2, <1>3

(* The three sockets of a new node, given by the caller or found, are not in
   use and are different ports, when there are ports left and add_node does
   not raise. *)
LEMMA NewSocketsApart ==
  ASSUME NEW used, NEW bound, NEW given, Available(used, bound, given)
  PROVE  LET s == NodeSockets(used, bound, given)
         IN  /\ DOMAIN s = Kinds
             /\ \A k \in Kinds : s[k] # NoPort => s[k] \notin used \cup bound
             /\ \A k, l \in Kinds : s[k] = s[l] /\ s[k] # NoPort => k = l
<1> DEFINE s == NodeSockets(used, bound, given)
           a == s.app
           q == s.qnodeos
           v == s.vnode
<1>1. /\ DOMAIN s = Kinds
      /\ s["app"] = a /\ s["qnodeos"] = q /\ s["vnode"] = v
  BY DEF NodeSockets, Kinds
<1>2. a # NoPort => a \notin used \cup bound
  <2>1. a = IF given["app"] = NoPort THEN UnusedPort(used \cup {}, bound)
                                     ELSE given["app"]
    BY DEF NodeSockets
  <2>2. CASE given["app"] = NoPort
    <3>1. a = UnusedPort(used \cup {}, bound)
      BY <2>1, <2>2
    <3>2. QED
      BY <3>1, UnusedPortIsFree
  <2>3. CASE given["app"] # NoPort
    BY <2>1, <2>3 DEF Available
  <2>4. QED
    BY <2>2, <2>3
<1>3. q # NoPort => q \notin used \cup bound \cup {a}
  <2>1. q = IF given["qnodeos"] = NoPort THEN UnusedPort(used \cup {a}, bound)
                                         ELSE given["qnodeos"]
    BY DEF NodeSockets
  <2>2. CASE given["qnodeos"] = NoPort
    <3>1. q = UnusedPort(used \cup {a}, bound)
      BY <2>1, <2>2
    <3>2. QED
      BY <3>1, UnusedPortIsFree
  <2>3. CASE given["qnodeos"] # NoPort
    BY <2>1, <2>3 DEF Available
  <2>4. QED
    BY <2>2, <2>3
<1>4. v # NoPort => v \notin used \cup bound \cup {a, q}
  <2>1. v = IF given["vnode"] = NoPort THEN UnusedPort(used \cup {a, q}, bound)
                                       ELSE given["vnode"]
    BY DEF NodeSockets
  <2>2. CASE given["vnode"] = NoPort
    <3>1. v = UnusedPort(used \cup {a, q}, bound)
      BY <2>1, <2>2
    <3>2. QED
      BY <3>1, UnusedPortIsFree
  <2>3. CASE given["vnode"] # NoPort
    BY <2>1, <2>3 DEF Available
  <2>4. QED
    BY <2>2, <2>3
<1>5. /\ DOMAIN s = Kinds
      /\ \A k \in Kinds : s[k] # NoPort => s[k] \notin used \cup bound
      /\ \A k, l \in Kinds : s[k] = s[l] /\ s[k] # NoPort => k = l
  <2> HIDE DEF s, a, q, v
  <2> QED BY <1>1, <1>2, <1>3, <1>4 DEF Kinds
<1>6. QED
  BY <1>5

-----------------------------------------------------------------------------
(* What the constructor keeps. *)

\* a constructor, its networks, and their nodes with three sockets
Shaped(c) ==
  /\ DOMAIN c = {"networks", "used"}
  /\ \A n \in DOMAIN c.networks :
       /\ DOMAIN c.networks[n] = {"nodes", "topology"}
       /\ \A x \in DOMAIN c.networks[n].nodes :
            DOMAIN c.networks[n].nodes[x] = Kinds

\* no port is in a file twice
Apart(nets) ==
  \A n, m \in DOMAIN nets :
    \A x \in DOMAIN nets[n].nodes, y \in DOMAIN nets[m].nodes :
      \A k, l \in Kinds :
        /\ nets[n].nodes[x][k] = nets[m].nodes[y][l]
        /\ nets[n].nodes[x][k] # NoPort
        => n = m /\ x = y /\ k = l

\* the constructor knows the ports of its networks
Noted(c) ==
  \A n \in DOMAIN c.networks : \A x \in DOMAIN c.networks[n].nodes :
    \A k \in Kinds : c.networks[n].nodes[x][k] \in c.used

KeepsApart(c) == Shaped(c) /\ Apart(c.networks) /\ Noted(c)

(* The networks of the result of AddNode, network by network. *)
LEMMA NodesAfterAdd ==
  ASSUME NEW c, NEW n, NEW x, NEW given, NEW neighbors, NEW bound
  PROVE  LET new == AddNode(c, n, x, given, neighbors, bound)
             before == IF n \in DOMAIN c.networks THEN c.networks[n].nodes
                                                  ELSE << >>
         IN  /\ DOMAIN new = {"networks", "used"}
             /\ DOMAIN new.networks = DOMAIN c.networks \cup {n}
             /\ DOMAIN new.networks[n] = {"nodes", "topology"}
             /\ \A m \in DOMAIN c.networks :
                  m # n => new.networks[m] = c.networks[m]
             /\ DOMAIN new.networks[n].nodes = DOMAIN before \cup {x}
             /\ new.networks[n].nodes[x] = NodeSockets(c.used, bound, given)
             /\ \A y \in DOMAIN before :
                  y # x => new.networks[n].nodes[y] = before[y]
             /\ new.used = c.used \cup Range(NodeSockets(c.used, bound, given))
<1> DEFINE new == AddNode(c, n, x, given, neighbors, bound)
           s == NodeSockets(c.used, bound, given)
           network == IF n \in DOMAIN c.networks THEN c.networks[n]
                                                 ELSE EmptyNetwork
           with == WithNode(network, x, s, neighbors)
<1>1. /\ DOMAIN new = {"networks", "used"}
      /\ new.networks = Assigned(c.networks, n, with)
      /\ new.used = c.used \cup Range(s)
  BY DEF AddNode
<1>2. /\ with.nodes = Assigned(network.nodes, x, s)
      /\ DOMAIN with = {"nodes", "topology"}
  BY DEF WithNode
<1>3. network.nodes = IF n \in DOMAIN c.networks THEN c.networks[n].nodes
                                                 ELSE << >>
  BY DEF EmptyNetwork
<1> HIDE DEF new, s, network, with
<1>4. /\ DOMAIN new.networks = DOMAIN c.networks \cup {n}
      /\ new.networks[n] = with
      /\ \A m \in DOMAIN c.networks : m # n => new.networks[m] = c.networks[m]
  BY <1>1 DEF Assigned
<1>5. /\ DOMAIN with.nodes = DOMAIN network.nodes \cup {x}
      /\ with.nodes[x] = s
      /\ \A y \in DOMAIN network.nodes :
           y # x => with.nodes[y] = network.nodes[y]
  BY <1>2 DEF Assigned
<1>6. QED
  BY <1>1, <1>2, <1>3, <1>4, <1>5 DEF new, s

(* add_node keeps what the constructor promises: no port is given away twice,
   in whatever networks and at whatever nodes the sockets are, whether the
   caller names the ports or not, and also when a node is added again. *)
THEOREM AddNodeKeepsApart ==
  ASSUME NEW c, KeepsApart(c),
         NEW n, NEW x, NEW given, NEW neighbors, NEW bound,
         Available(c.used, bound, given)
  PROVE  KeepsApart(AddNode(c, n, x, given, neighbors, bound))
<1> DEFINE new == AddNode(c, n, x, given, neighbors, bound)
           s == NodeSockets(c.used, bound, given)
           before == IF n \in DOMAIN c.networks THEN c.networks[n].nodes
                                                ELSE << >>
<1>1. /\ DOMAIN new = {"networks", "used"}
      /\ DOMAIN new.networks = DOMAIN c.networks \cup {n}
      /\ DOMAIN new.networks[n] = {"nodes", "topology"}
      /\ \A m \in DOMAIN c.networks :
           m # n => new.networks[m] = c.networks[m]
      /\ DOMAIN new.networks[n].nodes = DOMAIN before \cup {x}
      /\ new.networks[n].nodes[x] = s
      /\ \A y \in DOMAIN before :
           y # x => new.networks[n].nodes[y] = before[y]
      /\ new.used = c.used \cup Range(s)
  BY NodesAfterAdd
<1>2. /\ DOMAIN s = Kinds
      /\ \A k \in Kinds : s[k] # NoPort => s[k] \notin c.used
      /\ \A k, l \in Kinds : s[k] = s[l] /\ s[k] # NoPort => k = l
  <2>1. /\ DOMAIN s = Kinds
        /\ \A k \in Kinds : s[k] # NoPort => s[k] \notin c.used \cup bound
        /\ \A k, l \in Kinds : s[k] = s[l] /\ s[k] # NoPort => k = l
    BY NewSocketsApart
  <2>2. QED
    BY <2>1
<1>3. \A k \in Kinds : s[k] \in new.used
  BY <1>1, <1>2 DEF Range
<1> HIDE DEF new, s
\* an old node, and the only new one
<1>4. ASSUME NEW m \in DOMAIN new.networks,
             NEW y \in DOMAIN new.networks[m].nodes
      PROVE  \/ m = n /\ y = x /\ new.networks[m].nodes[y] = s
             \/ /\ m \in DOMAIN c.networks /\ y \in DOMAIN c.networks[m].nodes
                /\ <<m, y>> # <<n, x>>
                /\ new.networks[m].nodes[y] = c.networks[m].nodes[y]
  <2>1. CASE m # n
    BY <1>1, <2>1
  <2>2. CASE m = n /\ y = x
    BY <1>1, <2>2
  <2>3. CASE m = n /\ y # x
    <3>1. y \in DOMAIN before
      BY <1>1, <2>3
    <3>2. n \in DOMAIN c.networks /\ before = c.networks[n].nodes
      BY <3>1
    <3>3. QED
      BY <1>1, <2>3, <3>1, <3>2
  <2>4. QED
    BY <2>1, <2>2, <2>3
<1>5. Shaped(new)
  BY <1>1, <1>2, <1>4 DEF KeepsApart, Shaped
<1>6. Noted(new)
  BY <1>1, <1>3, <1>4 DEF KeepsApart, Noted
<1>7. Apart(new.networks)
  <2>1. SUFFICES ASSUME NEW m \in DOMAIN new.networks,
                        NEW o \in DOMAIN new.networks,
                        NEW y \in DOMAIN new.networks[m].nodes,
                        NEW z \in DOMAIN new.networks[o].nodes,
                        NEW k \in Kinds, NEW l \in Kinds,
                        new.networks[m].nodes[y][k] = new.networks[o].nodes[z][l],
                        new.networks[m].nodes[y][k] # NoPort
                 PROVE  m = o /\ y = z /\ k = l
    BY DEF Apart
  <2>2. CASE m = n /\ y = x /\ new.networks[m].nodes[y] = s
    BY <1>2, <1>4, <2>1, <2>2 DEF KeepsApart, Noted
  <2>3. CASE o = n /\ z = x /\ new.networks[o].nodes[z] = s
    BY <1>2, <1>4, <2>1, <2>3 DEF KeepsApart, Noted
  <2>4. CASE /\ m \in DOMAIN c.networks /\ y \in DOMAIN c.networks[m].nodes
             /\ new.networks[m].nodes[y] = c.networks[m].nodes[y]
             /\ o \in DOMAIN c.networks /\ z \in DOMAIN c.networks[o].nodes
             /\ new.networks[o].nodes[z] = c.networks[o].nodes[z]
    BY <2>1, <2>4 DEF KeepsApart, Apart
  <2>5. QED
    BY <1>4, <2>2, <2>3, <2>4
<1>8. QED
  BY <1>5, <1>6, <1>7 DEF KeepsApart, new

(* A constructor that reads a file in which no port is twice starts so: all
   ports of the file are noted. *)
THEOREM ConstructorKeepsApart ==
  ASSUME NEW nets, Apart(nets),
         \A n \in DOMAIN nets :
           /\ DOMAIN nets[n] = {"nodes", "topology"}
           /\ \A x \in DOMAIN nets[n].nodes : DOMAIN nets[n].nodes[x] = Kinds
  PROVE  KeepsApart(Constructor(nets))
<1> DEFINE c == Constructor(nets)
<1>1. c = [networks |-> nets, used |-> PortsIn(nets)]
  BY DEF Constructor
<1>2. ASSUME NEW n \in DOMAIN nets, NEW x \in DOMAIN nets[n].nodes,
             NEW k \in Kinds
      PROVE  nets[n].nodes[x][k] \in PortsIn(nets)
  <2>1. nets[n].nodes[x][k] \in Range(nets[n].nodes[x])
    BY DEF Range
  <2>2. QED
    BY <2>1 DEF PortsIn
<1> HIDE DEF c
<1>3. c.networks = nets /\ c.used = PortsIn(nets)
      /\ DOMAIN c = {"networks", "used"}
  BY <1>1
<1>4. KeepsApart(c)
  BY <1>2, <1>3 DEF KeepsApart, Shaped, Noted
<1>5. QED
  BY <1>4 DEF c

(* Fewer sockets with as many ports noted is as good. *)
LEMMA FewerKeepsApart ==
  ASSUME NEW c, KeepsApart(c), NEW new,
         DOMAIN new = {"networks", "used"},
         DOMAIN new.networks \subseteq DOMAIN c.networks,
         c.used \subseteq new.used,
         \A n \in DOMAIN new.networks :
           /\ DOMAIN new.networks[n] = {"nodes", "topology"}
           /\ DOMAIN new.networks[n].nodes \subseteq DOMAIN c.networks[n].nodes
           /\ \A x \in DOMAIN new.networks[n].nodes :
                new.networks[n].nodes[x] = c.networks[n].nodes[x]
  PROVE  KeepsApart(new)
<1>1. Shaped(new)
  BY DEF KeepsApart, Shaped
<1>2. Noted(new)
  <2>1. ASSUME NEW n \in DOMAIN new.networks,
               NEW x \in DOMAIN new.networks[n].nodes, NEW k \in Kinds
        PROVE  new.networks[n].nodes[x][k] \in new.used
    BY DEF KeepsApart, Noted
  <2>2. QED
    BY <2>1 DEF Noted
<1>3. Apart(new.networks)
  <2>1. SUFFICES ASSUME NEW m \in DOMAIN new.networks,
                        NEW o \in DOMAIN new.networks,
                        NEW y \in DOMAIN new.networks[m].nodes,
                        NEW z \in DOMAIN new.networks[o].nodes,
                        NEW k \in Kinds, NEW l \in Kinds,
                        new.networks[m].nodes[y][k] = new.networks[o].nodes[z][l],
                        new.networks[m].nodes[y][k] # NoPort
                 PROVE  m = o /\ y = z /\ k = l
    BY DEF Apart
  <2>2. QED
    BY <2>1 DEF KeepsApart, Apart
<1>4. QED
  BY <1>1, <1>2, <1>3 DEF KeepsApart

(* remove_node and remove_network take sockets out of the networks and keep
   their ports noted, so that no port returns to another node while one
   constructor is in use. *)
THEOREM RemovalKeepsApart ==
  ASSUME NEW c, KeepsApart(c), NEW n, NEW x
  PROVE  KeepsApart(RemoveNode(c, n, x)) /\ KeepsApart(RemoveNetwork(c, n))
<1>1. KeepsApart(RemoveNetwork(c, n))
  <2> DEFINE others == Restrict(c.networks, DOMAIN c.networks \ {n})
             new == RemoveNetwork(c, n)
  <2>1. /\ DOMAIN others = DOMAIN c.networks \ {n}
        /\ \A m \in DOMAIN others : others[m] = c.networks[m]
    BY DEF Restrict
  <2>2. new = [c EXCEPT !.networks = others]
    BY DEF RemoveNetwork
  <2> HIDE DEF others, new
  <2>3. new.networks = others /\ new.used = c.used /\ DOMAIN new = DOMAIN c
    BY <2>2 DEF KeepsApart, Shaped
  <2>4. /\ DOMAIN new = {"networks", "used"}
        /\ \A m \in DOMAIN c.networks :
             DOMAIN c.networks[m] = {"nodes", "topology"}
    BY <2>3 DEF KeepsApart, Shaped
  <2>5. KeepsApart(new)
    BY <2>1, <2>3, <2>4, FewerKeepsApart
  <2>6. QED
    BY <2>5 DEF new
<1>2. CASE n \in DOMAIN c.networks
  <2> DEFINE rest == Restrict(c.networks[n].nodes,
                              DOMAIN c.networks[n].nodes \ {x})
             new == RemoveNode(c, n, x)
  <2>1. /\ DOMAIN rest = DOMAIN c.networks[n].nodes \ {x}
        /\ \A y \in DOMAIN rest : rest[y] = c.networks[n].nodes[y]
    BY DEF Restrict
  <2>2. new = [c EXCEPT !.networks[n].nodes = rest]
    BY <1>2 DEF RemoveNode
  <2> HIDE DEF rest, new
  <2>3. /\ new.used = c.used /\ DOMAIN new = DOMAIN c
        /\ DOMAIN new.networks = DOMAIN c.networks
        /\ \A m \in DOMAIN c.networks \ {n} : new.networks[m] = c.networks[m]
        /\ DOMAIN new.networks[n] = DOMAIN c.networks[n]
        /\ new.networks[n].nodes = rest
    BY <1>2, <2>2 DEF KeepsApart, Shaped
  <2>4. /\ DOMAIN new = {"networks", "used"}
        /\ \A m \in DOMAIN c.networks :
             DOMAIN c.networks[m] = {"nodes", "topology"}
    BY <2>3 DEF KeepsApart, Shaped
  <2>5. ASSUME NEW m \in DOMAIN new.networks
        PROVE  /\ DOMAIN new.networks[m] = {"nodes", "topology"}
               /\ DOMAIN new.networks[m].nodes \subseteq DOMAIN c.networks[m].nodes
               /\ \A y \in DOMAIN new.networks[m].nodes :
                    new.networks[m].nodes[y] = c.networks[m].nodes[y]
    <3>1. CASE m = n
      BY <2>1, <2>3, <2>4, <3>1
    <3>2. CASE m # n
      BY <2>3, <2>4, <3>2
    <3>3. QED
      BY <3>1, <3>2
  <2>6. KeepsApart(new)
    BY <2>3, <2>4, <2>5, FewerKeepsApart
  <2>7. QED
    BY <1>1, <2>6 DEF new
<1>3. CASE n \notin DOMAIN c.networks
  BY <1>1, <1>3 DEF RemoveNode
<1>4. QED
  BY <1>2, <1>3

-----------------------------------------------------------------------------
(* What a file may hold: names, nodes and ports, each with what it should. *)

\* a constructor of a file with networks of those names, no port twice
Sound(c, names) == KeepsApart(c) /\ IsFile(c.networks, names)

(* The sockets of a new node are ports, or None. *)
LEMMA NewSocketsTyped ==
  ASSUME NEW used, NEW bound, NEW given \in Sockets
  PROVE  NodeSockets(used, bound, given) \in Sockets
<1> DEFINE s == NodeSockets(used, bound, given)
<1>1. \A u : UnusedPort(u, bound) \in Ports \cup {NoPort}
  <2>1. ASSUME NEW u
        PROVE  UnusedPort(u, bound) \in Ports \cup {NoPort}
    BY UnusedPortIsFree
  <2>2. QED
    BY <2>1
<1>2. \A kind \in Kinds : given[kind] \in Ports \cup {NoPort}
  BY DEF Sockets
<1>3. PICK a, q, v :
        /\ s = [app |-> a, qnodeos |-> q, vnode |-> v]
        /\ a = IF given["app"] = NoPort THEN UnusedPort(used \cup {}, bound)
                                        ELSE given["app"]
        /\ q = IF given["qnodeos"] = NoPort
               THEN UnusedPort(used \cup {a}, bound) ELSE given["qnodeos"]
        /\ v = IF given["vnode"] = NoPort
               THEN UnusedPort(used \cup {a, q}, bound) ELSE given["vnode"]
  BY DEF NodeSockets
<1>4. /\ a \in Ports \cup {NoPort}
      /\ q \in Ports \cup {NoPort}
      /\ v \in Ports \cup {NoPort}
  BY <1>1, <1>2, <1>3 DEF Kinds
<1>5. s \in Sockets
  <2> HIDE DEF s
  <2> QED BY <1>3, <1>4 DEF Sockets, Kinds
<1>6. QED
  BY <1>5

(* The topology after add_node: it stays when no neighbours are given, and
   otherwise gets them for the new node, the others being fully connected if
   there was none. *)
LEMMA TopologyAfterAdd ==
  ASSUME NEW c, NEW n, NEW x, NEW given, NEW neighbors, NEW bound
  PROVE  LET new == AddNode(c, n, x, given, neighbors, bound)
             network == IF n \in DOMAIN c.networks THEN c.networks[n]
                                                   ELSE EmptyNetwork
             complete == [y \in DOMAIN network.nodes |->
                            DOMAIN network.nodes \ {y}]
             before == IF network.topology = NoTopology
                       THEN complete ELSE network.topology
         IN  new.networks[n].topology =
               IF neighbors = NoTopology THEN network.topology
                                         ELSE Assigned(before, x, neighbors)
<1> DEFINE new == AddNode(c, n, x, given, neighbors, bound)
           s == NodeSockets(c.used, bound, given)
           network == IF n \in DOMAIN c.networks THEN c.networks[n]
                                                 ELSE EmptyNetwork
           with == WithNode(network, x, s, neighbors)
<1>1. new.networks = Assigned(c.networks, n, with)
  BY DEF AddNode
<1>2. new.networks[n] = with
  <2> HIDE DEF new, with
  <2> QED BY <1>1 DEF Assigned
<1> HIDE DEF new, network
<1>3. with.topology =
        IF neighbors = NoTopology
        THEN network.topology
        ELSE Assigned(IF network.topology = NoTopology
                      THEN [y \in DOMAIN network.nodes |-> DOMAIN network.nodes \ {y}]
                      ELSE network.topology, x, neighbors)
  BY DEF WithNode
<1>4. QED
  BY <1>2, <1>3 DEF new, network

(* What add_node writes is a file again. *)
LEMMA AddNodeTyped ==
  ASSUME NEW names, NEW c, IsFile(c.networks, names),
         NEW n \in names, NEW x \in Nodes, NEW given \in Sockets,
         NEW neighbors, neighbors = NoTopology \/ neighbors \subseteq Nodes,
         NEW bound
  PROVE  IsFile(AddNode(c, n, x, given, neighbors, bound).networks, names)
<1> DEFINE new == AddNode(c, n, x, given, neighbors, bound)
           s == NodeSockets(c.used, bound, given)
           network == IF n \in DOMAIN c.networks THEN c.networks[n]
                                                 ELSE EmptyNetwork
           complete == [y \in DOMAIN network.nodes |->
                          DOMAIN network.nodes \ {y}]
           before == IF network.topology = NoTopology
                     THEN complete ELSE network.topology
<1>1. /\ DOMAIN new.networks = DOMAIN c.networks \cup {n}
      /\ \A m \in DOMAIN c.networks : m # n => new.networks[m] = c.networks[m]
      /\ DOMAIN new.networks[n].nodes = DOMAIN network.nodes \cup {x}
      /\ new.networks[n].nodes[x] = s
      /\ \A y \in DOMAIN network.nodes :
           y # x => new.networks[n].nodes[y] = network.nodes[y]
  <2>1. network.nodes = IF n \in DOMAIN c.networks THEN c.networks[n].nodes
                                                   ELSE << >>
    BY DEF EmptyNetwork
  <2>2. QED
    BY <2>1, NodesAfterAdd
<1>2. s \in Sockets
  BY NewSocketsTyped
<1>3. /\ IsPartial(network.nodes, Nodes, Sockets)
      /\ \/ network.topology = NoTopology
         \/ IsPartial(network.topology, Nodes, SUBSET Nodes)
  BY DEF IsFile, EmptyNetwork, IsPartial, Range
<1>4. new.networks[n].topology =
        IF neighbors = NoTopology THEN network.topology
                                  ELSE Assigned(before, x, neighbors)
  BY TopologyAfterAdd
<1> HIDE DEF new, s, network
<1>5. IsPartial(new.networks[n].nodes, Nodes, Sockets)
  BY <1>1, <1>2, <1>3 DEF IsPartial, Range
<1>6. IsPartial(before, Nodes, SUBSET Nodes)
  <2>1. IsPartial(complete, Nodes, SUBSET Nodes)
    BY <1>3 DEF IsPartial, Range
  <2> HIDE DEF complete
  <2>2. QED
    BY <1>3, <2>1
<1> HIDE DEF before
<1>7. \/ new.networks[n].topology = NoTopology
      \/ IsPartial(new.networks[n].topology, Nodes, SUBSET Nodes)
  <2>1. CASE neighbors = NoTopology
    BY <1>3, <1>4, <2>1
  <2>2. CASE neighbors # NoTopology
    <3>1. IsPartial(Assigned(before, x, neighbors), Nodes, SUBSET Nodes)
      BY <1>6, <2>2 DEF IsPartial, Range, Assigned
    <3>2. QED
      BY <1>4, <2>2, <3>1
  <2>3. QED
    BY <2>1, <2>2
<1>8. IsFile(new.networks, names)
  BY <1>1, <1>5, <1>7 DEF IsFile
<1>9. QED
  BY <1>8 DEF new

-----------------------------------------------------------------------------
(* add_network, node by node. *)

\* the neighbours that a topology gives to a node, or None
NeighborsIn(topology, x) == IF topology = NoTopology THEN NoTopology ELSE topology[x]

\* f holds the constructors after 0 .. k nodes
AddsUpTo(f, k, c, n, xs, topology, bound) ==
  f = [i \in 0 .. k |->
         IF i = 0
         THEN RemoveNetwork(c, n)
         ELSE AddNode(f[i - 1], n, xs[i], AnyPorts,
                      NeighborsIn(topology, xs[i]), bound)]

(* The constructors that add_network goes through are there for every number
   of nodes. *)
LEMMA AdditionsExist ==
  ASSUME NEW c, NEW n, NEW xs, NEW topology, NEW bound, NEW k \in Nat
  PROVE  \E f : AddsUpTo(f, k, c, n, xs, topology, bound)
<1> DEFINE Step(d, i) == AddNode(d, n, xs[i], AnyPorts,
                                 NeighborsIn(topology, xs[i]), bound)
           base == RemoveNetwork(c, n)
           Ups(f, j) == f = [i \in 0 .. j |-> IF i = 0 THEN base ELSE Step(f[i - 1], i)]
           S == {j \in Nat : \E f : Ups(f, j)}
<1> HIDE DEF Step, base
<1>1. 0 \in S
  <2>1. Ups([i \in 0 .. 0 |-> base], 0)
    OBVIOUS
  <2>2. QED
    BY <2>1
<1>2. ASSUME NEW j \in Nat, j \in S
      PROVE  j + 1 \in S
  <2>1. PICK f : Ups(f, j)
    BY <1>2
  <2> DEFINE g == [i \in 0 .. j + 1 |->
                     IF i = j + 1 THEN Step(f[j], j + 1) ELSE f[i]]
  <2>2. ASSUME NEW i \in 0 .. j + 1
        PROVE  g[i] = IF i = 0 THEN base ELSE Step(g[i - 1], i)
    <3>1. CASE i = j + 1
      BY <3>1
    <3>2. CASE i # j + 1
      <4>1. i \in 0 .. j /\ g[i] = f[i] /\ (i # 0 => g[i - 1] = f[i - 1])
        BY <3>2
      <4>2. f[i] = IF i = 0 THEN base ELSE Step(f[i - 1], i)
        BY <2>1, <4>1
      <4>3. QED
        BY <4>1, <4>2
    <3>3. QED
      BY <3>1, <3>2
  <2>3. DOMAIN g = 0 .. j + 1 /\ g = [i \in 0 .. j + 1 |-> g[i]]
    OBVIOUS
  <2> HIDE DEF g
  <2>4. Ups(g, j + 1)
    BY <2>2, <2>3
  <2>5. QED
    BY <2>4
<1>3. k \in S
  <2> HIDE DEF S
  <2> QED BY <1>1, <1>2, SetInduction
<1>4. PICK f : Ups(f, k)
  BY <1>3
<1>5. AddsUpTo(f, k, c, n, xs, topology, bound)
  BY <1>4 DEF AddsUpTo, Step, base
<1>6. QED
  BY <1>5

(* AddNetwork is the last of them. *)
LEMMA AddNetworkAddsUp ==
  ASSUME NEW c, NEW n, NEW xs, NEW topology, NEW bound, Len(xs) \in Nat
  PROVE  \E f : /\ AddsUpTo(f, Len(xs), c, n, xs, topology, bound)
                /\ AddNetwork(c, n, xs, topology, bound) = f[Len(xs)]
<1> DEFINE all == CHOOSE f : AddsUpTo(f, Len(xs), c, n, xs, topology, bound)
<1>1. AddsUpTo(all, Len(xs), c, n, xs, topology, bound)
  BY AdditionsExist
<1>2. AddNetwork(c, n, xs, topology, bound) = all[Len(xs)]
  BY DEF AddNetwork, AddsUpTo, NeighborsIn
<1>3. QED
  BY <1>1, <1>2

\* t is topology, for the nodes of X
AsAsked(t, topology, X) ==
  IF topology = NoTopology
  THEN t = NoTopology
  ELSE t \in [X -> SUBSET Nodes] /\ \A x \in X : t[x] = topology[x]

\* d is c with the network n replaced by one of the nodes of X
Replaces(d, c, names, n, topology, X) ==
  /\ Sound(d, names)
  /\ DOMAIN d.networks = (DOMAIN c.networks \ {n}) \cup {m \in {n} : X # {}}
  /\ \A m \in DOMAIN c.networks \ {n} : d.networks[m] = c.networks[m]
  /\ X # {} => AsAsked(d.networks[n].topology, topology, X)

(* One node more of add_network. *)
LEMMA OneMoreNode ==
  ASSUME NEW names, NEW n \in names, NEW c, NEW d, NEW topology, NEW X \in SUBSET Nodes,
         NEW x \in Nodes, NEW bound,
         topology # NoTopology => topology[x] \in SUBSET Nodes,
         Replaces(d, c, names, n, topology, X)
  PROVE  Replaces(AddNode(d, n, x, AnyPorts, NeighborsIn(topology, x), bound),
                  c, names, n, topology, X \cup {x})
<1> DEFINE neighbors == NeighborsIn(topology, x)
           new == AddNode(d, n, x, AnyPorts, neighbors, bound)
           network == IF n \in DOMAIN d.networks THEN d.networks[n]
                                                 ELSE EmptyNetwork
           complete == [y \in DOMAIN network.nodes |-> DOMAIN network.nodes \ {y}]
           before == IF network.topology = NoTopology
                     THEN complete ELSE network.topology
<1>1. AnyPorts \in Sockets /\ Available(d.used, bound, AnyPorts)
  BY DEF AnyPorts, Sockets, Available, Kinds
<1>2. neighbors = NoTopology \/ neighbors \subseteq Nodes
  BY DEF NeighborsIn
<1>3. Sound(new, names)
  <2> HIDE DEF neighbors
  <2>1. KeepsApart(new)
    BY <1>1, AddNodeKeepsApart DEF Replaces, Sound
  <2>2. IsFile(new.networks, names)
    BY <1>1, <1>2, AddNodeTyped DEF Replaces, Sound
  <2>3. QED
    BY <2>1, <2>2 DEF Sound
<1>4. /\ DOMAIN new.networks = DOMAIN d.networks \cup {n}
      /\ \A m \in DOMAIN d.networks : m # n => new.networks[m] = d.networks[m]
  BY NodesAfterAdd
<1>5. new.networks[n].topology =
        IF neighbors = NoTopology THEN network.topology
                                  ELSE Assigned(before, x, neighbors)
  <2> HIDE DEF neighbors
  <2> QED BY TopologyAfterAdd
<1>6. /\ X # {} => n \in DOMAIN d.networks /\ network = d.networks[n]
      /\ X = {} => network = EmptyNetwork
  BY DEF Replaces
<1>7. AsAsked(new.networks[n].topology, topology, X \cup {x})
  <2>1. CASE topology = NoTopology
    <3>1. network.topology = NoTopology
      BY <1>6, <2>1 DEF Replaces, AsAsked, EmptyNetwork
    <3>2. neighbors = NoTopology
      BY <2>1 DEF NeighborsIn
    <3>3. QED
      BY <1>5, <2>1, <3>1, <3>2 DEF AsAsked
  <2>2. CASE topology # NoTopology
    <3>1. neighbors = topology[x] /\ neighbors \in SUBSET Nodes /\ neighbors # NoTopology
      BY <2>2, ConfigAssumption DEF NeighborsIn
    <3>2. before \in [X -> SUBSET Nodes] /\ \A y \in X : before[y] = topology[y]
      <4>1. CASE X # {}
        <5>1. /\ network.topology \in [X -> SUBSET Nodes]
              /\ \A y \in X : network.topology[y] = topology[y]
          BY <1>6, <2>2, <4>1 DEF Replaces, AsAsked
        <5>2. network.topology # NoTopology
          BY <5>1, ConfigAssumption
        <5>3. QED
          BY <5>1, <5>2
      <4>2. CASE X = {}
        <5>1. network.topology = NoTopology /\ DOMAIN network.nodes = {}
          BY <1>6, <4>2 DEF EmptyNetwork
        <5>2. QED
          BY <4>2, <5>1
      <4>3. QED
        BY <4>1, <4>2
    <3>3. new.networks[n].topology = Assigned(before, x, neighbors)
      BY <1>5, <3>1
    <3> HIDE DEF neighbors, before
    <3>4. /\ Assigned(before, x, neighbors) \in [X \cup {x} -> SUBSET Nodes]
          /\ \A y \in X \cup {x} : Assigned(before, x, neighbors)[y] = topology[y]
      BY <3>1, <3>2 DEF Assigned
    <3>5. QED
      BY <2>2, <3>3, <3>4 DEF AsAsked
  <2>3. QED
    BY <2>1, <2>2
<1> HIDE DEF new
<1>8. /\ DOMAIN new.networks = (DOMAIN c.networks \ {n}) \cup {m \in {n} : X \cup {x} # {}}
      /\ \A m \in DOMAIN c.networks \ {n} : new.networks[m] = c.networks[m]
  BY <1>4 DEF Replaces
<1>9. Replaces(new, c, names, n, topology, X \cup {x})
  BY <1>3, <1>7, <1>8 DEF Replaces
<1>10. QED
  BY <1>9 DEF new

(* add_network replaces the network by one of the nodes asked for, with the
   topology asked for, and leaves the others alone; no port is given twice. *)
THEOREM AddNetworkReplaces ==
  ASSUME NEW names, NEW n \in names, NEW c, Sound(c, names),
         NEW xs \in Seq(Nodes), NEW topology, NEW bound,
         topology # NoTopology =>
           \A x \in Range(xs) : topology[x] \in SUBSET Nodes
  PROVE  Replaces(AddNetwork(c, n, xs, topology, bound),
                  c, names, n, topology, Range(xs))
<1>1. Len(xs) \in Nat /\ DOMAIN xs = 1 .. Len(xs) /\ \A i \in 1 .. Len(xs) : xs[i] \in Nodes
  BY LenProperties, ElementOfSeq
<1>2. PICK f : /\ AddsUpTo(f, Len(xs), c, n, xs, topology, bound)
               /\ AddNetwork(c, n, xs, topology, bound) = f[Len(xs)]
  BY <1>1, AddNetworkAddsUp
<1> DEFINE Names(i) == {xs[j] : j \in 1 .. i}
           S == {i \in Nat : i <= Len(xs) =>
                   Replaces(f[i], c, names, n, topology, Names(i))}
<1>3. 0 \in S
  <2>1. f[0] = RemoveNetwork(c, n)
    BY <1>1, <1>2 DEF AddsUpTo
  <2>2. KeepsApart(RemoveNetwork(c, n))
    BY RemovalKeepsApart DEF Sound
  <2> DEFINE others == Restrict(c.networks, DOMAIN c.networks \ {n})
  <2>3. /\ DOMAIN others = DOMAIN c.networks \ {n}
        /\ \A m \in DOMAIN others : others[m] = c.networks[m]
    BY DEF Restrict
  <2>4. RemoveNetwork(c, n) = [c EXCEPT !.networks = others]
    BY DEF RemoveNetwork
  <2> HIDE DEF others
  <2>5. RemoveNetwork(c, n).networks = others
    BY <2>4 DEF Sound, KeepsApart, Shaped
  <2>6. IsFile(others, names)
    BY <2>3 DEF Sound, IsFile
  <2>7. Names(0) = {}
    OBVIOUS
  <2>8. Replaces(f[0], c, names, n, topology, Names(0))
    BY <2>1, <2>2, <2>3, <2>5, <2>6, <2>7 DEF Replaces, Sound
  <2>9. QED
    BY <2>8
<1>4. ASSUME NEW i \in Nat, i \in S
      PROVE  i + 1 \in S
  <2>1. SUFFICES ASSUME i + 1 <= Len(xs)
                 PROVE  Replaces(f[i + 1], c, names, n, topology, Names(i + 1))
    OBVIOUS
  <2>2. Replaces(f[i], c, names, n, topology, Names(i))
    BY <1>1, <1>4, <2>1
  <2>3. i + 1 \in 1 .. Len(xs) /\ xs[i + 1] \in Nodes /\ xs[i + 1] \in Range(xs)
    BY <1>1, <2>1 DEF Range
  <2>4. f[i + 1] = AddNode(f[i], n, xs[i + 1], AnyPorts,
                           NeighborsIn(topology, xs[i + 1]), bound)
    <3>1. i + 1 \in 0 .. Len(xs) /\ i + 1 # 0 /\ (i + 1) - 1 = i
      BY <1>1, <2>1
    <3>2. f[i + 1] = AddNode(f[(i + 1) - 1], n, xs[i + 1], AnyPorts,
                             NeighborsIn(topology, xs[i + 1]), bound)
      BY <1>2, <3>1 DEF AddsUpTo
    <3>3. QED
      BY <3>1, <3>2
  <2>5. Names(i) \in SUBSET Nodes
    BY <1>1, <2>1
  <2>6. Names(i + 1) = Names(i) \cup {xs[i + 1]}
    OBVIOUS
  <2> HIDE DEF Names
  <2>7. topology # NoTopology => topology[xs[i + 1]] \in SUBSET Nodes
    BY <2>3
  <2>8. QED
    BY <2>2, <2>3, <2>4, <2>5, <2>6, <2>7, OneMoreNode
<1>5. Len(xs) \in S
  <2> HIDE DEF S
  <2> QED BY <1>1, <1>3, <1>4, SetInduction
<1>6. Names(Len(xs)) = Range(xs)
  BY <1>1 DEF Range
<1>7. Replaces(f[Len(xs)], c, names, n, topology, Names(Len(xs)))
  <2> HIDE DEF Names
  <2> QED BY <1>1, <1>5
<1> HIDE DEF Names, S
<1>8. QED
  BY <1>2, <1>6, <1>7

-----------------------------------------------------------------------------
(* The named topologies. *)

\* every node has neighbours among the nodes, and is one of its neighbours'
MutualOn(top, X) ==
  /\ top \in [X -> SUBSET X]
  /\ \A x, y \in X : y \in top[x] <=> x \in top[y]

(* Indices that go round: the ones before and after a position. *)
LEMMA RoundAbout ==
  ASSUME NEW n \in Nat, NEW i \in 1 .. n
  PROVE  /\ i % n = IF i = n THEN 0 ELSE i
         /\ (i - 2 + n) % n = IF i = 1 THEN n - 1 ELSE i - 2
<1>1. \A a \in Nat : a < n => a % n = a /\ (a + n) % n = a
  OBVIOUS
<1>2. n % n = 0
  OBVIOUS
<1>3. i % n = IF i = n THEN 0 ELSE i
  BY <1>1, <1>2
<1>4. CASE i = 1
  <2>1. i - 2 + n = n - 1 /\ n - 1 \in Nat /\ n - 1 < n
    BY <1>4
  <2>2. QED
    BY <1>1, <1>3, <1>4, <2>1
<1>5. CASE i # 1
  <2>1. i - 2 \in Nat /\ i - 2 < n
    BY <1>5
  <2>2. QED
    BY <1>1, <1>3, <1>5, <2>1
<1>6. QED
  BY <1>4, <1>5

(* In a ring and in a path, neighbours are so in both directions, provided
   that no name is there twice. *)
LEMMA RingIsMutual ==
  ASSUME NEW xs \in Seq(Nodes), IsInjective(xs)
  PROVE  MutualOn(Ring(xs), Range(xs))
<1>0. PICK n \in Nat : n = Len(xs)
  BY LenProperties
<1> DEFINE index(x) == CHOOSE j \in DOMAIN xs : xs[j] = x
           after(i) == IF i = n THEN 1 ELSE i + 1
           before(i) == IF i = 1 THEN n ELSE i - 1
<1>1. n \in Nat /\ DOMAIN xs = 1 .. n
  BY <1>0, LenProperties
<1>2. \A x \in Range(xs) : index(x) \in 1 .. n /\ xs[index(x)] = x
  BY <1>1 DEF Range
<1>3. \A i \in 1 .. n : xs[i] \in Range(xs)
  BY <1>1 DEF Range
<1>4. \A i, j \in 1 .. n : xs[i] = xs[j] => i = j
  BY <1>1 DEF IsInjective
<1>5. \A i \in 1 .. n : /\ At(xs, i + 1) = xs[after(i)]
                        /\ At(xs, i - 1 + n) = xs[before(i)]
  <2>1. ASSUME NEW i \in 1 .. n
        PROVE  /\ At(xs, i + 1) = xs[after(i)]
               /\ At(xs, i - 1 + n) = xs[before(i)]
    <3>1. /\ i % n = IF i = n THEN 0 ELSE i
          /\ (i - 2 + n) % n = IF i = 1 THEN n - 1 ELSE i - 2
      BY <1>1, RoundAbout
    <3>2. (i + 1) - 1 = i /\ (i - 1 + n) - 1 = i - 2 + n
      BY <1>1
    <3>3. /\ At(xs, i + 1) = xs[(i % n) + 1]
          /\ At(xs, i - 1 + n) = xs[((i - 2 + n) % n) + 1]
      BY <1>0, <3>2 DEF At
    <3>4. (i % n) + 1 = after(i) /\ ((i - 2 + n) % n) + 1 = before(i)
      BY <1>1, <3>1
    <3>5. QED
      BY <3>3, <3>4
  <2>2. QED
    BY <2>1
<1>6. \A i \in 1 .. n : after(i) \in 1 .. n /\ before(i) \in 1 .. n
  BY <1>1
<1>7. \A i, j \in 1 .. n : j = before(i) <=> i = after(j)
  BY <1>1
<1>8. \A x \in Range(xs) :
        Ring(xs)[x] = {xs[before(index(x))], xs[after(index(x))]}
  <2>1. ASSUME NEW x \in Range(xs)
        PROVE  Ring(xs)[x] = {xs[before(index(x))], xs[after(index(x))]}
    <3>1. Ring(xs)[x] = {At(xs, index(x) - 1 + Len(xs)), At(xs, index(x) + 1)}
      BY DEF Ring
    <3> HIDE DEF index, after, before
    <3>2. QED
      BY <1>0, <1>2, <1>5, <3>1
  <2>2. QED
    BY <2>1
<1> DEFINE ring == Ring(xs)
<1>9. ring = [x \in Range(xs) |-> ring[x]]
  BY DEF Ring
<1> HIDE DEF ring, index, after, before
<1>10. \A x \in Range(xs) : ring[x] = {xs[before(index(x))], xs[after(index(x))]}
  BY <1>8 DEF ring
<1>11. ring \in [Range(xs) -> SUBSET Range(xs)]
  BY <1>2, <1>3, <1>6, <1>9, <1>10
<1>12. ASSUME NEW x \in Range(xs), NEW y \in Range(xs)
       PROVE  y \in ring[x] <=> \/ index(y) = before(index(x))
                                \/ index(y) = after(index(x))
  <2>1. /\ index(x) \in 1 .. n /\ index(y) \in 1 .. n /\ xs[index(y)] = y
        /\ before(index(x)) \in 1 .. n /\ after(index(x)) \in 1 .. n
    BY <1>2, <1>6
  <2>2. y \in ring[x] <=> \/ xs[index(y)] = xs[before(index(x))]
                         \/ xs[index(y)] = xs[after(index(x))]
    BY <1>10, <2>1
  <2>3. QED
    BY <1>4, <2>1, <2>2
<1>13. ASSUME NEW x \in Range(xs), NEW y \in Range(xs)
       PROVE  y \in ring[x] <=> x \in ring[y]
  <2>1. index(x) \in 1 .. n /\ index(y) \in 1 .. n
    BY <1>2
  <2>2. QED
    BY <1>7, <1>12, <2>1
<1>14. MutualOn(ring, Range(xs))
  BY <1>11, <1>13 DEF MutualOn
<1>15. QED
  BY <1>14 DEF ring

LEMMA PathIsMutual ==
  ASSUME NEW xs \in Seq(Nodes), IsInjective(xs)
  PROVE  MutualOn(Path(xs), Range(xs))
<1>0. PICK n \in Nat : n = Len(xs)
  BY LenProperties
<1> DEFINE index(x) == CHOOSE j \in DOMAIN xs : xs[j] = x
<1>1. n \in Nat /\ DOMAIN xs = 1 .. n
  BY <1>0, LenProperties
<1>2. \A x \in Range(xs) : index(x) \in 1 .. n /\ xs[index(x)] = x
  BY <1>1 DEF Range
<1>3. \A i \in 1 .. n : xs[i] \in Range(xs)
  BY <1>1 DEF Range
<1>4. \A i, j \in 1 .. n : xs[i] = xs[j] => i = j
  BY <1>1 DEF IsInjective
<1> DEFINE path == Path(xs)
<1>5. path = [x \in Range(xs) |->
                {xs[j] : j \in {index(x) - 1, index(x) + 1} \cap 1 .. n}]
  BY <1>1 DEF Path
<1> HIDE DEF path, index
<1>6. \A x \in Range(xs) : path[x] \subseteq Range(xs)
  BY <1>3, <1>5
<1>7. path \in [Range(xs) -> SUBSET Range(xs)]
  BY <1>5, <1>6
<1>8. ASSUME NEW x \in Range(xs), NEW y \in Range(xs)
      PROVE  y \in path[x] <=> \/ index(y) = index(x) - 1
                               \/ index(y) = index(x) + 1
  BY <1>2, <1>4, <1>5
<1>9. ASSUME NEW x \in Range(xs), NEW y \in Range(xs)
      PROVE  y \in path[x] <=> x \in path[y]
  <2>1. index(x) \in 1 .. n /\ index(y) \in 1 .. n
    BY <1>2
  <2>2. QED
    BY <1>1, <1>8, <2>1
<1>10. MutualOn(path, Range(xs))
  BY <1>7, <1>9 DEF MutualOn
<1>11. QED
  BY <1>10 DEF path

(* Whatever topology a network is started with, named or random, its nodes
   agree about who is next to whom. *)
THEOREM TopologiesAreMutual ==
  ASSUME NEW xs \in Seq(Nodes), IsInjective(xs), NEW shape \in Shapes,
         NEW top \in Topologies(shape, xs)
  PROVE  top = NoTopology \/ MutualOn(top, Range(xs))
<1>1. CASE shape = "none"
  BY <1>1 DEF Topologies
<1>2. CASE shape = "complete"
  <2>1. top = [x \in Range(xs) |-> Range(xs) \ {x}]
    BY <1>2 DEF Topologies
  <2>2. QED
    BY <2>1 DEF MutualOn
<1>3. CASE shape = "ring"
  BY <1>3, RingIsMutual DEF Topologies
<1>4. CASE shape = "path"
  BY <1>4, PathIsMutual DEF Topologies
<1>5. CASE shape \in {"random_tree", "random_connected"}
  <2>1. top \in Undirected(Range(xs))
    BY <1>5 DEF Topologies, RandomTrees, RandomConnected
  <2>2. QED
    BY <2>1 DEF Undirected, MutualOn
<1>6. QED
  BY <1>1, <1>2, <1>3, <1>4, <1>5 DEF Shapes

-----------------------------------------------------------------------------
(* Networks that are started, stopped and edited.                          *)

Serving(p) == qnodeos[p] \in {"calling", "binding", "up"}

\* TypeOK, process by process
VirtualTyped(p) ==
  /\ virtual[p] \in {"off", "starting", "up", "dead"}
  /\ IsPartial(hostDict[p], Nodes, Ports)
  /\ conn[p] \in [DOMAIN conn[p] -> Processes]
  /\ DOMAIN conn[p] \subseteq DOMAIN hostDict[p]
  /\ (virtual[p] = "up") <=> (p[2] \in DOMAIN conn[p])

QnodeosTyped(p) ==
  /\ qnodeos[p] \in {"off", "starting", "calling", "binding", "up", "dead"}
  /\ root[p] \in Processes \cup {Nothing}
  /\ (qnodeos[p] \in {"binding", "up"}) => root[p] \in Processes
  /\ (config[p] # NoConfig) <=> Serving(p)

VirtualInv ==
  /\ DOMAIN virtual = Processes /\ virtual = [p \in Processes |-> virtual[p]]
  /\ DOMAIN hostDict = Processes /\ DOMAIN conn = Processes
  /\ \A p \in Processes : VirtualTyped(p)

QnodeosInv ==
  /\ DOMAIN qnodeos = Processes /\ qnodeos = [p \in Processes |-> qnodeos[p]]
  /\ DOMAIN config = Processes /\ DOMAIN root = Processes
  /\ \A p \in Processes : QnodeosTyped(p)

DaemonInv ==
  /\ stage \in [Networks -> {"off", "read", "up", "stopping", "failed"}]
  /\ nodes \in [Networks -> Seq(Nodes)]
  /\ DOMAIN memory = Networks
  /\ \A n \in Networks : stage[n] = "read" => Sound(memory[n], Networks)
  /\ starts \in 0 .. MaxStarts

FileInv ==
  /\ Sound(Constructor(file), Networks)
  /\ foreign \subseteq Ports
  /\ oneSided \subseteq Networks
  /\ edits \in 0 .. MaxEdits

\* processes are there only while their network is started
StageInv ==
  \A p \in Processes : Alive(p) => stage[p[1]] \in {"up", "stopping"}

TypeInv == VirtualInv /\ QnodeosInv /\ DaemonInv /\ FileInv /\ StageInv

(* It is more than TypeOK. *)
LEMMA TypeInvTypes == TypeInv => TypeOK
<1> SUFFICES ASSUME TypeInv PROVE TypeOK
  OBVIOUS
<1>1. IsFile(file, Networks)
  BY DEF TypeInv, FileInv, Sound, Constructor
<1>2. virtual \in [Processes -> {"off", "starting", "up", "dead"}]
  BY DEF TypeInv, VirtualInv, VirtualTyped
<1>3. qnodeos \in [Processes -> {"off", "starting", "calling", "binding", "up", "dead"}]
  BY DEF TypeInv, QnodeosInv, QnodeosTyped
<1>4. \A p \in Processes :
        /\ IsPartial(hostDict[p], Nodes, Ports)
        /\ conn[p] \in [DOMAIN conn[p] -> Processes]
        /\ DOMAIN conn[p] \subseteq DOMAIN hostDict[p]
        /\ (virtual[p] = "up") <=> (p[2] \in DOMAIN conn[p])
  BY DEF TypeInv, VirtualInv, VirtualTyped
<1>5. \A p \in Processes :
        /\ root[p] \in Processes \cup {Nothing}
        /\ (qnodeos[p] \in {"binding", "up"}) => root[p] \in Processes
        /\ (config[p] # NoConfig) <=> qnodeos[p] \in {"calling", "binding", "up"}
  BY DEF TypeInv, QnodeosInv, QnodeosTyped, Serving
<1>6. QED
  BY <1>1, <1>2, <1>3, <1>4, <1>5 DEF TypeOK, TypeInv, DaemonInv, FileInv

(* What has been written is what can be read. *)
LEMMA WrittenIsSound ==
  ASSUME NEW names, NEW c, Sound(c, names)
  PROVE  Sound(Constructor(c.networks), names)
<1>1. KeepsApart(Constructor(c.networks))
  BY ConstructorKeepsApart DEF Sound, KeepsApart, Shaped
<1>2. Constructor(c.networks).networks = c.networks
  BY DEF Constructor
<1>3. QED
  BY <1>1, <1>2 DEF Sound

(* The configuration of an empty installation, and that of `reset', is sound
   and has one network, without a topology. *)
LEMMA DefaultIsSound ==
  ASSUME NEW xs \in NodeLists[Default], NEW bound
  PROVE  LET f == DefaultConfig(Default, xs, bound)
         IN  /\ Sound(Constructor(f), Networks)
             /\ DOMAIN f \subseteq {Default}
             /\ \A n \in DOMAIN f : f[n].topology = NoTopology
<1> DEFINE empty == Constructor(<< >>)
           c == AddNetwork(empty, Default, xs, NoTopology, bound)
<1>1. Sound(empty, Networks)
  <2>1. DOMAIN << >> = {}
    OBVIOUS
  <2>2. KeepsApart(empty)
    <3>1. \A f : DOMAIN f = {} => KeepsApart(Constructor(f))
      BY ConstructorKeepsApart DEF Apart
    <3>2. QED
      BY <2>1, <3>1
  <2>3. IsFile(<< >>, Networks)
    BY <2>1 DEF IsFile
  <2>4. QED
    BY <2>2, <2>3 DEF Sound, Constructor
<1>2. xs \in Seq(Nodes) /\ Default \in Networks
  BY NetworksAssumption
<1>3. Replaces(c, empty, Networks, Default, NoTopology, Range(xs))
  <2> HIDE DEF empty
  <2> QED BY <1>1, <1>2, AddNetworkReplaces
<1>4. DOMAIN empty.networks = {}
  BY DEF Constructor
<1> HIDE DEF empty, c
<1>5. /\ Sound(Constructor(c.networks), Networks)
      /\ DOMAIN c.networks \subseteq {Default}
      /\ \A n \in DOMAIN c.networks : c.networks[n].topology = NoTopology
  BY <1>3, <1>4, WrittenIsSound DEF Replaces, AsAsked
<1>6. DefaultConfig(Default, xs, bound) = c.networks
  BY DEF DefaultConfig, c, empty
<1>7. QED
  BY <1>5, <1>6

-----------------------------------------------------------------------------
(* Types: the first state. *)
LEMMA InitTypes == Init => TypeInv
<1> SUFFICES ASSUME Init PROVE TypeInv
  OBVIOUS
<1>1. FileInv
  <2>1. PICK xs \in NodeLists[Default] : file = DefaultConfig(Default, xs, {})
    BY DEF Init
  <2>2. Sound(Constructor(file), Networks)
    BY <2>1, DefaultIsSound
  <2>3. foreign = {} /\ oneSided = {} /\ edits = 0 /\ MaxEdits \in Nat
    BY NetworksAssumption DEF Init
  <2>4. QED
    BY <2>2, <2>3 DEF FileInv
<1>2. DaemonInv
  <2>1. << >> \in Seq(Nodes)
    BY EmptySeq
  <2>2. QED
    BY <2>1, NetworksAssumption DEF Init, DaemonInv
<1>3. VirtualInv
  <2>1. ASSUME NEW p \in Processes
        PROVE  VirtualTyped(p)
    <3>1. virtual[p] = "off" /\ hostDict[p] = << >> /\ conn[p] = << >>
      BY DEF Init
    <3>2. DOMAIN << >> = {} /\ Range(<< >>) = {} /\ << >> \in [{} -> Processes]
      BY DEF Range
    <3>3. QED
      BY <3>1, <3>2 DEF VirtualTyped, IsPartial
  <2>2. QED
    BY <2>1 DEF Init, VirtualInv
<1>4. QnodeosInv
  BY DEF Init, QnodeosInv, QnodeosTyped, Serving
<1>5. StageInv
  BY DEF Init, StageInv, Alive
<1>6. QED
  BY <1>1, <1>2, <1>3, <1>4, <1>5 DEF TypeInv

(* What a step leaves alone stays typed. *)
LEMMA VirtualStays == VirtualInv /\ UNCHANGED virtualVars => VirtualInv'
BY DEF VirtualInv, VirtualTyped, virtualVars

LEMMA QnodeosStays == QnodeosInv /\ UNCHANGED qnodeosVars => QnodeosInv'
BY DEF QnodeosInv, QnodeosTyped, Serving, qnodeosVars

LEMMA DaemonStays == DaemonInv /\ UNCHANGED daemonVars => DaemonInv'
BY DEF DaemonInv, daemonVars

LEMMA FileStays == FileInv /\ UNCHANGED fileVars => FileInv'
BY DEF FileInv, fileVars

(* Processes stay with their networks while nobody is started and no daemon
   comes from `up' or `stopping' but to `stopping'. *)
LEMMA StageStays ==
  ASSUME StageInv,
         \A p \in Processes : Alive(p)' => Alive(p),
         \A n \in Networks :
           stage[n] \in {"up", "stopping"} => stage'[n] \in {"up", "stopping"}
  PROVE  StageInv'
<1>1. \A p \in Processes : p[1] \in Networks
  BY DEF Processes
<1>2. QED
  BY <1>1 DEF StageInv

(* Types: the daemon. *)
LEMMA TypeStart ==
  ASSUME TypeInv, NEW n \in Networks, Start(n)
  PROVE  TypeInv'
<1>1. VirtualInv' /\ QnodeosInv' /\ FileInv'
  BY VirtualStays, QnodeosStays, FileStays DEF Start, TypeInv
<1>2. DaemonInv'
  <2>1. Sound(memory'[n], Networks)
    BY DEF Start, TypeInv, DaemonInv, FileInv
  <2>2. \A m \in Networks : stage'[m] = "read" => Sound(memory'[m], Networks)
    BY <2>1 DEF Start, TypeInv, DaemonInv
  <2>3. starts' \in 0 .. MaxStarts
    BY NetworksAssumption DEF Start, TypeInv, DaemonInv
  <2>4. QED
    BY <2>2, <2>3 DEF Start, TypeInv, DaemonInv
<1>3. StageInv'
  BY StageStays DEF Start, TypeInv, DaemonInv, virtualVars, qnodeosVars, Alive
<1>4. QED
  BY <1>1, <1>2, <1>3 DEF TypeInv

LEMMA TypeLaunch ==
  ASSUME TypeInv, NEW n \in Networks, NEW xs \in Seq(Nodes),
         stage[n] = "read", Launch(n, xs),
         UNCHANGED <<starts, hostDict, conn, config, root>>
  PROVE  VirtualInv' /\ QnodeosInv' /\ DaemonInv' /\ StageInv'
<1> DEFINE started == {n} \X Range(xs)
<1>1. ASSUME NEW p \in Processes, p \in started
      PROVE  p[1] = n /\ ~Alive(p)
    BY <1>1 DEF TypeInv, StageInv, Processes
<1> HIDE DEF started
<1>2. /\ virtual' = [p \in Processes |->
                       IF p \in started THEN "starting" ELSE virtual[p]]
      /\ qnodeos' = [p \in Processes |->
                       IF p \in started THEN "starting" ELSE qnodeos[p]]
      /\ stage' = [stage EXCEPT ![n] = "up"]
      /\ memory' = [memory EXCEPT ![n] = Nothing]
      /\ nodes' = [nodes EXCEPT ![n] = xs]
  BY DEF Launch, started
<1>3. VirtualInv'
  <2>1. ASSUME NEW p \in Processes
        PROVE  VirtualTyped(p)'
    BY <1>1, <1>2 DEF TypeInv, VirtualInv, VirtualTyped, Alive
  <2>2. QED
    BY <1>2, <2>1 DEF TypeInv, VirtualInv
<1>4. QnodeosInv'
  <2>1. ASSUME NEW p \in Processes
        PROVE  QnodeosTyped(p)'
    BY <1>1, <1>2 DEF TypeInv, QnodeosInv, QnodeosTyped, Alive, Serving
  <2>2. QED
    BY <1>2, <2>1 DEF TypeInv, QnodeosInv
<1>5. DaemonInv'
  BY <1>2 DEF TypeInv, DaemonInv
<1>6. StageInv'
  <2>1. ASSUME NEW p \in Processes, Alive(p)'
        PROVE  stage'[p[1]] \in {"up", "stopping"}
    <3>1. p[1] \in Networks
      BY DEF Processes
    <3>2. CASE p \in started
      BY <1>1, <1>2, <3>1, <3>2 DEF TypeInv, DaemonInv
    <3>3. CASE p \notin started
      <4>1. Alive(p)
        BY <1>2, <2>1, <3>3 DEF Alive
      <4>2. QED
        BY <1>2, <3>1, <4>1 DEF TypeInv, DaemonInv, StageInv
    <3>4. QED
      BY <3>2, <3>3
  <2>2. QED
    BY <2>1 DEF StageInv
<1>7. QED
  BY <1>3, <1>4, <1>5, <1>6

LEMMA TypeLaunchNew ==
  ASSUME TypeInv, NEW n \in Networks, NEW xs \in NodeLists[n],
         NEW shape \in Asked, NEW top \in Topologies(shape, xs),
         LaunchNew(n, xs, top)
  PROVE  TypeInv'
<1>1. xs \in Seq(Nodes) /\ IsInjective(xs) /\ shape \in Shapes
  BY NetworksAssumption
<1>2. VirtualInv' /\ QnodeosInv' /\ DaemonInv' /\ StageInv'
  BY <1>1, TypeLaunch DEF LaunchNew
<1>3. PICK c, bound : /\ c = memory[n] /\ bound = Bound
                      /\ file' = AddNetwork(c, n, xs, top, bound).networks
                      /\ Sound(c, Networks)
  BY DEF LaunchNew, TypeInv, DaemonInv
<1>4. top # NoTopology => \A x \in Range(xs) : top[x] \in SUBSET Nodes
  <2>1. Range(xs) \subseteq Nodes
    BY <1>1, LenProperties, ElementOfSeq DEF Range
  <2>2. QED
    BY <1>1, <2>1, TopologiesAreMutual DEF MutualOn
<1>5. Replaces(AddNetwork(c, n, xs, top, bound), c, Networks, n, top, Range(xs))
  BY <1>1, <1>3, <1>4, AddNetworkReplaces
<1>6. Sound(Constructor(file'), Networks)
  BY <1>3, <1>5, WrittenIsSound DEF Replaces
<1>7. FileInv'
  BY <1>6 DEF LaunchNew, TypeInv, FileInv
<1>8. QED
  BY <1>2, <1>7 DEF TypeInv

LEMMA TypeLaunchKept ==
  ASSUME TypeInv, NEW n \in Networks, NEW xs \in NodeLists[n], LaunchKept(n, xs)
  PROVE  TypeInv'
<1>1. xs \in Seq(Nodes)
  BY NetworksAssumption
<1>2. VirtualInv' /\ QnodeosInv' /\ DaemonInv' /\ StageInv'
  BY <1>1, TypeLaunch DEF LaunchKept
<1>3. FileInv'
  BY FileStays DEF LaunchKept, TypeInv
<1>4. QED
  BY <1>2, <1>3 DEF TypeInv

LEMMA TypeFailToLaunch ==
  ASSUME TypeInv, NEW n \in Networks, NEW xs, FailToLaunch(n, xs)
  PROVE  TypeInv'
<1>1. VirtualInv' /\ QnodeosInv' /\ FileInv'
  BY VirtualStays, QnodeosStays, FileStays DEF FailToLaunch, TypeInv
<1>2. DaemonInv'
  BY DEF FailToLaunch, TypeInv, DaemonInv
<1>3. StageInv'
  BY StageStays DEF FailToLaunch, TypeInv, DaemonInv, virtualVars, qnodeosVars, Alive
<1>4. QED
  BY <1>1, <1>2, <1>3 DEF TypeInv

LEMMA TypeStop ==
  ASSUME TypeInv, NEW n \in Networks, Stop(n)
  PROVE  TypeInv'
<1>1. VirtualInv' /\ QnodeosInv' /\ FileInv'
  BY VirtualStays, QnodeosStays, FileStays DEF Stop, TypeInv
<1>2. DaemonInv'
  BY DEF Stop, TypeInv, DaemonInv
<1>3. StageInv'
  BY StageStays DEF Stop, TypeInv, DaemonInv, virtualVars, qnodeosVars, Alive
<1>4. QED
  BY <1>1, <1>2, <1>3 DEF TypeInv

\* Terminate, of the process p
Terminates(n, p) ==
  /\ stage[n] = "stopping"
  /\ IF virtual[p] \in {"starting", "up"}
     THEN /\ virtual' = [virtual EXCEPT ![p] = "dead"]
          /\ hostDict' = [hostDict EXCEPT ![p] = << >>]
          /\ conn' = [conn EXCEPT ![p] = << >>]
          /\ UNCHANGED qnodeosVars
     ELSE /\ qnodeos' = [qnodeos EXCEPT ![p] = "dead"]
          /\ config' = [config EXCEPT ![p] = NoConfig]
          /\ root' = [root EXCEPT ![p] = Nothing]
          /\ UNCHANGED virtualVars
  /\ UNCHANGED <<fileVars, daemonVars>>

LEMMA TerminatesOne ==
  ASSUME NEW n, Terminate(n)
  PROVE  \E p : Terminates(n, p)
BY Zenon DEF Terminate, Terminates

LEMMA TypeTerminate ==
  ASSUME TypeInv, NEW n \in Networks, Terminate(n)
  PROVE  TypeInv'
<1>1. PICK p : Terminates(n, p)
  BY TerminatesOne
<1>2. DOMAIN << >> = {} /\ Range(<< >>) = {} /\ << >> \in [{} -> Processes]
  BY DEF Range
<1>3. VirtualInv'
  <2>1. CASE UNCHANGED virtualVars
    BY <2>1, VirtualStays DEF TypeInv
  <2>2. CASE /\ virtual' = [virtual EXCEPT ![p] = "dead"]
             /\ hostDict' = [hostDict EXCEPT ![p] = << >>]
             /\ conn' = [conn EXCEPT ![p] = << >>]
    <3>1. ASSUME NEW q \in Processes
          PROVE  VirtualTyped(q)'
      <4>1. CASE q = p
        <5>1. virtual'[q] = "dead" /\ hostDict'[q] = << >> /\ conn'[q] = << >>
          BY <2>2, <4>1 DEF TypeInv, VirtualInv
        <5>2. QED
          BY <1>2, <5>1 DEF VirtualTyped, IsPartial
      <4>2. CASE q # p
        <5>1. /\ virtual'[q] = virtual[q] /\ hostDict'[q] = hostDict[q]
              /\ conn'[q] = conn[q]
          BY <2>2, <4>2 DEF TypeInv, VirtualInv
        <5>2. QED
          BY <5>1 DEF TypeInv, VirtualInv, VirtualTyped
      <4>3. QED
        BY <4>1, <4>2
    <3>2. QED
      BY <2>2, <3>1 DEF TypeInv, VirtualInv
  <2>3. QED
    BY <1>1, <2>1, <2>2 DEF Terminates
<1>4. QnodeosInv'
  <2>1. CASE UNCHANGED qnodeosVars
    BY <2>1, QnodeosStays DEF TypeInv
  <2>2. CASE /\ qnodeos' = [qnodeos EXCEPT ![p] = "dead"]
             /\ config' = [config EXCEPT ![p] = NoConfig]
             /\ root' = [root EXCEPT ![p] = Nothing]
    <3>1. ASSUME NEW q \in Processes
          PROVE  QnodeosTyped(q)'
      BY <2>2 DEF TypeInv, QnodeosInv, QnodeosTyped, Serving
    <3>2. QED
      BY <2>2, <3>1 DEF TypeInv, QnodeosInv
  <2>3. QED
    BY <1>1, <2>1, <2>2 DEF Terminates
<1>5. DaemonInv' /\ FileInv'
  BY <1>1, DaemonStays, FileStays DEF Terminates, TypeInv
<1>6. StageInv'
  <2>1. ASSUME NEW q \in Processes, Alive(q)'
        PROVE  Alive(q)
    BY <1>1, <2>1 DEF Terminates, Alive, virtualVars, qnodeosVars, TypeInv, VirtualInv,
                      QnodeosInv
  <2>2. stage' = stage
    BY <1>1 DEF Terminates, daemonVars
  <2>3. QED
    BY <2>1, <2>2, StageStays DEF TypeInv
<1>7. QED
  BY <1>3, <1>4, <1>5, <1>6 DEF TypeInv

LEMMA TypeStopped ==
  ASSUME TypeInv, NEW n \in Networks, Stopped(n)
  PROVE  TypeInv'
<1>1. \A p \in Processes : p[1] = n => ~Alive(p)
  BY DEF Stopped, Processes
<1>2. /\ virtual' = [p \in Processes |-> IF p[1] = n THEN "off" ELSE virtual[p]]
      /\ qnodeos' = [p \in Processes |-> IF p[1] = n THEN "off" ELSE qnodeos[p]]
      /\ stage' = [stage EXCEPT ![n] = "off"]
      /\ nodes' = [nodes EXCEPT ![n] = << >>]
      /\ UNCHANGED <<fileVars, memory, starts, hostDict, conn, config, root>>
  BY DEF Stopped
<1>3. VirtualInv'
  <2>1. ASSUME NEW p \in Processes
        PROVE  VirtualTyped(p)'
    BY <1>1, <1>2 DEF TypeInv, VirtualInv, VirtualTyped, Alive
  <2>2. QED
    BY <1>2, <2>1 DEF TypeInv, VirtualInv
<1>4. QnodeosInv'
  <2>1. ASSUME NEW p \in Processes
        PROVE  QnodeosTyped(p)'
    BY <1>1, <1>2 DEF TypeInv, QnodeosInv, QnodeosTyped, Alive, Serving
  <2>2. QED
    BY <1>2, <2>1 DEF TypeInv, QnodeosInv
<1>5. DaemonInv'
  BY <1>2, EmptySeq DEF TypeInv, DaemonInv
<1>6. FileInv'
  BY <1>2, FileStays DEF TypeInv
<1>7. StageInv'
  BY <1>2 DEF TypeInv, DaemonInv, StageInv, Alive
<1>8. QED
  BY <1>3, <1>4, <1>5, <1>6, <1>7 DEF TypeInv

-----------------------------------------------------------------------------
(* Types: the other commands. *)
LEMMA TypeEdit ==
  ASSUME TypeInv, NEW networks, Edit(networks), Sound(Constructor(networks), Networks),
         oneSided' \subseteq Networks
  PROVE  TypeInv'
<1>1. VirtualInv' /\ QnodeosInv' /\ DaemonInv'
  BY VirtualStays, QnodeosStays, DaemonStays DEF Edit, TypeInv
<1>2. FileInv'
  BY NetworksAssumption DEF Edit, TypeInv, FileInv
<1>3. StageInv'
  BY DEF Edit, TypeInv, StageInv, Alive, daemonVars, virtualVars, qnodeosVars
<1>4. QED
  BY <1>1, <1>2, <1>3 DEF TypeInv

LEMMA AddIsSound ==
  ASSUME TypeInv, NEW a \in Additions, NEW bound,
         Available(PortsIn(file), bound, a.ports)
  PROVE  Sound(AddNode(Constructor(file), a.to, a.node, a.ports, a.neighbors, bound),
               Networks)
<1> DEFINE c == Constructor(file)
           given == a.ports
           neighbors == a.neighbors
<1>1. /\ a.to \in Networks /\ a.node \in Nodes /\ given \in Sockets
      /\ neighbors = NoTopology \/ neighbors \subseteq Nodes
  BY NetworksAssumption
<1>2. Sound(c, Networks) /\ c.used = PortsIn(file)
  BY DEF TypeInv, FileInv, Constructor
<1> HIDE DEF c
<1>3. KeepsApart(AddNode(c, a.to, a.node, given, neighbors, bound))
  BY <1>2, AddNodeKeepsApart DEF Sound
<1>4. IsFile(AddNode(c, a.to, a.node, given, neighbors, bound).networks, Networks)
  <2> HIDE DEF given, neighbors
  <2> QED BY <1>1, <1>2, AddNodeTyped DEF Sound
<1>5. QED
  BY <1>3, <1>4 DEF Sound, c

LEMMA TypeAdd ==
  ASSUME TypeInv, NEW a \in Additions, Add(a)
  PROVE  TypeInv'
<1>1. PICK bound : bound = Bound
  OBVIOUS
<1> DEFINE new == AddNode(Constructor(file), a.to, a.node, a.ports, a.neighbors, bound)
<1>2. /\ Edit(new.networks)
      /\ Available(PortsIn(file), bound, a.ports)
      /\ oneSided' = IF a.neighbors = NoTopology THEN oneSided
                                                  ELSE oneSided \cup {a.to}
  BY <1>1 DEF Add
<1>3. Sound(new, Networks)
  BY <1>2, AddIsSound
<1> HIDE DEF new
<1>4. oneSided' \subseteq Networks
  BY <1>2, NetworksAssumption DEF TypeInv, FileInv
<1>5. QED
  BY <1>2, <1>3, <1>4, WrittenIsSound, TypeEdit

(* remove_node leaves the other networks, the other nodes and all topologies. *)
LEMMA DropIsSound ==
  ASSUME NEW names, NEW c, Sound(c, names), NEW n, NEW x
  PROVE  LET new == RemoveNode(c, n, x)
         IN  /\ Sound(new, names)
             /\ DOMAIN new.networks = DOMAIN c.networks
             /\ \A m \in DOMAIN c.networks :
                  /\ m # n => new.networks[m] = c.networks[m]
                  /\ new.networks[m].topology = c.networks[m].topology
<1>1. CASE n \notin DOMAIN c.networks
  BY <1>1 DEF RemoveNode
<1>2. CASE n \in DOMAIN c.networks
  <2> DEFINE rest == Restrict(c.networks[n].nodes,
                              DOMAIN c.networks[n].nodes \ {x})
             new == RemoveNode(c, n, x)
  <2>1. /\ DOMAIN rest = DOMAIN c.networks[n].nodes \ {x}
        /\ \A y \in DOMAIN rest : rest[y] = c.networks[n].nodes[y]
    BY DEF Restrict
  <2>2. new = [c EXCEPT !.networks[n].nodes = rest]
    BY <1>2 DEF RemoveNode
  <2>3. KeepsApart(new)
    BY RemovalKeepsApart DEF Sound
  <2> HIDE DEF rest, new
  <2>4. /\ DOMAIN new.networks = DOMAIN c.networks
        /\ \A m \in DOMAIN c.networks \ {n} : new.networks[m] = c.networks[m]
        /\ new.networks[n].nodes = rest
        /\ new.networks[n].topology = c.networks[n].topology
    BY <1>2, <2>2 DEF Sound, KeepsApart, Shaped
  <2>5. IsPartial(rest, Nodes, Sockets)
    BY <1>2, <2>1 DEF Sound, IsFile, IsPartial, Range
  <2>6. IsFile(new.networks, names)
    <3>1. ASSUME NEW m \in DOMAIN new.networks
          PROVE  /\ IsPartial(new.networks[m].nodes, Nodes, Sockets)
                 /\ \/ new.networks[m].topology = NoTopology
                    \/ IsPartial(new.networks[m].topology, Nodes, SUBSET Nodes)
      <4>1. CASE m = n
        BY <1>2, <2>4, <2>5, <4>1 DEF Sound, IsFile
      <4>2. CASE m # n
        BY <2>4, <4>2 DEF Sound, IsFile
      <4>3. QED
        BY <4>1, <4>2
    <3>2. QED
      BY <2>4, <3>1 DEF Sound, IsFile
  <2>7. Sound(new, names)
    BY <2>3, <2>6 DEF Sound
  <2>8. QED
    BY <2>4, <2>7 DEF new
<1>3. QED
  BY <1>1, <1>2

LEMMA TypeDrop ==
  ASSUME TypeInv, NEW n \in Networks, NEW x \in Nodes, Drop(n, x)
  PROVE  TypeInv'
<1> DEFINE new == RemoveNode(Constructor(file), n, x)
<1>1. Sound(new, Networks)
  BY DropIsSound DEF TypeInv, FileInv
<1>2. Edit(new.networks) /\ oneSided' \subseteq Networks
  BY DEF Drop, TypeInv, FileInv
<1> HIDE DEF new
<1>3. QED
  BY <1>1, <1>2, WrittenIsSound, TypeEdit

LEMMA TypeSetDefault ==
  ASSUME TypeInv, NEW n \in Networks, NEW xs \in NodeLists[n], SetDefault(n, xs)
  PROVE  TypeInv'
<1>1. PICK bound, c : bound = Bound /\ c = Constructor(file)
  OBVIOUS
<1> DEFINE new == AddNetwork(c, n, xs, NoTopology, bound)
<1>2. Replaces(new, c, Networks, n, NoTopology, Range(xs))
  BY <1>1, AddNetworkReplaces, NetworksAssumption DEF TypeInv, FileInv
<1>3. Edit(new.networks) /\ oneSided' \subseteq Networks
  BY <1>1 DEF SetDefault, TypeInv, FileInv
<1> HIDE DEF new
<1>4. QED
  BY <1>2, <1>3, WrittenIsSound, TypeEdit DEF Replaces

LEMMA TypeReset ==
  ASSUME TypeInv, NEW xs \in NodeLists[Default], Reset(xs)
  PROVE  TypeInv'
<1>1. PICK bound : bound = Bound
  OBVIOUS
<1>2. Edit(DefaultConfig(Default, xs, bound)) /\ oneSided' = {}
  BY <1>1 DEF Reset
<1>3. QED
  BY <1>2, DefaultIsSound, TypeEdit

-----------------------------------------------------------------------------
(* Types: the servers of a node. *)

(* Processes that only change between starting, working and dead stay with
   their network. *)
LEMMA StageOfOne ==
  ASSUME StageInv, NEW p \in Processes, Alive(p), UNCHANGED stage,
         \A q \in Processes : q # p => virtual'[q] = virtual[q] /\ qnodeos'[q] = qnodeos[q]
  PROVE  StageInv'
<1>1. ASSUME NEW q \in Processes, Alive(q)'
      PROVE  Alive(q)
  BY <1>1 DEF Alive
<1>2. QED
  BY <1>1, StageStays

\* the step in which a virtual node comes up
ComesUpWith(p, hosts) ==
  /\ virtual' = [virtual EXCEPT ![p] = "up"]
  /\ hostDict' = [hostDict EXCEPT ![p] = hosts]
  /\ conn' = [conn EXCEPT ![p] = Assigned(<< >>, p[2], p)]

(* What a virtual node reads are its network's ports. *)
LEMMA HostsTyped ==
  ASSUME TypeInv, NEW n \in Networks, NEW kind \in Kinds, Readable(n, kind)
  PROVE  /\ DOMAIN Hosts(n, kind) = DOMAIN file[n].nodes
         /\ IsPartial(Hosts(n, kind), Nodes, Ports)
<1>1. n \in DOMAIN file /\ IsPartial(file[n].nodes, Nodes, Sockets)
  BY DEF Readable, TypeInv, FileInv, Sound, Constructor, IsFile
<1>2. \A x \in DOMAIN file[n].nodes : file[n].nodes[x] \in Sockets
  BY <1>1 DEF IsPartial, Range
<1>3. \A x \in DOMAIN file[n].nodes : file[n].nodes[x][kind] \in Ports
  BY <1>2 DEF Sockets, Readable
<1>4. QED
  BY <1>1, <1>3 DEF Hosts, IsPartial, Range

LEMMA StartsVirtual ==
  ASSUME NEW p, StartVirtual(p)
  PROVE  /\ virtual[p] = "starting"
         /\ \/ /\ Readable(p[1], "vnode")
               /\ p[2] \in DOMAIN Hosts(p[1], "vnode")
               /\ ComesUpWith(p, Hosts(p[1], "vnode"))
            \/ /\ virtual' = [virtual EXCEPT ![p] = "dead"]
               /\ UNCHANGED <<hostDict, conn>>
         /\ UNCHANGED <<fileVars, daemonVars, qnodeosVars>>
BY DEF StartVirtual, ComesUpWith

LEMMA TypeStartVirtual ==
  ASSUME TypeInv, NEW p \in Processes, StartVirtual(p)
  PROVE  TypeInv'
<1>1. /\ virtual[p] = "starting"
      /\ UNCHANGED <<fileVars, daemonVars, qnodeosVars>>
  BY StartsVirtual
<1>2. QnodeosInv' /\ DaemonInv' /\ FileInv'
  BY <1>1, QnodeosStays, DaemonStays, FileStays DEF TypeInv
<1>3. p[1] \in Networks /\ p = <<p[1], p[2]>>
  BY DEF Processes
<1>4. VirtualInv'
  <2>1. CASE /\ virtual' = [virtual EXCEPT ![p] = "dead"]
             /\ UNCHANGED <<hostDict, conn>>
    <3>1. ASSUME NEW q \in Processes
          PROVE  VirtualTyped(q)'
      BY <1>1, <2>1 DEF TypeInv, VirtualInv, VirtualTyped
    <3>2. QED
      BY <2>1, <3>1 DEF TypeInv, VirtualInv
  <2>2. CASE /\ Readable(p[1], "vnode")
             /\ p[2] \in DOMAIN Hosts(p[1], "vnode")
             /\ ComesUpWith(p, Hosts(p[1], "vnode"))
    <3>1. IsPartial(Hosts(p[1], "vnode"), Nodes, Ports)
      BY <1>3, <2>2, HostsTyped DEF Kinds
    <3>2. PICK hosts, own : /\ hosts = Hosts(p[1], "vnode") /\ own = Assigned(<< >>, p[2], p)
                            /\ ComesUpWith(p, hosts)
      BY <2>2
    <3>3. own \in [DOMAIN own -> Processes] /\ DOMAIN own = {p[2]}
      BY <3>2 DEF Assigned
    <3>4. /\ virtual' = [virtual EXCEPT ![p] = "up"]
          /\ hostDict' = [hostDict EXCEPT ![p] = hosts]
          /\ conn' = [conn EXCEPT ![p] = own]
      BY <3>2 DEF ComesUpWith
    <3>5. ASSUME NEW q \in Processes
          PROVE  VirtualTyped(q)'
      <4>1. CASE q = p
        <5>1. virtual'[q] = "up" /\ hostDict'[q] = hosts /\ conn'[q] = own
          BY <3>4, <4>1 DEF TypeInv, VirtualInv
        <5>2. QED
          BY <2>2, <3>1, <3>2, <3>3, <4>1, <5>1 DEF VirtualTyped
      <4>2. CASE q # p
        BY <3>4, <4>2 DEF TypeInv, VirtualInv, VirtualTyped
      <4>3. QED
        BY <4>1, <4>2
    <3>6. QED
      BY <3>4, <3>5 DEF TypeInv, VirtualInv
  <2>3. QED
    BY <2>1, <2>2, StartsVirtual
<1>5. StageInv'
  <2>1. Alive(p) /\ UNCHANGED stage
    BY <1>1 DEF Alive, daemonVars
  <2>2. \A q \in Processes : q # p => virtual'[q] = virtual[q] /\ qnodeos'[q] = qnodeos[q]
    BY <1>1, StartsVirtual DEF ComesUpWith, qnodeosVars, TypeInv, VirtualInv
  <2>3. QED
    BY <2>1, <2>2, StageOfOne DEF TypeInv
<1>6. QED
  BY <1>2, <1>4, <1>5 DEF TypeInv

LEMMA TypeConnectToNode ==
  ASSUME TypeInv, NEW p \in Processes, NEW y \in Nodes, ConnectToNode(p, y)
  PROVE  TypeInv'
<1>1. PICK q \in Processes : conn' = [conn EXCEPT ![p] = Assigned(conn[p], y, q)]
  BY DEF ConnectToNode, VirtualAt
<1>2. /\ virtual[p] = "up" /\ y \in DOMAIN hostDict[p] \ DOMAIN conn[p]
      /\ UNCHANGED <<fileVars, daemonVars, virtual, hostDict, qnodeosVars>>
  BY DEF ConnectToNode
<1>3. QnodeosInv' /\ DaemonInv' /\ FileInv'
  BY <1>2, QnodeosStays, DaemonStays, FileStays DEF TypeInv
<1>4. VirtualInv'
  <2>1. /\ DOMAIN conn'[p] = DOMAIN conn[p] \cup {y}
        /\ conn'[p] \in [DOMAIN conn'[p] -> Processes]
    <3>1. conn[p] \in [DOMAIN conn[p] -> Processes] /\ conn'[p] = Assigned(conn[p], y, q)
      BY <1>1 DEF TypeInv, VirtualInv, VirtualTyped
    <3>2. QED
      BY <3>1 DEF Assigned
  <2>2. ASSUME NEW r \in Processes
        PROVE  VirtualTyped(r)'
    <3>1. CASE r = p
      BY <1>2, <2>1, <3>1 DEF TypeInv, VirtualInv, VirtualTyped
    <3>2. CASE r # p
      BY <1>1, <1>2, <3>2 DEF TypeInv, VirtualInv, VirtualTyped
    <3>3. QED
      BY <3>1, <3>2
  <2>3. QED
    BY <1>1, <1>2, <2>2 DEF TypeInv, VirtualInv
<1>5. StageInv'
  BY <1>2, StageStays DEF TypeInv, daemonVars, qnodeosVars, Alive
<1>6. QED
  BY <1>3, <1>4, <1>5 DEF TypeInv

\* what a NetQASM server has read
ConfigOf(p) ==
  [port |-> Hosts(p[1], "qnodeos")[p[2]],
   virtual |-> Hosts(p[1], "vnode")[p[2]],
   topology |-> file[p[1]].topology]

LEMMA StartsQnodeos ==
  ASSUME NEW p, StartQnodeos(p)
  PROVE  /\ qnodeos[p] = "starting"
         /\ \/ /\ Readable(p[1], "vnode")
               /\ Readable(p[1], "qnodeos")
               /\ p[2] \in DOMAIN file[p[1]].nodes
               /\ qnodeos' = [qnodeos EXCEPT ![p] = "calling"]
               /\ config' = [config EXCEPT ![p] = ConfigOf(p)]
            \/ /\ qnodeos' = [qnodeos EXCEPT ![p] = "dead"]
               /\ UNCHANGED config
         /\ UNCHANGED <<fileVars, daemonVars, virtualVars, root>>
BY DEF StartQnodeos, ConfigOf

LEMMA TypeStartQnodeos ==
  ASSUME TypeInv, NEW p \in Processes, StartQnodeos(p)
  PROVE  TypeInv'
<1>1. /\ qnodeos[p] = "starting"
      /\ UNCHANGED <<fileVars, daemonVars, virtualVars, root>>
  BY StartsQnodeos
<1>2. VirtualInv' /\ DaemonInv' /\ FileInv'
  BY <1>1, VirtualStays, DaemonStays, FileStays DEF TypeInv
<1>3. p[1] \in Networks /\ p = <<p[1], p[2]>>
  BY DEF Processes
<1>4. QnodeosInv'
  <2>1. CASE qnodeos' = [qnodeos EXCEPT ![p] = "dead"] /\ UNCHANGED config
    <3>1. ASSUME NEW q \in Processes
          PROVE  QnodeosTyped(q)'
      BY <1>1, <2>1 DEF TypeInv, QnodeosInv, QnodeosTyped, Serving
    <3>2. QED
      BY <1>1, <2>1, <3>1 DEF TypeInv, QnodeosInv
  <2>2. CASE /\ Readable(p[1], "qnodeos")
             /\ p[2] \in DOMAIN file[p[1]].nodes
             /\ qnodeos' = [qnodeos EXCEPT ![p] = "calling"]
             /\ config' = [config EXCEPT ![p] = ConfigOf(p)]
    <3>1. ConfigOf(p) # NoConfig
      <4>1. Hosts(p[1], "qnodeos")[p[2]] \in Ports
        BY <1>3, <2>2, HostsTyped DEF Kinds, IsPartial, Range
      <4>2. NoPort \notin Ports
        BY ConfigAssumption DEF Ports
      <4>3. ConfigOf(p).port # NoConfig.port
        BY <4>1, <4>2 DEF ConfigOf, NoConfig
      <4>4. QED
        BY <4>3
    <3>2. ASSUME NEW q \in Processes
          PROVE  QnodeosTyped(q)'
      <4>1. CASE q = p
        <5>1. qnodeos'[q] = "calling" /\ config'[q] = ConfigOf(p) /\ root'[q] = root[q]
          BY <1>1, <2>2, <4>1 DEF TypeInv, QnodeosInv
        <5>2. QED
          BY <3>1, <5>1 DEF TypeInv, QnodeosInv, QnodeosTyped, Serving
      <4>2. CASE q # p
        BY <1>1, <2>2, <4>2 DEF TypeInv, QnodeosInv, QnodeosTyped, Serving
      <4>3. QED
        BY <4>1, <4>2
    <3>3. QED
      BY <1>1, <2>2, <3>2 DEF TypeInv, QnodeosInv
  <2>3. QED
    BY <2>1, <2>2, StartsQnodeos
<1>5. StageInv'
  <2>1. Alive(p) /\ UNCHANGED stage
    BY <1>1 DEF Alive, daemonVars
  <2>2. \A q \in Processes : q # p => virtual'[q] = virtual[q] /\ qnodeos'[q] = qnodeos[q]
    BY <1>1, StartsQnodeos DEF virtualVars, TypeInv, QnodeosInv
  <2>3. QED
    BY <2>1, <2>2, StageOfOne DEF TypeInv
<1>6. QED
  BY <1>2, <1>4, <1>5 DEF TypeInv

LEMMA TypeCallVirtual ==
  ASSUME TypeInv, NEW p \in Processes, CallVirtual(p)
  PROVE  TypeInv'
<1>1. PICK q \in Processes : root' = [root EXCEPT ![p] = q]
  BY DEF CallVirtual, VirtualAt
<1>2. /\ qnodeos[p] = "calling"
      /\ UNCHANGED <<fileVars, daemonVars, virtualVars, config>>
  BY DEF CallVirtual
<1>3. PICK s \in {"binding", "up"} : qnodeos' = [qnodeos EXCEPT ![p] = s]
  BY DEF CallVirtual
<1>4. VirtualInv' /\ DaemonInv' /\ FileInv'
  BY <1>2, VirtualStays, DaemonStays, FileStays DEF TypeInv
<1>5. QnodeosInv'
  <2>1. ASSUME NEW r \in Processes
        PROVE  QnodeosTyped(r)'
    <3>1. CASE r = p
      BY <1>1, <1>2, <1>3, <3>1 DEF TypeInv, QnodeosInv, QnodeosTyped, Serving
    <3>2. CASE r # p
      BY <1>1, <1>2, <1>3, <3>2 DEF TypeInv, QnodeosInv, QnodeosTyped, Serving
    <3>3. QED
      BY <3>1, <3>2
  <2>2. QED
    BY <1>1, <1>2, <1>3, <2>1 DEF TypeInv, QnodeosInv
<1>6. StageInv'
  <2>1. Alive(p) /\ UNCHANGED stage
    BY <1>2 DEF Alive, daemonVars
  <2>2. \A r \in Processes : r # p => virtual'[r] = virtual[r] /\ qnodeos'[r] = qnodeos[r]
    BY <1>2, <1>3 DEF virtualVars, TypeInv, QnodeosInv
  <2>3. QED
    BY <2>1, <2>2, StageOfOne DEF TypeInv
<1>7. QED
  BY <1>4, <1>5, <1>6 DEF TypeInv

LEMMA TypeListen ==
  ASSUME TypeInv, NEW p \in Processes, Listen(p)
  PROVE  TypeInv'
<1>1. /\ qnodeos[p] = "binding"
      /\ UNCHANGED <<fileVars, daemonVars, virtualVars>>
      /\ \/ /\ qnodeos' = [qnodeos EXCEPT ![p] = "up"]
            /\ UNCHANGED <<config, root>>
         \/ /\ qnodeos' = [qnodeos EXCEPT ![p] = "dead"]
            /\ config' = [config EXCEPT ![p] = NoConfig]
            /\ root' = [root EXCEPT ![p] = Nothing]
  BY DEF Listen
<1>2. VirtualInv' /\ DaemonInv' /\ FileInv'
  BY <1>1, VirtualStays, DaemonStays, FileStays DEF TypeInv
<1>3. QnodeosInv'
  <2>1. ASSUME NEW r \in Processes
        PROVE  QnodeosTyped(r)'
    BY <1>1 DEF TypeInv, QnodeosInv, QnodeosTyped, Serving
  <2>2. QED
    BY <1>1, <2>1 DEF TypeInv, QnodeosInv
<1>4. StageInv'
  <2>1. Alive(p) /\ UNCHANGED stage
    BY <1>1 DEF Alive, daemonVars
  <2>2. \A r \in Processes : r # p => virtual'[r] = virtual[r] /\ qnodeos'[r] = qnodeos[r]
    BY <1>1 DEF virtualVars, TypeInv, QnodeosInv
  <2>3. QED
    BY <2>1, <2>2, StageOfOne DEF TypeInv
<1>5. QED
  BY <1>2, <1>3, <1>4 DEF TypeInv

LEMMA TypeOccupy ==
  ASSUME TypeInv, NEW port \in Contested, Occupy(port)
  PROVE  TypeInv'
<1>1. VirtualInv' /\ QnodeosInv' /\ DaemonInv'
  BY VirtualStays, QnodeosStays, DaemonStays DEF Occupy, TypeInv
<1>2. FileInv'
  BY NetworksAssumption DEF Occupy, TypeInv, FileInv
<1>3. StageInv'
  BY DEF Occupy, TypeInv, StageInv, Alive, daemonVars, virtualVars, qnodeosVars
<1>4. QED
  BY <1>1, <1>2, <1>3 DEF TypeInv

LEMMA TypeStutter == TypeInv /\ UNCHANGED vars => TypeInv'
<1> SUFFICES ASSUME TypeInv, UNCHANGED vars PROVE TypeInv'
  OBVIOUS
<1>1. UNCHANGED fileVars /\ UNCHANGED daemonVars /\ UNCHANGED virtualVars
      /\ UNCHANGED qnodeosVars
  BY DEF vars
<1>2. VirtualInv' /\ QnodeosInv' /\ DaemonInv' /\ FileInv'
  BY <1>1, VirtualStays, QnodeosStays, DaemonStays, FileStays DEF TypeInv
<1>3. StageInv'
  BY <1>1 DEF TypeInv, StageInv, Alive, daemonVars, virtualVars, qnodeosVars
<1>4. QED
  BY <1>2, <1>3 DEF TypeInv

LEMMA NextTypes == TypeInv /\ [Next]_vars => TypeInv'
<1> SUFFICES ASSUME TypeInv, [Next]_vars PROVE TypeInv'
  OBVIOUS
<1>1. ASSUME NEW n \in Networks, Start(n) \/ Stop(n) \/ Terminate(n) \/ Stopped(n)
      PROVE  TypeInv'
  BY <1>1, TypeStart, TypeStop, TypeTerminate, TypeStopped
<1>2. ASSUME NEW n \in Networks, NEW xs \in NodeLists[n],
             \/ \E shape \in Asked : \E top \in Topologies(shape, xs) :
                  LaunchNew(n, xs, top)
             \/ LaunchKept(n, xs)
             \/ FailToLaunch(n, xs)
             \/ SetDefault(n, xs)
      PROVE  TypeInv'
  BY <1>2, TypeLaunchNew, TypeLaunchKept, TypeFailToLaunch, TypeSetDefault
<1>3. ASSUME NEW n \in Networks, NEW x \in Nodes, Drop(n, x)
      PROVE  TypeInv'
  BY <1>3, TypeDrop
<1>4. ASSUME NEW p \in Processes, OwnSteps(p)
      PROVE  TypeInv'
  BY <1>4, TypeStartVirtual, TypeConnectToNode, TypeStartQnodeos, TypeCallVirtual,
     TypeListen DEF OwnSteps
<1>5. QED
  BY <1>1, <1>2, <1>3, <1>4, TypeAdd, TypeReset, TypeOccupy, TypeStutter DEF Next

LEMMA AlwaysTypes == Spec => []TypeInv
BY InitTypes, NextTypes, PTL DEF Spec

(* What simulaqron.py, the daemons and the servers keep has the types it is
   meant to have: the file can be read whatever wrote it, a virtual node has a
   connection under its own name exactly when it is up, and a NetQASM server
   that serves has a configuration and has reached a virtual node. *)
THEOREM NetworksTyped == Spec => []TypeOK
BY AlwaysTypes, TypeInvTypes, PTL

(* No port is in the file twice, in whatever order daemons and commands read
   and write it, and even if a daemon writes what it read before others wrote:
   the sockets of all nodes of all networks are apart. *)
THEOREM PortsApart == Spec => []Apart(file)
<1>1. TypeInv => Apart(file)
  BY DEF TypeInv, FileInv, Sound, KeepsApart, Constructor
<1>2. QED
  BY <1>1, AlwaysTypes, PTL

-----------------------------------------------------------------------------
(* What the processes of a network have read agrees with the file, provided *)
(* that nobody uses the file between a daemon's reading and writing.        *)

ReadersInv ==
  \A n \in Networks :
    stage[n] = "read" =>
      /\ memory[n] = Constructor(file)
      /\ \A m \in Networks : stage[m] = "read" => m = n

\* a process has read what is in the file, and reached whom it should
VirtualAgrees(p) ==
  virtual[p] = "up" => p[1] \in DOMAIN file /\ hostDict[p] = Hosts(p[1], "vnode")

QnodeosAgrees(p) ==
  Serving(p) =>
    /\ p[1] \in DOMAIN file /\ p[2] \in DOMAIN file[p[1]].nodes
    /\ config[p] = ConfigOf(p)

Reached(p) ==
  /\ \A y \in DOMAIN conn[p] : conn[p][y] = <<p[1], y>>
  /\ root[p] \in {p, Nothing}

Agrees(p) == VirtualAgrees(p) /\ QnodeosAgrees(p) /\ Reached(p)

Mutual(topology) ==
  \A x, y \in Nodes : Adjacent(topology, x, y) <=> Adjacent(topology, y, x)

MutualInv == \A n \in DOMAIN file \ oneSided : Mutual(file[n].topology)

AgreeInv == ReadersInv /\ (\A p \in Processes : Agrees(p)) /\ MutualInv

\* the networks of file that the processes use stay as they are
KeepsUsed(networks) ==
  \A n \in DOMAIN file : stage[n] \in {"up", "stopping"} =>
    n \in DOMAIN networks /\ networks[n] = file[n]

(* A process that does nothing still agrees when the networks that are started
   stay. *)
LEMMA AgreesStays ==
  ASSUME StageInv, NEW p \in Processes, Agrees(p), KeepsUsed(file'),
         virtual'[p] = virtual[p], hostDict'[p] = hostDict[p], conn'[p] = conn[p],
         qnodeos'[p] = qnodeos[p], config'[p] = config[p], root'[p] = root[p]
  PROVE  Agrees(p)'
<1>1. Alive(p) /\ p[1] \in DOMAIN file =>
        p[1] \in DOMAIN file' /\ file'[p[1]] = file[p[1]]
  BY DEF StageInv, KeepsUsed
<1>2. VirtualAgrees(p)'
  BY <1>1 DEF Agrees, VirtualAgrees, Hosts, Alive
<1>3. QnodeosAgrees(p)'
  BY <1>1 DEF Agrees, QnodeosAgrees, Serving, ConfigOf, Hosts, Alive
<1>4. Reached(p)'
  BY DEF Agrees, Reached
<1>5. QED
  BY <1>2, <1>3, <1>4 DEF Agrees

LEMMA AllAgree ==
  ASSUME StageInv, \A p \in Processes : Agrees(p), KeepsUsed(file'),
         UNCHANGED <<virtualVars, qnodeosVars>>
  PROVE  \A p \in Processes : Agrees(p)'
BY AgreesStays DEF virtualVars, qnodeosVars

(* A process that is not there, or is about to start, agrees. *)
LEMMA AgreesIdle ==
  ASSUME NEW p \in Processes, Agrees(p),
         virtual'[p] # "up", ~Serving(p)',
         conn'[p] = conn[p], root'[p] = root[p]
  PROVE  Agrees(p)'
BY DEF Agrees, VirtualAgrees, QnodeosAgrees, Reached

LEMMA SameFileKept ==
  ASSUME file' = file
  PROVE  KeepsUsed(file') /\ (MutualInv /\ oneSided' = oneSided => MutualInv')
BY DEF KeepsUsed, MutualInv, Mutual, Adjacent

LEMMA InitAgrees == Init => AgreeInv
<1> SUFFICES ASSUME Init PROVE AgreeInv
  OBVIOUS
<1>1. ReadersInv
  BY DEF Init, ReadersInv
<1>2. \A p \in Processes : Agrees(p)
  BY DEF Init, Agrees, VirtualAgrees, QnodeosAgrees, Reached, Serving
<1>3. MutualInv
  <2>1. \A n \in DOMAIN file : file[n].topology = NoTopology
    BY DefaultIsSound DEF Init
  <2>2. QED
    BY <2>1 DEF MutualInv, Mutual, Adjacent
<1>4. QED
  BY <1>1, <1>2, <1>3 DEF AgreeInv

-----------------------------------------------------------------------------
(* Agreement: the daemon. *)
LEMMA AgreeStart ==
  ASSUME Serial, TypeInv, AgreeInv, NEW n \in Networks, Start(n)
  PROVE  AgreeInv'
<1>1. ReadersInv'
  <2>1. \A m \in Networks : stage[m] # "read"
    BY DEF Start, FileInUse
  <2>2. stage' = [stage EXCEPT ![n] = "read"] /\ file' = file
        /\ memory' = [memory EXCEPT ![n] = Constructor(file)]
    BY DEF Start, fileVars
  <2>3. QED
    BY <2>1, <2>2 DEF ReadersInv, TypeInv, DaemonInv, Constructor, PortsIn
<1>2. UNCHANGED fileVars /\ UNCHANGED <<virtualVars, qnodeosVars>>
  BY DEF Start
<1>3. KeepsUsed(file') /\ MutualInv'
  BY <1>2, SameFileKept DEF fileVars, AgreeInv
<1>4. \A p \in Processes : Agrees(p)'
  BY <1>2, <1>3, AllAgree DEF TypeInv, AgreeInv
<1>5. QED
  BY <1>1, <1>3, <1>4 DEF AgreeInv

(* After the only reader has ended its reading there is none. *)
LEMMA NoReaderLeft ==
  ASSUME TypeInv, ReadersInv, NEW n \in Networks, stage[n] = "read",
         NEW s, s # "read", stage' = [stage EXCEPT ![n] = s]
  PROVE  ReadersInv'
BY DEF TypeInv, DaemonInv, ReadersInv

LEMMA AgreeLaunch ==
  ASSUME TypeInv, AgreeInv, NEW n \in Networks, NEW xs,
         stage[n] = "read", Launch(n, xs), KeepsUsed(file'),
         UNCHANGED <<hostDict, conn, config, root>>
  PROVE  ReadersInv' /\ \A p \in Processes : Agrees(p)'
<1>1. ReadersInv'
  BY NoReaderLeft DEF Launch, AgreeInv
<1>2. ASSUME NEW p \in Processes
      PROVE  Agrees(p)'
  <2>1. CASE p \in {n} \X Range(xs)
    <3>1. virtual'[p] = "starting" /\ qnodeos'[p] = "starting"
      BY <2>1 DEF Launch
    <3>2. QED
      BY <3>1, AgreesIdle DEF AgreeInv, Serving
  <2>2. CASE p \notin {n} \X Range(xs)
    <3>1. virtual'[p] = virtual[p] /\ qnodeos'[p] = qnodeos[p]
      BY <2>2 DEF Launch
    <3>2. QED
      BY <3>1, AgreesStays DEF AgreeInv, TypeInv
  <2>3. QED
    BY <2>1, <2>2
<1>3. QED
  BY <1>1, <1>2

(* The topology of a network that has been asked for is mutual. *)
LEMMA AskedIsMutual ==
  ASSUME NEW n \in Networks, NEW xs \in NodeLists[n], NEW shape \in Asked,
         NEW top \in Topologies(shape, xs), NEW t, AsAsked(t, top, Range(xs))
  PROVE  Mutual(t)
<1>1. CASE top = NoTopology
  BY <1>1 DEF AsAsked, Mutual, Adjacent
<1>2. CASE top # NoTopology
  <2>1. MutualOn(top, Range(xs))
    BY <1>2, NetworksAssumption, TopologiesAreMutual
  <2>2. DOMAIN t = Range(xs) /\ \A x \in Range(xs) : t[x] = top[x]
    BY <1>2 DEF AsAsked
  <2>3. \A x, y : x \in DOMAIN t /\ y \in t[x] <=> y \in DOMAIN t /\ x \in t[y]
    BY <2>1, <2>2 DEF MutualOn
  <2>4. QED
    BY <2>3 DEF Mutual, Adjacent
<1>3. QED
  BY <1>1, <1>2

LEMMA AgreeLaunchNew ==
  ASSUME Serial, TypeInv, AgreeInv, NEW n \in Networks, NEW xs \in NodeLists[n],
         NEW shape \in Asked, NEW top \in Topologies(shape, xs),
         LaunchNew(n, xs, top)
  PROVE  AgreeInv'
<1>1. xs \in Seq(Nodes) /\ IsInjective(xs) /\ shape \in Shapes
  BY NetworksAssumption
<1>2. PICK c, bound : /\ c = memory[n] /\ bound = Bound
                      /\ file' = AddNetwork(c, n, xs, top, bound).networks
                      /\ Sound(c, Networks) /\ c.networks = file
  BY DEF LaunchNew, TypeInv, DaemonInv, AgreeInv, ReadersInv, Constructor
<1>3. top # NoTopology => \A x \in Range(xs) : top[x] \in SUBSET Nodes
  <2>1. Range(xs) \subseteq Nodes
    BY <1>1, LenProperties, ElementOfSeq DEF Range
  <2>2. QED
    BY <1>1, <2>1, TopologiesAreMutual DEF MutualOn
<1>4. Replaces(AddNetwork(c, n, xs, top, bound), c, Networks, n, top, Range(xs))
  BY <1>1, <1>2, <1>3, AddNetworkReplaces
<1>5. /\ DOMAIN file' = (DOMAIN file \ {n}) \cup {m \in {n} : Range(xs) # {}}
      /\ \A m \in DOMAIN file \ {n} : file'[m] = file[m]
      /\ Range(xs) # {} => AsAsked(file'[n].topology, top, Range(xs))
  BY <1>2, <1>4 DEF Replaces
<1>6. KeepsUsed(file')
  BY <1>5 DEF KeepsUsed, LaunchNew
<1>7. ReadersInv' /\ \A p \in Processes : Agrees(p)'
  BY <1>6, AgreeLaunch DEF LaunchNew
<1>8. MutualInv'
  <2>1. ASSUME NEW m \in DOMAIN file' \ oneSided'
        PROVE  Mutual(file'[m].topology)
    <3>1. oneSided' = oneSided \ {n}
      BY DEF LaunchNew
    <3>2. CASE m = n
      BY <1>5, <3>2, AskedIsMutual
    <3>3. CASE m # n
      BY <1>5, <3>1, <3>3 DEF AgreeInv, MutualInv
    <3>4. QED
      BY <3>2, <3>3
  <2>2. QED
    BY <2>1 DEF MutualInv, Mutual, Adjacent
<1>9. QED
  BY <1>7, <1>8 DEF AgreeInv

LEMMA AgreeLaunchKept ==
  ASSUME TypeInv, AgreeInv, NEW n \in Networks, NEW xs, LaunchKept(n, xs)
  PROVE  AgreeInv'
<1>1. KeepsUsed(file') /\ MutualInv'
  BY SameFileKept DEF LaunchKept, fileVars, AgreeInv
<1>2. ReadersInv' /\ \A p \in Processes : Agrees(p)'
  BY <1>1, AgreeLaunch DEF LaunchKept
<1>3. QED
  BY <1>1, <1>2 DEF AgreeInv

LEMMA AgreeFailToLaunch ==
  ASSUME TypeInv, AgreeInv, NEW n \in Networks, NEW xs, FailToLaunch(n, xs)
  PROVE  AgreeInv'
<1>1. KeepsUsed(file') /\ MutualInv'
  BY SameFileKept DEF FailToLaunch, fileVars, AgreeInv
<1>2. ReadersInv'
  BY NoReaderLeft DEF FailToLaunch, AgreeInv
<1>3. \A p \in Processes : Agrees(p)'
  BY <1>1, AllAgree DEF FailToLaunch, TypeInv, AgreeInv
<1>4. QED
  BY <1>1, <1>2, <1>3 DEF AgreeInv

(* Readers stay when no stage becomes "read" and file and memories stay. *)
LEMMA ReadersStay ==
  ASSUME ReadersInv, file' = file, memory' = memory,
         \A n \in Networks : stage'[n] = "read" => stage[n] = "read"
  PROVE  ReadersInv'
BY DEF ReadersInv, Constructor, PortsIn

LEMMA AgreeStop ==
  ASSUME TypeInv, AgreeInv, NEW n \in Networks, Stop(n)
  PROVE  AgreeInv'
<1>1. KeepsUsed(file') /\ MutualInv'
  BY SameFileKept DEF Stop, fileVars, AgreeInv
<1>2. ReadersInv'
  BY ReadersStay DEF Stop, AgreeInv, fileVars, TypeInv, DaemonInv
<1>3. \A p \in Processes : Agrees(p)'
  BY <1>1, AllAgree DEF Stop, TypeInv, AgreeInv
<1>4. QED
  BY <1>1, <1>2, <1>3 DEF AgreeInv

LEMMA AgreeTerminate ==
  ASSUME TypeInv, AgreeInv, NEW n \in Networks, Terminate(n)
  PROVE  AgreeInv'
<1>1. PICK p : Terminates(n, p)
  BY TerminatesOne
<1>2. UNCHANGED fileVars /\ UNCHANGED daemonVars
  BY <1>1 DEF Terminates
<1>3. KeepsUsed(file') /\ MutualInv' /\ ReadersInv'
  BY <1>2, SameFileKept, ReadersStay DEF fileVars, daemonVars, AgreeInv
<1>4. ASSUME NEW q \in Processes
      PROVE  Agrees(q)'
  <2>1. CASE q # p
    <3>1. /\ virtual'[q] = virtual[q] /\ hostDict'[q] = hostDict[q] /\ conn'[q] = conn[q]
          /\ qnodeos'[q] = qnodeos[q] /\ config'[q] = config[q] /\ root'[q] = root[q]
      BY <1>1, <2>1 DEF Terminates, virtualVars, qnodeosVars, TypeInv, VirtualInv, QnodeosInv
    <3>2. QED
      BY <1>3, <3>1, AgreesStays DEF TypeInv, AgreeInv
  <2>2. CASE q = p /\ virtual[p] \in {"starting", "up"}
    <3>1. /\ virtual'[q] = "dead" /\ conn'[q] = << >>
          /\ qnodeos'[q] = qnodeos[q] /\ config'[q] = config[q] /\ root'[q] = root[q]
      BY <1>1, <2>2 DEF Terminates, qnodeosVars, TypeInv, VirtualInv
    <3>2. file' = file /\ QnodeosAgrees(q) /\ Reached(q)
      BY <1>2 DEF fileVars, AgreeInv, Agrees
    <3>3. QnodeosAgrees(q)'
      BY <3>1, <3>2 DEF QnodeosAgrees, Serving, ConfigOf, Hosts
    <3>4. VirtualAgrees(q)' /\ Reached(q)'
      BY <3>1, <3>2 DEF VirtualAgrees, Reached
    <3>5. QED
      BY <3>3, <3>4 DEF Agrees
  <2>3. CASE q = p /\ virtual[p] \notin {"starting", "up"}
    <3>1. /\ virtual'[q] = virtual[q] /\ conn'[q] = conn[q]
          /\ qnodeos'[q] = "dead" /\ root'[q] = Nothing
      BY <1>1, <2>3 DEF Terminates, virtualVars, TypeInv, QnodeosInv
    <3>2. QED
      BY <2>3, <3>1 DEF AgreeInv, Agrees, VirtualAgrees, QnodeosAgrees, Serving, Reached
  <2>4. QED
    BY <2>1, <2>2, <2>3
<1>5. QED
  BY <1>3, <1>4 DEF AgreeInv

LEMMA AgreeStopped ==
  ASSUME TypeInv, AgreeInv, NEW n \in Networks, Stopped(n)
  PROVE  AgreeInv'
<1>1. /\ virtual' = [p \in Processes |-> IF p[1] = n THEN "off" ELSE virtual[p]]
      /\ qnodeos' = [p \in Processes |-> IF p[1] = n THEN "off" ELSE qnodeos[p]]
      /\ stage' = [stage EXCEPT ![n] = "off"]
      /\ UNCHANGED <<fileVars, memory, hostDict, conn, config, root>>
  BY DEF Stopped
<1>2. KeepsUsed(file') /\ MutualInv'
  BY <1>1, SameFileKept DEF fileVars, AgreeInv
<1>3. ReadersInv'
  BY <1>1, ReadersStay DEF AgreeInv, fileVars, TypeInv, DaemonInv
<1>4. ASSUME NEW q \in Processes
      PROVE  Agrees(q)'
  <2>1. CASE q[1] = n
    BY <1>1, <2>1, AgreesIdle DEF AgreeInv, Serving
  <2>2. CASE q[1] # n
    BY <1>1, <1>2, <2>2, AgreesStays DEF TypeInv, AgreeInv
  <2>3. QED
    BY <2>1, <2>2
<1>5. QED
  BY <1>2, <1>3, <1>4 DEF AgreeInv

-----------------------------------------------------------------------------
(* Agreement: the other commands. *)
LEMMA AgreeEdit ==
  ASSUME Serial, TypeInv, AgreeInv, NEW networks, Edit(networks),
         KeepsUsed(networks), MutualInv'
  PROVE  AgreeInv'
<1>1. file' = networks /\ UNCHANGED daemonVars /\ UNCHANGED <<virtualVars, qnodeosVars>>
  BY DEF Edit
<1>2. \A p \in Processes : Agrees(p)'
  BY <1>1, AllAgree DEF TypeInv, AgreeInv
<1>3. \A n \in Networks : stage[n] # "read" /\ stage'[n] # "read"
  BY <1>1 DEF Edit, FileInUse, daemonVars
<1>4. ReadersInv'
  BY <1>3 DEF ReadersInv
<1>5. QED
  BY <1>2, <1>4 DEF AgreeInv

LEMMA AgreeAdd ==
  ASSUME Serial, TypeInv, AgreeInv, NEW a \in Additions, Add(a)
  PROVE  AgreeInv'
<1>1. PICK bound, c, n, x, given, neighbors :
        /\ bound = Bound /\ c = Constructor(file)
        /\ n = a.to /\ x = a.node /\ given = a.ports /\ neighbors = a.neighbors
  OBVIOUS
<1> DEFINE new == AddNode(c, n, x, given, neighbors, bound)
           network == IF n \in DOMAIN c.networks THEN c.networks[n] ELSE EmptyNetwork
<1>2. /\ Edit(new.networks) /\ stage[n] = "off"
      /\ oneSided' = IF neighbors = NoTopology THEN oneSided ELSE oneSided \cup {n}
      /\ c.networks = file
  BY <1>1 DEF Add, Constructor
<1>3. /\ DOMAIN new.networks = DOMAIN file \cup {n}
      /\ \A m \in DOMAIN file : m # n => new.networks[m] = file[m]
  BY <1>2, NodesAfterAdd
<1>4. neighbors = NoTopology => new.networks[n].topology = network.topology
  <2> DEFINE complete == [y \in DOMAIN network.nodes |-> DOMAIN network.nodes \ {y}]
             before == IF network.topology = NoTopology
                       THEN complete ELSE network.topology
  <2>1. new.networks[n].topology = IF neighbors = NoTopology
                                   THEN network.topology
                                   ELSE Assigned(before, x, neighbors)
    BY TopologyAfterAdd
  <2> HIDE DEF new, network, before
  <2>2. QED
    BY <2>1
<1> HIDE DEF new
<1>5. KeepsUsed(new.networks)
  BY <1>2, <1>3 DEF KeepsUsed
<1>6. file' = new.networks
  BY <1>2 DEF Edit
<1>7. MutualInv'
  <2>1. ASSUME NEW m \in DOMAIN file' \ oneSided'
        PROVE  Mutual(file'[m].topology)
    <3>1. CASE m # n
      BY <1>2, <1>3, <1>6, <3>1 DEF AgreeInv, MutualInv
    <3>2. CASE m = n /\ n \in DOMAIN file
      BY <1>2, <1>4, <1>6, <3>2 DEF AgreeInv, MutualInv
    <3>3. CASE m = n /\ n \notin DOMAIN file
      <4>1. file'[m].topology = NoTopology
        BY <1>2, <1>4, <1>6, <3>3 DEF EmptyNetwork
      <4>2. QED
        BY <4>1 DEF Mutual, Adjacent
    <3>4. QED
      BY <3>1, <3>2, <3>3
  <2>2. QED
    BY <2>1 DEF MutualInv, Mutual, Adjacent
<1>8. QED
  BY <1>2, <1>5, <1>7, AgreeEdit

LEMMA AgreeDrop ==
  ASSUME Serial, TypeInv, AgreeInv, NEW n \in Networks, NEW x \in Nodes, Drop(n, x)
  PROVE  AgreeInv'
<1>1. PICK c : c = Constructor(file) /\ c.networks = file /\ Sound(c, Networks)
  BY DEF Constructor, TypeInv, FileInv
<1> DEFINE new == RemoveNode(c, n, x)
<1>2. Edit(new.networks) /\ stage[n] = "off" /\ oneSided' = oneSided
  BY <1>1 DEF Drop
<1>3. /\ DOMAIN new.networks = DOMAIN file
      /\ \A m \in DOMAIN file : /\ m # n => new.networks[m] = file[m]
                                /\ new.networks[m].topology = file[m].topology
  BY <1>1, DropIsSound
<1> HIDE DEF new
<1>4. KeepsUsed(new.networks)
  BY <1>2, <1>3 DEF KeepsUsed
<1>5. file' = new.networks
  BY <1>2 DEF Edit
<1>6. MutualInv'
  BY <1>2, <1>3, <1>5 DEF AgreeInv, MutualInv, Mutual, Adjacent
<1>7. QED
  BY <1>2, <1>4, <1>6, AgreeEdit

LEMMA AgreeSetDefault ==
  ASSUME Serial, TypeInv, AgreeInv, NEW n \in Networks, NEW xs \in NodeLists[n],
         SetDefault(n, xs)
  PROVE  AgreeInv'
<1>1. PICK bound, c : /\ bound = Bound /\ c = Constructor(file) /\ c.networks = file
                      /\ Sound(c, Networks)
  BY DEF Constructor, TypeInv, FileInv
<1> DEFINE new == AddNetwork(c, n, xs, NoTopology, bound)
<1>2. Replaces(new, c, Networks, n, NoTopology, Range(xs))
  BY <1>1, AddNetworkReplaces, NetworksAssumption
<1>3. Edit(new.networks) /\ stage[n] = "off" /\ oneSided' = oneSided \ {n}
  BY <1>1 DEF SetDefault
<1> HIDE DEF new
<1>4. /\ DOMAIN new.networks = (DOMAIN file \ {n}) \cup {m \in {n} : Range(xs) # {}}
      /\ \A m \in DOMAIN file \ {n} : new.networks[m] = file[m]
      /\ Range(xs) # {} => new.networks[n].topology = NoTopology
  BY <1>1, <1>2 DEF Replaces, AsAsked
<1>5. KeepsUsed(new.networks)
  BY <1>3, <1>4 DEF KeepsUsed
<1>6. file' = new.networks
  BY <1>3 DEF Edit
<1>7. MutualInv'
  <2>1. ASSUME NEW m \in DOMAIN file' \ oneSided'
        PROVE  Mutual(file'[m].topology)
    <3>1. CASE m # n
      BY <1>3, <1>4, <1>6, <3>1 DEF AgreeInv, MutualInv
    <3>2. CASE m = n
      <4>1. file'[m].topology = NoTopology
        BY <1>4, <1>6, <3>2
      <4>2. QED
        BY <4>1 DEF Mutual, Adjacent
    <3>3. QED
      BY <3>1, <3>2
  <2>2. QED
    BY <2>1 DEF MutualInv, Mutual, Adjacent
<1>8. QED
  BY <1>3, <1>5, <1>7, AgreeEdit

LEMMA AgreeReset ==
  ASSUME Serial, TypeInv, AgreeInv, NEW xs \in NodeLists[Default], Reset(xs)
  PROVE  AgreeInv'
<1>1. PICK bound : bound = Bound
  OBVIOUS
<1>2. PICK f : f = DefaultConfig(Default, xs, bound)
  OBVIOUS
<1>3. Edit(f) /\ \A n \in Networks : stage[n] = "off"
  BY <1>1, <1>2 DEF Reset
<1>4. \A n \in DOMAIN f : f[n].topology = NoTopology
  BY <1>2, DefaultIsSound
<1>5. DOMAIN file \subseteq Networks
  BY DEF TypeInv, FileInv, Sound, IsFile, Constructor
<1>6. KeepsUsed(f)
  BY <1>3, <1>5 DEF KeepsUsed
<1>7. MutualInv'
  BY <1>3, <1>4 DEF Edit, MutualInv, Mutual, Adjacent
<1>8. QED
  BY <1>3, <1>6, <1>7, AgreeEdit

-----------------------------------------------------------------------------
(* Agreement: the servers of a node. *)

LEMMA FileApart == TypeInv => Apart(file)
BY DEF TypeInv, FileInv, Sound, KeepsApart, Constructor

(* A port in the file belongs to one node of one network. *)
LEMMA OneOwner ==
  ASSUME TypeInv, NEW n, n \in DOMAIN file, NEW x, x \in DOMAIN file[n].nodes,
         NEW m, m \in DOMAIN file, NEW y, y \in DOMAIN file[m].nodes,
         NEW k \in Kinds, file[n].nodes[x][k] # NoPort,
         file[n].nodes[x][k] = file[m].nodes[y][k]
  PROVE  m = n /\ y = x
<1>1. PICK f : f = file
  OBVIOUS
<1>2. Apart(f)
  BY <1>1, FileApart
<1>3. /\ n \in DOMAIN f /\ m \in DOMAIN f
      /\ x \in DOMAIN f[n].nodes /\ y \in DOMAIN f[m].nodes
      /\ f[n].nodes[x][k] = f[m].nodes[y][k] /\ f[n].nodes[x][k] # NoPort
  BY <1>1
<1>4. \A l \in Kinds : f[n].nodes[x][k] = f[m].nodes[y][l]
                        => n = m /\ x = y /\ k = l
  BY <1>2, <1>3 DEF Apart
<1>5. QED
  BY <1>3, <1>4

(* The ports that a NetQASM server and a virtual node know are in the file. *)
LEMMA ServesAsInFile ==
  ASSUME NEW p, Serving(p), QnodeosAgrees(p)
  PROVE  /\ p[1] \in DOMAIN file /\ p[2] \in DOMAIN file[p[1]].nodes
         /\ config[p].port = file[p[1]].nodes[p[2]]["qnodeos"]
         /\ config[p].virtual = file[p[1]].nodes[p[2]]["vnode"]
<1>1. /\ p[1] \in DOMAIN file /\ p[2] \in DOMAIN file[p[1]].nodes
      /\ config[p] = ConfigOf(p)
  BY DEF QnodeosAgrees
<1>2. /\ config[p].port = Hosts(p[1], "qnodeos")[p[2]]
      /\ config[p].virtual = Hosts(p[1], "vnode")[p[2]]
  BY <1>1 DEF ConfigOf
<1>3. \A kind : Hosts(p[1], kind)[p[2]] = file[p[1]].nodes[p[2]][kind]
  BY <1>1 DEF Hosts
<1>4. QED
  BY <1>1, <1>2, <1>3

LEMMA PortIs ==
  ASSUME TypeInv, NEW p \in Processes, virtual[p] = "up", VirtualAgrees(p),
         NEW y \in DOMAIN hostDict[p]
  PROVE  /\ p[1] \in DOMAIN file /\ y \in DOMAIN file[p[1]].nodes
         /\ hostDict[p][y] = file[p[1]].nodes[y]["vnode"]
         /\ hostDict[p][y] \in Ports /\ hostDict[p][y] # NoPort
<1>1. p[1] \in DOMAIN file /\ hostDict[p] = Hosts(p[1], "vnode")
  BY DEF VirtualAgrees
<1>2. y \in DOMAIN file[p[1]].nodes /\ hostDict[p][y] = file[p[1]].nodes[y]["vnode"]
  BY <1>1 DEF Hosts
<1>3. hostDict[p][y] \in Ports
  BY DEF TypeInv, VirtualInv, VirtualTyped, IsPartial, Range
<1>4. NoPort \notin Ports
  BY ConfigAssumption DEF Ports
<1>5. QED
  BY <1>1, <1>2, <1>3, <1>4

(* Whoever listens at the port that the file gives to the virtual node of a
   node is that virtual node. *)
LEMMA OneVirtualAt ==
  ASSUME TypeInv, AgreeInv, NEW n \in DOMAIN file, NEW y \in DOMAIN file[n].nodes,
         NEW q \in VirtualAt(file[n].nodes[y]["vnode"])
  PROVE  q = <<n, y>>
<1>1. q \in Processes /\ virtual[q] = "up"
      /\ hostDict[q][q[2]] = file[n].nodes[y]["vnode"]
  BY DEF VirtualAt
<1>2. q[2] \in DOMAIN hostDict[q] /\ VirtualAgrees(q)
  BY <1>1 DEF TypeInv, VirtualInv, VirtualTyped, AgreeInv, Agrees
<1>3. /\ q[1] \in DOMAIN file /\ q[2] \in DOMAIN file[q[1]].nodes
      /\ hostDict[q][q[2]] = file[q[1]].nodes[q[2]]["vnode"]
      /\ hostDict[q][q[2]] # NoPort
  BY <1>1, <1>2, PortIs
<1>4. PICK m, z, port : m = q[1] /\ z = q[2] /\ port = hostDict[q][q[2]]
  OBVIOUS
<1>5. m = n /\ z = y
  <2>1. /\ m \in DOMAIN file /\ z \in DOMAIN file[m].nodes /\ port # NoPort
        /\ port = file[n].nodes[y]["vnode"] /\ port = file[m].nodes[z]["vnode"]
        /\ file[n].nodes[y]["vnode"] = file[m].nodes[z]["vnode"]
        /\ file[n].nodes[y]["vnode"] # NoPort
    BY <1>1, <1>3, <1>4
  <2>2. "vnode" \in Kinds
    BY DEF Kinds
  <2>3. QED
    BY <2>1, <2>2, OneOwner
<1>6. q = <<q[1], q[2]>>
  BY <1>1 DEF Processes
<1>7. QED
  BY <1>4, <1>5, <1>6

LEMMA AgreeStartVirtual ==
  ASSUME TypeInv, AgreeInv, NEW p \in Processes, StartVirtual(p)
  PROVE  AgreeInv'
<1>1. virtual[p] = "starting" /\ UNCHANGED <<fileVars, daemonVars, qnodeosVars>>
  BY StartsVirtual
<1>2. KeepsUsed(file') /\ MutualInv' /\ ReadersInv' /\ file' = file
  BY <1>1, SameFileKept, ReadersStay DEF fileVars, daemonVars, AgreeInv
<1>3. ASSUME NEW q \in Processes
      PROVE  Agrees(q)'
  <2>1. CASE q # p
    <3>1. /\ virtual'[q] = virtual[q] /\ hostDict'[q] = hostDict[q] /\ conn'[q] = conn[q]
      <4>1. CASE virtual' = [virtual EXCEPT ![p] = "dead"] /\ UNCHANGED <<hostDict, conn>>
        BY <2>1, <4>1
      <4>2. CASE ComesUpWith(p, Hosts(p[1], "vnode"))
        BY <2>1, <4>2 DEF ComesUpWith
      <4>3. QED
        BY <4>1, <4>2, StartsVirtual
    <3>2. QED
      BY <1>1, <1>2, <3>1, AgreesStays DEF qnodeosVars, TypeInv, AgreeInv
  <2>2. CASE q = p
    <3>1. QnodeosAgrees(q)'
      BY <1>1, <1>2 DEF qnodeosVars, AgreeInv, Agrees, QnodeosAgrees, Serving, ConfigOf, Hosts
    <3>2. root'[q] = root[q] /\ root[q] \in {q, Nothing}
      BY <1>1 DEF qnodeosVars, AgreeInv, Agrees, Reached
    <3>3. CASE virtual' = [virtual EXCEPT ![p] = "dead"] /\ UNCHANGED <<hostDict, conn>>
      <4>1. virtual'[q] = "dead" /\ conn'[q] = conn[q]
        BY <2>2, <3>3 DEF TypeInv, VirtualInv
      <4>2. VirtualAgrees(q)' /\ Reached(q)'
        BY <3>2, <4>1 DEF AgreeInv, Agrees, VirtualAgrees, Reached
      <4>3. QED
        BY <3>1, <4>2 DEF Agrees
    <3>4. CASE Readable(p[1], "vnode") /\ ComesUpWith(p, Hosts(p[1], "vnode"))
      <4>1. /\ hostDict'[q] = Hosts(q[1], "vnode")
            /\ conn'[q] = Assigned(<< >>, q[2], q)
        BY <2>2, <3>4 DEF ComesUpWith, TypeInv, VirtualInv
      <4>2. q[1] \in DOMAIN file
        BY <2>2, <3>4 DEF Readable
      <4>3. VirtualAgrees(q)'
        BY <1>2, <4>1, <4>2 DEF VirtualAgrees, Hosts
      <4>4. q = <<q[1], q[2]>>
        BY DEF Processes
      <4>5. \A y \in DOMAIN conn'[q] : conn'[q][y] = <<q[1], y>>
        BY <4>1, <4>4 DEF Assigned
      <4>6. Reached(q)'
        BY <3>2, <4>5 DEF Reached
      <4>7. QED
        BY <3>1, <4>3, <4>6 DEF Agrees
    <3>5. QED
      BY <3>3, <3>4, StartsVirtual
  <2>3. QED
    BY <2>1, <2>2
<1>4. QED
  BY <1>2, <1>3 DEF AgreeInv

LEMMA AgreeConnectToNode ==
  ASSUME TypeInv, AgreeInv, NEW p \in Processes, NEW y \in Nodes, ConnectToNode(p, y)
  PROVE  AgreeInv'
<1>1. PICK q \in VirtualAt(hostDict[p][y]) :
        conn' = [conn EXCEPT ![p] = Assigned(conn[p], y, q)]
  BY DEF ConnectToNode
<1>2. /\ virtual[p] = "up" /\ y \in DOMAIN hostDict[p]
      /\ UNCHANGED <<fileVars, daemonVars, virtual, hostDict, qnodeosVars>>
  BY DEF ConnectToNode
<1>3. KeepsUsed(file') /\ MutualInv' /\ ReadersInv' /\ file' = file
  BY <1>2, SameFileKept, ReadersStay DEF fileVars, daemonVars, AgreeInv
<1>4. q = <<p[1], y>>
  <2>1. /\ p[1] \in DOMAIN file /\ y \in DOMAIN file[p[1]].nodes
        /\ hostDict[p][y] = file[p[1]].nodes[y]["vnode"]
    BY <1>2, PortIs DEF AgreeInv, Agrees
  <2>2. QED
    BY <1>1, <2>1, OneVirtualAt
<1>5. ASSUME NEW r \in Processes
      PROVE  Agrees(r)'
  <2>1. CASE r # p
    BY <1>1, <1>2, <1>3, <2>1, AgreesStays DEF qnodeosVars, TypeInv, VirtualInv, AgreeInv
  <2>2. CASE r = p
    <3>1. VirtualAgrees(r)' /\ QnodeosAgrees(r)'
      BY <1>2, <1>3 DEF qnodeosVars, AgreeInv, Agrees, VirtualAgrees, QnodeosAgrees,
                        Serving, ConfigOf, Hosts
    <3>2. conn'[r] = Assigned(conn[r], y, q) /\ Reached(r) /\ root'[r] = root[r]
      BY <1>1, <1>2, <2>2 DEF qnodeosVars, TypeInv, VirtualInv, AgreeInv, Agrees
    <3>3. \A z \in DOMAIN conn'[r] : conn'[r][z] = <<r[1], z>>
      BY <1>4, <2>2, <3>2 DEF Reached, Assigned
    <3>4. QED
      BY <3>1, <3>2, <3>3 DEF Agrees, Reached
  <2>3. QED
    BY <2>1, <2>2
<1>6. QED
  BY <1>3, <1>5 DEF AgreeInv

LEMMA AgreeStartQnodeos ==
  ASSUME TypeInv, AgreeInv, NEW p \in Processes, StartQnodeos(p)
  PROVE  AgreeInv'
<1>1. qnodeos[p] = "starting" /\ UNCHANGED <<fileVars, daemonVars, virtualVars, root>>
  BY StartsQnodeos
<1>2. KeepsUsed(file') /\ MutualInv' /\ ReadersInv' /\ file' = file
  BY <1>1, SameFileKept, ReadersStay DEF fileVars, daemonVars, AgreeInv
<1>3. ASSUME NEW q \in Processes
      PROVE  Agrees(q)'
  <2>1. CASE q # p
    <3>1. qnodeos'[q] = qnodeos[q] /\ config'[q] = config[q]
      BY <2>1, StartsQnodeos DEF TypeInv, QnodeosInv
    <3>2. QED
      BY <1>1, <1>2, <3>1, AgreesStays DEF virtualVars, TypeInv, AgreeInv
  <2>2. CASE q = p
    <3>1. VirtualAgrees(q)' /\ Reached(q)'
      BY <1>1, <1>2 DEF virtualVars, AgreeInv, Agrees, VirtualAgrees, Reached, Hosts
    <3>2. CASE qnodeos' = [qnodeos EXCEPT ![p] = "dead"]
      BY <2>2, <3>1, <3>2 DEF TypeInv, QnodeosInv, Agrees, QnodeosAgrees, Serving
    <3>3. CASE /\ Readable(p[1], "vnode")
               /\ p[2] \in DOMAIN file[p[1]].nodes
               /\ config' = [config EXCEPT ![p] = ConfigOf(p)]
      <4>1. /\ q[1] \in DOMAIN file /\ q[2] \in DOMAIN file[q[1]].nodes
            /\ config'[q] = ConfigOf(q)
        BY <2>2, <3>3 DEF Readable, TypeInv, QnodeosInv
      <4>2. QnodeosAgrees(q)'
        BY <1>2, <4>1 DEF QnodeosAgrees, ConfigOf, Hosts
      <4>3. QED
        BY <3>1, <4>2 DEF Agrees
    <3>4. QED
      BY <3>2, <3>3, StartsQnodeos
  <2>3. QED
    BY <2>1, <2>2
<1>4. QED
  BY <1>2, <1>3 DEF AgreeInv

LEMMA AgreeCallVirtual ==
  ASSUME TypeInv, AgreeInv, NEW p \in Processes, CallVirtual(p)
  PROVE  AgreeInv'
<1>1. PICK q \in VirtualAt(config[p].virtual) : root' = [root EXCEPT ![p] = q]
  BY DEF CallVirtual
<1>2. /\ qnodeos[p] = "calling"
      /\ UNCHANGED <<fileVars, daemonVars, virtualVars, config>>
  BY DEF CallVirtual
<1>3. PICK s \in {"binding", "up"} : qnodeos' = [qnodeos EXCEPT ![p] = s]
  BY DEF CallVirtual
<1>4. KeepsUsed(file') /\ MutualInv' /\ ReadersInv' /\ file' = file
  BY <1>2, SameFileKept, ReadersStay DEF fileVars, daemonVars, AgreeInv
<1>5. q = p
  <2>1. /\ p[1] \in DOMAIN file /\ p[2] \in DOMAIN file[p[1]].nodes
        /\ config[p].virtual = file[p[1]].nodes[p[2]]["vnode"]
    BY <1>2, ServesAsInFile DEF AgreeInv, Agrees, Serving
  <2>2. q = <<p[1], p[2]>>
    BY <1>1, <2>1, OneVirtualAt
  <2>3. p = <<p[1], p[2]>>
    BY DEF Processes
  <2>4. QED
    BY <2>2, <2>3
<1>6. ASSUME NEW r \in Processes
      PROVE  Agrees(r)'
  <2>1. CASE r # p
    BY <1>1, <1>2, <1>3, <1>4, <2>1, AgreesStays DEF virtualVars, TypeInv, QnodeosInv, AgreeInv
  <2>2. CASE r = p
    <3>1. VirtualAgrees(r)'
      BY <1>2, <1>4 DEF virtualVars, AgreeInv, Agrees, VirtualAgrees, Hosts
    <3>2. QnodeosAgrees(r)'
      BY <1>2, <1>4, <2>2 DEF AgreeInv, Agrees, QnodeosAgrees, Serving, ConfigOf, Hosts
    <3>3. root'[r] = r /\ conn'[r] = conn[r]
      BY <1>1, <1>2, <1>5, <2>2 DEF virtualVars, TypeInv, QnodeosInv
    <3>4. Reached(r)'
      BY <3>3 DEF AgreeInv, Agrees, Reached
    <3>5. QED
      BY <3>1, <3>2, <3>4 DEF Agrees
  <2>3. QED
    BY <2>1, <2>2
<1>7. QED
  BY <1>4, <1>6 DEF AgreeInv

LEMMA AgreeListen ==
  ASSUME TypeInv, AgreeInv, NEW p \in Processes, Listen(p)
  PROVE  AgreeInv'
<1>1. /\ qnodeos[p] = "binding"
      /\ UNCHANGED <<fileVars, daemonVars, virtualVars>>
      /\ \/ /\ qnodeos' = [qnodeos EXCEPT ![p] = "up"]
            /\ UNCHANGED <<config, root>>
         \/ /\ qnodeos' = [qnodeos EXCEPT ![p] = "dead"]
            /\ config' = [config EXCEPT ![p] = NoConfig]
            /\ root' = [root EXCEPT ![p] = Nothing]
  BY DEF Listen
<1>2. KeepsUsed(file') /\ MutualInv' /\ ReadersInv' /\ file' = file
  BY <1>1, SameFileKept, ReadersStay DEF fileVars, daemonVars, AgreeInv
<1>3. ASSUME NEW r \in Processes
      PROVE  Agrees(r)'
  <2>1. CASE r # p
    BY <1>1, <1>2, <2>1, AgreesStays DEF virtualVars, TypeInv, QnodeosInv, AgreeInv
  <2>2. CASE r = p
    <3>1. VirtualAgrees(r)'
      BY <1>1, <1>2 DEF virtualVars, AgreeInv, Agrees, VirtualAgrees, Hosts
    <3>2. QnodeosAgrees(r)' /\ root'[r] \in {r, Nothing}
      BY <1>1, <1>2, <2>2 DEF AgreeInv, Agrees, QnodeosAgrees, Serving, ConfigOf, Hosts,
                              Reached, TypeInv, QnodeosInv
    <3>3. conn'[r] = conn[r]
      BY <1>1 DEF virtualVars
    <3>4. Reached(r)'
      BY <3>2, <3>3 DEF AgreeInv, Agrees, Reached
    <3>5. QED
      BY <3>1, <3>2, <3>4 DEF Agrees
  <2>3. QED
    BY <2>1, <2>2
<1>4. QED
  BY <1>2, <1>3 DEF AgreeInv

(* A step of nobody, and one of another program. *)
LEMMA AgreeAside ==
  ASSUME TypeInv, AgreeInv, UNCHANGED <<file, oneSided>>,
         UNCHANGED <<daemonVars, virtualVars, qnodeosVars>>
  PROVE  AgreeInv'
<1>1. KeepsUsed(file') /\ MutualInv' /\ ReadersInv'
  BY SameFileKept, ReadersStay DEF daemonVars, AgreeInv
<1>2. \A p \in Processes : Agrees(p)'
  BY <1>1, AllAgree DEF TypeInv, AgreeInv
<1>3. QED
  BY <1>1, <1>2 DEF AgreeInv

LEMMA NextAgrees ==
  ASSUME Serial
  PROVE  TypeInv /\ AgreeInv /\ [Next]_vars => AgreeInv'
<1> SUFFICES ASSUME TypeInv, AgreeInv, [Next]_vars PROVE AgreeInv'
  OBVIOUS
<1>1. ASSUME NEW n \in Networks, Start(n) \/ Stop(n) \/ Terminate(n) \/ Stopped(n)
      PROVE  AgreeInv'
  BY <1>1, AgreeStart, AgreeStop, AgreeTerminate, AgreeStopped
<1>2. ASSUME NEW n \in Networks, NEW xs \in NodeLists[n],
             \/ \E shape \in Asked : \E top \in Topologies(shape, xs) :
                  LaunchNew(n, xs, top)
             \/ LaunchKept(n, xs)
             \/ FailToLaunch(n, xs)
             \/ SetDefault(n, xs)
      PROVE  AgreeInv'
  BY <1>2, AgreeLaunchNew, AgreeLaunchKept, AgreeFailToLaunch, AgreeSetDefault
<1>3. ASSUME NEW n \in Networks, NEW x \in Nodes, Drop(n, x)
      PROVE  AgreeInv'
  BY <1>3, AgreeDrop
<1>4. ASSUME NEW p \in Processes, OwnSteps(p)
      PROVE  AgreeInv'
  BY <1>4, AgreeStartVirtual, AgreeConnectToNode, AgreeStartQnodeos, AgreeCallVirtual,
     AgreeListen DEF OwnSteps
<1>5. ASSUME NEW port \in Contested, Occupy(port)
      PROVE  AgreeInv'
  BY <1>5, AgreeAside DEF Occupy
<1>6. CASE UNCHANGED vars
  BY <1>6, AgreeAside DEF vars, fileVars
<1>7. QED
  BY <1>1, <1>2, <1>3, <1>4, <1>5, <1>6, AgreeAdd, AgreeReset DEF Next

LEMMA AlwaysAgrees ==
  ASSUME Serial
  PROVE  Spec => [](TypeInv /\ AgreeInv)
<1>1. Init => TypeInv /\ AgreeInv
  BY InitTypes, InitAgrees
<1>2. TypeInv /\ AgreeInv /\ [Next]_vars => (TypeInv /\ AgreeInv)'
  BY NextTypes, NextAgrees
<1>3. QED
  BY <1>1, <1>2, PTL DEF Spec

-----------------------------------------------------------------------------
LEMMA OwnServersHolds == TypeInv /\ AgreeInv => OwnServers
<1> SUFFICES ASSUME TypeInv, AgreeInv PROVE OwnServers
  OBVIOUS
<1>1. \A p \in Processes : /\ \A y \in DOMAIN conn[p] : conn[p][y] = <<p[1], y>>
                           /\ root[p] \in {p, Nothing}
  BY DEF AgreeInv, Agrees, Reached
<1>2. ASSUME NEW n \in Networks, Running(n), ~Impaired(n), NEW x \in Range(nodes[n])
      PROVE  qnodeos[<<n, x>>] = "up"
  <2>1. PICK port :
          /\ n \in DOMAIN file /\ x \in DOMAIN file[n].nodes
          /\ port = file[n].nodes[x]["qnodeos"]
          /\ QnodeosAt(port) # {} \/ port \in foreign
    BY <1>2 DEF Running
  <2>2. port # NoPort /\ port \notin foreign
    <3>1. Range(file[n].nodes[x]) \cap ({NoPort} \cup foreign) = {}
      BY <1>2, <2>1 DEF Impaired
    <3>2. file[n].nodes[x] \in Sockets
      BY <2>1 DEF TypeInv, FileInv, Sound, Constructor, IsFile, IsPartial, Range
    <3>3. port \in Range(file[n].nodes[x])
      BY <2>1, <3>2 DEF Sockets, Kinds, Range
    <3>4. QED
      BY <3>1, <3>3
  <2>3. PICK p \in Processes : qnodeos[p] = "up" /\ config[p].port = port
    BY <2>1, <2>2 DEF QnodeosAt
  <2>4. /\ p[1] \in DOMAIN file /\ p[2] \in DOMAIN file[p[1]].nodes
        /\ config[p].port = file[p[1]].nodes[p[2]]["qnodeos"]
    BY <2>3, ServesAsInFile DEF AgreeInv, Agrees, Serving
  <2>5. PICK m, z : m = p[1] /\ z = p[2] /\ p = <<m, z>>
    BY DEF Processes
  <2>6. m = n /\ z = x
    <3>1. /\ m \in DOMAIN file /\ z \in DOMAIN file[m].nodes
          /\ file[n].nodes[x]["qnodeos"] = file[m].nodes[z]["qnodeos"]
          /\ file[n].nodes[x]["qnodeos"] # NoPort
      BY <2>1, <2>2, <2>3, <2>4, <2>5
    <3>2. "qnodeos" \in Kinds
      BY DEF Kinds
    <3>3. QED
      BY <2>1, <2>2, <3>1, <3>2, OneOwner
  <2>7. QED
    BY <2>3, <2>5, <2>6
<1>3. QED
  BY <1>1, <1>2 DEF OwnServers

LEMMA NeighborsAgreeHolds == TypeInv /\ AgreeInv => NeighborsAgree
<1> SUFFICES ASSUME TypeInv, AgreeInv, NEW n \in Networks \ oneSided,
                    NEW x \in Range(nodes[n]), NEW y \in Range(nodes[n]),
                    qnodeos[<<n, x>>] = "up", qnodeos[<<n, y>>] = "up"
             PROVE  Adjacent(config[<<n, x>>].topology, x, y)
                      <=> Adjacent(config[<<n, y>>].topology, y, x)
  BY DEF NeighborsAgree
<1>1. x \in Nodes /\ y \in Nodes
  <2>1. nodes[n] \in Seq(Nodes)
    BY DEF TypeInv, DaemonInv
  <2>2. QED
    BY <2>1, LenProperties, ElementOfSeq DEF Range
<1>2. \A z \in {x, y} : n \in DOMAIN file /\ config[<<n, z>>].topology = file[n].topology
  <2>1. ASSUME NEW z \in {x, y}
        PROVE  n \in DOMAIN file /\ config[<<n, z>>].topology = file[n].topology
    <3>1. PICK p \in Processes : p = <<n, z>> /\ p[1] = n
      BY <1>1 DEF Processes
    <3>2. Serving(p) /\ QnodeosAgrees(p)
      BY <3>1 DEF Serving, AgreeInv, Agrees
    <3>3. QED
      BY <3>1, <3>2 DEF QnodeosAgrees, ConfigOf
  <2>2. QED
    BY <2>1
<1>3. Mutual(file[n].topology)
  BY <1>2 DEF AgreeInv, MutualInv
<1>4. QED
  BY <1>1, <1>2, <1>3 DEF Mutual

(* As long as nobody uses the file between a daemon's reading and writing,
   every network keeps to itself, however many there are and whatever starts,
   stops and crashes: a virtual node is connected to the virtual nodes of its
   own network under their names, a NetQASM server uses the virtual node of its
   node, and a network that seems to run does so by its own servers. *)
THEOREM ServersAreOwn ==
  ASSUME Serial
  PROVE  Spec => []OwnServers
BY AlwaysAgrees, OwnServersHolds, PTL

(* The servers of two nodes that have read the topology, at different times,
   agree whether the nodes are next to each other, for all shapes of networks
   that can be asked for and as long as no node was added with neighbours of
   its own. *)
THEOREM NodesAgreeAboutNeighbors ==
  ASSUME Serial
  PROVE  Spec => []NeighborsAgree
BY AlwaysAgrees, NeighborsAgreeHolds, PTL
=============================================================================
