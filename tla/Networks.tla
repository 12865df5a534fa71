------------------------------ MODULE Networks ------------------------------
(***************************************************************************)
(* Networks that are started, stopped and edited from the command line:    *)
(* simulaqron.py, network.py, start/, and of the two servers of a node     *)
(* what they do until they are connected (virtual.py, Backend and          *)
(* connectNet; start_qnodeos.py).                                          *)
(*                                                                         *)
(* `simulaqron start' leaves a daemon behind that reads and writes the     *)
(* networks file and starts two processes per node, which read the file    *)
(* again, each in its own time.  Whoever refuses a connection may just not *)
(* be up yet, so it is tried again.                                        *)
(***************************************************************************)
EXTENDS NetworkConfig

CONSTANTS
  Networks,    \* names of networks
  Default,     \* the network of an empty installation
  NodeLists,   \* the lists of nodes that each network is started with
  Asked,       \* the topologies that networks are started with
  Additions,   \* nodes that are added, with the ports and neighbours given
  Contested,   \* ports that other programs may take
  MaxStarts,   \* bounds: of starts, and of changes by other commands
  MaxEdits,
  Serial,      \* nobody uses the file between a daemon's reading and writing
  Nothing

\* Nodes that are started together have different names.
ASSUME NetworksAssumption ==
  /\ Default \in Networks
  /\ \A n \in Networks : \A xs \in NodeLists[n] :
       xs \in Seq(Nodes) /\ IsInjective(xs)
  /\ Asked \subseteq Shapes
  /\ \A a \in Additions :
       /\ a.to \in Networks /\ a.node \in Nodes /\ a.ports \in Sockets
       /\ a.neighbors = NoTopology \/ a.neighbors \subseteq Nodes
  /\ MaxStarts \in Nat /\ MaxEdits \in Nat
  /\ Contested \subseteq Ports
  /\ Serial \in BOOLEAN

VARIABLES
  file,        \* the networks file
  stage,       \* of a network: where its daemon is; its pid file is there
               \* unless the stage is "off"
  memory,      \* networks_config of a daemon
  nodes,       \* self.nodes of a daemon's Network
  virtual,     \* state of the virtual node process of a node of a network
  hostDict,    \* the virtual nodes it knows of, with their ports
  conn,        \* its connections: the process it reached, by name of the node
  qnodeos,     \* state of the NetQASM server process
  config,      \* what it has read: its port, that of its virtual node, topology
  root,        \* virtRoot: the virtual node process it reached
  foreign,     \* ports that other programs have bound
  starts, edits,
  oneSided     \* for the properties: networks with a node that was added with
               \* neighbours of its own

fileVars == <<file, edits, foreign, oneSided>>
daemonVars == <<stage, memory, nodes, starts>>
virtualVars == <<virtual, hostDict, conn>>
qnodeosVars == <<qnodeos, config, root>>
vars == <<fileVars, daemonVars, virtualVars, qnodeosVars>>

Processes == Networks \X Nodes
NoConfig == [port |-> NoPort, virtual |-> NoPort, topology |-> NoTopology]

TypeOK ==
  /\ IsFile(file, Networks)
  /\ stage \in [Networks -> {"off", "read", "up", "stopping", "failed"}]
  /\ nodes \in [Networks -> Seq(Nodes)]
  /\ virtual \in [Processes -> {"off", "starting", "up", "dead"}]
  /\ \A p \in Processes :
       /\ IsPartial(hostDict[p], Nodes, Ports)
       /\ conn[p] \in [DOMAIN conn[p] -> Processes]
       /\ DOMAIN conn[p] \subseteq DOMAIN hostDict[p]
       /\ (virtual[p] = "up") <=> (p[2] \in DOMAIN conn[p])
  /\ qnodeos \in [Processes -> {"off", "starting", "calling", "binding", "up", "dead"}]
  /\ \A p \in Processes :
       /\ root[p] \in Processes \cup {Nothing}
       /\ (qnodeos[p] \in {"binding", "up"}) => root[p] \in Processes
       /\ (config[p] # NoConfig) <=> qnodeos[p] \in {"calling", "binding", "up"}
  /\ foreign \subseteq Ports
  /\ oneSided \subseteq Networks
  /\ starts \in 0 .. MaxStarts
  /\ edits \in 0 .. MaxEdits

Alive(p) ==
  \/ virtual[p] \in {"starting", "up"}
  \/ qnodeos[p] \in {"starting", "calling", "binding", "up"}

\* who listens at a port
VirtualAt(port) ==
  {p \in Processes : virtual[p] = "up" /\ hostDict[p][p[2]] = port}
QnodeosAt(port) == {p \in Processes : qnodeos[p] = "up" /\ config[p].port = port}

\* ports that cannot be bound now
Bound ==
  foreign \cup {hostDict[p][p[2]] : p \in {q \in Processes : virtual[q] = "up"}}
          \cup {config[p].port : p \in {q \in Processes : qnodeos[q] = "up"}}

\* SocketsConfig for one kind of socket: a network or a port that is missing
\* makes it raise.
Readable(n, kind) ==
  /\ n \in DOMAIN file
  /\ \A x \in DOMAIN file[n].nodes : file[n].nodes[x][kind] # NoPort
Hosts(n, kind) == [x \in DOMAIN file[n].nodes |-> file[n].nodes[x][kind]]

Init ==
  /\ \E xs \in NodeLists[Default] : file = DefaultConfig(Default, xs, {})
  /\ stage = [n \in Networks |-> "off"]
  /\ memory = [n \in Networks |-> Nothing]
  /\ nodes = [n \in Networks |-> << >>]
  /\ virtual = [p \in Processes |-> "off"]
  /\ hostDict = [p \in Processes |-> << >>]
  /\ conn = [p \in Processes |-> << >>]
  /\ qnodeos = [p \in Processes |-> "off"]
  /\ config = [p \in Processes |-> NoConfig]
  /\ root = [p \in Processes |-> Nothing]
  /\ foreign = {}
  /\ starts = 0
  /\ oneSided = {}
  /\ edits = 0

-----------------------------------------------------------------------------
(* The daemon of a network.                                                *)

FileInUse == Serial /\ \E n \in Networks : stage[n] = "read"

\* start: refused if there is a pid file.  Otherwise Network.__init__ makes
\* the constructor in the daemon, which reads the file.
Start(n) ==
  /\ stage[n] = "off"
  /\ ~FileInUse
  /\ starts < MaxStarts
  /\ starts' = starts + 1
  /\ stage' = [stage EXCEPT ![n] = "read"]
  /\ memory' = [memory EXCEPT ![n] = Constructor(file)]
  /\ UNCHANGED nodes
  /\ UNCHANGED <<fileVars, virtualVars, qnodeosVars>>

\* _setup_processes and Network.start
Launch(n, xs) ==
  LET started == {n} \X Range(xs)
  IN  /\ stage' = [stage EXCEPT ![n] = "up"]
      /\ memory' = [memory EXCEPT ![n] = Nothing]
      /\ nodes' = [nodes EXCEPT ![n] = xs]
      /\ virtual' = [p \in Processes |->
                       IF p \in started THEN "starting" ELSE virtual[p]]
      /\ qnodeos' = [p \in Processes |->
                       IF p \in started THEN "starting" ELSE qnodeos[p]]

\* The rest of __init__ for a new network, which replaces the one in the file.
LaunchNew(n, xs, topology) ==
  /\ stage[n] = "read"
  /\ file' = AddNetwork(memory[n], n, xs, topology, Bound).networks
  /\ Launch(n, xs)
  /\ oneSided' = oneSided \ {n}
  /\ UNCHANGED <<starts, edits, foreign, hostDict, conn, config, root>>

\* With --keep: the nodes that are asked for, or all, must be in the file.
LaunchKept(n, xs) ==
  /\ stage[n] = "read"
  /\ n \in DOMAIN memory[n].networks
  /\ Range(xs) \subseteq DOMAIN memory[n].networks[n].nodes
  /\ Launch(n, xs)
  /\ UNCHANGED <<starts, fileVars, hostDict, conn, config, root>>

\* What is asked for is not there, or no topology: the daemon ends, and leaves
\* its pid file.
FailToLaunch(n, xs) ==
  /\ stage[n] = "read"
  /\ \/ n \in DOMAIN memory[n].networks =>
          \E x \in Range(xs) : x \notin DOMAIN memory[n].networks[n].nodes
     \/ \E shape \in Asked : Topologies(shape, xs) = {}
  /\ stage' = [stage EXCEPT ![n] = "failed"]
  /\ memory' = [memory EXCEPT ![n] = Nothing]
  /\ UNCHANGED <<nodes, starts>>
  /\ UNCHANGED <<fileVars, virtualVars, qnodeosVars>>

\* stop: the daemon is told to end.
Stop(n) ==
  /\ stage[n] \in {"up", "failed"}
  /\ stage' = [stage EXCEPT ![n] = "stopping"]
  /\ UNCHANGED <<memory, nodes, starts>>
  /\ UNCHANGED <<fileVars, virtualVars, qnodeosVars>>

\* Network.stop: one process after the other
Terminate(n) ==
  LET xs == SelectSeq(nodes[n], LAMBDA x : Alive(<<n, x>>))
      p == <<n, xs[1]>>
  IN  /\ stage[n] = "stopping"
      /\ xs # << >>
      /\ IF virtual[p] \in {"starting", "up"}
         THEN /\ virtual' = [virtual EXCEPT ![p] = "dead"]
              /\ hostDict' = [hostDict EXCEPT ![p] = << >>]
              /\ conn' = [conn EXCEPT ![p] = << >>]
              /\ UNCHANGED qnodeosVars
         ELSE /\ qnodeos' = [qnodeos EXCEPT ![p] = "dead"]
              /\ config' = [config EXCEPT ![p] = NoConfig]
              /\ root' = [root EXCEPT ![p] = Nothing]
              /\ UNCHANGED virtualVars
      /\ UNCHANGED <<fileVars, daemonVars>>

\* The daemon is gone, and its pid file.
Stopped(n) ==
  /\ stage[n] = "stopping"
  /\ ~\E x \in Nodes : Alive(<<n, x>>)
  /\ stage' = [stage EXCEPT ![n] = "off"]
  /\ nodes' = [nodes EXCEPT ![n] = << >>]
  /\ virtual' = [p \in Processes |-> IF p[1] = n THEN "off" ELSE virtual[p]]
  /\ qnodeos' = [p \in Processes |-> IF p[1] = n THEN "off" ELSE qnodeos[p]]
  /\ UNCHANGED <<fileVars, memory, starts, hostDict, conn, config, root>>

-----------------------------------------------------------------------------
(* The other commands read and write the file at one go.  No command looks *)
(* whether the network is started; that it is not is assumed of the user.  *)

Edit(networks) ==
  /\ edits < MaxEdits
  /\ ~FileInUse
  /\ edits' = edits + 1
  /\ file' = networks
  /\ UNCHANGED foreign
  /\ UNCHANGED <<daemonVars, virtualVars, qnodeosVars>>

\* nodes add
Add(a) ==
  /\ stage[a.to] = "off"
  /\ Available(PortsIn(file), Bound, a.ports)
  /\ Edit(AddNode(Constructor(file), a.to, a.node, a.ports, a.neighbors, Bound).networks)
  /\ oneSided' = IF a.neighbors = NoTopology THEN oneSided
                                              ELSE oneSided \cup {a.to}

\* nodes remove
Drop(n, x) ==
  /\ stage[n] = "off"
  /\ Edit(RemoveNode(Constructor(file), n, x).networks)
  /\ UNCHANGED oneSided

\* nodes default
SetDefault(n, xs) ==
  /\ stage[n] = "off"
  /\ Edit(AddNetwork(Constructor(file), n, xs, NoTopology, Bound).networks)
  /\ oneSided' = oneSided \ {n}

\* reset, after it has stopped all networks
Reset(xs) ==
  /\ \A n \in Networks : stage[n] = "off"
  /\ Edit(DefaultConfig(Default, xs, Bound))
  /\ oneSided' = {}

-----------------------------------------------------------------------------
(* The virtual node of a node.                                             *)

\* Backend.__init__ and start, virtualNode.__init__
StartVirtual(p) ==
  LET n == p[1]
      x == p[2]
      hosts == Hosts(n, "vnode")
  IN  /\ virtual[p] = "starting"
      /\ IF Readable(n, "vnode") /\ x \in DOMAIN hosts /\ hosts[x] \notin Bound
         THEN /\ virtual' = [virtual EXCEPT ![p] = "up"]
              /\ hostDict' = [hostDict EXCEPT ![p] = hosts]
              /\ conn' = [conn EXCEPT ![p] = Assigned(<< >>, x, p)]
         ELSE /\ virtual' = [virtual EXCEPT ![p] = "dead"]
              /\ UNCHANGED <<hostDict, conn>>
      /\ UNCHANGED <<fileVars, daemonVars, qnodeosVars>>

\* connect_to_node and handle_connection; handle_connection_error has it
\* repeated until somebody listens.
ConnectToNode(p, y) ==
  /\ virtual[p] = "up"
  /\ y \in DOMAIN hostDict[p] \ DOMAIN conn[p]
  /\ \E q \in VirtualAt(hostDict[p][y]) : conn' = [conn EXCEPT ![p] = Assigned(@, y, q)]
  /\ UNCHANGED <<fileVars, daemonVars, virtual, hostDict, qnodeosVars>>

(* The NetQASM server of a node.                                           *)

\* main of start_qnodeos: reads both configs and, in the factory, the topology
StartQnodeos(p) ==
  LET n == p[1]
      x == p[2]
  IN  /\ qnodeos[p] = "starting"
      /\ IF /\ Readable(n, "vnode")
            /\ Readable(n, "qnodeos")
            /\ x \in DOMAIN file[n].nodes
         THEN /\ qnodeos' = [qnodeos EXCEPT ![p] = "calling"]
              /\ config' = [config EXCEPT ![p] =
                              [port |-> Hosts(n, "qnodeos")[x],
                               virtual |-> Hosts(n, "vnode")[x],
                               topology |-> file[n].topology]]
         ELSE /\ qnodeos' = [qnodeos EXCEPT ![p] = "dead"]
              /\ UNCHANGED config
      /\ UNCHANGED <<fileVars, daemonVars, virtualVars, root>>

\* MUTANT: a refused connection is an error like any other
CallVirtualOnce(p) ==
  LET reached == VirtualAt(config[p].virtual)
  IN  /\ qnodeos[p] = "calling"
      /\ IF reached = {}
         THEN /\ qnodeos' = [qnodeos EXCEPT ![p] = "dead"]
              /\ config' = [config EXCEPT ![p] = NoConfig]
              /\ UNCHANGED root
         ELSE /\ qnodeos' = [qnodeos EXCEPT ![p] = "up"]
              /\ \E q \in reached : root' = [root EXCEPT ![p] = q]
              /\ UNCHANGED config
      /\ UNCHANGED <<fileVars, daemonVars, virtualVars>>

\* connect_to_virtNode, repeated by its handle_connection_error; then
\* init_register and setup_netqasm_server, in the same callback
CallVirtual(p) ==
  /\ qnodeos[p] = "calling"
  /\ \E q \in VirtualAt(config[p].virtual) : root' = [root EXCEPT ![p] = q]
  /\ qnodeos' = [qnodeos EXCEPT ![p] =
                   IF config[p].port \in Bound THEN "binding" ELSE "up"]
  /\ UNCHANGED <<fileVars, daemonVars, virtualVars, config>>

\* setup_netqasm_server tries again while its port is bound, and gives up
\* after ten seconds.
Listen(p) ==
  /\ qnodeos[p] = "binding"
  /\ IF config[p].port \notin Bound
     THEN /\ qnodeos' = [qnodeos EXCEPT ![p] = "up"]
          /\ UNCHANGED <<config, root>>
     ELSE /\ qnodeos' = [qnodeos EXCEPT ![p] = "dead"]
          /\ config' = [config EXCEPT ![p] = NoConfig]
          /\ root' = [root EXCEPT ![p] = Nothing]
  /\ UNCHANGED <<fileVars, daemonVars, virtualVars>>

\* Another program takes a port.
Occupy(port) ==
  /\ port \notin Bound
  /\ foreign' = foreign \cup {port}
  /\ UNCHANGED <<file, edits, oneSided>>
  /\ UNCHANGED <<daemonVars, virtualVars, qnodeosVars>>

-----------------------------------------------------------------------------

OwnSteps(p) ==
  \/ StartVirtual(p)
  \/ \E y \in Nodes : ConnectToNode(p, y)
  \/ StartQnodeos(p)
  \/ CallVirtual(p)
  \/ Listen(p)

Next ==
  \/ \E n \in Networks :
       \/ Start(n) \/ Stop(n) \/ Terminate(n) \/ Stopped(n)
       \/ \E xs \in NodeLists[n] :
            \/ \E shape \in Asked : \E top \in Topologies(shape, xs) :
                 LaunchNew(n, xs, top)
            \/ LaunchKept(n, xs)
            \/ FailToLaunch(n, xs)
            \/ SetDefault(n, xs)
       \/ \E x \in Nodes : Drop(n, x)
  \/ \E a \in Additions : Add(a)
  \/ \E xs \in NodeLists[Default] : Reset(xs)
  \/ \E p \in Processes : OwnSteps(p)
  \/ \E port \in Contested : Occupy(port)

Spec == Init /\ [][Next]_vars

\* The processes of a node run, and their reactors repeat what was refused.
\* None of these steps is taken twice, so that none can starve another.
FairSpec == Spec /\ \A p \in Processes : WF_vars(OwnSteps(p))

-----------------------------------------------------------------------------
(* Correctness.                                                            *)

\* Network.running: somebody listens where the file says that the servers are.
Running(n) ==
  /\ n \in DOMAIN file
  /\ \A x \in Range(nodes[n]) :
       /\ x \in DOMAIN file[n].nodes
       /\ LET port == file[n].nodes[x].qnodeos
          IN  QnodeosAt(port) # {} \/ port \in foreign

\* Ports have run out, or another program has one of the network's.
Impaired(n) ==
  /\ n \in DOMAIN file
  /\ \E x \in DOMAIN file[n].nodes :
       Range(file[n].nodes[x]) \cap ({NoPort} \cup foreign) # {}

\* However many networks there are, a virtual node is connected to the virtual
\* nodes of its own network, each under its name, a server uses the virtual
\* node of its node, and a network seems to run only if its own servers do (or
\* somebody else has taken a port of it).
OwnServers ==
  /\ \A p \in Processes :
       /\ \A y \in DOMAIN conn[p] : conn[p][y] = <<p[1], y>>
       /\ root[p] \in {p, Nothing}
  /\ \A n \in Networks :
       stage[n] = "up" /\ Running(n) /\ ~Impaired(n) =>
         \A x \in Range(nodes[n]) : qnodeos[<<n, x>>] = "up"

\* A node takes another for a neighbour whenever the other does, whenever they
\* have read the topology, unless a node was added with neighbours of its own.
NeighborsAgree ==
  \A n \in Networks \ oneSided : \A x, y \in Range(nodes[n]) :
    qnodeos[<<n, x>>] = "up" /\ qnodeos[<<n, y>>] = "up" =>
      (Adjacent(config[<<n, x>>].topology, x, y)
         <=> Adjacent(config[<<n, y>>].topology, y, x))

\* A network that is started runs in the end, with all its virtual nodes
\* connected to each other.
ComesUp ==
  \A n \in Networks :
    stage[n] = "up" ~>
      \/ stage[n] # "up"
      \/ Impaired(n)
      \/ /\ Running(n)
         /\ \A x, y \in Range(nodes[n]) : y \in DOMAIN conn[<<n, x>>]
=============================================================================
