---------------------------- MODULE MCEprDelivery ----------------------------
(* Instances of EprDelivery for TLC.                                       *)
EXTENDS EprDelivery, TLC

CONSTANTS alice, bob

Other(n) == IF n = alice THEN bob ELSE alice

\* one link per socket id, or socket 0 of one node with socket 1 of the other
Straight == [x \in Sockets |-> <<Other(x[1]), x[2]>>]
Crossed == [x \in Sockets |-> <<Other(x[1]), 1 - x[2]>>]

Task(kind, type, socket, pairs) ==
  [kind |-> kind, type |-> type, socket |-> socket, pairs |-> pairs]
Create == Task("create", "K", 0, 1)
Receive == Task("recv", "K", 0, 1)
Local == Task("local", "K", 0, 1)

\* sessions a1 and a2 run at alice, the others at bob
HomeOf(sessions) ==
  [c \in sessions |-> IF c \in {"a1", "a2"} THEN alice ELSE bob]

\* room for all
Ample == [n \in Nodes |-> 4]

\* two subroutines create at alice, two receive at bob on the same link, and
\* one creates at bob for nobody who receives
LinkJob == ("a1" :> Create) @@ ("a2" :> Task("create", "M", 0, 1))
             @@ ("b1" :> Receive) @@ ("b2" :> Receive) @@ ("b3" :> Create)
LinkSessions == DOMAIN LinkJob
LinkHome == HomeOf(LinkSessions)
LinkRoom == (alice :> 3) @@ (bob :> 2)

\* two pairs on a link with crossed socket ids, while a subroutine at each
\* node makes and frees a qubit
ReuseJob == ("a1" :> Task("create", "K", 0, 2)) @@ ("a2" :> Local)
              @@ ("b1" :> Task("recv", "K", 1, 2)) @@ ("b2" :> Local)
ReuseSessions == DOMAIN ReuseJob
ReuseHome == HomeOf(ReuseSessions)
=============================================================================
