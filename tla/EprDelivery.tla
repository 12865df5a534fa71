---------------------------- MODULE EprDelivery ----------------------------
(***************************************************************************)
(* Delivering EPR pairs: the executioner of netqasm_backend/executioner.py *)
(* at each node, and the receive lists of its virtual node (the netqasm_   *)
(* methods of virtual_node/virtual.py).                                    *)
(*                                                                         *)
(* A session is a subroutine that executes one instruction: create_epr,    *)
(* recv_epr, or the allocation and release of one qubit.  Sessions of a    *)
(* node run in one reactor: each runs until it awaits an answer, which is  *)
(* one action.  What the virtual nodes do in between is a step of its own. *)
(* A PB connection delivers answers in the order in which they are given.  *)
(*                                                                         *)
(* A qubit is named by the session that made it, the number of the pair in *)
(* the session and its half: 0 stays, 1 is sent.  These names are ghosts;  *)
(* the code goes by physical addresses, numbers and references.            *)
(*                                                                         *)
(* Addresses, requests and the mapping of responses to requests belong to  *)
(* the Executor of the netqasm library, modelled from its use here.        *)
(***************************************************************************)
EXTENDS Integers, FiniteSets, Sequences, FreeNumbers

CONSTANTS Nodes,        \* nodes, each with a virtual node and an executioner
          SocketIds,    \* EPR socket ids of a node
          Sessions,     \* subroutines
          Home,         \* Home[c]: the node session c runs at
          Job,          \* Job[c]: what it executes
          Peer,         \* Peer[x]: the socket at the other end of socket x
          MaxQubits,    \* MaxQubits[n]: maxQubits of the virtual node of n
          MaxTimeouts,  \* BOUND: receptions that time out
          Nobody        \* waits for the factory lock without listening

Sockets == Nodes \X SocketIds
Kinds == {"create", "recv", "local"}

ASSUME EprAssumption ==
  /\ Home \in [Sessions -> Nodes]
  /\ Job \in [Sessions -> [kind : Kinds, type : {"K", "M"},
                           socket : SocketIds, pairs : Nat \ {0}]]
  /\ MaxQubits \in [Nodes -> Nat]
  /\ MaxTimeouts \in Nat
  /\ Nobody \notin Sessions

\* Sockets come in pairs of two nodes, as setup_epr_socket is called at both
\* ends for one link.
ASSUME SocketsPaired ==
  /\ Peer \in [Sockets -> Sockets]
  /\ \A x \in Sockets : Peer[Peer[x]] = x /\ Peer[x][1] # x[1]

Socket(c) == <<Home[c], Job[c].socket>>
Target(c) == Peer[Socket(c)][1]

Pairs == Sessions \X Nat
Halves == Sessions \X Nat \X {0, 1}
NoNum == -1

VARIABLES
  virt,       \* virt[n]: numbers and qubits in virtQubits of node n
  qubitList,  \* qubitList[n]: addresses and qubits the factory of n knows
  used,       \* used[n]: physical addresses in use (netqasm)
  lock,       \* lock[n]: the DeferredLock of the factory of n
  eprList,    \* eprList[x]: qubit_recv_epr of a node for a socket id
  requests,   \* _epr_create_requests and _epr_recv_requests (netqasm)
  got,        \* got[c]: pairs and addresses in the result array of session c
  slots,      \* pairs handled per side and socket, in order (ghost)
  nextEnt,    \* nextEnt[x]: _next_ent_id
  pc,         \* pc[c]: where session c is
  work,       \* work[c]: local variables of session c
  sent,       \* sent[<<n, m>>]: sends from n to m that have been answered
  fetched,    \* fetched[n]: receptions at n that have been answered
  timeouts    \* receptions that have timed out

nodeVars == <<virt, qubitList, used, lock>>
listVars == <<eprList, sent, fetched>>
resultVars == <<requests, got, slots>>
vars == <<virt, qubitList, used, lock, eprList, requests, got, slots, nextEnt,
          pc, work, sent, fetched, timeouts>>

\* pair and half being made or sent, its address, its entanglement id, its
\* number at the target; pair, entanglement id and qubit fetched from a list
Work == [pair : Nat, half : {0, 1}, addr : Nat, ent : Nat, num : Nat \cup {NoNum},
         gotPair : Pairs, gotEnt : Nat, gotQubit : Halves]

Stages == {"idle", "locking", "making", "made", "refused", "entangling",
           "sending", "striking", "listing", "sent", "measuring", "measured",
           "polling", "fetched", "done", "failed"}

Entry == [num : Nat \cup {NoNum}, ent : Nat, pair : Pairs]
Slot == [pair : Pairs, ent : Nat]
Request == [session : Sessions, left : Nat \ {0}]
Result == [pair : Pairs, addr : Nat]
Sides == {"create", "recv"}

TypeOK ==
  /\ virt \in [Nodes -> SUBSET (Nat \X Halves)]
  /\ qubitList \in [Nodes -> SUBSET (Int \X Halves)]
  /\ used \in [Nodes -> SUBSET Nat]
  /\ lock \in [Nodes -> [taken : BOOLEAN, queue : Seq(Sessions \cup {Nobody})]]
  /\ eprList \in [Sockets -> Seq(Entry)]
  /\ requests \in [Sides -> [Sockets -> Seq(Request)]]
  /\ got \in [Sessions -> Seq(Result)]
  /\ slots \in [Sides -> [Sockets -> Seq(Slot)]]
  /\ nextEnt \in [Sockets -> Nat]
  /\ pc \in [Sessions -> Stages]
  /\ work \in [Sessions -> Work]
  /\ sent \in [Nodes \X Nodes -> Seq(Sessions)]
  /\ fetched \in [Nodes -> Seq(Sessions)]
  /\ timeouts \in 0 .. MaxTimeouts

Init ==
  /\ virt = [n \in Nodes |-> {}]
  /\ qubitList = [n \in Nodes |-> {}]
  /\ used = [n \in Nodes |-> {}]
  /\ lock = [n \in Nodes |-> [taken |-> FALSE, queue |-> << >>]]
  /\ eprList = [x \in Sockets |-> << >>]
  /\ requests = [side \in Sides |-> [x \in Sockets |-> << >>]]
  /\ got = [c \in Sessions |-> << >>]
  /\ slots = [side \in Sides |-> [x \in Sockets |-> << >>]]
  /\ nextEnt = [x \in Sockets |-> 0]
  /\ pc = [c \in Sessions |-> "idle"]
  /\ work = [c \in Sessions |->
               [pair |-> 0, half |-> 0, addr |-> 0, ent |-> 0, num |-> NoNum,
                gotPair |-> <<c, 0>>, gotEnt |-> 0, gotQubit |-> <<c, 0, 0>>]]
  /\ sent = [l \in Nodes \X Nodes |-> << >>]
  /\ fetched = [n \in Nodes |-> << >>]
  /\ timeouts = 0

-----------------------------------------------------------------------------
(* The pair at hand, virtual nodes and addresses.                          *)

PairOf(c) == <<c, work[c].pair>>
HalfOf(c, h) == <<c, work[c].pair, h>>

\* MUTANT: both halves have the address of the pair
AddressShared(c, h) == work[c].addr

\* the second qubit of a pair has a negative address, which no other has
Address(c, h) == IF h = 0 THEN work[c].addr ELSE -(1 + work[c].addr)

\* get_virtual_id, and the test of new_qubit and add_qubit for room
NewNum(n) == FirstFree({v[1] : v \in virt[n]})
HasRoom(n) == Cardinality(virt[n]) < MaxQubits[n]

Drop(n, q) == [virt EXCEPT ![n] = {v \in @ : v[2] # q}]

\* entries of a dictionary that remain when key a is set or popped
Others(n, a) == {e \in qubitList[n] : e[1] # a}

-----------------------------------------------------------------------------
(* The factory's lock, a DeferredLock: released, it goes to the first of   *)
(* its queue, whoever that is and whoever releases it.                     *)

Acquired(l, who) ==
  IF l.taken THEN [l EXCEPT !.queue = Append(@, who)]
  ELSE [l EXCEPT !.taken = TRUE]

Released(l) ==
  IF l.queue = << >> THEN [l EXCEPT !.taken = FALSE]
  ELSE [l EXCEPT !.queue = Tail(@)]

\* the session that goes on when l is released
Woken(l) == IF l.queue = << >> THEN {} ELSE {Head(l.queue)} \ {Nobody}

\* where a session is that has just asked for l in cmd_new
Asking(l) == IF l.taken THEN "locking" ELSE "making"

Goto(c, stage) == pc' = [pc EXCEPT ![c] = stage]

\* c goes on at a stage of its own, the woken ones call new_qubit
GotoAndWake(c, stage, woken) ==
  pc' = [s \in Sessions |-> IF s = c THEN stage
                            ELSE IF s \in woken THEN "making" ELSE pc[s]]

-----------------------------------------------------------------------------
(* Requests and responses (netqasm).                                       *)

\* MUTANT: a request is closed by the response after its last
RespondLate(side, x, pair, ent, addr) ==
  LET q == requests[side][x]
      r == Head(q)
  IN  /\ requests' = [requests EXCEPT ![side][x] =
                        IF r.left = 0 THEN Tail(q)
                        ELSE [q EXCEPT ![1].left = r.left - 1]]
      /\ got' = [got EXCEPT ![r.session] =
                   Append(@, [pair |-> pair, addr |-> addr])]
      /\ slots' = [slots EXCEPT ![side][x] =
                     Append(@, [pair |-> pair, ent |-> ent])]

\* a response goes to the oldest request of its side and socket
Respond(side, x, pair, ent, addr) ==
  LET q == requests[side][x]
      r == Head(q)
  IN  /\ requests' = [requests EXCEPT ![side][x] =
                        IF r.left = 1 THEN Tail(q)
                        ELSE [q EXCEPT ![1].left = r.left - 1]]
      /\ got' = [got EXCEPT ![r.session] =
                   Append(@, [pair |-> pair, addr |-> addr])]
      /\ slots' = [slots EXCEPT ![side][x] =
                     Append(@, [pair |-> pair, ent |-> ent])]

\* the loop over the pairs of a request: reserve the next unused address
MorePairs(c) == work[c].pair < Job[c].pairs

NextPair(c) ==
  IF MorePairs(c)
  THEN LET a == FirstFree(used[Home[c]])
       IN  /\ used' = [used EXCEPT ![Home[c]] = @ \cup {a}]
           /\ work' = [work EXCEPT ![c].pair = @ + 1, ![c].half = 0,
                                   ![c].addr = a]
  ELSE UNCHANGED <<used, work>>

Enqueue(c) ==
  requests' = [requests EXCEPT ![Job[c].kind][Socket(c)] =
                 Append(@, [session |-> c, left |-> Job[c].pairs])]

-----------------------------------------------------------------------------
(* Making qubits.                                                          *)

\* _do_create_epr up to the call of cmd_new, and qalloc, which comes to the
\* same without a request
StartMaking(c) ==
  LET n == Home[c]
  IN  /\ pc[c] = "idle"
      /\ Job[c].kind \in {"create", "local"}
      /\ IF Job[c].kind = "create" THEN Enqueue(c) ELSE UNCHANGED requests
      /\ NextPair(c)
      /\ lock' = [lock EXCEPT ![n] = Acquired(@, c)]
      /\ Goto(c, Asking(lock[n]))
      /\ UNCHANGED <<virt, qubitList, got, slots, nextEnt, timeouts>>
      /\ UNCHANGED listVars

\* new_qubit at the virtual node
NewQubit(c) ==
  LET n == Home[c]
  IN  /\ pc[c] = "making"
      /\ HasRoom(n)
      /\ virt' = [virt EXCEPT ![n] =
                    @ \cup {<<NewNum(n), HalfOf(c, work[c].half)>>}]
      /\ Goto(c, "made")
      /\ UNCHANGED <<qubitList, used, lock, nextEnt, work, timeouts>>
      /\ UNCHANGED listVars
      /\ UNCHANGED resultVars

RefuseQubit(c) ==
  /\ pc[c] = "making"
  /\ ~HasRoom(Home[c])
  /\ Goto(c, "refused")
  /\ UNCHANGED <<nextEnt, work, timeouts>>
  /\ UNCHANGED nodeVars
  /\ UNCHANGED listVars
  /\ UNCHANGED resultVars

\* cmd_new gets the qubit: enter it and release the lock.  For the first
\* half of a pair, ask for the lock again.
GotQubit(c) ==
  LET n == Home[c]
      h == work[c].half
      a == Address(c, h)
      released == Released(lock[n])
      second == Job[c].kind = "create" /\ h = 0
      next == IF second THEN Asking(released)
              ELSE IF Job[c].kind = "create" THEN "entangling" ELSE "measuring"
  IN  /\ pc[c] = "made"
      /\ qubitList' = [qubitList EXCEPT ![n] =
                         Others(n, a) \cup {<<a, HalfOf(c, h)>>}]
      /\ lock' = [lock EXCEPT ![n] = IF second THEN Acquired(released, c)
                                     ELSE released]
      /\ work' = [work EXCEPT ![c].half = IF second THEN 1 ELSE 0]
      /\ GotoAndWake(c, next, Woken(lock[n]))
      /\ UNCHANGED <<virt, used, nextEnt, timeouts>>
      /\ UNCHANGED listVars
      /\ UNCHANGED resultVars

\* MUTANT: an error leaves the lock taken
QubitRefusedLocked(c) ==
  /\ pc[c] = "refused"
  /\ Goto(c, "failed")
  /\ UNCHANGED <<nextEnt, work, timeouts>>
  /\ UNCHANGED nodeVars
  /\ UNCHANGED listVars
  /\ UNCHANGED resultVars

\* The finally clause of cmd_new releases the lock, the error ends the
\* subroutine: requests, addresses and a first half made before remain.
QubitRefused(c) ==
  LET n == Home[c]
  IN  /\ pc[c] = "refused"
      /\ lock' = [lock EXCEPT ![n] = Released(@)]
      /\ GotoAndWake(c, "failed", Woken(lock[n]))
      /\ UNCHANGED <<virt, qubitList, used, nextEnt, work, timeouts>>
      /\ UNCHANGED listVars
      /\ UNCHANGED resultVars

-----------------------------------------------------------------------------
(* Creating pairs.                                                         *)

\* MUTANT: the id is read but not counted up for measured pairs
EntangleUncounted(c) ==
  /\ pc[c] = "entangling"
  /\ work' = [work EXCEPT ![c].ent = nextEnt[Socket(c)], ![c].half = 0]
  /\ nextEnt' = [nextEnt EXCEPT ![Socket(c)] =
                   IF Job[c].type = "K" THEN @ + 1 ELSE @]
  /\ Goto(c, IF Job[c].type = "K" THEN "sending" ELSE "measuring")
  /\ UNCHANGED timeouts
  /\ UNCHANGED nodeVars
  /\ UNCHANGED listVars
  /\ UNCHANGED resultVars

\* After the two gates: new_ent_id, then send a half or measure both.
Entangle(c) ==
  /\ pc[c] = "entangling"
  /\ work' = [work EXCEPT ![c].ent = nextEnt[Socket(c)], ![c].half = 0]
  /\ nextEnt' = [nextEnt EXCEPT ![Socket(c)] = @ + 1]
  /\ Goto(c, IF Job[c].type = "K" THEN "sending" ELSE "measuring")
  /\ UNCHANGED timeouts
  /\ UNCHANGED nodeVars
  /\ UNCHANGED listVars
  /\ UNCHANGED resultVars

\* send_qubit with add_qubit at the target's virtual node
AddHalf(c) ==
  LET m == Target(c)
  IN  /\ pc[c] = "sending"
      /\ HasRoom(m)
      /\ virt' = [virt EXCEPT ![m] = @ \cup {<<NewNum(m), HalfOf(c, 1)>>}]
      /\ work' = [work EXCEPT ![c].num = NewNum(m)]
      /\ Goto(c, "striking")
      /\ UNCHANGED <<qubitList, used, lock, nextEnt, timeouts>>
      /\ UNCHANGED listVars
      /\ UNCHANGED resultVars

\* The target has no room: the error ends the subroutine.
RefuseHalf(c) ==
  /\ pc[c] = "sending"
  /\ ~HasRoom(Target(c))
  /\ Goto(c, "failed")
  /\ UNCHANGED <<nextEnt, work, timeouts>>
  /\ UNCHANGED nodeVars
  /\ UNCHANGED listVars
  /\ UNCHANGED resultVars

\* the sender's virtual node strikes the half from its own list
StrikeHalf(c) ==
  /\ pc[c] = "striking"
  /\ virt' = Drop(Home[c], HalfOf(c, 1))
  /\ Goto(c, "listing")
  /\ UNCHANGED <<qubitList, used, lock, nextEnt, work, timeouts>>
  /\ UNCHANGED listVars
  /\ UNCHANGED resultVars

\* MUTANT: the half is listed under the sender's socket id
ListUnderSender(c) ==
  LET x == <<Target(c), Job[c].socket>>
      link == <<Home[c], Target(c)>>
  IN  /\ pc[c] = "listing"
      /\ eprList' = [eprList EXCEPT ![x] =
                       Append(@, [num |-> work[c].num, ent |-> work[c].ent,
                                  pair |-> PairOf(c)])]
      /\ sent' = [sent EXCEPT ![link] = Append(@, c)]
      /\ Goto(c, "sent")
      /\ UNCHANGED <<fetched, nextEnt, work, timeouts>>
      /\ UNCHANGED nodeVars
      /\ UNCHANGED resultVars

\* netqasm_add_epr_list at the target; a measured pair has no number
ListHalf(c) ==
  LET x == Peer[Socket(c)]
      link == <<Home[c], Target(c)>>
  IN  /\ pc[c] = "listing"
      /\ eprList' = [eprList EXCEPT ![x] =
                       Append(@, [num |-> work[c].num, ent |-> work[c].ent,
                                  pair |-> PairOf(c)])]
      /\ sent' = [sent EXCEPT ![link] = Append(@, c)]
      /\ Goto(c, "sent")
      /\ UNCHANGED <<fetched, nextEnt, work, timeouts>>
      /\ UNCHANGED nodeVars
      /\ UNCHANGED resultVars

\* MUTANT: the kept half is forgotten instead of the sent one
PairSentSwapped(c) ==
  LET n == Home[c]
      link == <<n, Target(c)>>
  IN  /\ pc[c] = "sent"
      /\ Head(sent[link]) = c
      /\ sent' = [sent EXCEPT ![link] = Tail(@)]
      /\ qubitList' = [qubitList EXCEPT ![n] = Others(n, Address(c, 0))]
      /\ Respond("create", Socket(c), PairOf(c), work[c].ent, work[c].addr)
      /\ NextPair(c)
      /\ lock' = [lock EXCEPT ![n] = IF MorePairs(c) THEN Acquired(@, c) ELSE @]
      /\ Goto(c, IF MorePairs(c) THEN Asking(lock[n]) ELSE "done")
      /\ UNCHANGED <<virt, eprList, fetched, nextEnt, timeouts>>

\* The send is answered: forget the handle of the sent half, hand the pair
\* to the request, go on with the next pair.
PairSent(c) ==
  LET n == Home[c]
      link == <<n, Target(c)>>
  IN  /\ pc[c] = "sent"
      /\ Head(sent[link]) = c
      /\ sent' = [sent EXCEPT ![link] = Tail(@)]
      /\ qubitList' = [qubitList EXCEPT ![n] = Others(n, Address(c, 1))]
      /\ Respond("create", Socket(c), PairOf(c), work[c].ent, work[c].addr)
      /\ NextPair(c)
      /\ lock' = [lock EXCEPT ![n] = IF MorePairs(c) THEN Acquired(@, c) ELSE @]
      /\ Goto(c, IF MorePairs(c) THEN Asking(lock[n]) ELSE "done")
      /\ UNCHANGED <<virt, eprList, fetched, nextEnt, timeouts>>

-----------------------------------------------------------------------------
(* Measuring: both halves of a pair to be measured directly, or the qubit  *)
(* of a local session when it is freed.                                    *)

Measure(c) ==
  /\ pc[c] = "measuring"
  /\ virt' = Drop(Home[c], HalfOf(c, work[c].half))
  /\ Goto(c, "measured")
  /\ UNCHANGED <<qubitList, used, lock, nextEnt, work, timeouts>>
  /\ UNCHANGED listVars
  /\ UNCHANGED resultVars

\* MUTANT: the handles of both halves are removed with the first
MeasuredBoth(c) ==
  LET n == Home[c]
      local == Job[c].kind = "local"
  IN  /\ pc[c] = "measured"
      /\ qubitList' = [qubitList EXCEPT ![n] =
                         Others(n, Address(c, 0)) \cap Others(n, Address(c, 1))]
      /\ used' = [used EXCEPT ![n] = IF local THEN @ \ {work[c].addr} ELSE @]
      /\ work' = [work EXCEPT ![c].half = 1, ![c].num = NoNum]
      /\ Goto(c, IF local THEN "done"
                 ELSE IF work[c].half = 0 THEN "measuring" ELSE "listing")
      /\ UNCHANGED <<virt, lock, nextEnt, timeouts>>
      /\ UNCHANGED listVars
      /\ UNCHANGED resultVars

\* remove_qubit_id after the answer; a freed address can be used again
Measured(c) ==
  LET n == Home[c]
      local == Job[c].kind = "local"
  IN  /\ pc[c] = "measured"
      /\ qubitList' = [qubitList EXCEPT ![n] =
                         Others(n, Address(c, work[c].half))]
      /\ used' = [used EXCEPT ![n] = IF local THEN @ \ {work[c].addr} ELSE @]
      /\ work' = [work EXCEPT ![c].half = 1, ![c].num = NoNum]
      /\ Goto(c, IF local THEN "done"
                 ELSE IF work[c].half = 0 THEN "measuring" ELSE "listing")
      /\ UNCHANGED <<virt, lock, nextEnt, timeouts>>
      /\ UNCHANGED listVars
      /\ UNCHANGED resultVars

-----------------------------------------------------------------------------
(* Receiving pairs.                                                        *)

\* _do_recv_epr up to the first poll
StartReceiving(c) ==
  /\ pc[c] = "idle"
  /\ Job[c].kind = "recv"
  /\ Enqueue(c)
  /\ NextPair(c)
  /\ Goto(c, "polling")
  /\ UNCHANGED <<virt, qubitList, lock, got, slots, nextEnt, timeouts>>
  /\ UNCHANGED listVars

\* MUTANT: the newest entry is taken
FetchLast(c) ==
  LET x == Socket(c)
      e == eprList[x][Len(eprList[x])]
  IN  /\ pc[c] = "polling"
      /\ eprList[x] # << >>
      /\ eprList' = [eprList EXCEPT ![x] = SubSeq(@, 1, Len(@) - 1)]
      /\ work' = [work EXCEPT ![c].gotPair = e.pair, ![c].gotEnt = e.ent,
                    ![c].gotQubit = IF e.num = NoNum THEN @
                      ELSE (CHOOSE v \in virt[Home[c]] : v[1] = e.num)[2]]
      /\ fetched' = [fetched EXCEPT ![Home[c]] = Append(@, c)]
      /\ Goto(c, "fetched")
      /\ UNCHANGED <<sent, nextEnt, timeouts>>
      /\ UNCHANGED nodeVars
      /\ UNCHANGED resultVars

\* netqasm_get_epr_recv finds an entry for the socket id and looks the qubit
\* up by the number it was given when it arrived.
Fetch(c) ==
  LET x == Socket(c)
      e == Head(eprList[x])
  IN  /\ pc[c] = "polling"
      /\ eprList[x] # << >>
      /\ eprList' = [eprList EXCEPT ![x] = Tail(@)]
      /\ work' = [work EXCEPT ![c].gotPair = e.pair, ![c].gotEnt = e.ent,
                    ![c].gotQubit = IF e.num = NoNum THEN @
                      ELSE (CHOOSE v \in virt[Home[c]] : v[1] = e.num)[2]]
      /\ fetched' = [fetched EXCEPT ![Home[c]] = Append(@, c)]
      /\ Goto(c, "fetched")
      /\ UNCHANGED <<sent, nextEnt, timeouts>>
      /\ UNCHANGED nodeVars
      /\ UNCHANGED resultVars

\* The last poll found nothing.  The request stays in its queue, the address
\* in use, and what arrives later stays in the list.
Timeout(c) ==
  /\ pc[c] = "polling"
  /\ timeouts < MaxTimeouts
  /\ timeouts' = timeouts + 1
  /\ Goto(c, "failed")
  /\ UNCHANGED <<nextEnt, work>>
  /\ UNCHANGED nodeVars
  /\ UNCHANGED listVars
  /\ UNCHANGED resultVars

\* the pair fetched was measured by its creator
IsMeasured(c) == Job[work[c].gotPair[1]].type = "M"

\* cmd_epr_recv with the answer.  For a qubit, the lock is acquired without
\* waiting and released: if it is taken, this puts Nobody in the queue and
\* wakes the first one there although the holder has not finished.
Accept(c) ==
  LET n == Home[c]
      a == work[c].addr
      asked == Acquired(lock[n], Nobody)
  IN  /\ pc[c] = "fetched"
      /\ Head(fetched[n]) = c
      /\ fetched' = [fetched EXCEPT ![n] = Tail(@)]
      /\ IF IsMeasured(c)
         THEN /\ Goto(c, IF MorePairs(c) THEN "polling" ELSE "done")
              /\ UNCHANGED <<qubitList, lock>>
         ELSE /\ qubitList' = [qubitList EXCEPT ![n] =
                                 Others(n, a) \cup {<<a, work[c].gotQubit>>}]
              /\ lock' = [lock EXCEPT ![n] = Released(asked)]
              /\ GotoAndWake(c, IF MorePairs(c) THEN "polling" ELSE "done",
                             Woken(asked))
      /\ Respond("recv", Socket(c), work[c].gotPair, work[c].gotEnt, a)
      /\ NextPair(c)
      /\ UNCHANGED <<virt, eprList, sent, nextEnt, timeouts>>

-----------------------------------------------------------------------------

Start(c) == StartMaking(c) \/ StartReceiving(c)

\* the steps of a session that has begun, and of the virtual nodes for it
Step(c) ==
  \/ NewQubit(c)
  \/ RefuseQubit(c)
  \/ GotQubit(c)
  \/ QubitRefused(c)
  \/ Entangle(c)
  \/ AddHalf(c)
  \/ RefuseHalf(c)
  \/ StrikeHalf(c)
  \/ ListHalf(c)
  \/ PairSent(c)
  \/ Measure(c)
  \/ Measured(c)
  \/ Fetch(c)
  \/ Accept(c)

Next == \E c \in Sessions : Start(c) \/ Step(c) \/ Timeout(c)

Spec == Init /\ [][Next]_vars

\* Both ends ask for their pairs, and the reactors run what is due.
FairSpec ==
  /\ Spec
  /\ \A c \in Sessions : WF_vars(Start(c)) /\ WF_vars(Step(c))

-----------------------------------------------------------------------------
(* Correctness.                                                            *)

\* The two ends of a link agree: the k-th slot of the create requests on a
\* socket and the k-th slot of the receive requests on its peer are filled
\* with the halves of one pair and one entanglement id, also when several
\* subroutines create and receive on the socket at the same time.  No id is
\* given twice, although ids are drawn between two awaits (executioner.py:431
\* asks "lock here?").
PairsMatch ==
  \A x \in Sockets :
    LET created == slots["create"][x]
        received == slots["recv"][Peer[x]]
    IN  /\ \A k \in DOMAIN created \cap DOMAIN received :
             created[k] = received[k]
        /\ \A i, j \in DOMAIN created : created[i].ent = created[j].ent => i = j

\* What the result array of a request names as its qubit is the half of that
\* pair on this side, under the address the program will use for it.
SideOf(c) == IF Job[c].kind = "create" THEN 0 ELSE 1

ResultsRight ==
  \A c \in Sessions : \A i \in DOMAIN got[c] :
    LET r == got[c][i]
    IN  Job[r.pair[1]].type = "K" =>
          <<r.addr, <<r.pair[1], r.pair[2], SideOf(c)>>>> \in qubitList[Home[c]]

\* An entry of a receive list leads to the half it was made for: its number
\* has not passed to another qubit while it was waiting.
ListedHalves ==
  \A x \in Sockets : \A i \in DOMAIN eprList[x] :
    LET e == eprList[x][i]
    IN  e.num # NoNum =>
          \A v \in virt[x[1]] : v[1] = e.num <=> v[2] = <<e.pair[1], e.pair[2], 1>>

\* No address of the program is given to a second qubit while it stands for
\* one: cmd_new does not look, cmd_epr_recv raises if it happens.
NoAddressClash ==
  \A c \in Sessions :
    /\ pc[c] = "made" =>
         \A e \in qubitList[Home[c]] : e[1] # Address(c, work[c].half)
    /\ pc[c] = "fetched" => \A e \in qubitList[Home[c]] : e[1] # work[c].addr

\* Every virtual qubit can still be reached: by a handle of the program, from
\* a receive list, or by an operation under way, also after refusals and
\* timeouts.
InTransit(n, v) ==
  \E c \in Sessions :
    \/ Home[c] = n /\ pc[c] = "made" /\ v[2] = HalfOf(c, work[c].half)
    \/ Home[c] = n /\ pc[c] = "fetched" /\ v[2] = work[c].gotQubit
    \/ /\ Target(c) = n
       /\ pc[c] \in {"striking", "listing"}
       /\ v = <<work[c].num, HalfOf(c, 1)>>

NothingStranded ==
  \A n \in Nodes : \A v \in virt[n] :
    \/ \E e \in qubitList[n] : e[2] = v[2]
    \/ \E s \in SocketIds : \E i \in DOMAIN eprList[<<n, s>>] :
         eprList[<<n, s>>][i].num = v[1]
    \/ InTransit(n, v)

\* The factory's lock is free or some session is inside that will release it,
\* although receptions acquire it without waiting.
Inside(c) == pc[c] \in {"making", "made", "refused"}

LockNeverStuck ==
  \A n \in Nodes :
    lock[n].taken <=> \E c \in Sessions : Home[c] = n /\ Inside(c)

\* With room for all and no timeout, every request is served.
Served == \A c \in Sessions : <>(pc[c] = "done")
=============================================================================
