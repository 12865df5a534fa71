--------------------------- MODULE NetQASMMessages ---------------------------
(***************************************************************************)
(* The messages between applications and the NetQASM server of a node:     *)
(* netqasm_backend/factory.py and qnodeos.py on the server's side,         *)
(* sdk/connection.py on the application's.  Both sides get bytes in chunks *)
(* that need not be messages.  All connections of a node share one handler *)
(* (SubroutineHandler), which sends what it returns to the connection that *)
(* was made last; errors go to the connection the message came from.       *)
(***************************************************************************)
EXTENDS Integers, Sequences, FiniteSets

CONSTANTS
  Clients,     \* connections that applications, or Network.running, will make
  Job,         \* how many messages each of them sends
  Blocks,      \* whether it waits for each message before it sends the next
  MaxResults,  \* most registers and arrays that a message returns
  Overlap,     \* whether a connection may be made while another is in use
  NoClient

ASSUME ClientsAssumption ==
  /\ NoClient \notin Clients
  /\ Job \in [Clients -> Nat]
  /\ Blocks \in [Clients -> BOOLEAN]
  /\ MaxResults \in Nat
  /\ Overlap \in BOOLEAN

VARIABLES
  server,      \* state of the reactor of the NetQASM server
  protocol,    \* the connection the shared handler answers to
  inbox,       \* parts of messages on the way to the server, per connection
  buf,         \* NetQASMProtocol.buf, per connection
  handling,    \* messages that are being handled
  outbox,      \* parts of replies on the way to the client
  pc,          \* where the client's thread of control is
  nextId,      \* _next_msg_id
  waiting,     \* _waiting_msg_ids
  done,        \* _done_msg_ids
  rbuf,        \* the client's buf
  memory,      \* what the client has put into shared memory
  outcome      \* for the properties: how the handling of a message ended

serverVars == <<server, protocol, handling, outcome>>
streamVars == <<inbox, buf, outbox, rbuf>>
clientVars == <<pc, nextId, waiting, done, memory>>
vars == <<serverVars, streamVars, clientVars>>

Applications == {c \in Clients : Job[c] > 0}
Ids(c) == 0 .. (Job[c] - 1)
Messages == UNION {{c} \X Ids(c) : c \in Clients}

Result(m, k) == [of |-> m, kind |-> "result", nr |-> k]
Done(m) == [of |-> m, kind |-> "done", nr |-> 0]
Error(m) == [of |-> m, kind |-> "error", nr |-> 0]
Replies == {Result(m, k) : m \in Messages, k \in 1 .. MaxResults}
             \cup {Done(m) : m \in Messages} \cup {Error(m) : m \in Messages}

\* A message is sent as a header, which tells its length, and a body; a chunk
\* ends anywhere.  Here a message has two parts.
Parts == 1 .. 2
InParts(x) == <<<<x, 1>>, <<x, 2>>>>
Complete(stream) == Len(stream) >= 2
First(stream) == stream[1][1]
Rest(stream) == SubSeq(stream, 3, Len(stream))

Taken(stream, k) == SubSeq(stream, 1, k)
Left(stream, k) == SubSeq(stream, k + 1, Len(stream))

Open(c) == pc[c] \in {"idle", "waiting", "blocking"}
Listening == server \in {"up", "failing"}

\* otherwise the number of results that were returned
Unended == -2
Failed == -1

TypeOK ==
  /\ server \in {"down", "up", "failing", "stopped", "killed"}
  /\ protocol \in Clients \cup {NoClient}
  /\ inbox \in [Clients -> Seq(Messages \X Parts)]
  /\ buf \in [Clients -> Seq(Messages \X Parts)]
  /\ \A h \in handling : h.msg \in Messages /\ h.results \in 0 .. MaxResults
  /\ outbox \in [Clients -> Seq(Replies \X Parts)]
  /\ rbuf \in [Clients -> Seq(Replies \X Parts)]
  /\ pc \in [Clients -> {"new", "idle", "waiting", "blocking", "failed", "closed"}]
  /\ nextId \in [Clients -> Nat]
  /\ waiting \in [Clients -> SUBSET Nat]
  /\ done \in [Clients -> SUBSET Nat]
  /\ memory \in [Clients -> SUBSET Replies]
  /\ outcome \in [Messages -> Unended .. MaxResults]

Init ==
  /\ server = "down"
  /\ protocol = NoClient
  /\ inbox = [c \in Clients |-> << >>]
  /\ buf = [c \in Clients |-> << >>]
  /\ handling = {}
  /\ outbox = [c \in Clients |-> << >>]
  /\ rbuf = [c \in Clients |-> << >>]
  /\ pc = [c \in Clients |-> "new"]
  /\ nextId = [c \in Clients |-> 0]
  /\ waiting = [c \in Clients |-> {}]
  /\ done = [c \in Clients |-> {}]
  /\ memory = [c \in Clients |-> {}]
  /\ outcome = [m \in Messages |-> Unended]

Goto(c, stage) == pc' = [pc EXCEPT ![c] = stage]

-----------------------------------------------------------------------------
(* The server.                                                             *)

\* setup_netqasm_server
Listen ==
  /\ server = "down"
  /\ server' = "up"
  /\ UNCHANGED <<protocol, handling, outcome>>
  /\ UNCHANGED streamVars
  /\ UNCHANGED clientVars

\* MUTANT: what is left in the buffer goes with the message
ReceiveAndClear(c, k) ==
  LET b == buf[c] \o Taken(inbox[c], k)
  IN  /\ Listening
      /\ inbox' = [inbox EXCEPT ![c] = Left(@, k)]
      /\ IF Complete(b)
         THEN /\ handling' = handling \cup {[msg |-> First(b), results |-> 0]}
              /\ buf' = [buf EXCEPT ![c] = << >>]
         ELSE /\ buf' = [buf EXCEPT ![c] = b]
              /\ UNCHANGED handling
      /\ UNCHANGED <<server, protocol, outcome, outbox, rbuf>>
      /\ UNCHANGED clientVars

\* dataReceived: a chunk comes in, and one message is taken out of the buffer
\* if it is complete.  More that came with it waits for the next chunk.
Receive(c, k) ==
  LET b == buf[c] \o Taken(inbox[c], k)
  IN  /\ Listening
      /\ inbox' = [inbox EXCEPT ![c] = Left(@, k)]
      /\ IF Complete(b)
         THEN /\ handling' = handling \cup {[msg |-> First(b), results |-> 0]}
              /\ buf' = [buf EXCEPT ![c] = Rest(b)]
         ELSE /\ buf' = [buf EXCEPT ![c] = b]
              /\ UNCHANGED handling
      /\ UNCHANGED <<server, protocol, outcome, outbox, rbuf>>
      /\ UNCHANGED clientVars

\* transport.write: what is written to a connection that is gone is dropped
Written(c, reply) ==
  IF c \in Clients /\ Open(c)
  THEN [outbox EXCEPT ![c] = @ \o InParts(reply)]
  ELSE outbox

\* ret_reg, ret_arr: the executioner returns a register or an array.
ReturnResult(h) ==
  /\ Listening
  /\ h.results < MaxResults
  /\ handling' = (handling \ {h}) \cup {[h EXCEPT !.results = @ + 1]}
  /\ outbox' = Written(protocol, Result(h.msg, h.results + 1))
  /\ UNCHANGED <<server, protocol, outcome, inbox, buf, rbuf>>
  /\ UNCHANGED clientVars

\* MUTANT: the message is reported as done while its handling goes on
FinishEarly(h) ==
  /\ Listening
  /\ outcome[h.msg] = Unended
  /\ outcome' = [outcome EXCEPT ![h.msg] = MaxResults]
  /\ outbox' = Written(protocol, Done(h.msg))
  /\ UNCHANGED <<server, protocol, inbox, buf, rbuf, handling>>
  /\ UNCHANGED clientVars

\* _mark_message_finished
Finish(h) ==
  /\ Listening
  /\ handling' = handling \ {h}
  /\ outcome' = [outcome EXCEPT ![h.msg] = h.results]
  /\ outbox' = Written(protocol, Done(h.msg))
  /\ UNCHANGED <<server, protocol, inbox, buf, rbuf>>
  /\ UNCHANGED clientVars

\* log_error: tell the connection the message came from; the server stops a
\* moment later.
Fail(h) ==
  /\ Listening
  /\ handling' = handling \ {h}
  /\ outcome' = [outcome EXCEPT ![h.msg] = Failed]
  /\ outbox' = Written(h.msg[1], Error(h.msg))
  /\ server' = "failing"
  /\ UNCHANGED <<protocol, inbox, buf, rbuf>>
  /\ UNCHANGED clientVars

Ended ==
  /\ handling' = {}
  /\ inbox' = [c \in Clients |-> << >>]
  /\ UNCHANGED <<protocol, outcome, buf, rbuf>>
  /\ UNCHANGED clientVars

\* NetQASMFactory.stop, after an error: what clients were sent is on its way.
Stop ==
  /\ server = "failing"
  /\ server' = "stopped"
  /\ UNCHANGED outbox
  /\ Ended

\* sigterm_handler: what was just written to some clients may be lost.
Terminate ==
  /\ Listening
  /\ server' = "killed"
  /\ \E lost \in SUBSET Clients :
       outbox' = [c \in Clients |-> IF c \in lost THEN << >> ELSE outbox[c]]
  /\ Ended

-----------------------------------------------------------------------------
(* The client.                                                             *)

\* nobody else is connected, and nothing of a former connection is handled
Alone(c) ==
  /\ handling = {}
  /\ \A d \in Clients \ {c} : ~Open(d) /\ inbox[d] = << >>

\* _setup_socket succeeds, and buildProtocol makes the new protocol the one
\* the handler knows.  While the server is not up, _setup_socket repeats its
\* attempt, and try_connection reports that the network is not running.
Connect(c) ==
  /\ pc[c] = "new"
  /\ Listening
  /\ Overlap \/ Alone(c)
  /\ protocol' = c
  /\ Goto(c, "idle")
  /\ UNCHANGED <<server, handling, outcome>>
  /\ UNCHANGED streamVars
  /\ UNCHANGED <<nextId, waiting, done, memory>>

\* The application ends, or the socket of try_connection is collected.
Close(c) ==
  /\ pc[c] = "idle"
  /\ nextId[c] = Job[c]
  /\ Blocks[c] \/ waiting[c] = {}
  /\ Goto(c, "closed")
  /\ UNCHANGED serverVars
  /\ UNCHANGED streamVars
  /\ UNCHANGED <<nextId, waiting, done, memory>>

\* MUTANT: the number is counted up before it is used
CommitNext(c) ==
  LET id == nextId[c] + 1
  IN  /\ pc[c] = "idle"
      /\ nextId[c] < Job[c]
      /\ nextId' = [nextId EXCEPT ![c] = id]
      /\ waiting' = [waiting EXCEPT ![c] = @ \cup {id}]
      /\ Listening
      /\ inbox' = [inbox EXCEPT ![c] = @ \o InParts(<<c, id>>)]
      /\ Goto(c, IF Blocks[c] THEN "waiting" ELSE "idle")
      /\ UNCHANGED serverVars
      /\ UNCHANGED <<buf, outbox, rbuf, done, memory>>

\* MUTANT: the message is not noted as outstanding
CommitUnnoted(c) ==
  /\ pc[c] = "idle"
  /\ nextId[c] < Job[c]
  /\ nextId' = [nextId EXCEPT ![c] = @ + 1]
  /\ Listening
  /\ inbox' = [inbox EXCEPT ![c] = @ \o InParts(<<c, nextId[c]>>)]
  /\ Goto(c, IF Blocks[c] THEN "waiting" ELSE "idle")
  /\ UNCHANGED serverVars
  /\ UNCHANGED <<buf, outbox, rbuf, waiting, done, memory>>

\* _commit_serialized_message.  On a connection that the server has closed,
\* send raises or what is sent is lost.
Commit(c) ==
  LET id == nextId[c]
  IN  /\ pc[c] = "idle"
      /\ id < Job[c]
      /\ nextId' = [nextId EXCEPT ![c] = id + 1]
      /\ waiting' = [waiting EXCEPT ![c] = @ \cup {id}]
      /\ \/ /\ Listening
            /\ inbox' = [inbox EXCEPT ![c] = @ \o InParts(<<c, id>>)]
            /\ Goto(c, IF Blocks[c] THEN "waiting" ELSE "idle")
         \/ /\ ~Listening
            /\ \/ Goto(c, "failed")
               \/ Goto(c, IF Blocks[c] THEN "waiting" ELSE "idle")
            /\ UNCHANGED inbox
      /\ UNCHANGED serverVars
      /\ UNCHANGED <<buf, outbox, rbuf, done, memory>>

\* block: wait until nothing is outstanding.
Block(c) ==
  /\ pc[c] = "idle"
  /\ ~Blocks[c]
  /\ waiting[c] # {}
  /\ Goto(c, "blocking")
  /\ UNCHANGED serverVars
  /\ UNCHANGED streamVars
  /\ UNCHANGED <<nextId, waiting, done, memory>>

\* _read_more_data, when the buffer holds no complete reply
ReadMoreData(c, k) ==
  /\ pc[c] \in {"waiting", "blocking"}
  /\ ~Complete(rbuf[c])
  /\ rbuf' = [rbuf EXCEPT ![c] = @ \o Taken(outbox[c], k)]
  /\ outbox' = [outbox EXCEPT ![c] = Left(@, k)]
  /\ UNCHANGED serverVars
  /\ UNCHANGED <<inbox, buf>>
  /\ UNCHANGED clientVars

\* _handle_reply takes the first reply.  An application that waits for one
\* message goes on when that one is done; set.remove raises for a message
\* that is not outstanding, and so does an error.
HandleReply(c) ==
  LET reply == First(rbuf[c])
      id == reply.of[2]
      goesOn == IF Blocks[c] THEN id = nextId[c] - 1 ELSE waiting[c] = {id}
  IN  /\ pc[c] \in {"waiting", "blocking"}
      /\ Complete(rbuf[c])
      /\ rbuf' = [rbuf EXCEPT ![c] = Rest(@)]
      /\ \/ /\ reply.kind = "result"
            /\ memory' = [memory EXCEPT ![c] = @ \cup {reply}]
            /\ UNCHANGED <<pc, waiting, done>>
         \/ /\ reply.kind = "done"
            /\ id \in waiting[c]
            /\ waiting' = [waiting EXCEPT ![c] = @ \ {id}]
            /\ done' = [done EXCEPT ![c] = @ \cup {id}]
            /\ Goto(c, IF goesOn THEN "idle" ELSE pc[c])
            /\ UNCHANGED memory
         \/ /\ \/ reply.kind = "done" /\ id \notin waiting[c]
               \/ reply.kind = "error"
            /\ Goto(c, "failed")
            /\ UNCHANGED <<waiting, done, memory>>
      /\ UNCHANGED serverVars
      /\ UNCHANGED <<inbox, buf, outbox, nextId>>

-----------------------------------------------------------------------------

\* what happens in the end, without anybody's doing
Arrive(c) ==
  \/ \E k \in 1 .. Len(inbox[c]) : Receive(c, k)
  \/ \E k \in 1 .. Len(outbox[c]) : ReadMoreData(c, k)
  \/ HandleReply(c)

EndHandling(m) == \E h \in handling : h.msg = m /\ (Finish(h) \/ Fail(h))

Next ==
  \/ Listen
  \/ Stop
  \/ Terminate
  \/ \E h \in handling : ReturnResult(h) \/ Finish(h) \/ Fail(h)
  \/ \E c \in Clients :
       Connect(c) \/ Close(c) \/ Commit(c) \/ Block(c) \/ Arrive(c)

Spec == Init /\ [][Next]_vars

\* TCP delivers, both reactors run, and every message is handled some day, by
\* an error if nothing else.
FairSpec ==
  /\ Spec
  /\ \A c \in Clients : WF_vars(Arrive(c))
  /\ \A m \in Messages : WF_vars(EndHandling(m))

-----------------------------------------------------------------------------
(* Correctness.                                                            *)

\* A message that the application takes for done has been handled to its end,
\* and all it returned is in shared memory by then, whatever the chunks.
DoneMeansDone ==
  \A c \in Clients : \A id \in done[c] :
    LET n == outcome[<<c, id>>]
    IN  n >= 0 /\ {Result(<<c, id>>, k) : k \in 1 .. n} \subseteq memory[c]

\* An application fails only because the handling of one of its messages did,
\* or because the server was gone when it sent one.
FailsForAReason ==
  \A c \in Clients :
    pc[c] = "failed" => \/ ~Listening
                       \/ \E id \in Ids(c) : outcome[<<c, id>>] = Failed

\* A message that shared a chunk with an earlier one stays in the buffer, as
\* long as nothing more is sent.
Overtaken(c) == Complete(buf[c]) /\ inbox[c] = << >>

\* The server was terminated, or it stopped for another reason than a message
\* of this client: recv returns nothing then, and the client reads on for ever.
Deserted(c) ==
  \/ server = "killed"
  \/ server = "stopped" /\ \A id \in Ids(c) : outcome[<<c, id>>] # Failed

\* Whoever waits for a message goes on or is told of its failure, unless the
\* server went away on other grounds, or the client did not wait and the
\* message came in one chunk with an earlier one.
CommitsEnd ==
  \A c \in Clients :
    pc[c] \in {"waiting", "blocking"} ~>
      \/ pc[c] \notin {"waiting", "blocking"}
      \/ Deserted(c)
      \/ ~Blocks[c] /\ Overtaken(c)
=============================================================================
