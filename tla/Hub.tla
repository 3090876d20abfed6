--------------------------------- MODULE Hub ---------------------------------
(***************************************************************************)
(* The web socket hub: the goroutine Hub.Run, and for every connection the *)
(* handler that upgrades it, readPump and writePump.  The goroutines share *)
(* the connection and Go channels: broadcast and the send of each client   *)
(* are buffered, register and unregister are not, so that the two parties  *)
(* of a send on them move in one step.                                     *)
(*                                                                         *)
(* Messages are numbered as the listener broadcasts them.  Browsers and    *)
(* networks are the environment: a peer goes away whenever it likes, and   *)
(* what is written to one that is gone is lost, noticed or not.            *)
(*                                                                         *)
(* An operator named Mut... is no part of the model: it is the definition  *)
(* that follows it with a bug, which one of the properties must notice.    *)
(***************************************************************************)
EXTENDS Naturals, Sequences

CONSTANTS
  Clients,      \* the connections that may be made
  QueueSize,    \* capacity of the channel broadcast
  SendSize,     \* capacity of the channel send of a client
  MaxMessages   \* bound: messages that are broadcast

ASSUME SizesAssumption == QueueSize \in Nat \ {0} /\ SendSize \in Nat \ {0}
ASSUME MessagesAssumption == MaxMessages \in Nat

VARIABLES
  broadcast,   \* the channel
  clients,     \* the map
  conn,        \* the server's end of each connection
  peer,        \* the browser's end
  send,        \* the channel of each client
  sendClosed,
  handler,     \* HandleWS
  reader,      \* readPump
  writer,      \* writePump
  writing,     \* the message it has taken
  \* history
  sent,        \* messages put into broadcast
  out,         \* messages the hub has taken from it
  joined,      \* value of out when the client was registered
  got          \* messages that reached the browser

hubVars  == <<broadcast, clients>>
connVars == <<conn, peer>>
chanVars == <<send, sendClosed>>
pumpVars == <<handler, reader, writer, writing>>
history  == <<sent, out, joined, got>>
vars == <<hubVars, connVars, chanVars, pumpVars, history>>

Messages == 1..MaxMessages
Ended == "ended"

TypeOK ==
  /\ broadcast \in Seq(Messages) /\ Len(broadcast) <= QueueSize
  /\ clients \subseteq Clients
  /\ conn \in [Clients -> {"none", "open", "closed"}]
  /\ peer \in [Clients -> {"none", "there", "gone"}]
  /\ send \in [Clients -> Seq(Messages)]
  /\ \A c \in Clients : Len(send[c]) <= SendSize
  /\ sendClosed \in [Clients -> BOOLEAN]
  /\ handler \in [Clients -> {"none", "registering", "registered", "done"}]
  /\ reader \in [Clients -> {"none", "reading", "leaving", "closing", Ended}]
  /\ writer \in [Clients -> {"none", "waiting", "writing", Ended}]
  /\ writing \in [Clients -> Messages \cup {0}]
  /\ sent \in Nat /\ out \in Nat
  /\ joined \in [Clients -> Nat]
  /\ got \in [Clients -> Seq(Messages)]

Init ==
  /\ broadcast = <<>>
  /\ clients = {}
  /\ conn = [c \in Clients |-> "none"]
  /\ peer = [c \in Clients |-> "none"]
  /\ send = [c \in Clients |-> <<>>]
  /\ sendClosed = [c \in Clients |-> FALSE]
  /\ handler = [c \in Clients |-> "none"]
  /\ reader = [c \in Clients |-> "none"]
  /\ writer = [c \in Clients |-> "none"]
  /\ writing = [c \in Clients |-> 0]
  /\ sent = 0
  /\ out = 0
  /\ joined = [c \in Clients |-> 0]
  /\ got = [c \in Clients |-> <<>>]

------------------------------------------------------------------------------
(* The listener and the browsers. *)

\* Hub.Broadcast blocks while the channel is full.
Broadcast ==
  /\ sent < MaxMessages
  /\ Len(broadcast) < QueueSize
  /\ sent' = sent + 1
  /\ broadcast' = Append(broadcast, sent')
  /\ UNCHANGED <<clients, connVars, chanVars, pumpVars, out, joined, got>>

PeerLeaves(c) ==
  /\ peer[c] = "there"
  /\ peer' = [peer EXCEPT ![c] = "gone"]
  /\ UNCHANGED <<hubVars, conn, chanVars, pumpVars, history>>

------------------------------------------------------------------------------
(* HandleWS. *)

\* The token is valid and the connection is upgraded.
Upgrade(c) ==
  /\ handler[c] = "none"
  /\ handler' = [handler EXCEPT ![c] = "registering"]
  /\ conn' = [conn EXCEPT ![c] = "open"]
  /\ peer' = [peer EXCEPT ![c] = "there"]
  /\ UNCHANGED <<hubVars, chanVars, reader, writer, writing, history>>

StartPumps(c) ==
  /\ handler[c] = "registered"
  /\ handler' = [handler EXCEPT ![c] = "done"]
  /\ reader' = [reader EXCEPT ![c] = "reading"]
  /\ writer' = [writer EXCEPT ![c] = "waiting"]
  /\ UNCHANGED <<hubVars, connVars, chanVars, writing, history>>

------------------------------------------------------------------------------
(* The cases of the select in Hub.Run. *)

\* The handler sends on register.
Register(c) ==
  /\ handler[c] = "registering"
  /\ handler' = [handler EXCEPT ![c] = "registered"]
  /\ clients' = clients \cup {c}
  /\ joined' = [joined EXCEPT ![c] = out]
  /\ UNCHANGED <<broadcast, connVars, chanVars, reader, writer, writing, sent, out, got>>

\* readPump sends on unregister.  A client that was dropped is not in the map.
MutUnregister(c) ==
  /\ reader[c] = "leaving"
  /\ reader' = [reader EXCEPT ![c] = "closing"]
  /\ UNCHANGED <<hubVars, connVars, chanVars, handler, writer, writing, history>>

Unregister(c) ==
  /\ reader[c] = "leaving"
  /\ reader' = [reader EXCEPT ![c] = "closing"]
  /\ clients' = clients \ {c}
  /\ conn' = IF c \in clients THEN [conn EXCEPT ![c] = "closed"] ELSE conn
  /\ UNCHANGED <<broadcast, peer, chanVars, handler, writer, writing, history>>

\* The clients whose buffer is full are dropped, their channel is closed.
Slow == {c \in clients : Len(send[c]) = SendSize}

MutDistribute ==
  /\ broadcast # <<>>
  /\ send' = [c \in Clients |->
                IF c \in clients \ Slow THEN Append(send[c], Head(broadcast))
                ELSE send[c]]
  /\ sendClosed' = [c \in Clients |-> sendClosed[c] \/ c \in Slow]
  /\ broadcast' = Tail(broadcast)
  /\ out' = out + 1
  /\ UNCHANGED <<clients, connVars, pumpVars, sent, joined, got>>

MutDrop ==
  /\ broadcast # <<>>
  /\ send' = [c \in Clients |->
                IF c \in clients \ Slow THEN Append(send[c], Head(broadcast))
                ELSE send[c]]
  /\ broadcast' = Tail(broadcast)
  /\ out' = out + 1
  /\ UNCHANGED <<clients, sendClosed, connVars, pumpVars, sent, joined, got>>

Distribute ==
  /\ broadcast # <<>>
  /\ send' = [c \in Clients |->
                IF c \in clients \ Slow THEN Append(send[c], Head(broadcast))
                ELSE send[c]]
  /\ sendClosed' = [c \in Clients |-> sendClosed[c] \/ c \in Slow]
  /\ clients' = clients \ Slow
  /\ broadcast' = Tail(broadcast)
  /\ out' = out + 1
  /\ UNCHANGED <<connVars, pumpVars, sent, joined, got>>

------------------------------------------------------------------------------
(* The pumps. *)

\* ReadMessage fails: the connection was closed, the peer closed it, or no pong
\* came in time.
ReadFails(c) ==
  /\ reader[c] = "reading"
  /\ conn[c] = "closed" \/ peer[c] = "gone"
  /\ reader' = [reader EXCEPT ![c] = "leaving"]
  /\ UNCHANGED <<hubVars, connVars, chanVars, handler, writer, writing, history>>

ReaderEnds(c) ==
  /\ reader[c] = "closing"
  /\ reader' = [reader EXCEPT ![c] = Ended]
  /\ conn' = [conn EXCEPT ![c] = "closed"]
  /\ UNCHANGED <<hubVars, peer, chanVars, handler, writer, writing, history>>

TakeMessage(c) ==
  /\ writer[c] = "waiting"
  /\ send[c] # <<>>
  /\ writer' = [writer EXCEPT ![c] = "writing"]
  /\ writing' = [writing EXCEPT ![c] = Head(send[c])]
  /\ send' = [send EXCEPT ![c] = Tail(@)]
  /\ UNCHANGED <<hubVars, connVars, sendClosed, handler, reader, history>>

MutWrite(c) ==
  /\ writer[c] = "writing"
  /\ conn[c] = "open"
  /\ writer' = [writer EXCEPT ![c] = "waiting"]
  /\ writing' = [writing EXCEPT ![c] = 0]
  /\ UNCHANGED <<hubVars, connVars, chanVars, handler, reader, history>>

\* A write to a peer that has just gone may look like a success.
Write(c) ==
  /\ writer[c] = "writing"
  /\ conn[c] = "open"
  /\ writer' = [writer EXCEPT ![c] = "waiting"]
  /\ writing' = [writing EXCEPT ![c] = 0]
  /\ got' = IF peer[c] = "there" THEN [got EXCEPT ![c] = Append(@, writing[c])] ELSE got
  /\ UNCHANGED <<hubVars, connVars, chanVars, handler, reader, sent, out, joined>>

\* writePump returns, which closes the connection.
WriterReturns(c) ==
  /\ writer' = [writer EXCEPT ![c] = Ended]
  /\ writing' = [writing EXCEPT ![c] = 0]
  /\ conn' = [conn EXCEPT ![c] = "closed"]
  /\ UNCHANGED <<hubVars, peer, chanVars, handler, reader, history>>

\* NextWriter or Close fails, also when the peer is too slow to read.
WriteFails(c) == writer[c] = "writing" /\ WriterReturns(c)

\* The channel is closed and drained: a close message is sent.
SendWasClosed(c) ==
  /\ writer[c] = "waiting"
  /\ send[c] = <<>> /\ sendClosed[c]
  /\ WriterReturns(c)

\* The ticker fires and the ping cannot be written.
PingFails(c) ==
  /\ writer[c] = "waiting"
  /\ conn[c] = "closed" \/ peer[c] = "gone"
  /\ WriterReturns(c)

Select == Distribute \/ \E c \in Clients : Register(c) \/ Unregister(c)

Reader(c) == ReadFails(c) \/ ReaderEnds(c)

Writer(c) == TakeMessage(c) \/ Write(c) \/ WriteFails(c) \/ SendWasClosed(c) \/ PingFails(c)

Next ==
  \/ Broadcast \/ Select
  \/ \E c \in Clients :
       PeerLeaves(c) \/ Upgrade(c) \/ StartPumps(c) \/ Reader(c) \/ Writer(c)

Spec == Init /\ [][Next]_vars

\* Each goroutine goes on: reads and writes have deadlines, the ticker fires.  No
\* browser has to connect or to stay.
Fairness ==
  /\ WF_vars(Select)
  /\ \A c \in Clients :
       WF_vars(StartPumps(c)) /\ WF_vars(Reader(c)) /\ WF_vars(Writer(c))

FairSpec == Spec /\ Fairness

------------------------------------------------------------------------------
(* Properties *)

\* Hub.Run never panics: it sends on, and closes, only channels that are open, in
\* whatever order drops, failed reads and registrations meet.
NeverPanics == \A c \in clients : ~sendClosed[c]

\* Why: a channel is closed when its client leaves the map, in one step, and a
\* client that was registered once is never registered again.
ChannelInv ==
  /\ clients \subseteq Clients
  /\ handler \in [Clients -> {"none", "registering", "registered", "done"}]
  /\ sendClosed \in [Clients -> BOOLEAN]
  /\ \A c \in Clients :
       /\ c \in clients => handler[c] \in {"registered", "done"}
       /\ sendClosed[c] => c \notin clients /\ handler[c] \in {"registered", "done"}

\* What a client has, is being written or waits for it.
Stream(c) == got[c] \o (IF writer[c] = "writing" THEN <<writing[c]>> ELSE <<>>) \o send[c]

\* A browser that is connected gets every update since it was registered, in order
\* and once.  A client that cannot keep up loses its connection, never a message in
\* the middle.
NoGap ==
  \A c \in Clients :
    /\ \A i \in DOMAIN got[c] : got[c][i] = joined[c] + i
    /\ c \in clients /\ conn[c] = "open" /\ peer[c] = "there"
         => Stream(c) = [i \in 1..(out - joined[c]) |-> joined[c] + i]

\* Why: messages are numbered as they are broadcast; what is being written to a
\* client and what waits for it follow what it has, and for a client in the map they
\* go up to the last message the hub has taken.
InFlight(c) == IF writer[c] = "writing" THEN 1 ELSE 0
Connected(c) == conn[c] = "open" /\ peer[c] = "there"

\* The last message that its writePump has taken.
Taken(c) == joined[c] + Len(got[c]) + InFlight(c)

Orderly(c) ==
  /\ handler[c] \in {"none", "registering"} =>
       c \notin clients /\ got[c] = <<>> /\ send[c] = <<>>
  /\ handler[c] # "done" => writer[c] = "none"
  /\ \A i \in DOMAIN got[c] : got[c][i] = joined[c] + i
  /\ Connected(c) =>
       /\ writer[c] = "writing" => writing[c] = Taken(c)
       /\ \A i \in DOMAIN send[c] : send[c][i] = Taken(c) + i
       /\ c \in clients => out = Taken(c) + Len(send[c])

StreamInv ==
  /\ sent = out + Len(broadcast) /\ sent <= MaxMessages
  /\ \A i \in DOMAIN broadcast : broadcast[i] = out + i
  /\ \A c \in Clients : Orderly(c)

\* So every message the hub takes arrives, unless the connection ends.
Delivered ==
  \A c \in Clients, m \in Messages :
    (c \in clients /\ joined[c] < m /\ m <= out)
      ~> (Len(got[c]) >= m - joined[c] \/ conn[c] = "closed" \/ peer[c] = "gone")

\* No goroutine and no map entry outlives its connection: when the browser has gone
\* or the server has closed, both pumps end and the hub forgets the client.
NoLeak ==
  \A c \in Clients :
    (peer[c] = "gone" \/ conn[c] = "closed")
      ~> (reader[c] = Ended /\ writer[c] = Ended /\ c \notin clients)
==============================================================================
