------------------------------ MODULE PushProofs ------------------------------
(***************************************************************************)
(* Theorems about Hub, for any set of connections and any capacities,      *)
(* about WsClient, for any number of sockets, and about RunPage, for any   *)
(* number of notifications.                                                *)
(***************************************************************************)
EXTENDS Hub, WsClient, RunPage, SequenceTheorems, TLAPS

LEMMA InitChannels == Init => ChannelInv
BY DEF Init, ChannelInv

\* The steps that touch neither the map, nor a channel's end, nor a handler.
LEMMA OtherSteps ==
  ASSUME ChannelInv, UNCHANGED <<clients, handler, sendClosed>>
  PROVE  ChannelInv'
BY DEF ChannelInv

\* A handler upgrades or starts the pumps of its client.
LEMMA HandlerKeepsChannels ==
  ASSUME ChannelInv, NEW c \in Clients, Upgrade(c) \/ StartPumps(c)
  PROVE  ChannelInv'
BY DEF ChannelInv, Upgrade, StartPumps, hubVars, chanVars

\* The hub takes a client into the map, or out of it.
LEMMA RegisterKeepsChannels ==
  ASSUME ChannelInv, NEW c \in Clients, Register(c) \/ Unregister(c)
  PROVE  ChannelInv'
BY DEF ChannelInv, Register, Unregister, chanVars

\* The hub distributes a message and drops the clients that are slow.
LEMMA DistributeKeepsChannels ==
  ASSUME ChannelInv, Distribute
  PROVE  ChannelInv'
<1>1. clients' \subseteq Clients /\ handler' = handler
  BY DEF ChannelInv, Distribute, pumpVars
<1>2. sendClosed' \in [Clients -> BOOLEAN]
  BY Zenon DEF Distribute
<1>3. ASSUME NEW c \in Clients
      PROVE  /\ c \in clients' => handler'[c] \in {"registered", "done"}
             /\ sendClosed'[c] => c \notin clients' /\ handler'[c] \in {"registered", "done"}
  <2>1. sendClosed'[c] => sendClosed[c] \/ c \in Slow
    BY Zenon DEF Distribute
  <2>2. clients' = clients \ Slow
    BY DEF Distribute
  <2>3. Slow \subseteq clients
    BY DEF Slow
  <2> QED
    BY <1>1, <2>1, <2>2, <2>3, Zenon DEF ChannelInv
<1> QED
  BY <1>1, <1>2, <1>3, Zenon DEF ChannelInv

LEMMA StepKeepsChannels == ChannelInv /\ [Next]_vars => ChannelInv'
<1> SUFFICES ASSUME ChannelInv, [Next]_vars PROVE ChannelInv'
  OBVIOUS
<1>1. CASE Broadcast
  BY <1>1, OtherSteps DEF Broadcast, chanVars, pumpVars
<1>2. CASE Distribute
  BY <1>2, DistributeKeepsChannels
<1>3. ASSUME NEW c \in Clients, Register(c) \/ Unregister(c)
      PROVE  ChannelInv'
  BY <1>3, RegisterKeepsChannels
<1>4. ASSUME NEW c \in Clients, PeerLeaves(c)
      PROVE  ChannelInv'
  BY <1>4, OtherSteps DEF PeerLeaves, hubVars, chanVars, pumpVars
<1>5. ASSUME NEW c \in Clients, Upgrade(c) \/ StartPumps(c)
      PROVE  ChannelInv'
  BY <1>5, HandlerKeepsChannels
<1>6. ASSUME NEW c \in Clients, Reader(c)
      PROVE  ChannelInv'
  BY <1>6, OtherSteps DEF Reader, ReadFails, ReaderEnds, hubVars, chanVars
<1>7. ASSUME NEW c \in Clients, Writer(c)
      PROVE  ChannelInv'
  BY <1>7, OtherSteps DEF Writer, TakeMessage, Write, WriteFails, SendWasClosed,
       PingFails, WriterReturns, hubVars, chanVars
<1>8. CASE UNCHANGED vars
  BY <1>8, OtherSteps DEF vars, hubVars, chanVars, pumpVars
<1> QED
  BY <1>1, <1>2, <1>3, <1>4, <1>5, <1>6, <1>7, <1>8, Zenon DEF Next, Select

\* Every reachable state: a channel that is closed belongs to nobody in the map.
THEOREM ChannelsInvariant == Spec => []ChannelInv
BY InitChannels, StepKeepsChannels, PTL DEF Spec

\* Hub.Run never sends on a closed channel nor closes one twice, however many
\* clients are dropped, leave and register at whatever capacities.
THEOREM NeverPanicsAlways == Spec => []NeverPanics
<1>1. ChannelInv => NeverPanics
  BY DEF ChannelInv, NeverPanics
<1> QED
  BY <1>1, ChannelsInvariant, PTL

------------------------------------------------------------------------------
(* The stream of each client.  Its proof goes client by client: a step changes the *)
(* stream of one client, but for Distribute, which changes all the same way.      *)

\* The last message taken is a number; it depends on the client's stream alone.
LEMMA TakenFacts ==
  ASSUME TypeOK, NEW c \in Clients
  PROVE  /\ Taken(c) \in Nat
         /\ (joined'[c] = joined[c] /\ got'[c] = got[c] /\ InFlight(c)' = InFlight(c))
              => Taken(c)' = Taken(c)
<1>1. Len(got[c]) \in Nat /\ joined[c] \in Nat /\ InFlight(c) \in Nat
  BY LenProperties DEF TypeOK, InFlight
<1> QED
  BY <1>1 DEF Taken

\* The initial state.
LEMMA InitStreams == Init => TypeOK /\ StreamInv
<1> SUFFICES ASSUME Init PROVE TypeOK /\ StreamInv
  OBVIOUS
<1>1. <<>> \in Seq(Messages) /\ Len(<<>>) = 0 /\ \A i \in DOMAIN <<>> : FALSE
  OBVIOUS
<1>2. TypeOK
  BY <1>1, SizesAssumption DEF Init, TypeOK
<1>3. ASSUME NEW c \in Clients PROVE Orderly(c)
  BY <1>1 DEF Init, Orderly, Connected
<1>4. sent = out + Len(broadcast) /\ sent <= MaxMessages
  BY <1>1, MessagesAssumption DEF Init
<1>5. \A i \in DOMAIN broadcast : broadcast[i] = out + i
  BY <1>1 DEF Init
<1> QED
  BY <1>2, <1>3, <1>4, <1>5 DEF StreamInv

\* A client whose stream a step leaves alone stays orderly, also when it loses its
\* connection or its place in the map.
LEMMA OthersStayOrderly ==
  ASSUME TypeOK, NEW c \in Clients, Orderly(c), out' = out, c \in clients' => c \in clients,
         handler'[c] = handler[c], writer'[c] = writer[c], writing'[c] = writing[c],
         got'[c] = got[c], send'[c] = send[c], joined'[c] = joined[c],
         conn'[c] = conn[c] \/ conn'[c] = "closed",
         peer'[c] = peer[c] \/ peer'[c] = "gone"
  PROVE  Orderly(c)'
<1>1. Connected(c)' => Connected(c)
  BY DEF Connected
<1>2. Taken(c)' = Taken(c)
  BY TakenFacts DEF InFlight
<1> QED
  BY <1>1, <1>2 DEF Orderly

\* The listener broadcasts the next number.
LEMMA BroadcastKeeps ==
  ASSUME TypeOK, StreamInv, Broadcast
  PROVE  TypeOK' /\ StreamInv'
<1>1. /\ sent < MaxMessages /\ sent' = sent + 1
      /\ broadcast' = Append(broadcast, sent + 1) /\ Len(broadcast) < QueueSize
      /\ UNCHANGED <<clients, connVars, chanVars, pumpVars, out, joined, got>>
  BY DEF Broadcast
<1>2. sent + 1 \in Messages /\ broadcast \in Seq(Messages) /\ sent \in Nat /\ out \in Nat
  BY <1>1, MessagesAssumption DEF TypeOK, Messages
<1>3. /\ broadcast' \in Seq(Messages) /\ Len(broadcast') = Len(broadcast) + 1
      /\ DOMAIN broadcast' = 1..(Len(broadcast) + 1)
      /\ \A i \in 1..Len(broadcast) : broadcast'[i] = broadcast[i]
      /\ broadcast'[Len(broadcast) + 1] = sent + 1
      /\ Len(broadcast) \in Nat /\ DOMAIN broadcast = 1..Len(broadcast)
  BY <1>1, <1>2, AppendProperties, LenProperties
<1>4. TypeOK'
  BY <1>1, <1>2, <1>3, SizesAssumption DEF TypeOK, connVars, chanVars, pumpVars
<1>5. \A i \in DOMAIN broadcast' : broadcast'[i] = out + i
  <2>1. \A i \in 1..(Len(broadcast) + 1) : i \in 1..Len(broadcast) \/ i = Len(broadcast) + 1
    BY <1>3
  <2>2. sent + 1 = out + (Len(broadcast) + 1)
    BY <1>2, <1>3 DEF StreamInv
  <2> QED
    BY <1>3, <2>1, <2>2 DEF StreamInv
<1>6. ASSUME NEW c \in Clients PROVE Orderly(c)'
  BY <1>1, OthersStayOrderly DEF StreamInv, connVars, chanVars, pumpVars
<1> QED
  BY <1>1, <1>2, <1>3, <1>4, <1>5, <1>6, MessagesAssumption DEF StreamInv

\* A message is distributed: to a client in the map that has room it is the next
\* one, the others do not count any more.
LEMMA DistributeKeeps ==
  ASSUME TypeOK, ChannelInv, StreamInv, Distribute
  PROVE  TypeOK' /\ StreamInv'
<1> DEFINE m == Head(broadcast)
<1>1. /\ broadcast # <<>> /\ broadcast' = Tail(broadcast) /\ out' = out + 1
      /\ UNCHANGED <<connVars, pumpVars, sent, joined, got>>
      /\ clients' = clients \ Slow
      /\ send' = [c \in Clients |-> IF c \in clients \ Slow THEN Append(send[c], m)
                                    ELSE send[c]]
  BY DEF Distribute
<1>2. broadcast \in Seq(Messages) /\ sent \in Nat /\ out \in Nat
  BY DEF TypeOK
<1>3. /\ broadcast' \in Seq(Messages) /\ Len(broadcast') = Len(broadcast) - 1
      /\ DOMAIN broadcast' = 1..Len(broadcast')
      /\ \A i \in 1..Len(broadcast') : broadcast'[i] = broadcast[i + 1]
      /\ m \in Messages /\ m = broadcast[1] /\ 1 \in DOMAIN broadcast
      /\ Len(broadcast) \in Nat \ {0} /\ DOMAIN broadcast = 1..Len(broadcast)
  BY <1>1, <1>2, HeadTailProperties, LenProperties, EmptySeq
<1>4. m = out + 1
  BY <1>3 DEF StreamInv
<1>5. \A i \in DOMAIN broadcast' : broadcast'[i] = out' + i
  <2>1. \A i \in DOMAIN broadcast' : i + 1 \in DOMAIN broadcast /\ broadcast[i + 1] = out + (i + 1)
    BY <1>3 DEF StreamInv
  <2> QED
    BY <1>1, <1>2, <1>3, <2>1
<1> HIDE DEF m
<1>6. ASSUME NEW c \in Clients
      PROVE  /\ send'[c] \in Seq(Messages) /\ Len(send'[c]) <= SendSize
             /\ DOMAIN send[c] = 1..Len(send[c]) /\ Len(send[c]) \in Nat
             /\ c \in clients \ Slow =>
                  /\ Len(send'[c]) = Len(send[c]) + 1
                  /\ DOMAIN send'[c] = 1..(Len(send[c]) + 1)
                  /\ \A i \in 1..Len(send[c]) : send'[c][i] = send[c][i]
                  /\ send'[c][Len(send[c]) + 1] = m
             /\ c \notin clients \ Slow => send'[c] = send[c]
  <2>1. send[c] \in Seq(Messages) /\ Len(send[c]) <= SendSize /\ Len(send[c]) \in Nat
        /\ DOMAIN send[c] = 1..Len(send[c])
    BY LenProperties DEF TypeOK
  <2>2. CASE c \in clients \ Slow
    <3>1. send'[c] = Append(send[c], m) /\ Len(send[c]) # SendSize
      BY <1>1, <2>2 DEF Slow
    <3>2. Append(send[c], m) \in Seq(Messages) /\ Len(Append(send[c], m)) = Len(send[c]) + 1
          /\ \A i \in 1..Len(send[c]) : Append(send[c], m)[i] = send[c][i]
          /\ Append(send[c], m)[Len(send[c]) + 1] = m
      BY <1>3, <2>1, AppendProperties
    <3> QED
      BY <2>1, <2>2, <3>1, <3>2, LenProperties, SizesAssumption
  <2>3. CASE c \notin clients \ Slow
    BY <1>1, <2>1, <2>3
  <2> QED
    BY <2>2, <2>3
<1>7. TypeOK'
  <2>1. sendClosed' \in [Clients -> BOOLEAN]
    BY Zenon DEF Distribute
  <2>2. send' \in [Clients -> Seq(Messages)] /\ \A c \in Clients : Len(send'[c]) <= SendSize
    <3>1. send' = [c \in Clients |-> send'[c]]
      BY <1>1
    <3> QED
      BY <1>6, <3>1
  <2>3. Len(broadcast') <= QueueSize
    BY <1>3, SizesAssumption DEF TypeOK
  <2> QED
    BY <1>1, <1>3, <2>1, <2>2, <2>3 DEF TypeOK, connVars, pumpVars
<1>8. ASSUME NEW c \in Clients PROVE Orderly(c)'
  <2>1. Orderly(c) /\ Connected(c)' = Connected(c) /\ Taken(c)' = Taken(c)
    BY <1>1, TakenFacts DEF StreamInv, Connected, InFlight, connVars, pumpVars
  <2>2. Taken(c) \in Nat /\ Len(send[c]) \in Nat
    BY <1>6, TakenFacts
  <2>3. CASE c \in clients \ Slow
    <3>1. handler[c] \notin {"none", "registering"}
      BY <2>1, <2>3 DEF Orderly
    <3>2. ASSUME Connected(c)
          PROVE  /\ m = Taken(c) + (Len(send[c]) + 1)
                 /\ out' = Taken(c) + (Len(send[c]) + 1)
      <4>1. out = Taken(c) + Len(send[c])
        BY <2>1, <2>3, <3>2 DEF Orderly
      <4> QED
        BY <1>1, <1>4, <2>2, <4>1
    <3>3. ASSUME Connected(c), NEW i \in 1..(Len(send[c]) + 1)
          PROVE  send'[c][i] = Taken(c) + i
      <4>1. CASE i \in 1..Len(send[c])
        BY <1>6, <2>1, <2>3, <3>3, <4>1 DEF Orderly
      <4>2. CASE i = Len(send[c]) + 1
        BY <1>6, <2>3, <3>2, <3>3, <4>2
      <4> QED
        BY <2>2, <4>1, <4>2
    <3> QED
      BY <1>1, <1>6, <2>1, <2>3, <3>1, <3>2, <3>3 DEF Orderly, pumpVars
  <2>4. CASE c \notin clients \ Slow
    BY <1>1, <1>6, <2>1, <2>4 DEF Orderly, pumpVars
  <2> QED
    BY <2>3, <2>4
<1>9. sent' = out' + Len(broadcast') /\ sent' <= MaxMessages
  BY <1>1, <1>2, <1>3 DEF StreamInv
<1> QED
  BY <1>5, <1>7, <1>8, <1>9 DEF StreamInv

\* The steps that leave the streams, the counts and the channel broadcast alone.
LEMMA QuietStepsKeep ==
  ASSUME TypeOK, StreamInv, NEW c \in Clients,
         PeerLeaves(c) \/ Unregister(c) \/ ReadFails(c) \/ ReaderEnds(c)
  PROVE  TypeOK' /\ StreamInv'
<1>1. UNCHANGED <<broadcast, chanVars, handler, writer, writing, history>>
  BY DEF PeerLeaves, Unregister, ReadFails, ReaderEnds, hubVars, connVars, pumpVars
<1>2. clients' \in {clients, clients \ {c}}
  BY DEF PeerLeaves, Unregister, ReadFails, ReaderEnds, hubVars
<1>3. conn' \in {conn, [conn EXCEPT ![c] = "closed"]}
  BY DEF PeerLeaves, Unregister, ReadFails, ReaderEnds, connVars
<1>4. peer' \in {peer, [peer EXCEPT ![c] = "gone"]}
  BY DEF PeerLeaves, Unregister, ReadFails, ReaderEnds, connVars
<1>5. reader' \in [Clients -> {"none", "reading", "leaving", "closing", Ended}]
  <2>1. \E e \in {"leaving", "closing", Ended} : reader' \in {reader, [reader EXCEPT ![c] = e]}
    BY DEF PeerLeaves, Unregister, ReadFails, ReaderEnds, pumpVars
  <2> QED
    BY <2>1 DEF TypeOK
<1>6. TypeOK'
  BY <1>1, <1>2, <1>3, <1>4, <1>5 DEF TypeOK, chanVars, history
<1>7. ASSUME NEW d \in Clients PROVE Orderly(d)'
  <2>1. /\ conn'[d] = conn[d] \/ conn'[d] = "closed"
        /\ peer'[d] = peer[d] \/ peer'[d] = "gone"
    BY <1>3, <1>4 DEF TypeOK
  <2> QED
    BY <1>1, <1>2, <2>1, OthersStayOrderly DEF StreamInv, chanVars, history
<1> QED
  BY <1>1, <1>6, <1>7 DEF StreamInv, history

\* The handler of a client upgrades, the hub takes it into the map, or its pumps
\* are started: it has nothing, and nothing waits for it, until it is in the map.
LEMMA HandlerKeepsStreams ==
  ASSUME TypeOK, StreamInv, NEW c \in Clients, Upgrade(c) \/ Register(c) \/ StartPumps(c)
  PROVE  TypeOK' /\ StreamInv'
<1>1. UNCHANGED <<broadcast, chanVars, writing, sent, out, got>>
  BY DEF Upgrade, Register, StartPumps, hubVars, chanVars, history
<1>2. CASE Upgrade(c)
  <2>1. /\ handler[c] = "none" /\ handler' = [handler EXCEPT ![c] = "registering"]
        /\ conn' = [conn EXCEPT ![c] = "open"] /\ peer' = [peer EXCEPT ![c] = "there"]
        /\ UNCHANGED <<clients, reader, writer, joined>>
    BY <1>2 DEF Upgrade, hubVars, history
  <2>2. TypeOK'
    BY <1>1, <2>1 DEF TypeOK, chanVars
  <2>3. ASSUME NEW d \in Clients \ {c} PROVE Orderly(d)'
    BY <1>1, <2>1, OthersStayOrderly DEF TypeOK, StreamInv, chanVars
  <2>4. Orderly(c)'
    <3>1. c \notin clients /\ got[c] = <<>> /\ send[c] = <<>> /\ writer[c] = "none"
      BY <2>1 DEF StreamInv, Orderly
    <3> QED
      BY <1>1, <2>1, <3>1 DEF Orderly, TypeOK, chanVars
  <2> QED
    BY <1>1, <2>2, <2>3, <2>4 DEF StreamInv
<1>3. CASE Register(c)
  <2>1. /\ handler[c] = "registering" /\ handler' = [handler EXCEPT ![c] = "registered"]
        /\ clients' = clients \cup {c} /\ joined' = [joined EXCEPT ![c] = out]
        /\ UNCHANGED <<connVars, reader, writer>>
    BY <1>3 DEF Register
  <2>2. TypeOK'
    BY <1>1, <2>1 DEF TypeOK, chanVars, connVars
  <2>3. ASSUME NEW d \in Clients \ {c} PROVE Orderly(d)'
    BY <1>1, <2>1, OthersStayOrderly DEF TypeOK, StreamInv, chanVars, connVars
  <2>4. Orderly(c)'
    <3>1. got[c] = <<>> /\ send[c] = <<>> /\ writer[c] = "none"
      BY <2>1 DEF StreamInv, Orderly
    <3>2. joined'[c] = out /\ handler'[c] = "registered" /\ out \in Nat
      BY <2>1 DEF TypeOK
    <3>3. Len(<<>>) = 0 /\ \A i \in DOMAIN <<>> : FALSE
      OBVIOUS
    <3>4. got'[c] = <<>> /\ send'[c] = <<>> /\ writer'[c] = "none" /\ Taken(c)' = out
      BY <1>1, <2>1, <3>1, <3>2, <3>3 DEF Taken, InFlight, chanVars
    <3>5. \A i \in DOMAIN send'[c] : FALSE
      BY <3>3, <3>4
    <3>6. \A i \in DOMAIN got'[c] : FALSE
      BY <3>3, <3>4
    <3>7. out' = Taken(c)' + Len(send'[c])
      BY <1>1, <3>2, <3>3, <3>4
    <3> QED
      BY <3>2, <3>4, <3>5, <3>6, <3>7 DEF Orderly
  <2> QED
    BY <1>1, <2>2, <2>3, <2>4 DEF StreamInv
<1>4. CASE StartPumps(c)
  <2>1. /\ handler[c] = "registered" /\ handler' = [handler EXCEPT ![c] = "done"]
        /\ reader' = [reader EXCEPT ![c] = "reading"]
        /\ writer' = [writer EXCEPT ![c] = "waiting"]
        /\ UNCHANGED <<clients, connVars, joined>>
    BY <1>4 DEF StartPumps, hubVars, history
  <2>2. TypeOK'
    BY <1>1, <2>1 DEF TypeOK, chanVars, connVars
  <2>3. ASSUME NEW d \in Clients \ {c} PROVE Orderly(d)'
    BY <1>1, <2>1, OthersStayOrderly DEF TypeOK, StreamInv, chanVars, connVars
  <2>4. Orderly(c)'
    <3>1. Orderly(c) /\ writer[c] = "none" /\ handler'[c] = "done" /\ writer'[c] = "waiting"
      BY <2>1 DEF StreamInv, Orderly, TypeOK
    <3>2. Taken(c)' = Taken(c) /\ Connected(c)' = Connected(c)
      BY <1>1, <2>1, <3>1, TakenFacts DEF InFlight, Connected, connVars
    <3> QED
      BY <1>1, <2>1, <3>1, <3>2 DEF Orderly, chanVars
  <2> QED
    BY <1>1, <2>2, <2>3, <2>4 DEF StreamInv
<1> QED
  BY <1>2, <1>3, <1>4

\* writePump takes the next message, writes it, or returns.
LEMMA WriterKeepsStreams ==
  ASSUME TypeOK, StreamInv, NEW c \in Clients, Writer(c)
  PROVE  TypeOK' /\ StreamInv'
<1>1. /\ UNCHANGED <<hubVars, peer, sendClosed, handler, reader, sent, out, joined>>
      /\ writer[c] \in {"waiting", "writing"}
  BY DEF Writer, TakeMessage, Write, WriteFails, SendWasClosed, PingFails, WriterReturns,
         connVars, chanVars, history
<1>2. /\ Orderly(c) /\ handler[c] = "done"
      /\ send[c] \in Seq(Messages) /\ got[c] \in Seq(Messages)
      /\ Len(send[c]) \in Nat /\ Len(got[c]) \in Nat /\ joined[c] \in Nat
      /\ DOMAIN send[c] = 1..Len(send[c]) /\ DOMAIN got[c] = 1..Len(got[c])
      /\ Len(send[c]) <= SendSize
  <2>1. Orderly(c) /\ handler[c] = "done"
    BY <1>1 DEF StreamInv, Orderly
  <2> QED
    BY <2>1, LenProperties DEF TypeOK
<1>3. CASE WriterReturns(c)
  <2>1. /\ writer' = [writer EXCEPT ![c] = Ended] /\ writing' = [writing EXCEPT ![c] = 0]
        /\ conn' = [conn EXCEPT ![c] = "closed"] /\ UNCHANGED <<send, got>>
    BY <1>3 DEF WriterReturns, chanVars, history
  <2>2. TypeOK'
    BY <1>1, <2>1 DEF TypeOK, hubVars
  <2>3. ASSUME NEW d \in Clients \ {c} PROVE Orderly(d)'
    BY <1>1, <2>1, OthersStayOrderly DEF TypeOK, StreamInv, hubVars
  <2>4. Orderly(c)'
    <3>1. ~Connected(c)'
      BY <2>1 DEF Connected, TypeOK
    <3> QED
      BY <1>1, <1>2, <2>1, <3>1 DEF Orderly
  <2> QED
    BY <1>1, <2>2, <2>3, <2>4 DEF StreamInv, hubVars
<1>4. CASE TakeMessage(c)
  <2>1. /\ writer[c] = "waiting" /\ send[c] # <<>>
        /\ writer' = [writer EXCEPT ![c] = "writing"]
        /\ writing' = [writing EXCEPT ![c] = Head(send[c])]
        /\ send' = [send EXCEPT ![c] = Tail(send[c])]
        /\ UNCHANGED <<conn, got>>
    BY <1>4 DEF TakeMessage, connVars, history
  <2>2. /\ Tail(send[c]) \in Seq(Messages) /\ Len(Tail(send[c])) = Len(send[c]) - 1
        /\ DOMAIN Tail(send[c]) = 1..(Len(send[c]) - 1)
        /\ \A i \in 1..(Len(send[c]) - 1) : Tail(send[c])[i] = send[c][i + 1]
        /\ Head(send[c]) \in Messages /\ Head(send[c]) = send[c][1]
        /\ Len(send[c]) >= 1
    BY <1>2, <2>1, HeadTailProperties, LenProperties, EmptySeq
  <2>3. /\ send'[c] = Tail(send[c]) /\ writing'[c] = Head(send[c]) /\ writer'[c] = "writing"
        /\ send' \in [Clients -> Seq(Messages)]
        /\ \A d \in Clients \ {c} : send'[d] = send[d]
    BY <2>1, <2>2 DEF TypeOK
  <2>4. TypeOK'
    <3>1. ASSUME NEW d \in Clients PROVE Len(send'[d]) <= SendSize
      <4>1. Len(send'[c]) <= SendSize
        BY <1>2, <2>2, <2>3, SizesAssumption
      <4>2. d # c => send'[d] = send[d] /\ Len(send[d]) <= SendSize
        BY <2>3 DEF TypeOK
      <4> QED
        BY <4>1, <4>2
    <3>2. writing' \in [Clients -> Messages \cup {0}]
      BY <2>1, <2>2 DEF TypeOK
    <3> QED
      BY <1>1, <2>1, <2>3, <3>1, <3>2 DEF TypeOK, hubVars
  <2>5. ASSUME NEW d \in Clients \ {c} PROVE Orderly(d)'
    BY <1>1, <2>1, OthersStayOrderly DEF TypeOK, StreamInv, hubVars
  <2>6. Orderly(c)'
    <3>1. Connected(c)' = Connected(c) /\ Taken(c)' = Taken(c) + 1 /\ Taken(c) \in Nat
      <4>1. InFlight(c) = 0 /\ InFlight(c)' = 1
        BY <2>1, <2>3 DEF InFlight
      <4> QED
        BY <1>1, <1>2, <2>1, <4>1 DEF Connected, Taken
    <3>2. ASSUME Connected(c)
          PROVE  /\ Head(send[c]) = Taken(c) + 1
                 /\ c \in clients => out = (Taken(c) + 1) + (Len(send[c]) - 1)
      <4>1. 1 \in DOMAIN send[c]
        BY <1>2, <2>2
      <4>2. send[c][1] = Taken(c) + 1 /\ (c \in clients => out = Taken(c) + Len(send[c]))
        BY <1>2, <3>2, <4>1 DEF Orderly
      <4> QED
        BY <1>2, <2>2, <3>1, <4>2
    <3>3. ASSUME Connected(c), NEW i \in 1..(Len(send[c]) - 1)
          PROVE  send[c][i + 1] = (Taken(c) + 1) + i
      <4>1. i + 1 \in DOMAIN send[c]
        BY <1>2
      <4>2. send[c][i + 1] = Taken(c) + (i + 1)
        BY <1>2, <3>3, <4>1 DEF Orderly
      <4> QED
        BY <3>1, <4>2
    <3>4. /\ got'[c] = got[c] /\ joined'[c] = joined[c] /\ handler'[c] = "done"
          /\ clients' = clients /\ out' = out
      BY <1>1, <1>2, <2>1 DEF hubVars
    <3>5. \A i \in DOMAIN got'[c] : got'[c][i] = joined'[c] + i
      BY <1>2, <3>4 DEF Orderly
    <3>6. Connected(c)' =>
            /\ writing'[c] = Taken(c)'
            /\ \A i \in DOMAIN send'[c] : send'[c][i] = Taken(c)' + i
            /\ c \in clients' => out' = Taken(c)' + Len(send'[c])
      BY <2>2, <2>3, <3>1, <3>2, <3>3, <3>4
    <3> QED
      BY <2>3, <3>4, <3>5, <3>6 DEF Orderly
  <2> QED
    BY <1>1, <2>4, <2>5, <2>6 DEF StreamInv, hubVars
<1>5. CASE Write(c)
  <2>1. /\ writer[c] = "writing" /\ conn[c] = "open"
        /\ writer' = [writer EXCEPT ![c] = "waiting"]
        /\ writing' = [writing EXCEPT ![c] = 0]
        /\ UNCHANGED <<conn, send>>
        /\ got' = IF peer[c] = "there" THEN [got EXCEPT ![c] = Append(got[c], writing[c])]
                  ELSE got
    BY <1>5 DEF Write, connVars, chanVars
  <2>2. /\ writer'[c] = "waiting" /\ InFlight(c) = 1 /\ InFlight(c)' = 0
        /\ Connected(c)' = Connected(c)
        /\ Taken(c) = joined[c] + Len(got[c]) + 1
    BY <1>1, <2>1 DEF InFlight, Connected, TypeOK, Taken
  <2>3. /\ handler'[c] = "done" /\ joined'[c] = joined[c] /\ send'[c] = send[c]
        /\ clients' = clients /\ out' = out
    BY <1>1, <1>2, <2>1 DEF hubVars
  <2>4. CASE peer[c] = "there" /\ writing[c] \in Messages
    <3> DEFINE g == Append(got[c], writing[c])
    <3>1. /\ g \in Seq(Messages) /\ Len(g) = Len(got[c]) + 1
          /\ DOMAIN g = 1..(Len(got[c]) + 1)
          /\ \A i \in 1..Len(got[c]) : g[i] = got[c][i]
          /\ g[Len(got[c]) + 1] = writing[c]
      BY <1>2, <2>4, AppendProperties, LenProperties
    <3> HIDE DEF g
    <3>2. got' = [got EXCEPT ![c] = g]
      BY <2>1, <2>4 DEF g
    <3>3. /\ got'[c] = g /\ got' \in [Clients -> Seq(Messages)]
          /\ \A d \in Clients \ {c} : got'[d] = got[d]
      BY <3>1, <3>2 DEF TypeOK
    <3>4. TypeOK'
      BY <1>1, <2>1, <3>3 DEF TypeOK, hubVars
    <3>5. ASSUME NEW d \in Clients \ {c} PROVE Orderly(d)'
      BY <1>1, <2>1, <3>3, OthersStayOrderly DEF TypeOK, StreamInv, hubVars
    <3>6. writing[c] = joined[c] + (Len(got[c]) + 1) /\ Taken(c)' = Taken(c)
      <4>1. writing[c] = Taken(c)
        BY <1>2, <2>1, <2>4 DEF Orderly, Connected
      <4>2. Taken(c)' = joined[c] + (Len(got[c]) + 1) + 0
        BY <2>2, <2>3, <3>1, <3>3 DEF Taken
      <4> QED
        BY <1>2, <2>2, <4>1, <4>2
    <3>7. ASSUME NEW i \in 1..(Len(got[c]) + 1) PROVE g[i] = joined[c] + i
      <4>1. i \in 1..Len(got[c]) \/ i = Len(got[c]) + 1
        BY <1>2
      <4> QED
        BY <1>2, <3>1, <3>6, <4>1 DEF Orderly
    <3>8. Connected(c) => /\ \A i \in DOMAIN send[c] : send[c][i] = Taken(c) + i
                          /\ c \in clients => out = Taken(c) + Len(send[c])
      BY <1>2 DEF Orderly
    <3>9. Orderly(c)'
      BY <2>2, <2>3, <3>1, <3>3, <3>6, <3>7, <3>8 DEF Orderly
    <3> QED
      BY <1>1, <3>4, <3>5, <3>9 DEF StreamInv, hubVars
  <2>5. CASE peer[c] # "there"
    <3>1. got' = got /\ ~Connected(c)
      BY <2>1, <2>5 DEF Connected
    <3>2. TypeOK'
      BY <1>1, <2>1, <3>1 DEF TypeOK, hubVars
    <3>3. ASSUME NEW d \in Clients \ {c} PROVE Orderly(d)'
      BY <1>1, <2>1, <3>1, OthersStayOrderly DEF TypeOK, StreamInv, hubVars
    <3>4. Orderly(c)'
      BY <1>2, <2>2, <2>3, <3>1 DEF Orderly
    <3> QED
      BY <1>1, <3>2, <3>3, <3>4 DEF StreamInv, hubVars
  <2>6. peer[c] = "there" => writing[c] \in Messages
    <3>1. peer[c] = "there" => writing[c] = joined[c] + Len(got[c]) + 1
      BY <1>2, <2>1, <2>2 DEF Orderly, Connected
    <3>2. writing[c] \in Messages \cup {0}
      BY DEF TypeOK
    <3> QED
      BY <1>2, <3>1, <3>2
  <2> QED
    BY <2>4, <2>5, <2>6
<1> QED
  BY <1>3, <1>4, <1>5 DEF Writer, WriteFails, SendWasClosed, PingFails

\* Every step keeps the streams.
LEMMA NextStreams ==
  ASSUME TypeOK, ChannelInv, StreamInv, [Next]_vars
  PROVE  TypeOK' /\ StreamInv'
<1>1. CASE Broadcast
  BY <1>1, BroadcastKeeps
<1>2. CASE Distribute
  BY <1>2, DistributeKeeps
<1>3. ASSUME NEW c \in Clients,
             PeerLeaves(c) \/ Unregister(c) \/ Reader(c)
      PROVE  TypeOK' /\ StreamInv'
  BY <1>3, QuietStepsKeep DEF Reader
<1>4. ASSUME NEW c \in Clients, Upgrade(c) \/ Register(c) \/ StartPumps(c)
      PROVE  TypeOK' /\ StreamInv'
  BY <1>4, HandlerKeepsStreams
<1>5. ASSUME NEW c \in Clients, Writer(c)
      PROVE  TypeOK' /\ StreamInv'
  BY <1>5, WriterKeepsStreams
<1>6. CASE UNCHANGED vars
  <2>1. UNCHANGED <<broadcast, clients, conn, peer, chanVars, pumpVars, history>>
    BY <1>6 DEF vars, hubVars, connVars
  <2>2. TypeOK'
    BY <2>1 DEF TypeOK, chanVars, pumpVars, history
  <2>3. \A c \in Clients : Orderly(c)'
    BY <2>1, OthersStayOrderly DEF StreamInv, chanVars, pumpVars, history
  <2> QED
    BY <2>1, <2>2, <2>3 DEF StreamInv, history
<1> QED
  BY <1>1, <1>2, <1>3, <1>4, <1>5, <1>6 DEF Next, Select

\* What a client has and what waits for it is the next messages, in every state.
THEOREM StreamInvariant == Spec => [](TypeOK /\ StreamInv)
<1>1. TypeOK /\ StreamInv /\ ChannelInv /\ [Next]_vars => TypeOK' /\ StreamInv'
  BY NextStreams
<1> QED
  BY <1>1, InitStreams, ChannelsInvariant, PTL DEF Spec

\* Three sequences of consecutive numbers, each going on where the other ends.
LEMMA ThreeParts ==
  ASSUME NEW j \in Nat, NEW g \in Seq(Nat), NEW w \in Seq(Nat), NEW q \in Seq(Nat),
         \A i \in 1..Len(g) : g[i] = j + i,
         \A i \in 1..Len(w) : w[i] = (j + Len(g)) + i,
         \A i \in 1..Len(q) : q[i] = (j + Len(g) + Len(w)) + i
  PROVE  g \o w \o q = [i \in 1..(Len(g) + Len(w) + Len(q)) |-> j + i]
<1> DEFINE a == Len(g)
           b == a + Len(w)
           n == b + Len(q)
           s == g \o w
           u == s \o q
           t == [i \in 1..n |-> j + i]
<1>1. /\ a \in Nat /\ b \in Nat /\ n \in Nat /\ a <= b /\ b <= n
      /\ Len(g) = a /\ Len(w) = b - a /\ Len(q) = n - b
      /\ b = a + Len(w) /\ n = b + Len(q)
  OBVIOUS
<1> HIDE DEF a, b, n
<1>2. /\ s \in Seq(Nat) /\ Len(s) = b
      /\ \A i \in 1..b : s[i] = IF i <= a THEN g[i] ELSE w[i - a]
  <2>1. /\ s \in Seq(Nat) /\ Len(s) = Len(g) + Len(w)
        /\ \A i \in 1..(Len(g) + Len(w)) :
             s[i] = IF i <= Len(g) THEN g[i] ELSE w[i - Len(g)]
    BY ConcatProperties
  <2>2. Len(g) = a /\ Len(g) + Len(w) = b
    BY <1>1
  <2> QED
    BY <2>1, <2>2
<1> HIDE DEF s
<1>3. /\ u \in Seq(Nat) /\ Len(u) = n
      /\ \A i \in 1..n : u[i] = IF i <= b THEN s[i] ELSE q[i - b]
  <2>1. /\ u \in Seq(Nat) /\ Len(u) = Len(s) + Len(q)
        /\ \A i \in 1..(Len(s) + Len(q)) :
             u[i] = IF i <= Len(s) THEN s[i] ELSE q[i - Len(s)]
    BY <1>2, ConcatProperties
  <2>2. Len(s) = b /\ Len(s) + Len(q) = n
    BY <1>1, <1>2
  <2> QED
    BY <2>1, <2>2
<1> HIDE DEF u
<1>4. t \in Seq(Nat) /\ Len(t) = n /\ \A i \in 1..n : t[i] = j + i
  BY <1>1
<1> HIDE DEF t
<1>5. /\ \A i \in 1..a : g[i] = j + i
      /\ \A i \in 1..(b - a) : w[i] = (j + a) + i
      /\ \A i \in 1..(n - b) : q[i] = (j + b) + i
  <2>1. j + Len(g) + Len(w) = j + b /\ j + Len(g) = j + a
    BY <1>1
  <2> QED
    BY <1>1, <2>1
<1>6. ASSUME NEW i \in 1..n PROVE u[i] = j + i
  <2>1. CASE i <= a
    <3>1. i <= b /\ i \in 1..a /\ i \in 1..b
      BY <1>1, <2>1
    <3>2. u[i] = g[i]
      BY <1>2, <1>3, <2>1, <3>1
    <3> QED
      BY <1>5, <3>1, <3>2
  <2>2. CASE a < i /\ i <= b
    <3>1. i \in 1..b /\ ~(i <= a) /\ i - a \in 1..(b - a)
      BY <1>1, <2>2
    <3>2. u[i] = w[i - a]
      BY <1>2, <1>3, <2>2, <3>1
    <3>3. w[i - a] = (j + a) + (i - a)
      BY <1>5, <3>1
    <3> QED
      BY <1>1, <3>2, <3>3
  <2>3. CASE b < i
    <3>1. ~(i <= b) /\ i - b \in 1..(n - b)
      BY <1>1, <2>3
    <3>2. u[i] = q[i - b]
      BY <1>3, <3>1
    <3>3. q[i - b] = (j + b) + (i - b)
      BY <1>5, <3>1
    <3> QED
      BY <1>1, <3>2, <3>3
  <2> QED
    BY <1>1, <2>1, <2>2, <2>3
<1>7. u = t
  BY <1>3, <1>4, <1>6, SeqEqual
<1> QED
  BY <1>7 DEF t, u, s, n, b, a

\* The three parts of the stream of a client that is connected and in the map.
LEMMA StreamIsWhole ==
  ASSUME TypeOK, StreamInv, NEW c \in clients, Connected(c)
  PROVE  Stream(c) = [i \in 1..(out - joined[c]) |-> joined[c] + i]
<1> DEFINE w == IF writer[c] = "writing" THEN <<writing[c]>> ELSE <<>>
<1>1. /\ c \in Clients /\ Orderly(c) /\ got[c] \in Seq(Nat) /\ send[c] \in Seq(Nat)
      /\ joined[c] \in Nat /\ Len(got[c]) \in Nat /\ Len(send[c]) \in Nat
      /\ DOMAIN got[c] = 1..Len(got[c]) /\ DOMAIN send[c] = 1..Len(send[c])
  <2>1. c \in Clients
    BY DEF TypeOK
  <2>2. Messages \subseteq Nat
    BY DEF Messages
  <2>3. got[c] \in Seq(Messages) /\ send[c] \in Seq(Messages) /\ joined[c] \in Nat
    BY <2>1 DEF TypeOK
  <2>4. got[c] \in Seq(Nat) /\ send[c] \in Seq(Nat)
    BY <2>2, <2>3, SeqMonotonic
  <2> QED
    BY <2>1, <2>3, <2>4, LenProperties DEF StreamInv
<1>2. /\ w \in Seq(Nat) /\ Len(w) = InFlight(c)
      /\ \A i \in 1..Len(w) : w[i] = (joined[c] + Len(got[c])) + i
  <2>1. CASE writer[c] = "writing"
    <3>1. writing[c] = joined[c] + Len(got[c]) + 1 /\ InFlight(c) = 1
      BY <1>1, <2>1 DEF Orderly, Taken, InFlight
    <3>2. writing[c] \in Nat
      BY <1>1, <3>1
    <3>3. w = <<writing[c]>>
      BY <2>1
    <3>4. w \in Seq(Nat) /\ Len(w) = 1 /\ w[1] = writing[c]
      BY <3>2, <3>3
    <3>5. \A i \in 1..1 : i = 1
      OBVIOUS
    <3> QED
      BY <3>1, <3>4, <3>5
  <2>2. CASE writer[c] # "writing"
    BY <2>2 DEF InFlight
  <2> QED
    BY <2>1, <2>2
<1>3. /\ \A i \in 1..Len(got[c]) : got[c][i] = joined[c] + i
      /\ \A i \in 1..Len(send[c]) :
           send[c][i] = (joined[c] + Len(got[c]) + Len(w)) + i
      /\ out = (joined[c] + Len(got[c]) + Len(w)) + Len(send[c])
  BY <1>1, <1>2 DEF Orderly, Taken
<1> HIDE DEF w
<1>4. got[c] \o w \o send[c]
        = [i \in 1..(Len(got[c]) + Len(w) + Len(send[c])) |-> joined[c] + i]
  <2> DEFINE j == joined[c]
             g == got[c]
             q == send[c]
  <2>1. /\ j \in Nat /\ g \in Seq(Nat) /\ w \in Seq(Nat) /\ q \in Seq(Nat)
        /\ \A i \in 1..Len(g) : g[i] = j + i
        /\ \A i \in 1..Len(w) : w[i] = (j + Len(g)) + i
        /\ \A i \in 1..Len(q) : q[i] = (j + Len(g) + Len(w)) + i
    BY <1>1, <1>2, <1>3
  <2> HIDE DEF j, g, q
  <2>2. g \o w \o q = [i \in 1..(Len(g) + Len(w) + Len(q)) |-> j + i]
    BY <2>1, ThreeParts
  <2> QED
    BY <2>2 DEF j, g, q
<1>5. out - joined[c] = Len(got[c]) + Len(w) + Len(send[c])
  <2>1. Len(w) \in Nat /\ out \in Nat
    BY <1>2 DEF TypeOK
  <2>2. out = (joined[c] + Len(got[c]) + Len(w)) + Len(send[c])
    BY <1>3
  <2>3. joined[c] \in Nat /\ Len(got[c]) \in Nat /\ Len(send[c]) \in Nat
    BY <1>1
  <2> QED
    <3> DEFINE j == joined[c]
               a == Len(got[c])
               b == Len(w)
               d == Len(send[c])
    <3>1. out = (j + a + b) + d
      BY <2>2
    <3>2. out \in Nat /\ j \in Nat /\ a \in Nat /\ b \in Nat /\ d \in Nat
      BY <2>1, <2>3
    <3> HIDE DEF j, a, b, d
    <3>3. out - j = a + b + d
      BY <3>1, <3>2
    <3> QED
      BY <3>3 DEF j, a, b, d
<1> QED
  BY <1>4, <1>5 DEF Stream, w

\* Every connected client has, in order and once, what was broadcast since it was
\* registered, or is about to get it, at whatever capacities: one that is too slow
\* is dropped before a message could be left out.
THEOREM NoGapAlways == Spec => []NoGap
<1>1. TypeOK /\ StreamInv => NoGap
  BY StreamIsWhole DEF NoGap, StreamInv, Orderly, Connected
<1> QED
  BY <1>1, StreamInvariant, PTL

------------------------------------------------------------------------------
(* The socket of the browser. *)

\* Whoever connects leaves a socket that calls back, or a timer.
LEMMA ConnectRetries ==
  ASSUME WsTypeOK, NEW pending \in BOOLEAN, NEW others \in Nat, others <= MaxTimers,
         _connect(pending, others)
  PROVE  /\ sockets' \in [SocketIds -> {"closed", "connecting", "open", "closing"}]
         /\ _socket' \in SocketIds \cup {None}
         /\ handle' \in BOOLEAN /\ lost' \in 0..MaxTimers
         /\ handle' \/ \E s \in SocketIds : sockets'[s] # "closed"
<1> USE WsClientAssumption
<1>1. CASE _socket # None /\ sockets[_socket] \in {"open", "connecting"}
  <2>1. _socket \in SocketIds /\ sockets'[_socket] # "closed" /\ UNCHANGED <<sockets, _socket>>
    BY <1>1 DEF _connect, WsTypeOK
  <2> QED
    BY <1>1, <2>1 DEF _connect, WsTypeOK
<1>2. CASE ~(_socket # None /\ sockets[_socket] \in {"open", "connecting"}) /\ token
  <2>1. PICK s \in SocketIds : /\ sockets' = [sockets EXCEPT ![s] = "connecting"]
                               /\ _socket' = s
    BY <1>2, Zenon DEF _connect
  <2>2. handle' = pending /\ lost' = others
    BY <1>2 DEF _connect
  <2>3. sockets'[s] = "connecting"
    BY <2>1 DEF WsTypeOK
  <2> QED
    BY <2>1, <2>2, <2>3 DEF WsTypeOK
<1>3. CASE ~(_socket # None /\ sockets[_socket] \in {"open", "connecting"}) /\ ~token
  <2>1. setTimeout(pending, others) /\ UNCHANGED <<sockets, _socket>>
    BY <1>3, Zenon DEF _connect
  <2>2. handle' = TRUE /\ lost' <= MaxTimers /\ lost' \in Nat
    BY <2>1 DEF setTimeout
  <2>3. sockets' = sockets /\ _socket' = _socket
    BY <2>1
  <2>4. lost' \in 0..MaxTimers
    BY <2>2
  <2> QED
    BY <2>2, <2>3, <2>4, Zenon DEF WsTypeOK
<1> QED
  BY <1>1, <1>2, <1>3

\* Each step keeps the types, and a way back to a connection.
LEMMA WsStep ==
  ASSUME WsTypeOK, ClientRetries, [WsNext]_wsVars
  PROVE  WsTypeOK' /\ ClientRetries'
<1> USE WsClientAssumption
<1>1. CASE useWebSocket
  BY <1>1, ConnectRetries DEF useWebSocket, WsTypeOK, ClientRetries
<1>2. CASE timerFires
  <2>1. CASE handle /\ _connect(FALSE, lost)
    <3>1. lost \in Nat /\ lost <= MaxTimers
      BY DEF WsTypeOK
    <3>2. FALSE \in BOOLEAN
      OBVIOUS
    <3>3. UNCHANGED <<token, _isConnected, used>>
      BY <1>2 DEF timerFires
    <3> QED
      BY <2>1, <3>1, <3>2, <3>3, ConnectRetries, Zenon DEF WsTypeOK, ClientRetries
  <2>2. CASE lost > 0 /\ _connect(handle, lost - 1)
    <3>1. lost - 1 \in Nat /\ lost - 1 <= MaxTimers
      BY <2>2 DEF WsTypeOK
    <3> QED
      BY <1>2, <2>2, <3>1, ConnectRetries DEF timerFires, WsTypeOK, ClientRetries
  <2> QED
    BY <1>2, <2>1, <2>2 DEF timerFires
<1>3. ASSUME NEW s \in SocketIds, onopen(s)
      PROVE  WsTypeOK' /\ ClientRetries'
  <2>1. sockets'[s] # "closed"
    BY <1>3 DEF onopen, WsTypeOK
  <2> QED
    BY <1>3, <2>1 DEF onopen, WsTypeOK, ClientRetries
<1>4. ASSUME NEW s \in SocketIds, closingHandshake(s)
      PROVE  WsTypeOK' /\ ClientRetries'
  <2>1. sockets'[s] # "closed"
    BY <1>4 DEF closingHandshake, WsTypeOK
  <2> QED
    BY <1>4, <2>1 DEF closingHandshake, WsTypeOK, ClientRetries
<1>5. ASSUME NEW s \in SocketIds, onclose(s)
      PROVE  WsTypeOK' /\ ClientRetries'
  <2>1. /\ sockets' = [sockets EXCEPT ![s] = "closed"] /\ _socket' = None
        /\ _isConnected' = FALSE /\ handle' = TRUE
        /\ UNCHANGED <<token, used>>
    BY <1>5 DEF onclose, setTimeout
  <2>2. sockets' \in [SocketIds -> {"closed", "connecting", "open", "closing"}]
    BY <2>1 DEF WsTypeOK
  <2>3. lost' \in 0..MaxTimers
    BY <1>5 DEF onclose, setTimeout, WsTypeOK
  <2> QED
    BY <2>1, <2>2, <2>3, Zenon DEF WsTypeOK, ClientRetries
<1>6. CASE getAuthToken
  BY <1>6, Zenon DEF getAuthToken, WsTypeOK, ClientRetries
<1>7. CASE UNCHANGED wsVars
  BY <1>7 DEF wsVars, WsTypeOK, ClientRetries
<1> QED
  BY <1>1, <1>2, <1>3, <1>4, <1>5, <1>6, <1>7 DEF WsNext

(***************************************************************************)
(* The client of the web socket never gives up, with any number of sockets *)
(* and of timers: once a component has mounted there always is a socket    *)
(* that will call back or a timer that will connect (use-websocket.ts).    *)
(***************************************************************************)
THEOREM ClientRetriesAlways == WsSpec => []ClientRetries
<1>1. WsInit => WsTypeOK /\ ClientRetries
  <2> SUFFICES ASSUME WsInit PROVE WsTypeOK /\ ClientRetries
    OBVIOUS
  <2>1. 0 \in 0..MaxTimers
    BY WsClientAssumption
  <2>2. FALSE \in BOOLEAN
    OBVIOUS
  <2>3. sockets \in [SocketIds -> {"closed", "connecting", "open", "closing"}]
    BY DEF WsInit
  <2> QED
    BY <2>1, <2>2, <2>3, Zenon DEF WsInit, WsTypeOK, ClientRetries
<1>2. WsTypeOK /\ ClientRetries /\ [WsNext]_wsVars => WsTypeOK' /\ ClientRetries'
  BY WsStep
<1> QED
  BY <1>1, <1>2, PTL DEF WsSpec

------------------------------------------------------------------------------
(* The page of a run.                                                            *)

\* As long as nothing disturbed the run: a verdict the page has, or that is on its
\* way to it, is the row's, or the row is deleted; and what is on its way to a page
\* that has a verdict does not contradict it.
PageInv ==
  /\ status \in [{Run} -> Row!InTable \cup {"absent", "deleted"}]
  /\ disturbed \in [{Run} -> BOOLEAN]
  /\ fetch \in {Hidden, "idle", "sent", "answered"}
  /\ ~disturbed[Run] =>
       /\ cached \in Verdicts => status[Run] \in {cached, "deleted"}
       /\ fetch = "answered" /\ answer \in Verdicts => status[Run] \in {answer, "deleted"}
       /\ fetch = "answered" /\ cached \in Verdicts => answer \in {cached, "deleted"}

\* What the row may become: nothing but its flow's deletion takes an undisturbed
\* verdict away.
LEMMA RowChanges ==
  ASSUME PageInv, UpdateRun \/ ChangeQuietly
  PROVE  /\ status' \in [{Run} -> Row!InTable \cup {"absent", "deleted"}]
         /\ disturbed' \in [{Run} -> BOOLEAN]
         /\ disturbed[Run] => disturbed'[Run]
         /\ ~disturbed'[Run] /\ status[Run] \in Verdicts \cup {"deleted"} =>
              status'[Run] \in {status[Run], "deleted"}
         /\ UNCHANGED pageVars
<1>1. CASE Row!Begin(Run) /\ UNCHANGED pageVars
  BY <1>1 DEF PageInv, Row!Begin, Row!Put, Row!InTable, Row!Terminal, Verdicts
<1>2. ASSUME NEW s \in {"success", "failed"}, Row!Finish(Run, s), UNCHANGED pageVars
      PROVE  /\ status' \in [{Run} -> Row!InTable \cup {"absent", "deleted"}]
             /\ disturbed' = disturbed /\ status[Run] \notin Verdicts \cup {"deleted"}
  BY <1>2 DEF PageInv, Row!Finish, Row!Put, Row!InTable, Row!Terminal, Verdicts
<1>3. ASSUME NEW s \in Row!InTable, Row!Overwrite(Run, s), UNCHANGED pageVars
      PROVE  /\ status' \in [{Run} -> Row!InTable \cup {"absent", "deleted"}]
             /\ disturbed' = disturbed /\ disturbed[Run]
  BY <1>3 DEF PageInv, Row!Overwrite, Row!Put
<1>4. CASE Row!Queue(Run) /\ UNCHANGED pageVars
  BY <1>4 DEF PageInv, Row!Queue, Row!Put, Row!InTable, Row!Terminal, Verdicts
<1>5. CASE Row!Disturb(Run) /\ UNCHANGED pageVars
  <2>1. disturbed' = [disturbed EXCEPT ![Run] = TRUE] /\ status' = status
    BY <1>5 DEF Row!Disturb
  <2>2. disturbed' \in [{Run} -> BOOLEAN] /\ disturbed'[Run]
    BY <2>1, Zenon DEF PageInv
  <2> QED
    BY <1>5, <2>1, <2>2 DEF PageInv
<1>6. CASE Row!Delete({Run}) /\ UNCHANGED pageVars
  BY <1>6 DEF PageInv, Row!Delete
<1>7. UNCHANGED pageVars
  BY DEF UpdateRun, ChangeQuietly
<1> QED
  BY <1>1, <1>2, <1>3, <1>4, <1>5, <1>6, <1>7 DEF UpdateRun, ChangeQuietly, PageInv

LEMMA PageStep ==
  ASSUME PageInv, [RunPageNext]_runPageVars
  PROVE  PageInv' /\ ((cached \in Verdicts /\ ~disturbed[Run]) => cached' = cached)
<1>1. CASE UpdateRun \/ ChangeQuietly
  <2>1. \A v \in Verdicts : v # "deleted" /\ v \in Verdicts \cup {"deleted"}
    BY DEF Verdicts, Row!Terminal
  <2>2. /\ status' \in [{Run} -> Row!InTable \cup {"absent", "deleted"}]
        /\ disturbed' \in [{Run} -> BOOLEAN]
        /\ disturbed[Run] => disturbed'[Run]
        /\ ~disturbed'[Run] /\ status[Run] \in Verdicts \cup {"deleted"} =>
             status'[Run] \in {status[Run], "deleted"}
        /\ UNCHANGED pageVars
    BY <1>1, RowChanges
  <2>3. fetch' = fetch /\ answer' = answer /\ cached' = cached
    BY <2>2 DEF pageVars
  <2>4. ~disturbed'[Run] => ~disturbed[Run]
    BY <2>2, Zenon
  <2>5. Verdicts' = Verdicts
    BY DEF Verdicts, Row!Terminal
  <2>6. ~disturbed'[Run] /\ cached \in Verdicts => status'[Run] \in {cached, "deleted"}
    <3>1. ~disturbed[Run] /\ cached \in Verdicts => status[Run] \in {cached, "deleted"}
      BY Zenon DEF PageInv
    <3> QED
      BY <2>1, <2>2, <2>4, <3>1
  <2>7. ~disturbed'[Run] /\ fetch = "answered" /\ answer \in Verdicts =>
          status'[Run] \in {answer, "deleted"}
    <3>1. ~disturbed[Run] /\ fetch = "answered" /\ answer \in Verdicts =>
            status[Run] \in {answer, "deleted"}
      BY Zenon DEF PageInv
    <3> QED
      BY <2>1, <2>2, <2>4, <3>1
  <2> QED
    BY <2>2, <2>3, <2>4, <2>5, <2>6, <2>7, Zenon DEF PageInv
<1>2. CASE UNCHANGED <<rowVars, pageVars>>
  BY <1>2 DEF PageInv, rowVars, pageVars
<1>3. CASE Mount \/ Poll
  BY <1>3 DEF Mount, Poll, PageInv, rowVars
<1>4. CASE Reload \/ Receive
  <2>1. /\ UNCHANGED <<rowVars, cached>>
        /\ fetch' \in {fetch, "sent"}
        /\ fetch' = "sent" \/ answer' = answer
    BY <1>4 DEF Reload, Receive, FetchAgain
  <2> QED
    BY <2>1 DEF PageInv, rowVars
<1>5. CASE Answer
  BY <1>5 DEF Answer, PageInv, rowVars, Verdicts, Row!InTable, Row!Terminal
<1>6. CASE Arrive
  BY <1>6 DEF Arrive, PageInv, rowVars, Verdicts, Row!InTable, Row!Terminal
<1>7. CASE FetchFails
  BY <1>7 DEF FetchFails, PageInv, rowVars
<1>8. CASE UpdateStep \/ ListenerFails \/ ListenerConnects \/ SocketCloses \/ SocketOpens
           \/ NobodyConnected \/ UNCHANGED runPageVars
  BY <1>2, <1>8 DEF UpdateStep, ListenerFails, ListenerConnects, SocketCloses, SocketOpens,
     NobodyConnected, runPageVars
<1> QED
  BY <1>1, <1>3, <1>4, <1>5, <1>6, <1>7, <1>8 DEF RunPageNext

\* No page goes back from a verdict, however many notifications are under way, lost
\* or late, if nothing disturbed the run (use-run-detail-page.ts, use-run-realtime.ts).
THEOREM NoFlickerAlways == RunPageSpec => NoFlicker
<1>1. RunPageInit => PageInv
  <2> SUFFICES ASSUME RunPageInit PROVE PageInv
    OBVIOUS
  <2>1. disturbed \in [{Run} -> BOOLEAN]
    BY Zenon DEF RunPageInit, Row!Init
  <2> QED
    BY <2>1 DEF RunPageInit, PageInv, Row!Init, Hidden, NoData, Verdicts, Row!Terminal
<1>2. PageInv /\ [RunPageNext]_runPageVars =>
        PageInv' /\ [(cached \in Verdicts /\ ~disturbed[Run]) => cached' = cached]_runPageVars
  BY PageStep
<1> QED
  BY <1>1, <1>2, PTL DEF RunPageSpec, NoFlicker
==============================================================================
