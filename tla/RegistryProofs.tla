--------------------------- MODULE RegistryProofs ---------------------------
(***************************************************************************)
(* Theorems about Registry, for any number of clients, proxies, streams    *)
(* and connections and any Window and IdleTimeout.                         *)
(***************************************************************************)
EXTENDS Registry, TLAPS

(* What a stream's state says about its ID, beyond the types: the ID and    *)
(* the CIDR are there exactly from Open on, and a handler in Send has a     *)
(* packet and a stream to send it on.                                       *)
StreamsOK ==
    /\ \A s \in ClientStreams : id[s] \in Clients \cup {None}
    /\ \A s \in ProxyStreams :
         /\ id[s] \in Proxies \cup {None}
         /\ id[s] # None => cidr[s] \in MayManage[id[s]]
    /\ \A s \in Streams :
         /\ pc[s] = "unopened" <=> peer[s] = "idle"
         /\ pc[s] = "unopened" <=> id[s] = None
         /\ pc[s] = "unopened" => ~registered[s] /\ cidr[s] = {}
         /\ pc[s] = "send" => pkt[s] \in Conns /\ to[s] \in Streams

TypeInv == TypeOK /\ StreamsOK

-----------------------------------------------------------------------------
(* Lemmas on message queues.                                                *)
LEMMA AppendInQueue ==
    ASSUME NEW S, NEW q \in Seq(S), NEW m \in S, NEW x, InQueue(Append(q, m), x)
    PROVE  x = m \/ InQueue(q, x)
  BY DEF InQueue

LEMMA TailInQueue ==
    ASSUME NEW S, NEW q \in Seq(S), q # <<>>, NEW x, InQueue(Tail(q), x)
    PROVE  InQueue(q, x)
<1>1. PICK n \in 1 .. Len(Tail(q)) : Tail(q)[n] = x
  BY DEF InQueue
<1>2. n + 1 \in 1 .. Len(q) /\ q[n + 1] = x
  BY <1>1
<1> QED
  BY <1>2 DEF InQueue

LEMMA HeadInQueue ==
    ASSUME NEW S, NEW q \in Seq(S), q # <<>>
    PROVE  Head(q) \in S /\ InQueue(q, Head(q)) /\ Tail(q) \in Seq(S)
<1>1. 1 \in 1 .. Len(q) /\ q[1] = Head(q)
  OBVIOUS
<1> QED
  BY <1>1 DEF InQueue

LEMMA EmptyQueue ==
    ASSUME NEW x PROVE ~InQueue(<<>>, x)
  BY DEF InQueue

(* What a handler receives: of the queues only its own changes, by its      *)
(* head, and a packet names a connection.                                   *)
LEMMA ReceivedFacts ==
    ASSUME TypeOK, NEW s \in Streams, NEW type, Received(s, type)
    PROVE  /\ pc[s] = "recv"
           /\ up' \in [Streams -> Seq(UpMsg)]
           /\ \A r \in Streams : r # s => up'[r] = up[r]
           /\ \A r \in Streams : \A x : InQueue(up'[r], x) => InQueue(up[r], x)
           /\ type = "packet" =>
                /\ Head(up[s]).conn \in Conns
                /\ InQueue(up[s], PacketMsg(Head(up[s]).conn))
<1>1. up[s] \in Seq(UpMsg) /\ up[s] # <<>> /\ up' = [up EXCEPT ![s] = Tail(@)]
  BY DEF TypeOK, Received
<1>2. Head(up[s]) \in UpMsg /\ InQueue(up[s], Head(up[s])) /\ Tail(up[s]) \in Seq(UpMsg)
  BY <1>1, HeadInQueue
<1>3. up' \in [Streams -> Seq(UpMsg)]
  BY <1>1, <1>2 DEF TypeOK
<1>4. ASSUME NEW r \in Streams, NEW x, InQueue(up'[r], x)
      PROVE  InQueue(up[r], x)
  <2>1. CASE r = s
    <3>1. up'[r] = Tail(up[s])
      BY <1>1, <2>1 DEF TypeOK
    <3> QED
      BY <3>1, <1>1, <1>4, <2>1, TailInQueue
  <2>2. CASE r # s
    BY <2>2, <1>1, <1>4 DEF TypeOK
  <2> QED
    BY <2>1, <2>2
<1>5. ASSUME type = "packet"
      PROVE  /\ Head(up[s]).conn \in Conns
             /\ InQueue(up[s], PacketMsg(Head(up[s]).conn))
  <2>1. Head(up[s]).type = "packet"
    BY <1>5 DEF Received
  <2>2. PICK c \in Conns : Head(up[s]) = PacketMsg(c)
    BY <1>2, <2>1 DEF UpMsg, RegisterMsg
  <2>3. Head(up[s]).conn = c
    BY <2>2 DEF PacketMsg
  <2> QED
    BY <2>2, <2>3, <1>2
<1> QED
  BY <1>1, <1>3, <1>4, <1>5 DEF TypeOK, Received

-----------------------------------------------------------------------------
(***************************************************************************)
(* Type correctness.                                                       *)
(***************************************************************************)
LEMMA InitTypeInv == Init => TypeInv
  BY RegistryAssumption
  DEF Init, TypeInv, TypeOK, StreamsOK, Streams

(* The pieces the actions are made of keep the types of what they change.   *)
LEMMA DeliverType ==
    ASSUME TypeOK, NEW t \in Streams, NEW m \in DownMsg, Deliver(t, m)
    PROVE  down' \in [Streams -> Seq(DownMsg)]
  BY DEF TypeOK, Deliver

LEMMA TouchedType ==
    ASSUME TypeOK, NEW c \in Conns, connections[c] # None
    PROVE  Touched(c) \in [Conns -> Route \cup {None}]
<1>1. connections[c] \in Route
  BY DEF TypeOK
<1>2. [connections[c] EXCEPT !.idle = 0] \in Route
  BY <1>1, RegistryAssumption DEF Route
<1>3. Touched(c) = [connections EXCEPT ![c] = [connections[c] EXCEPT !.idle = 0]]
  BY DEF Touched
<1> QED
  BY <1>2, <1>3 DEF TypeOK

(* A handler that routes a packet either begins a Send or goes on.          *)
LEMMA RoutingType ==
    ASSUME TypeInv, NEW s \in Streams, NEW c \in Conns,
           \/ s \in ClientStreams /\ id[s] # None
                /\ (CreateRoute(s, c) \/ NoProxyFound(c) \/ FollowRoute(s, c))
           \/ UnknownConnection(c) \/ ReturnRoute(s, c)
    PROVE  /\ connections' \in [Conns -> Route \cup {None}]
           /\ \/ Refuse
              \/ \E t \in Streams : BeginSend(s, c, t)
<1> USE DEF TypeInv
<1>1. CASE s \in ClientStreams /\ id[s] # None /\ CreateRoute(s, c)
  <2>1. PICK i \in Covering(DestOf[c]) :
          /\ connections' = [connections EXCEPT
                ![c] = [client |-> id[s], proxy |-> i, idle |-> 0]]
          /\ BeginSend(s, c, proxys[i])
    BY <1>1 DEF CreateRoute
  <2>2. i \in Proxies /\ proxys[i] \in Streams
    BY DEF Covering, TypeOK, Streams
  <2>3. [client |-> id[s], proxy |-> i, idle |-> 0] \in Route
    BY <1>1, <2>2, RegistryAssumption DEF StreamsOK, Route
  <2> QED
    BY <2>1, <2>2, <2>3 DEF TypeOK
<1>2. CASE NoProxyFound(c) \/ UnknownConnection(c)
  BY <1>2 DEF NoProxyFound, UnknownConnection, TypeOK
<1>3. CASE FollowRoute(s, c)
  <2>1. connections[c] \in Route
    BY <1>3 DEF FollowRoute, TypeOK
  <2>2. proxys[connections[c].proxy] # None => proxys[connections[c].proxy] \in Streams
    BY <2>1 DEF Route, TypeOK, Streams
  <2> QED
    BY <1>3, <2>2, TouchedType DEF FollowRoute
<1>4. CASE ReturnRoute(s, c)
  <2>1. connections[c] \in Route
    BY <1>4 DEF ReturnRoute, TypeOK
  <2>2. clients[connections[c].client] # None => clients[connections[c].client] \in Streams
    BY <2>1 DEF Route, TypeOK, Streams
  <2> QED
    BY <1>4, <2>2, TouchedType DEF ReturnRoute
<1> QED
  BY <1>1, <1>2, <1>3, <1>4

LEMMA HangupType ==
    ASSUME TypeOK, NEW s \in Streams, Hangup(s)
    PROVE  /\ peer' \in [Streams -> {"idle", "wait", "up", "closing", "dead"}]
           /\ down' \in [Streams -> Seq(DownMsg)]
           /\ opened' \in [Streams -> SUBSET Conns]
  BY DEF TypeOK, Hangup

LEMMA NextTypeInv == TypeInv /\ [Next]_vars => TypeInv'
<1> SUFFICES ASSUME TypeInv, [Next]_vars PROVE TypeInv'
  OBVIOUS
<1> USE DEF TypeInv
<1>1. ASSUME NEW s \in Streams, RegisterClientStream(s) PROVE TypeInv'
  <2>1. s \in ClientStreams /\ pc[s] = "recv" /\ up' \in [Streams -> Seq(UpMsg)]
    BY <1>1, ReceivedFacts DEF RegisterClientStream
  <2>2. clients' \in [Clients -> ClientStreams \cup {None}]
    BY <1>1, <2>1 DEF RegisterClientStream, TypeOK
  <2>3. registered' \in [Streams -> BOOLEAN]
    BY <1>1 DEF RegisterClientStream, TypeOK
  <2>4. TypeOK'
    BY <1>1, <2>1, <2>2, <2>3 DEF RegisterClientStream, TypeOK
  <2>5. StreamsOK'
    BY <1>1, <2>1 DEF RegisterClientStream, TypeOK, StreamsOK
  <2> QED
    BY <2>4, <2>5
<1>2. ASSUME NEW s \in Streams, RegisterProxyStream(s) PROVE TypeInv'
  <2>1. s \in ProxyStreams /\ pc[s] = "recv" /\ up' \in [Streams -> Seq(UpMsg)]
    BY <1>2, ReceivedFacts DEF RegisterProxyStream
  <2>2. proxys' \in [Proxies -> ProxyStreams \cup {None}]
    BY <1>2, <2>1 DEF RegisterProxyStream, TypeOK
  <2>3. registered' \in [Streams -> BOOLEAN]
    BY <1>2 DEF RegisterProxyStream, TypeOK
  <2>4. TypeOK'
    BY <1>2, <2>1, <2>2, <2>3 DEF RegisterProxyStream, TypeOK
  <2>5. StreamsOK'
    BY <1>2, <2>1 DEF RegisterProxyStream, TypeOK, StreamsOK
  <2> QED
    BY <2>4, <2>5
<1>3. ASSUME NEW s \in Streams, SendAck(s) PROVE TypeInv'
  <2>1. AckMsg(registered[s]) \in DownMsg
    BY DEF TypeOK, DownMsg
  <2>2. down' \in [Streams -> Seq(DownMsg)]
    BY <1>3, <2>1, DeliverType DEF SendAck, TypeOK
  <2>3. TypeOK'
    BY <1>3, <2>2 DEF SendAck, TypeOK, registryVars
  <2>4. StreamsOK'
    BY <1>3 DEF SendAck, TypeOK, StreamsOK, registryVars
  <2> QED
    BY <2>3, <2>4
<1>4. ASSUME NEW s \in Streams, RouteFromClient(s) \/ RouteFromProxy(s) PROVE TypeInv'
  <2> DEFINE c == Head(up[s]).conn
  <2>1. /\ pc[s] = "recv" /\ c \in Conns /\ up' \in [Streams -> Seq(UpMsg)]
    BY <1>4, ReceivedFacts DEF RouteFromClient, RouteFromProxy
  <2>2. \/ /\ s \in ClientStreams /\ id[s] # None
           /\ CreateRoute(s, c) \/ NoProxyFound(c) \/ FollowRoute(s, c)
        \/ UnknownConnection(c) \/ ReturnRoute(s, c)
    BY <1>4, <2>1 DEF RouteFromClient, RouteFromProxy, StreamsOK
  <2>3. /\ connections' \in [Conns -> Route \cup {None}]
        /\ Refuse \/ \E t \in Streams : BeginSend(s, c, t)
    BY <2>1, <2>2, RoutingType
  <2>4. UNCHANGED <<clients, proxys, registered, down, peer, id, cidr, opened, origin>>
    BY <1>4 DEF RouteFromClient, RouteFromProxy
  <2>5. CASE Refuse
    <3>1. TypeOK'
      BY <2>1, <2>3, <2>4, <2>5 DEF TypeOK, Refuse
    <3>2. StreamsOK'
      BY <2>4, <2>5 DEF StreamsOK, Refuse
    <3> QED
      BY <3>1, <3>2
  <2>6. ASSUME NEW t \in Streams, BeginSend(s, c, t) PROVE TypeInv'
    <3>1. /\ pc' \in [Streams -> {"unopened", "recv", "ack", "send", "return", "done"}]
          /\ pkt' \in [Streams -> Conns \cup {None}]
          /\ to' \in [Streams -> Streams \cup {None}]
      BY <2>1, <2>6 DEF TypeOK, BeginSend
    <3>2. TypeOK'
      BY <2>1, <2>3, <2>4, <3>1 DEF TypeOK
    <3>3. StreamsOK'
      BY <2>1, <2>4, <2>6 DEF TypeOK, StreamsOK, BeginSend
    <3> QED
      BY <3>2, <3>3
  <2> QED
    BY <2>3, <2>5, <2>6
<1>5. ASSUME NEW s \in Streams, Send(s) PROVE TypeInv'
  <2>1. pkt[s] \in Conns /\ to[s] \in Streams
    BY <1>5 DEF Send, StreamsOK
  <2>2. PacketMsg(pkt[s]) \in DownMsg
    BY <2>1 DEF DownMsg
  <2>3. down' \in [Streams -> Seq(DownMsg)]
    BY <1>5, <2>1, <2>2, DeliverType DEF Send, TypeOK
  <2>4. TypeOK'
    BY <1>5, <2>3 DEF Send, TypeOK, registryVars
  <2>5. StreamsOK'
    BY <1>5 DEF Send, TypeOK, StreamsOK, registryVars
  <2> QED
    BY <2>4, <2>5
<1>6. ASSUME NEW s \in Streams, RecvEnd(s) PROVE TypeInv'
  <2>1. TypeOK'
    BY <1>6 DEF RecvEnd, TypeOK, registryVars
  <2>2. StreamsOK'
    BY <1>6 DEF RecvEnd, TypeOK, StreamsOK, registryVars
  <2> QED
    BY <2>1, <2>2
<1>7. ASSUME NEW s \in Streams, Return(s) PROVE TypeInv'
  <2>1. clients' \in [Clients -> ClientStreams \cup {None}]
    BY <1>7 DEF Return, UnregisterClient, UnregisterProxy, TypeOK
  <2>2. proxys' \in [Proxies -> ProxyStreams \cup {None}]
    BY <1>7 DEF Return, UnregisterClient, UnregisterProxy, TypeOK
  <2>3. TypeOK'
    BY <1>7, <2>1, <2>2 DEF Return, TypeOK
  <2>4. StreamsOK'
    BY <1>7 DEF Return, TypeOK, StreamsOK
  <2> QED
    BY <2>3, <2>4
<1>8. ASSUME NEW s \in Streams, OpenClient(s) \/ OpenProxy(s) PROVE TypeInv'
  <2>1. PICK i \in Clients \cup Proxies, range \in SUBSET Dests :
          /\ Open(s, i, range)
          /\ \/ s \in ClientStreams /\ i \in Clients
             \/ s \in ProxyStreams /\ i \in Proxies /\ range \in MayManage[i]
    BY <1>8, RegistryAssumption DEF OpenClient, OpenProxy
  <2>2. <<RegisterMsg>> \in Seq(UpMsg) /\ i # None
    BY RegistryAssumption DEF UpMsg
  <2>3. TypeOK'
    BY <2>1, <2>2 DEF Open, TypeOK, registryVars
  <2>4. StreamsOK'
    BY <2>1, <2>2, RegistryAssumption DEF Open, TypeOK, StreamsOK, registryVars
  <2> QED
    BY <2>3, <2>4
<1>9. ASSUME NEW s \in Streams, AwaitAck(s) \/ PeerRecv(s) PROVE TypeInv'
  <2>1. /\ down[s] # <<>> /\ down[s] \in Seq(DownMsg) /\ peer[s] # "idle"
        /\ Head(down[s]) \in DownMsg /\ Tail(down[s]) \in Seq(DownMsg)
    BY <1>9, HeadInQueue DEF AwaitAck, PeerRecv, TypeOK
  <2>2. Head(down[s]).type = "packet" => Head(down[s]).conn \in Conns
    BY <2>1 DEF DownMsg, AckMsg, PacketMsg
  <2>3. /\ peer' \in [Streams -> {"idle", "wait", "up", "closing", "dead"}]
        /\ peer'[s] # "idle" /\ \A r \in Streams : r # s => peer'[r] = peer[r]
    BY <1>9, <2>1 DEF AwaitAck, PeerRecv, Hangup, TypeOK
  <2>4. /\ down' \in [Streams -> Seq(DownMsg)]
        /\ opened' \in [Streams -> SUBSET Conns]
    <3>1. CASE Hangup(s)
      BY <3>1, HangupType
    <3>2. CASE ~Hangup(s)
      <4>1. down' = [down EXCEPT ![s] = Tail(@)]
        BY <1>9, <3>2 DEF AwaitAck, PeerRecv
      <4>2. \/ UNCHANGED opened
            \/ /\ Head(down[s]).type = "packet"
               /\ opened' = [opened EXCEPT ![s] = @ \cup {Head(down[s]).conn}]
        BY <1>9, <3>2 DEF AwaitAck, PeerRecv
      <4>3. down' \in [Streams -> Seq(DownMsg)]
        BY <2>1, <4>1 DEF TypeOK
      <4>4. opened' \in [Streams -> SUBSET Conns]
        <5>1. CASE UNCHANGED opened
          BY <5>1 DEF TypeOK
        <5>2. ASSUME NEW c \in Conns, opened' = [opened EXCEPT ![s] = @ \cup {c}]
              PROVE  opened' \in [Streams -> SUBSET Conns]
          BY <5>2 DEF TypeOK
        <5> QED
          BY <2>2, <4>2, <5>1, <5>2
      <4> QED
        BY <4>3, <4>4
    <3> QED
      BY <3>1, <3>2
  <2>5. UNCHANGED <<registryVars, handlerVars, up, id, cidr, origin>>
    BY <1>9 DEF AwaitAck, PeerRecv
  <2>6. TypeOK'
    BY <2>3, <2>4, <2>5 DEF TypeOK, registryVars, handlerVars
  <2>7. StreamsOK'
    BY <2>1, <2>3, <2>5 DEF StreamsOK, registryVars, handlerVars
  <2> QED
    BY <2>6, <2>7
<1>10. ASSUME NEW s \in Streams, NEW c \in Conns, PeerSend(s, c) PROVE TypeInv'
  <2>1. PacketMsg(c) \in UpMsg /\ peer[s] = "up"
    BY <1>10 DEF UpMsg, PeerSend
  <2>2. s \in ClientStreams => id[s] \in Clients
    BY <2>1 DEF StreamsOK
  <2>3. TypeOK'
    BY <1>10, <2>1, <2>2 DEF PeerSend, TypeOK, registryVars, handlerVars
  <2>4. StreamsOK'
    BY <1>10 DEF PeerSend, StreamsOK, registryVars, handlerVars
  <2> QED
    BY <2>3, <2>4
<1>11. ASSUME NEW s \in Streams, HalfClose(s) \/ Crash(s) \/ StreamEnd(s) PROVE TypeInv'
  <2>1. /\ peer' \in [Streams -> {"idle", "wait", "up", "closing", "dead"}]
        /\ down' \in [Streams -> Seq(DownMsg)] /\ UNCHANGED opened
        /\ peer[s] # "idle" /\ peer'[s] # "idle"
        /\ \A r \in Streams : r # s => peer'[r] = peer[r]
    <3>1. CASE HalfClose(s)
      BY <3>1 DEF HalfClose, TypeOK
    <3>2. CASE Crash(s) \/ StreamEnd(s)
      BY <3>2, HangupType DEF Crash, StreamEnd, Hangup, TypeOK
    <3> QED
      BY <1>11, <3>1, <3>2
  <2>2. UNCHANGED <<registryVars, handlerVars, up, id, cidr, origin>>
    BY <1>11 DEF HalfClose, Crash, StreamEnd
  <2>3. TypeOK'
    BY <2>1, <2>2 DEF TypeOK, registryVars, handlerVars
  <2>4. StreamsOK'
    BY <2>1, <2>2 DEF StreamsOK, registryVars, handlerVars
  <2> QED
    BY <2>3, <2>4
<1>12. ASSUME Tick \/ CleanupStaleConnections PROVE TypeInv'
  <2>1. ASSUME NEW r \in Route \cup {None} PROVE Aged(r) \in Route \cup {None}
    <3>1. CASE r # None /\ r.idle <= IdleTimeout
      <4>1. r \in Route /\ r.idle + 1 \in 0 .. IdleTimeout + 1
        BY <3>1, RegistryAssumption DEF Route
      <4>2. [r EXCEPT !.idle = r.idle + 1] \in Route
        BY <4>1 DEF Route
      <4> QED
        BY <3>1, <4>2 DEF Aged
    <3>2. CASE ~(r # None /\ r.idle <= IdleTimeout)
      BY <3>2 DEF Aged
    <3> QED
      BY <3>1, <3>2
  <2>2. connections' \in [Conns -> Route \cup {None}]
    BY <1>12, <2>1 DEF Tick, CleanupStaleConnections, TypeOK
  <2>3. UNCHANGED <<clients, proxys, handlerVars, peerVars>>
    BY <1>12 DEF Tick, CleanupStaleConnections
  <2>4. TypeOK'
    BY <2>2, <2>3 DEF TypeOK, handlerVars, peerVars
  <2>5. StreamsOK'
    BY <2>3 DEF StreamsOK, handlerVars, peerVars
  <2> QED
    BY <2>4, <2>5
<1>13. ASSUME UNCHANGED vars PROVE TypeInv'
  BY <1>13 DEF vars, TypeOK, StreamsOK
<1> QED
  BY <1>1, <1>2, <1>3, <1>4, <1>5, <1>6, <1>7, <1>8, <1>9, <1>10, <1>11, <1>12, <1>13
  DEF Next, Handler, Peer, Finished

(* Every variable keeps its type, and no stream is ever without the ID its  *)
(* handler looks up, whatever messages, losses and timeouts interleave.     *)
THEOREM TypeCorrect == Spec => [](TypeOK /\ StreamsOK)
<1>1. Init => TypeInv
  BY InitTypeInv
<1>2. TypeInv /\ [Next]_vars => TypeInv'
  BY NextTypeInv
<1> QED
  BY <1>1, <1>2, PTL DEF Spec, TypeInv

-----------------------------------------------------------------------------
(***************************************************************************)
(* Ownership of the directory.                                             *)
(***************************************************************************)
(* RegistryOwned says the same of both maps.  Of one map dir from Ids to S: *)
(* ident, reg and live are the IDs of the streams, those that registered    *)
(* and those whose handler lives.                                           *)
Owned(dir, Ids, S, ident, reg, live) ==
    /\ \A i \in Ids : dir[i] # None => ident[dir[i]] = i /\ dir[i] \in reg \cap live
    /\ \A s \in S : s \in reg \cap live => dir[ident[s]] = s

RegisteredStreams == {s \in Streams : registered[s]}
LiveStreams == {s \in Streams : Live(s)}

LEMMA OwnedTwice ==
    TypeOK => (RegistryOwned <=>
      /\ Owned(clients, Clients, ClientStreams, id, RegisteredStreams, LiveStreams)
      /\ Owned(proxys, Proxies, ProxyStreams, id, RegisteredStreams, LiveStreams))
<1> SUFFICES ASSUME TypeOK
             PROVE  RegistryOwned <=>
      /\ Owned(clients, Clients, ClientStreams, id, RegisteredStreams, LiveStreams)
      /\ Owned(proxys, Proxies, ProxyStreams, id, RegisteredStreams, LiveStreams)
  OBVIOUS
<1>1. /\ \A i \in Clients : clients[i] # None => clients[i] \in Streams
      /\ \A i \in Proxies : proxys[i] # None => proxys[i] \in Streams
  BY DEF TypeOK, Streams
<1> QED
  BY <1>1 DEF RegistryOwned, Owned, RegisteredStreams, LiveStreams, Streams

(* A stream registers under an ID nobody holds.                             *)
LEMMA OwnedRegister ==
    ASSUME NEW Ids, NEW S, NEW dir \in [Ids -> S \cup {None}], None \notin S,
           NEW ident, NEW reg, NEW live, NEW s \in S,
           Owned(dir, Ids, S, ident, reg, live),
           \A r \in S : r \in live => ident[r] \in Ids,
           s \in live, dir[ident[s]] = None
    PROVE  Owned([dir EXCEPT ![ident[s]] = s], Ids, S, ident, reg \cup {s}, live)
<1> DEFINE dir2 == [dir EXCEPT ![ident[s]] = s]
<1>1. /\ ident[s] \in Ids /\ dir2[ident[s]] = s
      /\ \A i \in Ids : i # ident[s] => dir2[i] = dir[i]
  OBVIOUS
<1>2. ASSUME NEW i \in Ids, dir2[i] # None
      PROVE  ident[dir2[i]] = i /\ dir2[i] \in (reg \cup {s}) \cap live
  BY <1>1, <1>2 DEF Owned
<1>3. ASSUME NEW r \in S, r \in (reg \cup {s}) \cap live
      PROVE  dir2[ident[r]] = r
  <2>1. CASE r = s
    BY <1>1, <2>1
  <2>2. CASE r # s
    <3>1. dir[ident[r]] = r /\ r # None /\ ident[r] \in Ids
      BY <1>3, <2>2 DEF Owned
    <3> QED
      BY <1>1, <3>1
  <2> QED
    BY <2>1, <2>2
<1> QED
  BY <1>2, <1>3 DEF Owned

(* A stream's handler returns and takes its entry along.                    *)
LEMMA OwnedReturn ==
    ASSUME NEW Ids, NEW S, NEW dir \in [Ids -> S \cup {None}], None \notin S,
           NEW ident, NEW reg, NEW live, NEW s \in S,
           Owned(dir, Ids, S, ident, reg, live),
           \A r \in S : r \in live => ident[r] \in Ids,
           s \in live
    PROVE  Owned(IF s \in reg THEN [dir EXCEPT ![ident[s]] = None] ELSE dir,
                 Ids, S, ident, reg, live \ {s})
<1>1. CASE s \in reg
  <2> DEFINE dir2 == [dir EXCEPT ![ident[s]] = None]
  <2>1. /\ ident[s] \in Ids /\ dir2[ident[s]] = None /\ dir[ident[s]] = s
        /\ \A i \in Ids : i # ident[s] => dir2[i] = dir[i]
    BY <1>1 DEF Owned
  <2>2. ASSUME NEW i \in Ids, dir2[i] # None
        PROVE  ident[dir2[i]] = i /\ dir2[i] \in reg \cap (live \ {s})
    BY <2>1, <2>2 DEF Owned
  <2>3. ASSUME NEW r \in S, r \in reg \cap (live \ {s})
        PROVE  dir2[ident[r]] = r
    BY <2>1, <2>3 DEF Owned
  <2> QED
    BY <1>1, <2>2, <2>3 DEF Owned
<1>2. CASE s \notin reg
  BY <1>2 DEF Owned
<1> QED
  BY <1>1, <1>2

(* What happens to streams of the other kind, or to a stream that is not    *)
(* registered, does not matter.                                             *)
LEMMA OwnedOther ==
    ASSUME NEW Ids, NEW S, NEW dir \in [Ids -> S \cup {None}],
           NEW ident, NEW reg, NEW live, NEW ident2, NEW reg2, NEW live2,
           Owned(dir, Ids, S, ident, reg, live),
           \A r \in S : r \in reg \cap live <=> r \in reg2 \cap live2,
           \A r \in S : r \in reg \cap live => ident2[r] = ident[r]
    PROVE  Owned(dir, Ids, S, ident2, reg2, live2)
  BY DEF Owned

LEMMA NextOwned == TypeInv /\ RegistryOwned /\ [Next]_vars => RegistryOwned'
<1> SUFFICES ASSUME TypeInv, RegistryOwned, [Next]_vars PROVE RegistryOwned'
  OBVIOUS
<1> DEFINE Reg == RegisteredStreams
           Lv == LiveStreams
           OwnedC == Owned(clients, Clients, ClientStreams, id, Reg, Lv)
           OwnedP == Owned(proxys, Proxies, ProxyStreams, id, Reg, Lv)
<1>1. TypeOK /\ StreamsOK /\ TypeOK' /\ OwnedC /\ OwnedP
  BY NextTypeInv, OwnedTwice DEF TypeInv
<1>2. /\ clients \in [Clients -> ClientStreams \cup {None}]
      /\ proxys \in [Proxies -> ProxyStreams \cup {None}]
      /\ None \notin ClientStreams /\ None \notin ProxyStreams
      /\ ClientStreams \cap ProxyStreams = {}
      /\ \A r \in ClientStreams : r \in Lv => id[r] \in Clients
      /\ \A r \in ProxyStreams : r \in Lv => id[r] \in Proxies
  BY <1>1, RegistryAssumption DEF TypeOK, StreamsOK, Streams, LiveStreams, Live
<1>3. SUFFICES OwnedC' /\ OwnedP'
  BY <1>1, OwnedTwice, PTL
<1> HIDE DEF Reg, Lv
<1>4. ASSUME UNCHANGED <<clients, proxys>>,
             \A r \in Streams : r \in Reg \cap Lv <=> r \in Reg' \cap Lv',
             \A r \in Streams : r \in Reg \cap Lv => id'[r] = id[r]
      PROVE  OwnedC' /\ OwnedP'
  <2>1. \A r \in ClientStreams \cup ProxyStreams :
          /\ r \in Reg \cap Lv <=> r \in Reg' \cap Lv'
          /\ r \in Reg \cap Lv => id'[r] = id[r]
    BY <1>4 DEF Streams
  <2>2. Owned(clients, Clients, ClientStreams, id', Reg', Lv')
    BY <1>1, <1>2, <2>1, OwnedOther
  <2>3. Owned(proxys, Proxies, ProxyStreams, id', Reg', Lv')
    BY <1>1, <1>2, <2>1, OwnedOther
  <2> QED
    BY <1>4, <2>2, <2>3
<1>5. ASSUME UNCHANGED <<clients, proxys, registered, id>>,
             \A r \in Streams : Live(r)' <=> Live(r)
      PROVE  OwnedC' /\ OwnedP'
  <2>1. Reg' = Reg /\ Lv' = Lv
    BY <1>5 DEF Reg, Lv, RegisteredStreams, LiveStreams
  <2> QED
    BY <1>4, <1>5, <2>1
<1>6. ASSUME NEW s \in Streams, RegisterClientStream(s) \/ RegisterProxyStream(s)
      PROVE  OwnedC' /\ OwnedP'
  <2>1. /\ pc[s] = "recv" /\ pc' = [pc EXCEPT ![s] = "ack"] /\ UNCHANGED id
    BY <1>1, <1>6, ReceivedFacts DEF RegisterClientStream, RegisterProxyStream
  <2>2. /\ \A r \in Streams : Live(r)' <=> Live(r)
        /\ s \in Lv /\ Lv' = Lv
    BY <1>1, <2>1 DEF Live, TypeOK, Lv, LiveStreams
  <2>3. CASE UNCHANGED <<clients, proxys, registered>>
    BY <1>5, <2>1, <2>2, <2>3
  <2>4. CASE registered' = [registered EXCEPT ![s] = TRUE]
    <3>1. Reg' = Reg \cup {s}
      BY <1>1, <2>4 DEF Reg, RegisteredStreams, TypeOK
    <3>2. CASE /\ s \in ClientStreams /\ clients[id[s]] = None /\ UNCHANGED proxys
               /\ clients' = [clients EXCEPT ![id[s]] = s]
      <4>1. OwnedC'
        BY <1>1, <1>2, <2>1, <2>2, <3>1, <3>2, OwnedRegister
      <4>2. \A r \in ProxyStreams : r \in Reg \cap Lv <=> r \in Reg' \cap Lv'
        BY <1>2, <2>2, <3>1, <3>2
      <4>3. OwnedP'
        BY <1>1, <1>2, <2>1, <3>2, <4>2, OwnedOther
      <4> QED
        BY <4>1, <4>3
    <3>3. CASE /\ s \in ProxyStreams /\ proxys[id[s]] = None /\ UNCHANGED clients
               /\ proxys' = [proxys EXCEPT ![id[s]] = s]
      <4>1. OwnedP'
        BY <1>1, <1>2, <2>1, <2>2, <3>1, <3>3, OwnedRegister
      <4>2. \A r \in ClientStreams : r \in Reg \cap Lv <=> r \in Reg' \cap Lv'
        BY <1>2, <2>2, <3>1, <3>3
      <4>3. OwnedC'
        BY <1>1, <1>2, <2>1, <3>3, <4>2, OwnedOther
      <4> QED
        BY <4>1, <4>3
    <3>4. CASE UNCHANGED registered
      BY <1>5, <1>6, <2>1, <2>2, <3>4, <3>2, <3>3 DEF RegisterClientStream, RegisterProxyStream
    <3> QED
      BY <1>6, <3>2, <3>3, <3>4 DEF RegisterClientStream, RegisterProxyStream
  <2> QED
    BY <1>6, <2>3, <2>4 DEF RegisterClientStream, RegisterProxyStream
<1>7. ASSUME NEW s \in Streams, Return(s) PROVE OwnedC' /\ OwnedP'
  <2>1. /\ pc[s] = "return" /\ pc' = [pc EXCEPT ![s] = "done"]
        /\ UNCHANGED <<registered, id>>
    BY <1>7 DEF Return
  <2>2. s \in Lv /\ Lv' = Lv \ {s} /\ Reg' = Reg /\ (registered[s] <=> s \in Reg)
    BY <1>1, <2>1 DEF Live, TypeOK, Lv, Reg, LiveStreams, RegisteredStreams
  <2>3. CASE UnregisterClient(s)
    <3>1. /\ s \in ClientStreams /\ UNCHANGED proxys
          /\ clients' = IF s \in Reg THEN [clients EXCEPT ![id[s]] = None] ELSE clients
      BY <2>2, <2>3 DEF UnregisterClient
    <3>2. OwnedC'
      BY <1>1, <1>2, <2>1, <2>2, <3>1, OwnedReturn
    <3>3. \A r \in ProxyStreams : r \in Reg \cap Lv <=> r \in Reg' \cap Lv'
      BY <1>2, <2>2, <3>1
    <3>4. OwnedP'
      BY <1>1, <1>2, <2>1, <3>1, <3>3, OwnedOther
    <3> QED
      BY <3>2, <3>4
  <2>4. CASE UnregisterProxy(s)
    <3>1. /\ s \in ProxyStreams /\ UNCHANGED clients
          /\ proxys' = IF s \in Reg THEN [proxys EXCEPT ![id[s]] = None] ELSE proxys
      BY <2>2, <2>4 DEF UnregisterProxy
    <3>2. OwnedP'
      BY <1>1, <1>2, <2>1, <2>2, <3>1, OwnedReturn
    <3>3. \A r \in ClientStreams : r \in Reg \cap Lv <=> r \in Reg' \cap Lv'
      BY <1>2, <2>2, <3>1
    <3>4. OwnedC'
      BY <1>1, <1>2, <2>1, <3>1, <3>3, OwnedOther
    <3> QED
      BY <3>2, <3>4
  <2> QED
    BY <1>7, <2>3, <2>4 DEF Return
<1>8. ASSUME NEW s \in Streams, OpenClient(s) \/ OpenProxy(s) PROVE OwnedC' /\ OwnedP'
  <2>1. /\ peer[s] = "idle" /\ UNCHANGED <<clients, proxys, registered>>
        /\ pc' = [pc EXCEPT ![s] = "recv"]
        /\ \A r \in Streams : r # s => id'[r] = id[r]
    BY <1>1, <1>8 DEF OpenClient, OpenProxy, Open, registryVars, TypeOK
  <2>2. ~registered[s] /\ ~registered'[s] /\ s \notin Reg /\ s \notin Reg'
    BY <1>1, <2>1 DEF StreamsOK, Reg, RegisteredStreams
  <2>3. \A r \in Streams : r # s => /\ r \in Reg <=> r \in Reg'
                                    /\ r \in Lv <=> r \in Lv'
    BY <1>1, <2>1 DEF TypeOK, Reg, Lv, RegisteredStreams, LiveStreams, Live
  <2> QED
    BY <1>4, <2>1, <2>2, <2>3
<1>9. ASSUME NEW s \in Streams,
             SendAck(s) \/ RouteFromClient(s) \/ RouteFromProxy(s) \/ Send(s) \/ RecvEnd(s)
      PROVE  OwnedC' /\ OwnedP'
  <2>1. UNCHANGED <<clients, proxys, registered, id>>
    BY <1>9 DEF SendAck, RouteFromClient, RouteFromProxy, Send, RecvEnd, registryVars
  <2>2. /\ Live(s)
        /\ \/ UNCHANGED pc
           \/ \E l \in {"recv", "send", "return"} : pc' = [pc EXCEPT ![s] = l]
    BY <1>9 DEF SendAck, RouteFromClient, RouteFromProxy, Send, RecvEnd, Received, Live,
        CreateRoute, NoProxyFound, FollowRoute, UnknownConnection, ReturnRoute,
        Refuse, BeginSend
  <2>3. \A r \in Streams : Live(r)' <=> Live(r)
    BY <1>1, <2>2 DEF Live, TypeOK
  <2> QED
    BY <1>5, <2>1, <2>3
<1>10. ASSUME NEW s \in Streams,
              \/ AwaitAck(s) \/ PeerRecv(s) \/ HalfClose(s) \/ Crash(s) \/ StreamEnd(s)
              \/ \E c \in Conns : PeerSend(s, c)
       PROVE  OwnedC' /\ OwnedP'
  BY <1>5, <1>10 DEF AwaitAck, PeerRecv, HalfClose, Crash, StreamEnd, PeerSend,
      registryVars, handlerVars, Live
<1>11. CASE Tick \/ CleanupStaleConnections \/ UNCHANGED vars
  BY <1>5, <1>11 DEF Tick, CleanupStaleConnections, handlerVars, peerVars, vars, Live
<1> QED
  BY <1>6, <1>7, <1>8, <1>9, <1>10, <1>11 DEF Next, Handler, Peer, Finished

(* The maps and the handlers agree at every moment: no two streams hold one *)
(* ID, and a handler that ends removes its own entry and no other.          *)
THEOREM DirectoryOwned == Spec => []RegistryOwned
<1>1. Init => TypeInv /\ RegistryOwned
  BY InitTypeInv DEF Init, RegistryOwned, Streams
<1>2. TypeInv /\ RegistryOwned /\ [Next]_vars => (TypeInv /\ RegistryOwned)'
  BY NextTypeInv, NextOwned
<1> QED
  BY <1>1, <1>2, PTL DEF Spec

-----------------------------------------------------------------------------
(***************************************************************************)
(* Where a packet may be.  The steps that put a packet on its way to a     *)
(* stream are the beginning of a Send and the Send itself.                 *)
(***************************************************************************)
LEMMA OnItsWayStep ==
    ASSUME TypeInv, [Next]_vars, NEW c \in Conns, NEW t \in Streams,
           OnItsWay(c, t)', ~OnItsWay(c, t)
    PROVE  /\ UNCHANGED <<id, cidr, clients, proxys, origin>>
           /\ \/ \E s \in ClientStreams :
                  /\ registered[s] /\ pc[s] = "recv" /\ InQueue(up[s], PacketMsg(c))
                  /\ \E i \in Proxies :
                       /\ t = proxys[i]
                       /\ \/ connections[c] = None /\ DestOf[c] \in cidr[t]
                          \/ connections[c] # None /\ connections[c].proxy = i
              \/ /\ connections[c] # None
                 /\ t = clients[connections[c].client]
                 /\ t # None
<1> USE DEF TypeInv
<1>1. ASSUME NEW s \in Streams, NEW m \in DownMsg, Deliver(s, m), InQueue(down'[t], PacketMsg(c))
      PROVE  InQueue(down[t], PacketMsg(c)) \/ (t = s /\ m = PacketMsg(c))
  <2>1. CASE t = s
    <3>1. down'[t] = Append(down[t], m) /\ down[t] \in Seq(DownMsg)
      BY <1>1, <2>1 DEF Deliver, TypeOK
    <3> QED
      BY <1>1, <2>1, <3>1, AppendInQueue
  <2>2. CASE t # s
    BY <1>1, <2>2 DEF Deliver, TypeOK
  <2> QED
    BY <2>1, <2>2
<1>2. ASSUME NEW s \in Streams,
             down' = [down EXCEPT ![s] = <<>>] \/
               (down[s] # <<>> /\ down' = [down EXCEPT ![s] = Tail(@)]),
             InQueue(down'[t], PacketMsg(c))
      PROVE  InQueue(down[t], PacketMsg(c))
  <2>1. CASE t = s
    <3>1. down[t] \in Seq(DownMsg)
      BY DEF TypeOK
    <3>2. down'[t] = <<>> \/ (down[t] # <<>> /\ down'[t] = Tail(down[t]))
      BY <1>2, <2>1 DEF TypeOK
    <3> QED
      BY <1>2, <3>1, <3>2, TailInQueue, EmptyQueue
  <2>2. CASE t # s
    BY <1>2, <2>2 DEF TypeOK
  <2> QED
    BY <2>1, <2>2
<1>3. ASSUME InQueue(down'[t], PacketMsg(c)) => InQueue(down[t], PacketMsg(c)),
             \A s \in Streams : pc'[s] = "send" =>
                pc[s] = "send" /\ to'[s] = to[s] /\ pkt'[s] = pkt[s]
      PROVE  FALSE
  BY <1>3 DEF OnItsWay
<1>4. ASSUME NEW s \in Streams, SendAck(s) PROVE FALSE
  <2>1. AckMsg(registered[s]) \in DownMsg /\ AckMsg(registered[s]) # PacketMsg(c)
    BY DEF TypeOK, DownMsg, AckMsg, PacketMsg
  <2>2. InQueue(down'[t], PacketMsg(c)) => InQueue(down[t], PacketMsg(c))
    BY <1>1, <1>4, <2>1 DEF SendAck
  <2>3. \A r \in Streams : pc'[r] = "send" =>
           pc[r] = "send" /\ to'[r] = to[r] /\ pkt'[r] = pkt[r]
    BY <1>4 DEF SendAck, TypeOK
  <2> QED
    BY <1>3, <2>2, <2>3
<1>5. ASSUME NEW s \in Streams, Send(s) PROVE FALSE
  <2>1. /\ pc[s] = "send" /\ to[s] \in Streams /\ pkt[s] \in Conns
        /\ PacketMsg(pkt[s]) \in DownMsg
    BY <1>5 DEF Send, StreamsOK, DownMsg
  <2>2. PacketMsg(pkt[s]) = PacketMsg(c) => pkt[s] = c
    BY DEF PacketMsg
  <2>3. InQueue(down'[t], PacketMsg(c)) => InQueue(down[t], PacketMsg(c))
    BY <1>1, <1>5, <2>1, <2>2 DEF Send, OnItsWay
  <2>4. \A r \in Streams : pc'[r] = "send" =>
           pc[r] = "send" /\ to'[r] = to[r] /\ pkt'[r] = pkt[r]
    BY <1>5 DEF Send, TypeOK
  <2> QED
    BY <1>3, <2>3, <2>4
<1>6. ASSUME NEW s \in Streams, RouteFromClient(s) \/ RouteFromProxy(s)
      PROVE  /\ UNCHANGED <<id, cidr, clients, proxys, origin>>
             /\ \/ \E r \in ClientStreams :
                    /\ registered[r] /\ pc[r] = "recv" /\ InQueue(up[r], PacketMsg(c))
                    /\ \E i \in Proxies :
                         /\ t = proxys[i]
                         /\ \/ connections[c] = None /\ DestOf[c] \in cidr[t]
                            \/ connections[c] # None /\ connections[c].proxy = i
                \/ /\ connections[c] # None
                   /\ t = clients[connections[c].client]
                   /\ t # None
  <2> DEFINE d == Head(up[s]).conn
  <2>1. /\ pc[s] = "recv" /\ d \in Conns /\ InQueue(up[s], PacketMsg(d))
        /\ UNCHANGED <<id, cidr, clients, proxys, origin, down>>
    BY <1>6, ReceivedFacts DEF RouteFromClient, RouteFromProxy
  <2>2. ~Refuse
    BY <1>3, <2>1 DEF Refuse
  <2>3. ASSUME NEW u, BeginSend(s, d, u) PROVE u = t /\ d = c
    <3>1. \A r \in Streams : r # s => pc'[r] = pc[r] /\ to'[r] = to[r] /\ pkt'[r] = pkt[r]
      BY <2>3 DEF BeginSend, TypeOK
    <3>2. to'[s] = u /\ pkt'[s] = d
      BY <2>3 DEF BeginSend, TypeOK
    <3> QED
      BY <2>1, <3>1, <3>2 DEF OnItsWay
  <2>4. CASE s \in ClientStreams /\ registered[s] /\ CreateRoute(s, d)
    <3>1. PICK i \in Covering(DestOf[d]) : BeginSend(s, d, proxys[i])
      BY <2>4 DEF CreateRoute
    <3>2. i \in Proxies /\ proxys[i] = t /\ d = c /\ DestOf[c] \in cidr[t]
      BY <2>3, <3>1 DEF Covering
    <3> QED
      BY <2>1, <2>4, <3>2 DEF CreateRoute
  <2>5. CASE s \in ClientStreams /\ registered[s] /\ FollowRoute(s, d)
    <3>1. connections[d] # None /\ BeginSend(s, d, proxys[connections[d].proxy])
      BY <2>2, <2>5 DEF FollowRoute
    <3>2. connections[c].proxy \in Proxies /\ proxys[connections[c].proxy] = t /\ d = c
      BY <2>3, <3>1 DEF TypeOK, Route
    <3> QED
      BY <2>1, <2>5, <3>1, <3>2
  <2>6. CASE ReturnRoute(s, d)
    <3>1. /\ connections[d] # None /\ clients[connections[d].client] # None
          /\ BeginSend(s, d, clients[connections[d].client])
      BY <2>2, <2>6 DEF ReturnRoute
    <3> QED
      BY <2>1, <2>3, <3>1
  <2>7. \/ s \in ClientStreams /\ registered[s] /\ (CreateRoute(s, d) \/ FollowRoute(s, d))
        \/ ReturnRoute(s, d)
    BY <1>6, <2>2 DEF RouteFromClient, RouteFromProxy, NoProxyFound, UnknownConnection
  <2> QED
    BY <2>4, <2>5, <2>6, <2>7
<1>7. ASSUME NEW s \in Streams,
             \/ RegisterClientStream(s) \/ RegisterProxyStream(s) \/ RecvEnd(s) \/ Return(s)
             \/ OpenClient(s) \/ OpenProxy(s)
      PROVE  FALSE
  BY <1>3, <1>7 DEF RegisterClientStream, RegisterProxyStream, RecvEnd, Return,
      OpenClient, OpenProxy, Open, TypeOK
<1>8. ASSUME NEW s \in Streams,
             \/ AwaitAck(s) \/ PeerRecv(s) \/ HalfClose(s) \/ Crash(s) \/ StreamEnd(s)
             \/ \E d \in Conns : PeerSend(s, d)
      PROVE  FALSE
  <2>1. UNCHANGED <<pc, to, pkt>>
    BY <1>8 DEF AwaitAck, PeerRecv, HalfClose, Crash, StreamEnd, PeerSend, handlerVars
  <2>2. \/ UNCHANGED down
        \/ down' = [down EXCEPT ![s] = <<>>]
        \/ down[s] # <<>> /\ down' = [down EXCEPT ![s] = Tail(@)]
    BY <1>8 DEF AwaitAck, PeerRecv, HalfClose, Crash, StreamEnd, PeerSend, Hangup
  <2>3. InQueue(down'[t], PacketMsg(c)) => InQueue(down[t], PacketMsg(c))
    BY <1>2, <2>2
  <2> QED
    BY <1>3, <2>1, <2>3
<1>9. CASE Tick \/ CleanupStaleConnections \/ UNCHANGED vars
  BY <1>3, <1>9 DEF Tick, CleanupStaleConnections, handlerVars, peerVars, vars
<1> QED
  BY <1>4, <1>5, <1>6, <1>7, <1>8, <1>9 DEF Next, Handler, Peer, Finished

-----------------------------------------------------------------------------
(***************************************************************************)
(* Responses reach only the clients that sent packets of the connection.   *)
(* The invariant follows a connection ID from the client that sends it to  *)
(* the route it leaves behind.                                             *)
(***************************************************************************)
Provenance ==
    /\ \A c \in Conns : \A s \in ClientStreams :
         InQueue(up[s], PacketMsg(c)) => id[s] \in origin[c]
    /\ \A c \in Conns : connections[c] # None => connections[c].client \in origin[c]
    /\ DeliveredOnlyToOriginator

(* The ID of a stream that has one is never changed, nor is its CIDR, and   *)
(* no client is forgotten.                                                  *)
LEMMA Monotonic ==
    ASSUME TypeInv, [Next]_vars
    PROVE  /\ \A s \in Streams : id[s] # None => id'[s] = id[s] /\ cidr'[s] = cidr[s]
           /\ \A c \in Conns : origin[c] \subseteq origin'[c]
<1>1. ASSUME NEW s \in Streams, OpenClient(s) \/ OpenProxy(s)
      PROVE  /\ id[s] = None /\ UNCHANGED origin
             /\ \A r \in Streams : r # s => id'[r] = id[r] /\ cidr'[r] = cidr[r]
  BY <1>1 DEF OpenClient, OpenProxy, Open, TypeInv, TypeOK, StreamsOK
<1>2. ASSUME NEW s \in Streams, NEW c \in Conns, PeerSend(s, c)
      PROVE  UNCHANGED <<id, cidr>> /\ \A d \in Conns : origin[d] \subseteq origin'[d]
  BY <1>2 DEF PeerSend, TypeInv, TypeOK
<1>3. ASSUME NEW s \in Streams,
             \/ Handler(s) \/ AwaitAck(s) \/ PeerRecv(s) \/ HalfClose(s)
             \/ Crash(s) \/ StreamEnd(s)
      PROVE  UNCHANGED <<id, cidr, origin>>
  BY <1>3 DEF Handler, RegisterClientStream, RegisterProxyStream, SendAck, RouteFromClient,
      RouteFromProxy, Send, RecvEnd, Return, AwaitAck, PeerRecv, HalfClose, Crash, StreamEnd
<1>4. CASE Tick \/ CleanupStaleConnections \/ UNCHANGED vars
  BY <1>4 DEF Tick, CleanupStaleConnections, peerVars, vars
<1> QED
  BY <1>1, <1>2, <1>3, <1>4 DEF Next, Peer, Finished

(* Where the packets in the queues of the peers come from.                  *)
LEMMA UpStep ==
    ASSUME TypeInv, [Next]_vars, NEW c \in Conns, NEW s \in Streams,
           InQueue(up'[s], PacketMsg(c)), ~InQueue(up[s], PacketMsg(c))
    PROVE  /\ peer[s] = "up" /\ id'[s] = id[s]
           /\ s \in ClientStreams => id[s] \in origin'[c]
<1> USE DEF TypeInv
<1>0. s \in Streams
  OBVIOUS
<1>1. ASSUME NEW r \in Streams, NEW type, Received(r, type) PROVE FALSE
  BY <1>0, <1>1, ReceivedFacts
<1>2. ASSUME NEW r \in Streams, NEW q \in {<<>>, <<RegisterMsg>>}, up' = [up EXCEPT ![r] = q]
      PROVE  FALSE
  <2>1. ~InQueue(q, PacketMsg(c))
    BY <1>2 DEF InQueue, RegisterMsg, PacketMsg
  <2> QED
    BY <1>0, <1>2, <2>1 DEF TypeOK
<1>3. ASSUME NEW r \in Streams, NEW d \in Conns, PeerSend(r, d)
      PROVE  /\ peer[s] = "up" /\ id'[s] = id[s]
             /\ s \in ClientStreams => id[s] \in origin'[c]
  <2>1. /\ up' = [up EXCEPT ![r] = Append(@, PacketMsg(d))] /\ UNCHANGED id
        /\ PacketMsg(d) \in UpMsg
    BY <1>3 DEF PeerSend, UpMsg
  <2>2. r = s
    BY <1>0, <2>1 DEF TypeOK
  <2>3. up'[s] = Append(up[s], PacketMsg(d)) /\ up[s] \in Seq(UpMsg)
    BY <1>0, <2>1, <2>2 DEF TypeOK
  <2>4. PacketMsg(d) = PacketMsg(c)
    BY <2>1, <2>3, AppendInQueue
  <2>5. d = c
    BY <2>4 DEF PacketMsg
  <2> QED
    BY <1>3, <2>1, <2>2, <2>5 DEF PeerSend, TypeOK
<1>4. ASSUME UNCHANGED up PROVE FALSE
  BY <1>4
<1>5. ASSUME NEW r \in Streams, Handler(r) PROVE FALSE
  BY <1>1, <1>2, <1>4, <1>5 DEF Handler, RegisterClientStream, RegisterProxyStream, SendAck,
      RouteFromClient, RouteFromProxy, Send, RecvEnd, Return
<1>6. ASSUME NEW r \in Streams, OpenClient(r) \/ OpenProxy(r) PROVE FALSE
  BY <1>2, <1>6 DEF OpenClient, OpenProxy, Open
<1>7. ASSUME NEW r \in Streams,
             AwaitAck(r) \/ PeerRecv(r) \/ HalfClose(r) \/ Crash(r) \/ StreamEnd(r)
      PROVE  FALSE
  BY <1>4, <1>7 DEF AwaitAck, PeerRecv, HalfClose, Crash, StreamEnd
<1>8. CASE Tick \/ CleanupStaleConnections \/ UNCHANGED vars
  BY <1>4, <1>8 DEF Tick, CleanupStaleConnections, peerVars, vars
<1> QED
  BY <1>3, <1>5, <1>6, <1>7, <1>8 DEF Next, Peer, Finished

(* A route is new, or is the one that was there with another idle count.    *)
LEMMA RouteStep ==
    ASSUME TypeInv, [Next]_vars, NEW c \in Conns, connections'[c] # None
    PROVE  \/ /\ connections[c] # None
              /\ connections'[c].client = connections[c].client
              /\ connections'[c].proxy = connections[c].proxy
           \/ /\ connections[c] = None
              /\ UNCHANGED <<clients, proxys, cidr>>
              /\ \E s \in ClientStreams :
                    /\ InQueue(up[s], PacketMsg(c))
                    /\ connections'[c].client = id[s]
              /\ \E i \in Covering(DestOf[c]) : connections'[c].proxy = i
<1> USE DEF TypeInv
<1>1. ASSUME NEW r \in Route PROVE Aged(r).client = r.client /\ Aged(r).proxy = r.proxy
  BY <1>1 DEF Aged, Route
<1>2. ASSUME UNCHANGED connections
      PROVE  /\ connections[c] # None
             /\ connections'[c].client = connections[c].client
             /\ connections'[c].proxy = connections[c].proxy
  BY <1>2
<1>3. ASSUME NEW d \in Conns, connections[d] # None, connections' = Touched(d)
      PROVE  /\ connections[c] # None
             /\ connections'[c].client = connections[c].client
             /\ connections'[c].proxy = connections[c].proxy
  <2>1. CASE c = d
    <3>1. connections[d] \in Route
      BY <1>3 DEF TypeOK
    <3>2. connections'[d] = [connections[d] EXCEPT !.idle = 0]
      BY <1>3 DEF Touched, TypeOK
    <3> QED
      BY <1>3, <2>1, <3>1, <3>2 DEF Route
  <2>2. CASE c # d
    BY <1>3, <2>2 DEF Touched, TypeOK
  <2> QED
    BY <2>1, <2>2
<1>4. ASSUME NEW s \in Streams, RouteFromClient(s) \/ RouteFromProxy(s)
      PROVE  \/ /\ connections[c] # None
                /\ connections'[c].client = connections[c].client
                /\ connections'[c].proxy = connections[c].proxy
             \/ /\ connections[c] = None
                /\ UNCHANGED <<clients, proxys, cidr>>
                /\ \E r \in ClientStreams :
                      /\ InQueue(up[r], PacketMsg(c))
                      /\ connections'[c].client = id[r]
                /\ \E i \in Covering(DestOf[c]) : connections'[c].proxy = i
  <2> DEFINE d == Head(up[s]).conn
  <2>1. d \in Conns /\ InQueue(up[s], PacketMsg(d)) /\ UNCHANGED <<clients, proxys, cidr>>
    BY <1>4, ReceivedFacts DEF RouteFromClient, RouteFromProxy
  <2>2. CASE s \in ClientStreams /\ CreateRoute(s, d)
    <3>1. PICK i \in Covering(DestOf[d]) :
            connections' = [connections EXCEPT
                ![d] = [client |-> id[s], proxy |-> i, idle |-> 0]]
      BY <2>2 DEF CreateRoute
    <3>2. CASE c = d
      <4>1. connections'[c] = [client |-> id[s], proxy |-> i, idle |-> 0]
        BY <2>1, <3>1, <3>2 DEF TypeOK
      <4>2. connections[c] = None
        BY <2>2, <3>2 DEF CreateRoute
      <4> QED
        BY <2>1, <2>2, <3>2, <4>1, <4>2
    <3>3. CASE c # d
      BY <3>1, <3>3 DEF TypeOK
    <3> QED
      BY <3>2, <3>3
  <2>3. CASE NoProxyFound(d) \/ UnknownConnection(d)
    BY <1>2, <2>3 DEF NoProxyFound, UnknownConnection
  <2>4. CASE FollowRoute(s, d) \/ ReturnRoute(s, d)
    BY <1>3, <2>1, <2>4 DEF FollowRoute, ReturnRoute
  <2> QED
    BY <1>4, <2>2, <2>3, <2>4 DEF RouteFromClient, RouteFromProxy
<1>5. CASE Tick
  <2>1. connections'[c] = Aged(connections[c])
    BY <1>5 DEF Tick
  <2>2. connections[c] # None
    BY <2>1 DEF Aged
  <2> QED
    BY <1>1, <2>1, <2>2 DEF TypeOK
<1>6. CASE CleanupStaleConnections
  BY <1>6 DEF CleanupStaleConnections
<1>7. ASSUME NEW s \in Streams,
             \/ RegisterClientStream(s) \/ RegisterProxyStream(s) \/ SendAck(s)
             \/ Send(s) \/ RecvEnd(s) \/ Return(s) \/ Peer(s)
      PROVE  UNCHANGED connections
  BY <1>7 DEF RegisterClientStream, RegisterProxyStream, SendAck, Send, RecvEnd, Return, Peer,
      OpenClient, OpenProxy, Open, AwaitAck, PeerRecv, PeerSend, HalfClose, Crash, StreamEnd,
      registryVars
<1>8. CASE UNCHANGED vars
  BY <1>2, <1>8 DEF vars
<1> QED
  BY <1>2, <1>4, <1>5, <1>6, <1>7, <1>8 DEF Next, Handler, Finished

LEMMA NextProvenance ==
    TypeInv /\ RegistryOwned /\ Provenance /\ [Next]_vars => Provenance'
<1> SUFFICES ASSUME TypeInv, RegistryOwned, Provenance, [Next]_vars PROVE Provenance'
  OBVIOUS
<1>0. /\ ClientStreams \subseteq Streams /\ TypeOK
      /\ \A c \in Conns : origin[c] \subseteq origin'[c] /\ origin[c] \subseteq Clients
      /\ \A s \in Streams : id[s] # None => id'[s] = id[s]
      /\ None \notin Clients
  BY Monotonic, RegistryAssumption DEF TypeInv, TypeOK, Streams
<1>1. ASSUME NEW c \in Conns, NEW s \in ClientStreams, InQueue(up'[s], PacketMsg(c))
      PROVE  id'[s] \in origin'[c]
  <2>1. CASE InQueue(up[s], PacketMsg(c))
    <3>1. id[s] \in origin[c]
      BY <2>1 DEF Provenance
    <3> QED
      BY <1>0, <3>1
  <2>2. CASE ~InQueue(up[s], PacketMsg(c))
    BY <1>1, <2>2, UpStep DEF Streams
  <2> QED
    BY <2>1, <2>2
<1>2. ASSUME NEW c \in Conns, connections'[c] # None
      PROVE  connections'[c].client \in origin'[c]
  <2>1. CASE connections[c] # None /\ connections'[c].client = connections[c].client
    BY <1>0, <2>1 DEF Provenance
  <2>2. CASE \E s \in ClientStreams : InQueue(up[s], PacketMsg(c)) /\ connections'[c].client = id[s]
    BY <1>0, <2>2 DEF Provenance
  <2> QED
    BY <1>2, <2>1, <2>2, RouteStep
<1>3. ASSUME NEW c \in Conns, NEW t \in ClientStreams, OnItsWay(c, t)'
      PROVE  id'[t] \in origin'[c]
  <2>1. CASE OnItsWay(c, t)
    <3>1. id[t] \in origin[c]
      BY <2>1 DEF Provenance, DeliveredOnlyToOriginator
    <3> QED
      BY <1>0, <3>1
  <2>2. CASE ~OnItsWay(c, t)
    <3>1. \A i \in Proxies : t # proxys[i]
      BY <1>0, RegistryAssumption DEF TypeOK, Streams
    <3>2. /\ UNCHANGED <<id, origin>> /\ connections[c] # None
          /\ t = clients[connections[c].client] /\ t # None
      BY <1>0, <1>3, <2>2, <3>1, OnItsWayStep
    <3>3. connections[c].client \in Clients
      BY <1>0, <3>2 DEF TypeOK, Route
    <3>4. id[t] = connections[c].client
      BY <3>2, <3>3 DEF RegistryOwned
    <3> QED
      BY <3>2, <3>4 DEF Provenance
  <2> QED
    BY <2>1, <2>2
<1> QED
  BY <1>1, <1>2, <1>3 DEF Provenance, DeliveredOnlyToOriginator

(* No response is ever on its way to a client that sent no packet of that   *)
(* connection, whatever streams come and go between request and response.   *)
THEOREM ResponsesToOriginators == Spec => []DeliveredOnlyToOriginator
<1>1. Init => TypeInv /\ RegistryOwned /\ Provenance
  <2>1. Init => Provenance
    BY EmptyQueue DEF Init, Provenance, DeliveredOnlyToOriginator, OnItsWay, Streams
  <2> QED
    BY <2>1, InitTypeInv DEF Init, RegistryOwned, Streams
<1>2. TypeInv /\ RegistryOwned /\ Provenance /\ [Next]_vars
        => (TypeInv /\ RegistryOwned /\ Provenance)'
  BY NextTypeInv, NextOwned, NextProvenance
<1>3. Provenance => DeliveredOnlyToOriginator
  BY DEF Provenance
<1> QED
  BY <1>1, <1>2, <1>3, PTL DEF Spec

-----------------------------------------------------------------------------
(***************************************************************************)
(* Only peers whose registration was accepted send packets.  The invariant *)
(* follows an accepting ack from the handler to the peer and the packets   *)
(* back.                                                                   *)
(***************************************************************************)
Admitted ==
    /\ \A s \in Streams : InQueue(down[s], AckMsg(TRUE)) => registered[s]
    /\ \A s \in Streams : peer[s] = "up" => registered[s]
    /\ PacketsOnlyRegistered

(* Only SendAck puts an ack on its way.                                     *)
LEMMA AckStep ==
    ASSUME TypeInv, [Next]_vars, NEW t \in Streams,
           InQueue(down'[t], AckMsg(TRUE)), ~InQueue(down[t], AckMsg(TRUE))
    PROVE  registered[t]
<1> USE DEF TypeInv
<1>1. ASSUME NEW s \in Streams, NEW m \in DownMsg, Deliver(s, m)
      PROVE  t = s /\ m = AckMsg(TRUE)
  <2>1. CASE t = s
    <3>1. down'[t] = Append(down[t], m) /\ down[t] \in Seq(DownMsg)
      BY <1>1, <2>1 DEF Deliver, TypeOK
    <3> QED
      BY <2>1, <3>1, AppendInQueue
  <2>2. CASE t # s
    BY <1>1, <2>2 DEF Deliver, TypeOK
  <2> QED
    BY <2>1, <2>2
<1>2. ASSUME NEW s \in Streams,
             down' = [down EXCEPT ![s] = <<>>] \/
               (down[s] # <<>> /\ down' = [down EXCEPT ![s] = Tail(@)])
      PROVE  FALSE
  <2>1. CASE t = s
    <3>1. down[t] \in Seq(DownMsg)
      BY DEF TypeOK
    <3>2. down'[t] = <<>> \/ (down[t] # <<>> /\ down'[t] = Tail(down[t]))
      BY <1>2, <2>1 DEF TypeOK
    <3> QED
      BY <3>1, <3>2, TailInQueue, EmptyQueue
  <2>2. CASE t # s
    BY <1>2, <2>2 DEF TypeOK
  <2> QED
    BY <2>1, <2>2
<1>3. ASSUME NEW s \in Streams, SendAck(s) PROVE registered[t]
  <2>1. AckMsg(registered[s]) \in DownMsg /\ Deliver(s, AckMsg(registered[s]))
    BY <1>3 DEF SendAck, TypeOK, DownMsg
  <2>2. t = s /\ AckMsg(registered[s]) = AckMsg(TRUE)
    BY <1>1, <2>1
  <2>3. registered[s] = TRUE
    BY <2>2 DEF AckMsg
  <2> QED
    BY <2>2, <2>3
<1>4. ASSUME NEW s \in Streams, Send(s) PROVE FALSE
  <2>1. PacketMsg(pkt[s]) \in DownMsg /\ to[s] \in Streams
    BY <1>4 DEF Send, StreamsOK, DownMsg
  <2>2. PacketMsg(pkt[s]) # AckMsg(TRUE)
    BY DEF PacketMsg, AckMsg
  <2> QED
    BY <1>1, <1>4, <2>1, <2>2 DEF Send
<1>5. ASSUME NEW s \in Streams,
             \/ RegisterClientStream(s) \/ RegisterProxyStream(s) \/ RouteFromClient(s)
             \/ RouteFromProxy(s) \/ RecvEnd(s) \/ Return(s)
             \/ OpenClient(s) \/ OpenProxy(s) \/ HalfClose(s)
             \/ \E d \in Conns : PeerSend(s, d)
      PROVE  FALSE
  BY <1>5 DEF RegisterClientStream, RegisterProxyStream, RouteFromClient, RouteFromProxy,
      RecvEnd, Return, OpenClient, OpenProxy, Open, HalfClose, PeerSend
<1>6. ASSUME NEW s \in Streams, AwaitAck(s) \/ PeerRecv(s) \/ Crash(s) \/ StreamEnd(s)
      PROVE  FALSE
  <2>1. \/ down' = [down EXCEPT ![s] = <<>>]
        \/ down[s] # <<>> /\ down' = [down EXCEPT ![s] = Tail(@)]
    BY <1>6 DEF AwaitAck, PeerRecv, Crash, StreamEnd, Hangup
  <2> QED
    BY <1>2, <2>1
<1>7. CASE Tick \/ CleanupStaleConnections \/ UNCHANGED vars
  BY <1>7 DEF Tick, CleanupStaleConnections, peerVars, vars
<1> QED
  BY <1>3, <1>4, <1>5, <1>6, <1>7 DEF Next, Handler, Peer, Finished

(* A registration is never taken back, and a peer is up only after an ack   *)
(* that accepts it.                                                         *)
LEMMA AdmissionStep ==
    ASSUME TypeInv, [Next]_vars, NEW s \in Streams
    PROVE  /\ registered[s] => registered'[s]
           /\ peer'[s] = "up" /\ peer[s] # "up" => InQueue(down[s], AckMsg(TRUE))
<1> USE DEF TypeInv
<1>1. ASSUME NEW r \in Streams, AwaitAck(r)
      PROVE  /\ UNCHANGED registered
             /\ peer'[s] = "up" /\ peer[s] # "up" => InQueue(down[s], AckMsg(TRUE))
  <2>1. UNCHANGED registered
    BY <1>1 DEF AwaitAck, handlerVars
  <2>2. CASE r = s /\ Head(down[s]) = AckMsg(TRUE)
    <3>1. down[s] \in Seq(DownMsg) /\ down[s] # <<>>
      BY <1>1, <2>2 DEF AwaitAck, TypeOK
    <3> QED
      BY <2>1, <2>2, <3>1, HeadInQueue
  <2>3. CASE ~(r = s /\ Head(down[s]) = AckMsg(TRUE))
    <3>1. peer'[s] = peer[s] \/ peer'[s] = "dead"
      BY <1>1, <2>3 DEF AwaitAck, Hangup, TypeOK
    <3> QED
      BY <2>1, <3>1
  <2> QED
    BY <2>2, <2>3
<1>2. ASSUME NEW r \in Streams, Handler(r)
      PROVE  (registered[s] => registered'[s]) /\ UNCHANGED peer
  BY <1>2 DEF Handler, RegisterClientStream, RegisterProxyStream, SendAck, RouteFromClient,
      RouteFromProxy, Send, RecvEnd, Return, TypeOK
<1>3. ASSUME NEW r \in Streams,
             \/ OpenClient(r) \/ OpenProxy(r) \/ PeerRecv(r) \/ HalfClose(r) \/ Crash(r)
             \/ StreamEnd(r) \/ \E c \in Conns : PeerSend(r, c)
      PROVE  UNCHANGED registered /\ (peer'[s] = peer[s] \/ peer'[s] # "up")
  BY <1>3 DEF OpenClient, OpenProxy, Open, PeerRecv, HalfClose, Crash, StreamEnd, PeerSend,
      Hangup, handlerVars, TypeOK
<1>4. CASE Tick \/ CleanupStaleConnections \/ UNCHANGED vars
  BY <1>4 DEF Tick, CleanupStaleConnections, handlerVars, peerVars, vars
<1> QED
  BY <1>1, <1>2, <1>3, <1>4 DEF Next, Peer, Finished

LEMMA NextAdmitted == TypeInv /\ Admitted /\ [Next]_vars => Admitted'
<1> SUFFICES ASSUME TypeInv, Admitted, [Next]_vars PROVE Admitted'
  OBVIOUS
<1>1. ASSUME NEW s \in Streams, InQueue(down'[s], AckMsg(TRUE)) PROVE registered'[s]
  BY <1>1, AckStep, AdmissionStep DEF Admitted
<1>2. ASSUME NEW s \in Streams, peer'[s] = "up" PROVE registered'[s]
  BY <1>2, AdmissionStep DEF Admitted
<1>3. ASSUME NEW s \in Streams, NEW c \in Conns, InQueue(up'[s], PacketMsg(c))
      PROVE  registered'[s]
  BY <1>3, UpStep, AdmissionStep DEF Admitted, PacketsOnlyRegistered
<1> QED
  BY <1>1, <1>2, <1>3 DEF Admitted, PacketsOnlyRegistered, InQueue, AckMsg, PacketMsg

(* A stream that holds packets has an accepted registration, in whatever    *)
(* order registrations, acks and packets of all streams interleave.         *)
THEOREM PacketsAdmitted == Spec => []PacketsOnlyRegistered
<1>1. Init => TypeInv /\ Admitted
  <2>1. ASSUME Init PROVE Admitted
    <3>1. \A s \in Streams : up[s] = <<>> /\ down[s] = <<>> /\ peer[s] = "idle"
      BY <2>1 DEF Init
    <3> QED
      BY <3>1, EmptyQueue DEF Admitted, PacketsOnlyRegistered
  <2> QED
    BY <2>1, InitTypeInv
<1>2. TypeInv /\ Admitted /\ [Next]_vars => (TypeInv /\ Admitted)'
  BY NextTypeInv, NextAdmitted
<1>3. Admitted => PacketsOnlyRegistered
  BY DEF Admitted
<1> QED
  BY <1>1, <1>2, <1>3, PTL DEF Spec

(* A live route never changes its client or its proxy, so the packets of a  *)
(* connection are never split between two proxies.                          *)
THEOREM RoutesPinned == Spec => RoutePinned
<1>1. TypeInv /\ [Next]_vars =>
        [\A c \in Conns :
           connections[c] # None /\ connections'[c] # None =>
              /\ connections'[c].proxy = connections[c].proxy
              /\ connections'[c].client = connections[c].client]_vars
  BY RouteStep
<1> QED
  BY <1>1, InitTypeInv, NextTypeInv, PTL DEF Spec, RoutePinned
=============================================================================
