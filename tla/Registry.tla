------------------------------ MODULE Registry ------------------------------
(***************************************************************************)
(* The core of the tunnel server: the Registry (registry.go), which maps   *)
(* client IDs and proxy IDs to gRPC streams and connection IDs to routes,  *)
(* and the two gRPC handlers that drive it, ClientService.Connect          *)
(* (grpc_client.go) and ProxyService.Connect (grpc_proxy.go).  There is    *)
(* one handler goroutine per stream; the handlers of all streams and the   *)
(* cleanup goroutine interleave, and every critical section of Registry.mu *)
(* is one step.                                                            *)
(*                                                                         *)
(* Operators named Bug... are plausible mistakes in the definition that    *)
(* follows them, which no specification here uses; with one in its place   *)
(* TLC finds the property it is listed for in PROJECT.json violated.       *)
(*                                                                         *)
(* The other end of a stream (the client or proxy process, as far as the   *)
(* server can see it) and gRPC itself are the environment: bounded ordered *)
(* queues, a blocking Send, half close, and loss of the connection.        *)
(***************************************************************************)
EXTENDS Naturals, Sequences

CONSTANTS
    Clients,        \* client IDs
    Proxies,        \* proxy IDs
    ClientStreams,  \* TunnelClient.Connect streams, each used once
    ProxyStreams,   \* TunnelProxy.Connect streams, each used once
    Conns,          \* connection IDs
    Dests,          \* destination addresses
    DestOf,         \* DestOf[c]: the destination in the tuple of connection c
    MayManage,      \* MayManage[p]: the ManagedCIDRs proxy p may register with
                    \* (a CIDR is the set of destinations it contains, {} when
                    \* net.ParseCIDR rejects it)
    IdleTimeout,    \* idleTimeout of cleanupStaleConnections, in ticks
    Window,         \* messages gRPC flow control lets a stream hold unread
    None            \* an absent map entry, a nil

Streams == ClientStreams \cup ProxyStreams

ASSUME RegistryAssumption ==
    /\ ClientStreams \cap ProxyStreams = {}
    /\ None \notin Streams \cup Clients \cup Proxies \cup Conns
    /\ DestOf \in [Conns -> Dests]
    /\ MayManage \in [Proxies -> SUBSET SUBSET Dests]
    /\ IdleTimeout \in Nat
    /\ Window \in Nat \ {0}

VARIABLES
    \* Registry
    clients,      \* client ID -> the stream of its ClientConn
    proxys,       \* proxy ID -> the stream of its ProxyConn
    connections,  \* connection ID -> its ConnectionRoute
    \* Connect, one goroutine per stream
    pc,           \* where the handler of the stream is
    registered,   \* its local variable of that name
    pkt,          \* the packet it is about to Send
    to,           \* the stream it is about to Send it on
    \* gRPC and the peer at the other end of the stream
    up,           \* messages from the peer the handler has not Recv'd
    down,         \* messages sent to the peer it has not Recv'd
    peer,         \* state of the peer
    id,           \* the ID the peer registers with
    cidr,         \* the ManagedCIDR a proxy registers with
    opened,       \* connections a proxy process was asked to open
    \* history
    origin        \* origin[c]: the client IDs that sent a packet of c

registryVars == <<clients, proxys, connections>>
handlerVars  == <<pc, registered, pkt, to>>
peerVars     == <<up, down, peer, id, cidr, opened, origin>>
vars == <<clients, proxys, connections, pc, registered, pkt, to,
          up, down, peer, id, cidr, opened, origin>>

-----------------------------------------------------------------------------
(***************************************************************************)
(* Messages.  Heartbeats change nothing on either side and are left out;   *)
(* the payload of a packet is immaterial to the registry.                  *)
(***************************************************************************)
RegisterMsg == [type |-> "register"]
PacketMsg(c) == [type |-> "packet", conn |-> c]
AckMsg(ok) == [type |-> "ack", success |-> ok]

UpMsg   == {RegisterMsg} \cup {PacketMsg(c) : c \in Conns}
DownMsg == {AckMsg(ok) : ok \in BOOLEAN} \cup {PacketMsg(c) : c \in Conns}

Route == [client : Clients, proxy : Proxies, idle : 0 .. IdleTimeout + 1]

TypeOK ==
    /\ clients \in [Clients -> ClientStreams \cup {None}]
    /\ proxys \in [Proxies -> ProxyStreams \cup {None}]
    /\ connections \in [Conns -> Route \cup {None}]
    /\ pc \in [Streams -> {"unopened", "recv", "ack", "send", "return", "done"}]
    /\ registered \in [Streams -> BOOLEAN]
    /\ pkt \in [Streams -> Conns \cup {None}]
    /\ to \in [Streams -> Streams \cup {None}]
    /\ up \in [Streams -> Seq(UpMsg)]
    /\ down \in [Streams -> Seq(DownMsg)]
    /\ peer \in [Streams -> {"idle", "wait", "up", "closing", "dead"}]
    /\ id \in [Streams -> Clients \cup Proxies \cup {None}]
    /\ cidr \in [Streams -> SUBSET Dests]
    /\ opened \in [Streams -> SUBSET Conns]
    /\ origin \in [Conns -> SUBSET Clients]

Init ==
    /\ clients = [i \in Clients |-> None]
    /\ proxys = [i \in Proxies |-> None]
    /\ connections = [c \in Conns |-> None]
    /\ pc = [s \in Streams |-> "unopened"]
    /\ registered = [s \in Streams |-> FALSE]
    /\ pkt = [s \in Streams |-> None]
    /\ to = [s \in Streams |-> None]
    /\ up = [s \in Streams |-> <<>>]
    /\ down = [s \in Streams |-> <<>>]
    /\ peer = [s \in Streams |-> "idle"]
    /\ id = [s \in Streams |-> None]
    /\ cidr = [s \in Streams |-> {}]
    /\ opened = [s \in Streams |-> {}]
    /\ origin = [c \in Conns |-> {}]

-----------------------------------------------------------------------------
(***************************************************************************)
(* The handlers.  Recv consumes the head of the stream's queue.            *)
(***************************************************************************)
Received(s, type) ==
    /\ pc[s] = "recv"
    /\ up[s] # <<>>
    /\ Head(up[s]).type = type
    /\ up' = [up EXCEPT ![s] = Tail(@)]

(* The Register case of ClientService.Connect: RegisterClientStream refuses *)
(* an ID that is taken; either way the handler goes on to send the ack.     *)
RegisterClientStream(s) ==
    /\ s \in ClientStreams
    /\ Received(s, "register")
    /\ \/ /\ clients[id[s]] = None
          /\ clients' = [clients EXCEPT ![id[s]] = s]
          /\ registered' = [registered EXCEPT ![s] = TRUE]
       \/ /\ clients[id[s]] # None
          /\ UNCHANGED <<clients, registered>>
    /\ pc' = [pc EXCEPT ![s] = "ack"]
    /\ UNCHANGED <<proxys, connections, pkt, to, down, peer, id, cidr, opened, origin>>

(* The same of ProxyService.Connect; the ManagedCIDR stays with the stream. *)
RegisterProxyStream(s) ==
    /\ s \in ProxyStreams
    /\ Received(s, "register")
    /\ \/ /\ proxys[id[s]] = None
          /\ proxys' = [proxys EXCEPT ![id[s]] = s]
          /\ registered' = [registered EXCEPT ![s] = TRUE]
       \/ /\ proxys[id[s]] # None
          /\ UNCHANGED <<proxys, registered>>
    /\ pc' = [pc EXCEPT ![s] = "ack"]
    /\ UNCHANGED <<clients, connections, pkt, to, down, peer, id, cidr, opened, origin>>

(* stream.Send fails once the handler has returned or the connection is     *)
(* lost, and blocks while flow control has no room.                         *)
Broken(t) == pc[t] = "done" \/ peer[t] = "dead"
HasRoom(t) == ~Broken(t) /\ Len(down[t]) < Window
Deliver(t, m) == down' = [down EXCEPT ![t] = Append(@, m)]

(* Bug: only a success is answered.                                         *)
BugSilentRefusal(s) ==
    /\ pc[s] = "ack"
    /\ \/ /\ HasRoom(s) /\ registered[s]
          /\ Deliver(s, AckMsg(TRUE))
          /\ pc' = [pc EXCEPT ![s] = "recv"]
       \/ /\ Broken(s) \/ ~registered[s]
          /\ pc' = [pc EXCEPT ![s] = IF registered[s] THEN "return" ELSE "recv"]
          /\ UNCHANGED down
    /\ UNCHANGED <<registryVars, registered, pkt, to, up, peer, id, cidr, opened, origin>>

(* The ack is sent after the stream was published in the registry and       *)
(* outside its lock; a failed Send ends the handler.                        *)
SendAck(s) ==
    /\ pc[s] = "ack"
    /\ \/ /\ HasRoom(s)
          /\ Deliver(s, AckMsg(registered[s]))
          /\ pc' = [pc EXCEPT ![s] = "recv"]
       \/ /\ Broken(s)
          /\ pc' = [pc EXCEPT ![s] = "return"]
          /\ UNCHANGED down
    /\ UNCHANGED <<registryVars, registered, pkt, to, up, peer, id, cidr, opened, origin>>

(* findProxyByCIDR: any registered proxy whose CIDR contains the            *)
(* destination; Go's map iteration makes the choice.                        *)
Covering(dest) == {i \in Proxies : proxys[i] # None /\ dest \in cidr[proxys[i]]}

BeginSend(s, c, t) ==
    /\ pc' = [pc EXCEPT ![s] = "send"]
    /\ pkt' = [pkt EXCEPT ![s] = c]
    /\ to' = [to EXCEPT ![s] = t]

(* The handler logs the error and receives the next message.                *)
Refuse == UNCHANGED <<pc, pkt, to>>

Touched(c) == [connections EXCEPT ![c].idle = 0]

(* Bug: the route keeps the proxy's stream instead of its ID.               *)
BugRouteToStream(s, c) ==
    /\ connections[c] = None
    /\ \E i \in Covering(DestOf[c]) :
         /\ connections' = [connections EXCEPT
                ![c] = [client |-> id[s], proxy |-> proxys[i], idle |-> 0]]
         /\ BeginSend(s, c, proxys[i])

(* RouteFromClient, up to the Send: the first packet of a connection picks  *)
(* its proxy, later ones follow the route and refresh it even when the      *)
(* proxy of the route is no longer registered.                              *)
CreateRoute(s, c) ==
    /\ connections[c] = None
    /\ \E i \in Covering(DestOf[c]) :
         /\ connections' = [connections EXCEPT
                ![c] = [client |-> id[s], proxy |-> i, idle |-> 0]]
         /\ BeginSend(s, c, proxys[i])

NoProxyFound(c) ==
    /\ connections[c] = None
    /\ Covering(DestOf[c]) = {}
    /\ Refuse
    /\ UNCHANGED connections

(* Bug: every packet looks for a proxy again and overwrites the route.      *)
BugRebind(s, c) ==
    /\ connections[c] # None
    /\ \E i \in Covering(DestOf[c]) :
         /\ connections' = [connections EXCEPT
                ![c] = [client |-> id[s], proxy |-> i, idle |-> 0]]
         /\ BeginSend(s, c, proxys[i])

FollowRoute(s, c) ==
    /\ connections[c] # None
    /\ connections' = Touched(c)
    /\ LET t == proxys[connections[c].proxy] IN
         \/ t # None /\ BeginSend(s, c, t)
         \/ t = None /\ Refuse

RouteFromClient(s) ==
    /\ s \in ClientStreams
    /\ registered[s]
    /\ Received(s, "packet")
    /\ LET c == Head(up[s]).conn IN
         CreateRoute(s, c) \/ NoProxyFound(c) \/ FollowRoute(s, c)
    /\ UNCHANGED <<clients, proxys, registered, down, peer, id, cidr, opened, origin>>

(* RouteFromProxy, up to the Send.  The proxy the packet came from is not   *)
(* compared with the one of the route.                                      *)
UnknownConnection(c) ==
    /\ connections[c] = None
    /\ Refuse
    /\ UNCHANGED connections

(* Bug: the response goes to some client, not to the one of the route.      *)
BugAnyClient(s, c) ==
    /\ connections[c] # None
    /\ connections' = Touched(c)
    /\ \E i \in Clients : clients[i] # None /\ BeginSend(s, c, clients[i])

ReturnRoute(s, c) ==
    /\ connections[c] # None
    /\ connections' = Touched(c)
    /\ LET t == clients[connections[c].client] IN
         \/ t # None /\ BeginSend(s, c, t)
         \/ t = None /\ Refuse

RouteFromProxy(s) ==
    /\ s \in ProxyStreams
    /\ registered[s]
    /\ Received(s, "packet")
    /\ LET c == Head(up[s]).conn IN UnknownConnection(c) \/ ReturnRoute(s, c)
    /\ UNCHANGED <<clients, proxys, registered, down, peer, id, cidr, opened, origin>>

(* The Send at the end of RouteFromClient and RouteFromProxy, outside the   *)
(* registry's lock, on the stream read under it.  Its error is only logged. *)
Send(s) ==
    /\ pc[s] = "send"
    /\ \/ HasRoom(to[s]) /\ Deliver(to[s], PacketMsg(pkt[s]))
       \/ Broken(to[s]) /\ UNCHANGED down
    /\ pc' = [pc EXCEPT ![s] = "recv"]
    /\ pkt' = [pkt EXCEPT ![s] = None]
    /\ to' = [to EXCEPT ![s] = None]
    /\ UNCHANGED <<registryVars, registered, up, peer, id, cidr, opened, origin>>

(* Bug: io.EOF does not end the loop.                                       *)
BugIgnoreEOF(s) ==
    /\ pc[s] = "recv"
    /\ peer[s] = "dead"
    /\ pc' = [pc EXCEPT ![s] = "return"]
    /\ up' = [up EXCEPT ![s] = <<>>]
    /\ UNCHANGED <<registryVars, registered, pkt, to, down, peer, id, cidr, opened, origin>>

(* Recv returns io.EOF after the last message of a peer that closed its     *)
(* side, or an error, possibly before the last message, when it is gone.    *)
RecvEnd(s) ==
    /\ pc[s] = "recv"
    /\ peer[s] = "dead" \/ (peer[s] = "closing" /\ up[s] = <<>>)
    /\ pc' = [pc EXCEPT ![s] = "return"]
    /\ up' = [up EXCEPT ![s] = <<>>]
    /\ UNCHANGED <<registryVars, registered, pkt, to, down, peer, id, cidr, opened, origin>>

(* Bug: the Unregister is deferred before the registration is known to have *)
(* succeeded.                                                               *)
BugUnregisterAlways(s) ==
    /\ s \in ClientStreams
    /\ clients' = [clients EXCEPT ![id[s]] = None]
    /\ UNCHANGED proxys

(* The handler returns: the deferred Unregister removes the ID it holds.    *)
UnregisterClient(s) ==
    /\ s \in ClientStreams
    /\ clients' = IF registered[s] THEN [clients EXCEPT ![id[s]] = None] ELSE clients
    /\ UNCHANGED proxys

UnregisterProxy(s) ==
    /\ s \in ProxyStreams
    /\ proxys' = IF registered[s] THEN [proxys EXCEPT ![id[s]] = None] ELSE proxys
    /\ UNCHANGED clients

Return(s) ==
    /\ pc[s] = "return"
    /\ pc' = [pc EXCEPT ![s] = "done"]
    /\ up' = [up EXCEPT ![s] = <<>>]
    /\ UnregisterClient(s) \/ UnregisterProxy(s)
    /\ UNCHANGED <<connections, registered, pkt, to, down, peer, id, cidr, opened, origin>>

Handler(s) ==
    \/ RegisterClientStream(s)
    \/ RegisterProxyStream(s)
    \/ SendAck(s)
    \/ RouteFromClient(s)
    \/ RouteFromProxy(s)
    \/ Send(s)
    \/ RecvEnd(s)
    \/ Return(s)

-----------------------------------------------------------------------------
(***************************************************************************)
(* The cleanup goroutine, and the passing of time that LastActivity is     *)
(* compared with.  A route's idle count stops one above IdleTimeout.       *)
(***************************************************************************)
Aged(r) ==
    IF r # None /\ r.idle <= IdleTimeout THEN [r EXCEPT !.idle = @ + 1] ELSE r

Tick ==
    /\ \E c \in Conns : Aged(connections[c]) # connections[c]
    /\ connections' = [c \in Conns |-> Aged(connections[c])]
    /\ UNCHANGED <<clients, proxys, handlerVars, peerVars>>

(* Bug: only routes whose client is gone are looked at.                     *)
BugStaleOrphan(c) ==
    /\ connections[c] # None
    /\ connections[c].idle > IdleTimeout
    /\ clients[connections[c].client] = None

Stale(c) == connections[c] # None /\ connections[c].idle > IdleTimeout

CleanupStaleConnections ==
    /\ \E c \in Conns : Stale(c)
    /\ connections' = [c \in Conns |-> IF Stale(c) THEN None ELSE connections[c]]
    /\ UNCHANGED <<clients, proxys, handlerVars, peerVars>>

-----------------------------------------------------------------------------
(***************************************************************************)
(* The peers.  A client or proxy process opens a stream, sends Register    *)
(* and waits for its first message, which must be a successful ack; only   *)
(* then do its read and write loops run.  A proxy answers on connections   *)
(* it was sent packets of.                                                 *)
(***************************************************************************)
Open(s, i, range) ==
    /\ peer[s] = "idle"
    /\ peer' = [peer EXCEPT ![s] = "wait"]
    /\ pc' = [pc EXCEPT ![s] = "recv"]
    /\ id' = [id EXCEPT ![s] = i]
    /\ cidr' = [cidr EXCEPT ![s] = range]
    /\ up' = [up EXCEPT ![s] = <<RegisterMsg>>]
    /\ UNCHANGED <<registryVars, registered, pkt, to, down, opened, origin>>

OpenClient(s) == s \in ClientStreams /\ \E i \in Clients : Open(s, i, {})

OpenProxy(s) ==
    s \in ProxyStreams /\ \E i \in Proxies : \E range \in MayManage[i] : Open(s, i, range)

Hangup(s) ==
    /\ peer' = [peer EXCEPT ![s] = "dead"]
    /\ down' = [down EXCEPT ![s] = <<>>]
    /\ UNCHANGED opened

(* Bug: any ack will do.                                                    *)
BugAnyAck(s) ==
    /\ peer[s] = "wait"
    /\ down[s] # <<>>
    /\ peer' = [peer EXCEPT ![s] = "up"]
    /\ down' = [down EXCEPT ![s] = Tail(@)]
    /\ UNCHANGED <<registryVars, handlerVars, up, id, cidr, opened, origin>>

(* register() of the peers.                                                 *)
AwaitAck(s) ==
    /\ peer[s] = "wait"
    /\ down[s] # <<>>
    /\ \/ /\ Head(down[s]) = AckMsg(TRUE)
          /\ peer' = [peer EXCEPT ![s] = "up"]
          /\ down' = [down EXCEPT ![s] = Tail(@)]
          /\ UNCHANGED opened
       \/ /\ Head(down[s]) # AckMsg(TRUE)
          /\ Hangup(s)
    /\ UNCHANGED <<registryVars, handlerVars, up, id, cidr, origin>>

(* readLoop: a closing client leaves the loop after one more message and    *)
(* closes the connection, a closing proxy reads to the end of the stream.   *)
PeerRecv(s) ==
    /\ peer[s] \in {"up", "closing"}
    /\ down[s] # <<>>
    /\ \/ /\ peer[s] = "closing" /\ s \in ClientStreams
          /\ Hangup(s)
       \/ /\ peer[s] = "up" \/ s \in ProxyStreams
          /\ down' = [down EXCEPT ![s] = Tail(@)]
          /\ opened' = IF s \in ProxyStreams /\ Head(down[s]).type = "packet"
                         THEN [opened EXCEPT ![s] = @ \cup {Head(down[s]).conn}]
                         ELSE opened
          /\ UNCHANGED peer
    /\ UNCHANGED <<registryVars, handlerVars, up, id, cidr, origin>>

(* writeLoop.  Window also bounds what a peer may have unread.              *)
PeerSend(s, c) ==
    /\ peer[s] = "up"
    /\ pc[s] # "done"
    /\ Len(up[s]) < Window
    /\ s \in ProxyStreams => c \in opened[s]
    /\ up' = [up EXCEPT ![s] = Append(@, PacketMsg(c))]
    /\ origin' = IF s \in ClientStreams
                   THEN [origin EXCEPT ![c] = @ \cup {id[s]}]
                   ELSE origin
    /\ UNCHANGED <<registryVars, handlerVars, down, peer, id, cidr, opened>>

(* Close: CloseSend, then wait for the read loop.                           *)
HalfClose(s) ==
    /\ peer[s] = "up"
    /\ peer' = [peer EXCEPT ![s] = "closing"]
    /\ UNCHANGED <<registryVars, handlerVars, up, down, id, cidr, opened, origin>>

(* The process dies or the connection is lost, at any moment.               *)
Crash(s) ==
    /\ peer[s] \in {"wait", "up", "closing"}
    /\ Hangup(s)
    /\ UNCHANGED <<registryVars, handlerVars, up, id, cidr, origin>>

(* Recv of the peer ends when the handler has returned, which releases the  *)
(* read loop Close waits for.                                               *)
StreamEnd(s) ==
    /\ pc[s] = "done"
    /\ peer[s] = "closing"
    /\ down[s] = <<>>
    /\ Hangup(s)
    /\ UNCHANGED <<registryVars, handlerVars, up, id, cidr, origin>>

Peer(s) ==
    \/ OpenClient(s)
    \/ OpenProxy(s)
    \/ AwaitAck(s)
    \/ PeerRecv(s)
    \/ \E c \in Conns : PeerSend(s, c)
    \/ HalfClose(s)
    \/ Crash(s)
    \/ StreamEnd(s)

(* Every stream of the instance was used: nothing is left to do.            *)
Finished ==
    /\ \A s \in Streams : pc[s] = "done" /\ peer[s] = "dead"
    /\ \A c \in Conns : connections[c] = None
    /\ UNCHANGED vars

Next ==
    \/ \E s \in Streams : Handler(s) \/ Peer(s)
    \/ Tick
    \/ CleanupStaleConnections
    \/ Finished

Spec == Init /\ [][Next]_vars

(***************************************************************************)
(* The Go scheduler runs every runnable goroutine and the ticker of the    *)
(* cleanup goroutine fires (weak fairness); a peer in register() is in     *)
(* Recv, and Close waits in Recv for the end of the stream.  Senders that  *)
(* wait for room on one stream wait in a channel, which wakes them in      *)
(* order, so none waits for ever while room is made again and again: the   *)
(* handlers are strongly fair, which differs from weak fairness only in    *)
(* their two Sends.  No peer has to send, close, crash or open a stream,   *)
(* and none has to read: its readLoop writes to a target or an application *)
(* without a deadline.  PeersRead is that assumption, where it is needed.  *)
(***************************************************************************)
Fairness ==
    /\ \A s \in Streams :
         /\ SF_vars(Handler(s))
         /\ WF_vars(AwaitAck(s) \/ StreamEnd(s))
    /\ WF_vars(Tick)
    /\ WF_vars(CleanupStaleConnections)

FairSpec == Spec /\ Fairness

(* No peer leaves its stream full for ever.                                 *)
PeersRead == \A s \in Streams : []<>(Len(down[s]) < Window)

-----------------------------------------------------------------------------
(***************************************************************************)
(* Safety.                                                                 *)
(***************************************************************************)
Live(s) == pc[s] \notin {"unopened", "done"}

(* The two maps and the handlers agree at every moment: an entry belongs to *)
(* the live handler that put it there, and a handler that registered finds  *)
(* its own stream under its ID until it returns, so that the deferred       *)
(* Unregister (registry.go:140, 186) never removes another stream's entry.  *)
RegistryOwned ==
    /\ \A i \in Clients : clients[i] # None =>
         id[clients[i]] = i /\ registered[clients[i]] /\ Live(clients[i])
    /\ \A i \in Proxies : proxys[i] # None =>
         id[proxys[i]] = i /\ registered[proxys[i]] /\ Live(proxys[i])
    /\ \A s \in ClientStreams : registered[s] /\ Live(s) => clients[id[s]] = s
    /\ \A s \in ProxyStreams : registered[s] /\ Live(s) => proxys[id[s]] = s

(* The packets on their way to a peer: sent and not yet received by it, or  *)
(* held by a handler in the Send of a route.                                *)
InQueue(q, m) == \E n \in 1 .. Len(q) : q[n] = m

OnItsWay(c, t) ==
    \/ InQueue(down[t], PacketMsg(c))
    \/ \E s \in Streams : pc[s] = "send" /\ to[s] = t /\ pkt[s] = c

(* A response reaches only clients that sent packets of that connection,    *)
(* across re-registration of the ID on a new stream, stale routes and       *)
(* responses that were in flight (RouteFromProxy, registry.go:342).         *)
DeliveredOnlyToOriginator ==
    \A c \in Conns : \A t \in ClientStreams :
        OnItsWay(c, t) => id[t] \in origin[c]

(* "Receives packets from Server for specific network ranges" (README.md:67 *)
(* on the proxy): a proxy is sent only packets for destinations inside the  *)
(* CIDR it registered on that stream.  The code checks the CIDR when it     *)
(* makes a route and never again.  Routes name the proxy by its ID, nothing *)
(* ties an ID to a CIDR, and a proxy that returns under its ID with another *)
(* CIDR inherits the routes of its predecessor (RouteFromClient,            *)
(* registry.go:315).                                                        *)
ForwardedOnlyIntoManagedRange ==
    \A c \in Conns : \A t \in ProxyStreams :
        OnItsWay(c, t) => DestOf[c] \in cidr[t]

(* No packet waits in a stream whose registration was not accepted, though  *)
(* other handlers may have been sending on that stream all along: the       *)
(* branches for a packet of an unregistered peer (grpc_client.go:84,        *)
(* grpc_proxy.go:92) are never taken, and are not in the model.             *)
PacketsOnlyRegistered ==
    \A s \in Streams : \A c \in Conns :
        InQueue(up[s], PacketMsg(c)) => registered[s]

(* While a route lives its packets all go to the proxy, and its responses   *)
(* to the client, that its first packet chose, though the handlers of two   *)
(* clients may race to make it: neither overwrites the other's route, and a *)
(* byte stream is not split between two proxies that both cover the         *)
(* destination (RouteFromClient, registry.go:283-312).                      *)
RoutePinned ==
    [][\A c \in Conns :
         connections[c] # None /\ connections'[c] # None =>
            /\ connections'[c].proxy = connections[c].proxy
            /\ connections'[c].client = connections[c].client]_vars

(***************************************************************************)
(* Liveness, under FairSpec.                                               *)
(***************************************************************************)
(* A peer that waits for its ack is answered or lost: the handler is never  *)
(* stuck between publishing the stream and sending the ack.                 *)
RegistrationAnswered ==
    \A s \in Streams : peer[s] = "wait" ~> peer[s] # "wait"

(* When a peer closes or is lost, its handler ends and frees the ID for the *)
(* next stream (defer Unregister, grpc_client.go:73, grpc_proxy.go:81),     *)
(* even if it was blocked sending to another peer at that time; but only if *)
(* that other peer makes room some day, for nothing ends a Send to a peer   *)
(* that is alive and does not read (registry.go:337, 363).                  *)
EndedStreamUnregistered ==
    PeersRead =>
        \A s \in Streams : peer[s] \in {"closing", "dead"} ~> pc[s] = "done"

(* A connection whose packets stop passing loses its route, whatever        *)
(* happens to its peers (cleanupStaleConnections, registry.go:87).          *)
Routing(c) ==
    \E s \in Streams :
        /\ up[s] # <<>> /\ Head(up[s]) = PacketMsg(c)
        /\ RouteFromClient(s) \/ RouteFromProxy(s)

QuietRouteReclaimed ==
    \A c \in Conns :
        <>[][~Routing(c)]_vars => <>[](connections[c] = None)
=============================================================================
