# network-tunneler in TLA+

This directory holds a TLA+ model of the tunnel in `src/`: the modules, the
TLC configurations that check them on small instances, and proofs, checked by
TLAPS, of what matters most for instances of any size.

The tunnel carries TCP connections of applications on a client machine to
targets on a network that only a proxy can reach. Three programs take part:

    application -> client --(gRPC stream)--> server <--(gRPC stream)-- proxy -> target

The client (`internal/client`) accepts connections that netfilter redirected to
it, and sends what it reads as packets, each with a connection ID that is a hash
of the connection's addresses and ports. The server (`internal/server`) maps
connection IDs to a client and a proxy and passes packets on. The proxy
(`internal/proxy`) keeps one connection to a target per connection ID. Responses
go back the same way. Nothing acknowledges, repeats or orders packets beyond
what a gRPC stream does, and nothing tells the other end that a connection was
closed.

## Inventory

| part | state | operations | hard behaviour | what makes it correct |
|---|---|---|---|---|
| server registry (`registry.go`) | `clients`, `proxys`, `connections`, one RWMutex | register, unregister, route from client, route from proxy, clean up stale routes | critical sections of all handlers interleave; `Send` happens outside the lock on a stream read under it; routes outlive streams | maps agree with the handlers; a response reaches only clients that used the connection; a packet reaches only a proxy that manages its destination (it does not, see below); a route never changes; quiet routes go |
| server stream handlers (`grpc_client.go`, `grpc_proxy.go`) | `registered`, one goroutine per stream | receive, acknowledge, route, end | a blocking `Send` to another peer, peers that close, die or stop reading | a registration is answered; a handler whose peer left ends and frees its ID; packets only from registered peers |
| server life cycle (`server.go`, `grpc_server.go`, `cmd/server`) | two listeners and gRPC servers, the deadline of `app.Stop` | start, stop gracefully or by force, `Registry.Cleanup` | `GracefulStop` waits for handlers, which wait for peers; handlers that register or end while and after the maps are replaced; `Cleanup` against `cleanupLoop` | clients drain while proxies still serve; a complete shutdown is reported only when nothing ran any more; every entry has a handler that removes it; stop returns when the peers leave |
| proxy forwarder (`forwarder.go`) | `connections`, reader goroutines, a context, a WaitGroup | forward, dial, read from target, remove, stop | dial under the lock, write outside it; close by several goroutines; a reader that outlives its connection | no leaked socket or reader; responses in order and none lost; stop leaves no target connection and no reader |
| proxy server connection and life cycle (`server_conn.go`, `proxy.go`) | stream, `responseChan`, `stopChan` | connect, register, read loop, write loop, heartbeat loop, close | loss of the stream, a full channel, a `Send` that flow control blocks, the order of shutdown, a heartbeat loop that nobody joins | close returns if targets and server read; no reader is started after the forwarder has stopped |
| client tracking and handlers (`tracker.go`, `handler.go`) | `connections` with activity times; one goroutine per connection | track, renew, remove, clean up, deliver a response, handle | three goroutines close and delete the same connection; IDs come back; a full channel | tracked connections are open; usable connections are tracked; handlers end |
| client server connection and life cycle (`server_conn.go`, `client.go`) | stream, `packetChan`, `stopChan`, listener | start, connect, loops, stop | a write that blocks the read loop, a `Send` that blocks the write loop; partial failure of start | stop returns if connections pause and the server reads |
| client redirection rules (`client/netfilter.go`, `pkg/netfilter`) | the chain of iptables rules in the kernel | validate, build, set up, clean up | failure half way, a crash between setup and cleanup, another configuration's rule in front | a running client is redirected to; copies do not pile up over failures and restarts |
| end-to-end byte streams | where each chunk of data is | the path through all three programs and back | every place that drops, under connection IDs that come back | what arrives is in order, never twice, and nothing is passed over that was not given up |
| connection IDs and codecs (`pkg/network`) | none | hash, checksum, parse, patch and serialise headers | carry, odd lengths, offsets, two forms of an address | both directions and the handler give one ID; receivers verify what was summed; the wire changes nothing but what the code masks off |
| original destination (`pkg/network`) | none | `getsockopt` for either family | byte order; failure | the ID is that of the connection; on failure the handler closes the connection |
| configuration (`internal/config`, `config.go`) | none | load, default, validate, override by flags | precedence of file, environment and flags; values that nobody validates | no rule is installed that was not validated |
| certificates, logging, commands, generated code | none of their own | | | |

`PROJECT.json` lists the source files of each part, what of it is modelled, and
the hazards of the code with the line where each bites.

## Modules

| module | models | proofs |
|---|---|---|
| `Registry` | the registry and the handlers of all streams of the server, with the peers as far as the server sees them | `RegistryProofs` |
| `Forwarder` | the proxy process once registered: forwarder, readers, loops, stop | `ForwarderProofs` |
| `Client` | the client process once registered: accept and cleanup loops, handlers, tracker, loops, stop | `ClientProofs` |
| `ClientLife` | client processes on one host: configuration, start with its failures, stop, crash and restart, and the chain of redirection rules they share | `ClientLifeProofs` |
| `ServerLife` | the server process: start, graceful and forced stop, `Registry.Cleanup`, with handlers that come and go | `ServerLifeProofs` |
| `ByteStream` | abstract: what the tunnel promises of the data of each connection | |
| `Tunnel` | one connection ID end to end through client, server and proxy; implements `ByteStream` | `TunnelProofs` |
| `ConnectionID`, `PacketCodec` | `pkg/network` as operators on bytes: IDs and original destinations; checksums, IP and TCP headers | |
| `Network` | a datagram in the hands of callers of `pkg/network`, in any order of calls | `NetworkProofs` |
| `NumberLemmas` | nothing of the program: the least of a set of numbers, induction over one, remainders and sums, for the other proof modules | itself |
| `MCRegistry`, `MCForwarder`, `MCClient`, `MCClientLife`, `MCServerLife`, `MCTunnel`, `MCNetwork` | instances for TLC: model values, addresses, symmetry | |

`Registry`, `Forwarder` and `Client` are the three programs in detail, each with
the others as far as it can see them. `ServerLife` and `ClientLife` are what
happens around them: start, stop, crash. `Tunnel` composes the three along the
path of the data, without the detail that the data do not depend on.

Every critical section of a mutex is one action; the code between two of them,
every channel operation and every blocking call is another. `pc`, `rl`, `wl`,
`reader`, `handler` and `phase` are the goroutines' program counters.
`PROJECT.json` maps each definition to the lines it stands for. Operators named
`Bug...` are plausible mistakes in the definition after them; with one in its
place TLC finds the property violated that `PROJECT.json` lists it for.

### Registry

A member of `ClientStreams` or `ProxyStreams` is one `Connect` call with its
handler goroutine: `Open` (the peer's `Connect` and `Register`),
`RegisterClientStream` / `RegisterProxyStream`, `SendAck`, `RouteFromClient` /
`RouteFromProxy` and the `Send` that follows it, `RecvEnd`, `Return` with the
deferred unregistration. `clients`, `proxys` and `connections` are the maps of
the same names (`proxys` is `proxies`). A ManagedCIDR is the set of destinations
it contains; one that does not parse contains none, as `findProxyByCIDR` treats
it. Map iteration picks any covering proxy. `LastActivity` is a count of ticks.

The peers are modelled as the server can see them: they send Register, wait for
an ack (`AwaitAck`: anything else makes `register()` fail), send and read
packets, close their side, or die at any moment with what was in flight. gRPC is
a bounded FIFO queue per direction; `Send` blocks without room and fails once the
stream has ended. A peer that is alive may stop reading, for its `readLoop` writes to
a target or an application without a deadline. `MayManage` gives the CIDRs that a
proxy ID may register with: nothing ties an ID to one.

### Forwarder

A member of `Socks` is one connection to a target. `Forward` dials with `pf.mu`
held (`rl = "dial"`, `MuFree`), and writes without it. `RemoveConnection` goes by
connection ID, as `removeConnection` does. Targets may stop reading, close, or
reset. `reads` and `delivered` number the responses of a connection, modulo
`SeqMod`, so that loss, repetition and overtaking are visible.

`writeLoop` and `heartbeatLoop` (`wl`, `hb`) share the stream. `room` is what flow
control says: a `Send` of either returns when there is room or the stream has ended,
and `stopChan` does not interrupt it. `FlowControl` takes room away and gives it back
as the server's handler, which may be in a `Send` to a client itself, stops reading
and reads again; `ServerReturns` is that handler reading the end that `CloseSend`
sent, which it cannot do while it does not read. `stop` joins `readLoop`, `writeLoop`
and the readers, but not `heartbeatLoop`.

### Client

A member of `Locals` is one accepted connection. `handler` follows `Handle`
through the original destination, `Track`, the read with its deadline,
`UpdateActivity`, the send on `packetChan` that drops when the channel is full,
the deferred `Remove` and `Close`. `DeliverResponse` is three steps, because it
looks the state up under one lock, renews it under another and writes under none.
`activity` says what last renewed `LastActivity`, since the read deadline and the
tracker's idle time count different things. `TupleFree` is when the kernel may
give an address and port out again; the history variable `alone` records whether
any handler of the ID was left then. `writeLoop` sends packets and heartbeats; its
`Send` blocks as in `Forwarder`.

### ClientLife

A member of `Procs` is one client process of the host, which may run again after
it ended. `Launch` is `Load`, `Validate` and the flags: a `.env` file goes into
the environment, the environment before any other file, and without a file it
does not count; a flag that is zero or empty is not set, and replaces what was
validated without being validated. `pc` goes through `start` (`Connect`,
`BuildRule`, which panics on a rule that is not valid, `CheckRule` and
`InsertRule` of `Manager.Apply`, `Listen`) and `stop` (`StopBegin`, `StopClosed`,
`NetfilterCleanup`); `Holding` are the places where `NetfilterManager.active` is
true. `chain` is the OUTPUT chain of the kernel, first match first, which no end
of a process changes: `-I` puts a rule first, `-D` takes the first copy out. A
process may fail at each step, crash anywhere, or be ended by fx's timeout while
`stop` waits. The history variables are `left`, pairs of a process and a rule it
ended without removing, and `alone`, whether another process was up since this one
was launched.

### ServerLife

`pc` is `main` with `Server.start` and `stop`, `graceful` the goroutine of
`GRPCServer.Stop` that calls `GracefulStop` of the two servers one after the other.
`Select` takes whichever of that and the deadline there is; `ForceStop` closes
transports (`cut`) and does not wait for handlers, which therefore may register,
route and run their deferred `Unregister` beside `Cancel`, `JoinLoop`, `Lock` and
`Replace` of `Registry.Cleanup`. `mu` is held over a step only where somebody else
could notice: by `cleanupLoop` and by `Cleanup`. `Abandon` is `app.Stop`, which
returns at the deadline wherever the hook is by then. What gRPC documents of
`GracefulStop`, `Stop` and `Serve` is external to `src/`.

### ByteStream and Tunnel

`ByteStream` numbers the chunks each source sends and says that they arrive in
order, at most once, and that one is passed over only after it was given up; a
chunk of a source in `Smearing` may arrive with the data of a later one.
`Tunnel` has two directions of six stages, `pipe[d][k]`: channel, write loop,
stream, server, stream, read loop. `Move` is a loop that receives or sends;
`RouteFromClient` and `RouteFromProxy` route or refuse; `Read` and `TargetRead` put
a chunk into the hand (`held`) of a handler or reader, `ServerWriter` drops it when
`packetChan` is full, `SendResponse` waits for room. `Lookup` and
`DeliverResponse` are the tracker's steps, `Forward`, `Dial`, `Write`,
`RemoveConnection` the forwarder's. `Locals` have the ID one after the other,
`Targets` are what the proxy dials for it, so that several readers share
`responseChan`, and a response may meet another connection than the one that
asked. `sent`, `last`, `data` and `lost` are history and map to the variables of
`ByteStream` of the same names. `Smearing` is `Locals`: `Read` overwrites what its
queued packets point to (`Client_aliasing`).

### ConnectionID, PacketCodec and Network

An address is 4 or 16 bytes, a datagram a sequence of bytes; fields keep their
width. The hash (SHA-256, cut to 16 bytes) is taken to be injective: an ID is what is hashed.
`GetOriginalDest` reads the port as the machine stores integers (`LittleEndian`)
and swaps its bytes. `Panic` is an index or a slice out of range, where the code does
not look: a `TotalLen` below the header's length, a segment too short for its checksum.
`Network` keeps to calls that cannot meet it, and `NetworkTyped` proves that they do
not: its environment sends what RFC 791 allows, and its callers sum whole segments.

`Network` lets a datagram `Arrive`, be parsed with padding, without, or cut short in
its text, edited (`SetTTL`, `SetText` with or without the length), summed in any
way the package offers, serialised and parsed again. `Marks` are the bits of a TCP
header that the package masks off, with those next to them. Nothing but the handler's
`GenerateConnectionID` is called from the rest of `src/` yet: `Network` is the
contract of the package with its callers to be. `sealed` and `summed` remember
whether a checksum was calculated over what the packet now is.

## What is checked

Each configuration is one run. Deadlock is checked in all of them but
`Tunnel_streams`, where nobody has to send and the bound on chunks ends the
behaviour; elsewhere the only states without a further step are those in which
everything has ended, and `Finished` or `Stopped` names them. Symmetry is used
only in runs without liveness properties.

| run | instance | properties |
|---|---|---|
| `Registry_clients` | two client streams that may share one ID, one proxy stream that covers the destination or nothing, one connection | `TypeOK`; `RegistryOwned`: the maps agree with the handlers at every moment; `DeliveredOnlyToOriginator`; `PacketsOnlyRegistered`; `RoutePinned` |
| `Registry_liveness` | two proxy streams of one ID, one client stream, windows of one message | `RegistrationAnswered`, `EndedStreamUnregistered`, `QuietRouteReclaimed` |
| `Forwarder_safety` | one ID and the two target connections it has in turn | `TypeOK`, `ConnectionsOpen`, `StoppedClean` (of everything that `stop` joins), `ResponsesInOrder` |
| `Forwarder_liveness` | one target connection | `StopCompletes`, `ClosedReaderEnds` |
| `Client_safety` | one ID and two connections, the second as early as the kernel allows | `TypeOK`, `TrackedOpen`, `UsableIsTracked` |
| `Client_liveness` | one connection | `ClosedHandlerEnds`, `StopReturns` |
| `ClientLife_safety` | two processes, a network and a part of it, two ports, settings from which no rule can be built | `TypeOK`, `RulesAccounted`, `RunningIsRedirected` |
| `ServerLife_stop` | two clients of one ID and a proxy | `TypeOK`, `DrainedBeforeCleanup`, `EntriesOwned`, `ProxiesOutlastClients`, `StopCompletes` |
| `Tunnel_streams` | two connections of the application and two to the target under one ID | `TypeOK`, `Streams`: `Tunnel` implements `ByteStream`; `Settles`: every chunk arrives or is given up, if both ends read |
| `Network_codecs` | seven connections of both families, IP options, fragments, odd lengths, all marks of TCP, padded and cut frames | `TypeOK`, `HeaderVerifies`, `SegmentVerifies`, `SurvivesTheWire`, `IDIsTheConnection`, `PacketsHaveTheID` |

Two runs show that the code does not do what is said of it.

* `Client_aliasing`: a test expects the data of a packet to be what was read. A
  packet in `packetChan` still points into the buffer that the next `Read` fills, and
  TLC finds `DataIntact` violated.
* `Registry_ranges`: the README of the repository says that a proxy receives packets
  for specific network ranges. The CIDR is looked at when a route is made and never
  again: a proxy ID that comes back with another CIDR inherits the routes of the old
  one, and TLC finds `ForwardedOnlyIntoManagedRange` violated.

More of this kind is in the models without a run of its own.

* The stream is in the registry before its ack is sent, so that a packet can be
  the first message of the stream; `register()` of the peer then fails ("expected
  ack message"). `AwaitAck` of `Registry` has the branch.
* Two handlers can be in `Send` on one stream at once, and so can the proxy's
  `writeLoop` and `heartbeatLoop`, which gRPC forbids. The models let both go on.
* `Proxy.stop` does not wait for `heartbeatLoop`, which may be in a `Send` when `stop`
  returns (hence what `StoppedClean` does not say).
* A server that does not read, because its handler is in a `Send` to another peer,
  keeps `writeLoop` in `Send`, and `Close` waits for that loop before it closes the
  connection, so that `stop` waits for the server (hence `ServerReads` below). The
  process exits when fx's 15 seconds are over.
* The reader of a target connection that a failed write has removed closes its
  successor, because `removeConnection` goes by connection ID (`RemoveConnection`
  of `Forwarder` and `Tunnel`).
* A route that names a proxy which has gone is kept, and renewed by each packet it
  refuses, though another registered proxy manages the destination.
* A second client on a host fails to listen and removes the rule of the one that
  runs (hence `alone` of `ClientLife`), and one whose `stop` exceeds fx's 15 seconds
  leaves the rule behind.
* A rule of another configuration that was left over in front of a client's own
  copy decides instead (`Shadowed`): `Apply` finds its copy further down and
  inserts none.
* The flags of the client are not validated: `MustBuild` panics on them only after
  the client has connected. The environment does not count without a
  configuration file, and an empty variable never does.
* `--cert`, `--key` and `--ca` of the server have no effect, because
  `applyTLSOverrides` decorates a configuration whose TLS part has been used by
  then; the proxy ignores its configuration file, since its `ProvideConfig` takes
  none. Neither is modelled.
* `RecalculateTCPChecksum` and `RecalculateUDPChecksum` write the transport
  checksum into the IP header's field, and nothing writes it into the segment; the caller has
  to (`StoreTransportChecksum`). `RecalculateIPChecksum` sums the length the packet
  was parsed with, and `Serialize` sends another if the caller changed the text and
  not `TotalLen`, or if the frame was cut: no receiver accepts that header
  (`HeaderVerifies` says both).
* A TCP segment loses NS, the reserved bits, CWR and ECE (`SurvivesTheWire` says so),
  and a datagram whose `TotalLen` is less than its header's length panics
  `ParseIPPacket`.
* `NewConnectionTupleFromPacket` takes the first bytes of any fragment for ports
  (hence `FirstFragment` in `PacketsHaveTheID`), and the ports of original
  destinations are right on a little-endian machine only.
* The client's deferred `Remove` closes the successor of its connection when a
  reset lets the ID come back early (hence `alone` of `Client`).
* One target or application that does not read stops the read loop, and with it
  all connections, because `Write` has no deadline; a connection that only receives
  is closed by the read deadline; handlers run on after `Client.stop`; and nobody
  reconnects after a stream has ended.

### Bounds, and why they are enough

* Streams, target connections and local connections are each used once. Two of
  the kind under study let one succeed, overlap or contend with another, which
  is what the hazards need; ownership of an entry, a route and an ID is a
  relation between two of them. The proofs cover any number.
* `Window` is 1 in the runs of `Registry`: smaller windows block more; the proofs
  cover any. It is 2 in `Tunnel_streams`, where chunks must be able to wait behind
  each other in a stream.
* Client processes run again and again, so that `ClientLife_safety` has no bound
  but their number and their settings; two let one crash, be killed or run while
  the other starts, and two configurations that overlap are what a left-over rule
  needs to stand in front of another.
* Each stream of `ServerLife_stop` is used once; two clients of one ID let one be
  refused, or register after the other has gone. `Deadline` may come at any step.
* `MaxChunks` (`Tunnel_streams`) is 2 for each end, over both connections: the
  properties relate two chunks of one source, or one chunk each of two.
* `Network_codecs` runs through all packets of its sets. Each value stands for a
  case of the code: addresses whose order differs from byte to byte, a text whose
  carry carries, one with a UDP checksum of zero, an odd one, a fragment, a frame
  padded or cut anywhere in its text, and a TCP header with NS, CWR and ECE set, which
  are masked off, and ACK and PSH, which are kept (the proof is for any marks). Edits and calls may follow each other without end.
* `IdleTimeout` is 0 or 1 tick; a route's age stops one above it, since the code
  only compares.
* `ChanCap` (100 in the program) is 1: full, empty and, with a handler waiting,
  over-full all occur. `MaxIn` bounds packets that wait to be received.
* `SeqMod` is 3 in `Forwarder_safety`: at most two responses of a connection are
  in flight (one queued, one held by the reader), so that three numbers tell
  loss, repetition and overtaking apart. It is 2 in `Client_aliasing`, 1 where no
  property looks at the numbers.
* One connection ID suffices wherever the hazard is about one ID. Maps keyed by
  ID are independent otherwise.

### Fairness, and why the code justifies it

* Goroutines that can run do run. Handlers of the server are strongly fair:
  senders that wait for room on a stream wait in a channel, which serves them in
  order, so none starves while the peer reads. The same is assumed of a reader
  that waits for `responseChan` and of `select` with several ready cases, which
  Go picks at random.
* Tickers and deadlines fire.
* A peer in `register()` is in `Recv`, and one that has closed waits in `Recv` for the
  end. The server's handler ends a stream when it has read that the peer closed its
  side, for which it must be reading (`ServerReturns`).
* `ServerLife`: main, the goroutine of `Stop`, `cleanupLoop` and handlers run;
  `select` and the mutex starve nobody (`SF` for `Main`, `LoopEnd`, `Unregister`). The
  deadline need not come: `StopCompletes` assumes `PeersLeave` instead, that no
  peer keeps its stream for ever.
* `Tunnel`: loops, handlers with a chunk in hand, and readers run; a reader that waits
  for `responseChan` is strongly fair.
* Nobody has to send, close, stall, resume, die or connect, dial with success, or
  start or stop a program.

Nothing in the code makes a peer, a server, a target or an application read what is
written to it, and only the client's handlers have a deadline that ends such a wait.
These assumptions therefore stand as premises in the properties that need them.

| premise | of | what it says | without it |
|---|---|---|---|
| `PeersRead` | `EndedStreamUnregistered` | no peer leaves its stream full for ever | a handler stays in `Send` to a peer that is alive, and its ID stays taken though its own peer has gone |
| `TargetsDrain` | `StopCompletes` of `Forwarder` | a target that stopped reading reads again | `readLoop` stays in `Write`, and `Close` waits for it |
| `ServerReads` | `StopCompletes`, `ClosedReaderEnds`, `StopReturns` | the server does not stop reading for ever on a stream it leaves open | `writeLoop` stays in `Send`, and `Close` waits for it; the proxy's readers stay in their sends on `responseChan` |
| `Pausing` | `StopReturns` | every connection has a gap of five minutes some day, and the read deadline then fires | `readLoop` stays in the `Write` to an application that sends but never reads |
| `EndsRead` | `Settles` | what is written to targets and applications is taken | a chunk stays in the tunnel, neither delivered nor given up |
| `PeersLeave` | `StopCompletes` of `ServerLife` | handlers end some day | `GracefulStop` waits until the deadline, which need not come in the model |

## What is proved

All theorems hold for every value of the constants that the `ASSUME` of the
module allows: `None` is not an element of the sets, capacities are positive
numbers, `DestOf`, `MayManage` and `IdOf` are functions, `Procs` is finite,
`Defaults` is a valid configuration, `Locals` and `Targets` are disjoint, the two
addresses of a connection are of one family, options have the lengths that IPv4
has room for, and a text fits a datagram with both headers in front of it (the
length field of IPv4 has 16 bits). TLC evaluates these assumptions in every run.

| theorem | property | argument |
|---|---|---|
| `RegistryProofs!TypeCorrect` | `TypeOK` | needs `StreamsOK`: an ID and a CIDR exist exactly from `Open` on, and a handler in `Send` has a packet and a stream |
| `RegistryProofs!DirectoryOwned` | `RegistryOwned` | inductive together with the types: registration takes only a free entry, and only the handler that holds an entry removes it |
| `RegistryProofs!ResponsesToOriginators` | `DeliveredOnlyToOriginator` | `Provenance`: whoever is in the queue, the route or a `Send` for a connection sent a packet of it before; it uses `RegistryOwned` to go from the ID of a route to the ID of the stream |
| `RegistryProofs!PacketsAdmitted` | `PacketsOnlyRegistered` | `Admitted`: a successful ack is on its way, or was received, only of a registered stream |
| `RegistryProofs!RoutesPinned` | `RoutePinned` | action property, step by step |
| `ForwarderProofs!TypeCorrect` | `TypeOK` | needs `ControlOK`: what the program counters say of `cur`, `target` and the sockets |
| `ForwarderProofs!MapIsOpenConnections` | `ConnectionsOpen` | inductive with the types |
| `ForwarderProofs!StopIsClean` | `StoppedClean` | `StopOrder`: `readLoop` and `writeLoop` end before the context is cancelled, so no reader starts after it. `heartbeatLoop` is not among what ends |
| `ForwarderProofs!ResponsesKeepOrder` | `ResponsesInOrder` | inductive with the types, see below |
| `ClientProofs!TypeCorrect` | `TypeOK` | needs `ControlOK` and `TrackedOpen` (a closed connection was open) |
| `ClientProofs!TrackedAreOpen` | `TrackedOpen` | `NewOpen`: nobody closes a connection that is not tracked yet |
| `ClientProofs!UsableAreTracked` | `UsableIsTracked` | `OneHandler`: while a connection that had its ID for itself is usable, no other handler has the ID |
| `ClientLifeProofs!TypeCorrect` | `TypeOK` | that no rule is in hand that `ValidateRule` did not accept is part of the type; what `Load` and the flags give has the fields of a configuration (`LoadTyped`) |
| `ClientLifeProofs!RulesAreAccounted` | `RulesAccounted` | `AllAccounted`, for every rule and not only those in the chain: each step adds a copy with a process that answers for it, or removes a process only with a copy. `ConsCount` and `RemoveCount` count copies in the chain; cardinalities from `FiniteSetTheorems` |
| `ClientLifeProofs!RunningRedirected` | `RunningIsRedirected` | `Solitary`: nobody is up beside a process that has been alone, and it has its rule. The first rule that covers an address exists (`LeastExists`), and if it is not the process's own, somebody left it over (`RulesAccounted`) |
| `ServerLifeProofs!TypeCorrect` | `TypeOK` | inductive |
| `ServerLifeProofs!EntriesAreOwned` | `EntriesOwned` | inductive with the types, through `Replace` and registrations after it |
| `ServerLifeProofs!CleanupAfterDrain` | `DrainedBeforeCleanup` | `StopOrder`: what the goroutine of `Stop` has reached says which server takes streams and which handlers are gone; with `EntriesOwned`, no entry is left |
| `ServerLifeProofs!ProxiesLast` | `ProxiesOutlastClients` | from `StopOrder` |
| `TunnelProofs!TypeCorrect` | `TypeOK` | needs `Handed`: who writes, or delivers, has a chunk at the last stage |
| `TunnelProofs!ImplementsStreams` | `Streams` | refinement, see below |
| `NetworkProofs!OneIDPerConnection` | `IDIsTheConnection` | assumes `LittleEndian`. Addresses are totally ordered (`BeforeOrders`), so that of two different endpoints one goes first whichever is the source; what is hashed can be taken apart again (`HashedTells`); the 16-byte form of an IPv4 address gives it back (`MappedBack`), the swapped port too (`PortReadBack`) |
| `NetworkProofs!RoundTrip` | | for each packet and any padding, whatever behaviour it comes from: `HeaderBytes` says what `Serialize` puts where, `ParsedBack` what `ParseIPPacket` makes of it |
| `NetworkProofs!ChecksumVerifies` | | for any bytes: the checksum of the rest makes the words sum up to all ones, see below |
| `NetworkProofs!NetworkTyped` | `TypeOK` | `NetworkInv`, see below |
| `NetworkProofs!PacketsSurviveTheWire` | `SurvivesTheWire` | `RoundTrip` of the packet with its length set, which `Serialize` does not tell from the packet, and `SegmentRoundTrip` for TCP: every byte comes back, but for the bits of two that are masked off (`SixBits`) |
| `NetworkProofs!EveryPacketHasTheID` | `PacketsHaveTheID` | assumes `LittleEndian`. `Belongs`: a first fragment shows the endpoints of the connection, from either end; the rest is in `OneIDPerConnection` |
| `NetworkProofs!SealedHeadersVerify` | `HeaderVerifies` | `HeaderSealed` and `ChecksumVerifies` for the header with the length that was summed (`SealedVerifies`). The length adds itself to the sum of the other words (`LengthCounts`), and of all lengths one makes that a multiple of 65535 (`OneMultiple`): the header verifies with no other |
| `NetworkProofs!SummedSegmentsVerify` | `SegmentVerifies` | `SegmentSummed` and `ChecksumVerifies`, over the pseudo header and the segment |

The refinement is proved for any connections, capacities and windows. `FlowInv`
is its invariant: a chunk under way has neither arrived nor been given up and is
newer than all that has arrived of its source (`UnderWay`); chunks of one source
are in the order in which they were sent, over all stages (`Ordered`); a chunk in
hand is the newest (`HeldFit`); and a chunk that has not arrived and was not
given up is in the pipe or in hand (`Somewhere`). The last makes a delivery pass over lost
chunks only, which is the guard of `ByteStream!Deliver`. Each step then is a `Send`, a
`Lose`, a `Deliver` or a stutter (`StepKinds`).

`ResponsesInOrder` counts, for each response in `responseChan`, how many of the
same connection are in front of it. `InFrontNext` carries that count one place
further, `InFrontSame` past an appended response, `InFrontTail` past one taken away. A response that leaves moves all others of its connection one place
forward while `delivered` grows by one, and the reader's own is the one after all
that are queued; modulo `SeqMod` nothing changes. It needs nothing but the
types besides.

`NetworkInv` is the invariant of `Network`. A packet in the hands of a caller is
`Wellformed` (the widths of the fields, options as long as the header says, with its
payload no longer than a datagram, and a `TotalLen` that is not zero, since a stale
zero would add to a checksum what 65535 adds) and `Belongs` to the connection; while
`sealed` is true its checksum is that of the header (`HeaderSealed`), while
`summed` is true that of its segment is (`SegmentSummed`). The properties do not
say any of this of a datagram on the wire, so that the invariant has to: it is
what `Serialize` makes of a packet of which the same holds and whose length is set
(`WireOK`), or one of IPv6. `DatagramArrives` shows that of what the environment
sends, `PacketSent` of what `Send` does; `RoundTrip` gives `Parse` the packet back,
and `CutBack` what is left of one whose frame was cut. Each of the other actions keeps it by a lemma about what it does to a packet
(`TTLSet`, `TextSet`, `HeaderRecalculated`, `TransportRecalculated`,
`ChecksumStored`).

The checksum: `WordSum`, over bytes, and `ReceiverSum`, over words, are recursive
functions, and equal (`ReceiverSumsWords`). Each round of the carry takes a multiple of
65535 away and never leaves zero of anything else (`CarryKeepsRemainder`); a sum of
at most 65535 words is within what two rounds fold (`CarryIsWord`), which is
why the length of a datagram matters. So the sum with the checksum in its place is
a multiple of 65535 (`SumsDiffer`). What a recursive function computes is shown by
induction over its numbers: `Induction` of `NumberLemmas` says it of a set of
natural numbers, and follows from `LeastExists`.

Every invariant that a run checks is proved. Only model-checked are the liveness
properties (`RegistrationAnswered`, `EndedStreamUnregistered`, `QuietRouteReclaimed`,
`ClosedHandlerEnds`, `StopReturns`, `ClosedReaderEnds`, both `StopCompletes`,
`Settles`), since TLAPS does not reason about fairness here, and the two violations.

## What is left out, and why

* Heartbeats on the server's side (they change nothing there), packet counters,
  logging; what gRPC makes of two `Send`s of one stream at a time.
* The content of packets, except for the numbers that tell data apart. A read
  that overwrites a queued packet replaces it whole; torn data are not modelled.
* Code without a caller: `FindProxyByCIDR`, `RemoveConnection` of the registry,
  `PacketForwarder.Cleanup`, `SendPacket`.
* The branches for packets of peers that are not registered: they cannot be
  reached (`PacketsOnlyRegistered`, for any number of streams).
* The steps of `Client.stop` before it waits (cancel, close the listener, close
  `stopChan`, `CloseSend`) are one action, with the end of `acceptLoop` that
  follows from them: they do not block, and no goroutine can tell their order
  except by ending.
* Failures of `start` and `Connect` of the proxy, and of the configuration of proxy
  and server, which only gives `Registry` and `Forwarder` their constants.
* An `iptables -D` that outlives its killed process and runs after the next start;
  changes of the nat table by hand.
* Streams that break in the middle of `Tunnel`: then both sides end, which is in
  `Registry`, `Forwarder` and `Client`. Other connections that block the loops a chunk
  passes: in `Tunnel` a `Send` waits for what is in front of it only.
* How long a process outlives a `stop` that hangs: fx gives it 15 seconds, in
  `ClientLife` as `StopTimeout`; `Forwarder` and `Client` ask of `stop` itself that it
  returns.
* Fields of packets that no property looks at are there but not varied; IPv6
  datagrams only as something `ParseIPPacket` refuses, since it reads IPv4.
* TLS, certificates (calls into `crypto/x509`), logging and dependency injection
  have no state the tunnel depends on while it runs; generated code is messages
  and stubs.

## What could come next

* `ProxyLife`: start of the proxy with its failures, and its configuration, as
  `ClientLife` does for the client; little can go wrong there that outlives the
  process.
* If the program learns to reconnect, to tell the other end of a close, or to
  acknowledge: an abstract specification stronger than `ByteStream`.
