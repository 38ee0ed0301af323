------------------------------- MODULE Tunnel --------------------------------
(***************************************************************************)
(* One connection ID from end to end: the application's connections that   *)
(* have the ID one after the other, the handler and loops of the client,   *)
(* the two streams and the server between them, the loops and the          *)
(* forwarder of the proxy, and the target connections it dials for the ID. *)
(* The components in detail are the subjects of Client, Registry and       *)
(* Forwarder; here what becomes of the data is: which chunk is where, in   *)
(* which order, and where chunks are dropped.                              *)
(*                                                                         *)
(* Either direction is a line of six stages, alike in both:                *)
(*     1 packetChan           responseChan                                 *)
(*     2 writeLoop of client  writeLoop of proxy                           *)
(*     3 stream to server     stream to server                             *)
(*     4 Connect of server    Connect of server                            *)
(*     5 stream to proxy      stream to client                             *)
(*     6 readLoop of proxy    readLoop of client                           *)
(*                                                                         *)
(* A Write to a target or to an application may stay where it is for ever: *)
(* nothing in the code limits it.  Streams do not break here.  Operators   *)
(* named Bug... are plausible mistakes in the definition that follows      *)
(* them; no specification here uses them.                                  *)
(***************************************************************************)
EXTENDS Integers, Sequences, Functions

CONSTANTS
    Locals,    \* connections of the application, in the order in which they
               \* have the ID
    Targets,   \* connections of the proxy to the target
    ChanCap,   \* capacity of packetChan and of responseChan
    Window,    \* messages gRPC flow control lets a stream hold
    MaxChunks  \* bound: chunks that Locals, and Targets, send together

None == 0
Sources == Locals \cup Targets

ASSUME TunnelAssumption ==
    /\ Locals \subseteq Nat \ {None} /\ Targets \subseteq Nat \ {None}
    /\ Locals \cap Targets = {}
    /\ ChanCap \in Nat \ {0} /\ Window \in Nat \ {0} /\ MaxChunks \in Nat

VARIABLES
    pipe,     \* pipe[d][k]: the chunks at stage k of direction d
    local,    \* the application's connections; the tracker has the open one
    rcv,      \* the connection DeliverResponse has looked up
    proxied,  \* a proxy that manages the destination is registered
    routed,   \* the server has a route for the ID
    cur,      \* the connection the forwarder has for the ID
    to,       \* the one Forward is about to write to
    target,   \* the target connections
    readers,  \* those whose readFromTarget runs
    held,     \* the chunk a handler or a reader has read and not sent to its
              \* channel
    \* history
    sent,     \* how many chunks each connection sent
    last,     \* the last one of them that arrived
    data,     \* its data
    lost      \* those that were dropped

pipeVars == <<pipe, held>>
clientVars == <<local, rcv>>
serverVars == <<proxied, routed>>
proxyVars == <<cur, to, target, readers>>
history == <<sent, last, data, lost>>
vars == <<pipe, held, local, rcv, proxied, routed, cur, to, target, readers,
          sent, last, data, lost>>

Directions == {"fwd", "bwd"}
Stages == 1..6
Capacity(k) == IF k = 1 THEN ChanCap ELSE IF k \in {3, 5} THEN Window ELSE 1

(* data is the number of the chunk that the data were sent with             *)
Chunk == [src : Sources, n : Nat \ {0}, data : Nat \ {0}]

TypeOK ==
    /\ pipe \in [Directions -> [Stages -> Seq(Chunk)]]
    /\ \A d \in Directions, k \in Stages : Len(pipe[d][k]) <= Capacity(k)
    /\ local \in [Locals -> {"new", "open", "closed"}]
    /\ rcv \in Locals \cup {None}
    /\ proxied \in BOOLEAN /\ routed \in BOOLEAN
    /\ cur \in Targets \cup {None} /\ to \in Targets \cup {None}
    /\ target \in [Targets -> {"new", "open", "shut", "closed"}]
    /\ readers \in SUBSET Targets
    /\ held \in [Sources -> Nat]
    /\ sent \in [Sources -> Nat] /\ last \in [Sources -> Nat] /\ data \in [Sources -> Nat]
    /\ lost \in [Sources -> SUBSET Nat]

Init ==
    /\ pipe = [d \in Directions |-> [k \in Stages |-> <<>>]]
    /\ local = [g \in Locals |-> "new"]
    /\ rcv = None
    /\ proxied = FALSE /\ routed = FALSE
    /\ cur = None /\ to = None
    /\ target = [t \in Targets |-> "new"]
    /\ readers = {}
    /\ held = [s \in Sources |-> 0]
    /\ sent = [s \in Sources |-> 0]
    /\ last = [s \in Sources |-> 0]
    /\ data = [s \in Sources |-> 0]
    /\ lost = [s \in Sources |-> {}]

-----------------------------------------------------------------------------
(***************************************************************************)
(* Chunks.                                                                 *)
(***************************************************************************)
Room(d, k) == Len(pipe[d][k]) < Capacity(k)
Waiting(d, k) == pipe[d][k] # <<>>
First(d, k) == Head(pipe[d][k])

Taken(d, k) == [pipe EXCEPT ![d][k] = Tail(@)]
Passed(d, k) == [pipe EXCEPT ![d][k] = Tail(@), ![d][k + 1] = Append(@, First(d, k))]

(* The chunk at the head of stage k goes nowhere.                           *)
Dropped(d, k) ==
    /\ pipe' = Taken(d, k)
    /\ lost' = [lost EXCEPT ![First(d, k).src] = @ \cup {First(d, k).n}]

MaySend(end) == FoldFunctionOnSet(+, 0, sent, end) < MaxChunks

(* It leaves the tunnel.                                                    *)
Arrived(d, k) ==
    /\ pipe' = Taken(d, k)
    /\ last' = [last EXCEPT ![First(d, k).src] = First(d, k).n]
    /\ data' = [data EXCEPT ![First(d, k).src] = First(d, k).data]

(* writeLoop, readLoop and the handlers of the server: receive, or Send,    *)
(* which waits for room.                                                    *)
Move(d, k) ==
    /\ Waiting(d, k) /\ Room(d, k + 1)
    /\ pipe' = Passed(d, k)
    /\ UNCHANGED <<held, clientVars, serverVars, proxyVars, history>>

-----------------------------------------------------------------------------
(***************************************************************************)
(* The client.                                                             *)
(***************************************************************************)
(* A successor has the ID when its predecessors are closed.                 *)
Connect(g) ==
    /\ local[g] = "new"
    /\ \A h \in Locals : h < g => local[h] = "closed"
    /\ local' = [local EXCEPT ![g] = "open"]
    /\ UNCHANGED <<pipeVars, rcv, serverVars, proxyVars, history>>

(* The application closes, the tracker finds it idle or the read deadline   *)
(* passes: the handler ends and nobody else is told.                        *)
Close(g) ==
    /\ local[g] = "open"
    /\ local' = [local EXCEPT ![g] = "closed"]
    /\ UNCHANGED <<pipeVars, rcv, serverVars, proxyVars, history>>

(* Data of g that still point into the buffer of its handler are            *)
(* overwritten by the next Read.                                            *)
Smeared(chunks, g, n) ==
    [i \in 1..Len(chunks) |-> IF chunks[i].src = g THEN [chunks[i] EXCEPT !.data = n] ELSE chunks[i]]

(* A connection that another has replaced may still have a chunk in hand.   *)
Read(g) ==
    LET n == sent[g] + 1 IN
    /\ local[g] = "open" /\ held[g] = 0
    /\ MaySend(Locals)
    /\ sent' = [sent EXCEPT ![g] = n]
    /\ held' = [held EXCEPT ![g] = n]
    /\ pipe' = [pipe EXCEPT !["fwd"][1] = Smeared(@, g, n), !["fwd"][2] = Smeared(@, g, n)]
    /\ UNCHANGED <<clientVars, serverVars, proxyVars, last, data, lost>>

InHand(s) == [src |-> s, n |-> held[s], data |-> held[s]]

(* Handle drops the packet when packetChan is full.                         *)
ServerWriter(g) ==
    /\ held[g] # 0
    /\ held' = [held EXCEPT ![g] = 0]
    /\ IF Room("fwd", 1)
       THEN pipe' = [pipe EXCEPT !["fwd"][1] = Append(@, InHand(g))] /\ UNCHANGED lost
       ELSE lost' = [lost EXCEPT ![g] = @ \cup {held[g]}] /\ UNCHANGED pipe
    /\ UNCHANGED <<clientVars, serverVars, proxyVars, sent, last, data>>

Lookup ==
    /\ Waiting("bwd", 6) /\ rcv = None
    /\ \E g \in Locals : local[g] = "open" /\ rcv' = g
    /\ UNCHANGED <<pipeVars, local, serverVars, proxyVars, history>>

BugOnlyUntracked ==
    /\ Waiting("bwd", 6)
    /\ rcv = None /\ \A g \in Locals : local[g] # "open"
    /\ Dropped("bwd", 6)
    /\ UNCHANGED <<held, local, rcv, serverVars, proxyVars, sent, last, data>>

(* No connection of the ID is tracked, or the one found has been closed.    *)
DeliverFails ==
    /\ Waiting("bwd", 6)
    /\ IF rcv = None THEN \A g \in Locals : local[g] # "open" ELSE local[rcv] = "closed"
    /\ Dropped("bwd", 6)
    /\ rcv' = None
    /\ UNCHANGED <<held, local, serverVars, proxyVars, sent, last, data>>

(* Write blocks while the application reads nothing; it has no deadline.    *)
DeliverResponse ==
    /\ Waiting("bwd", 6)
    /\ rcv # None /\ local[rcv] = "open"
    /\ Arrived("bwd", 6)
    /\ rcv' = None
    /\ UNCHANGED <<held, local, serverVars, proxyVars, sent, lost>>

-----------------------------------------------------------------------------
(***************************************************************************)
(* The server.                                                             *)
(***************************************************************************)
RegisterProxy ==
    /\ ~proxied
    /\ proxied' = TRUE
    /\ UNCHANGED <<pipeVars, clientVars, routed, proxyVars, history>>

RouteFromClient ==
    /\ Waiting("fwd", 3) /\ Room("fwd", 4)
    /\ IF routed \/ proxied
       THEN pipe' = Passed("fwd", 3) /\ routed' = TRUE /\ UNCHANGED lost
       ELSE Dropped("fwd", 3) /\ UNCHANGED routed
    /\ UNCHANGED <<held, clientVars, proxied, proxyVars, sent, last, data>>

RouteFromProxy ==
    /\ Waiting("bwd", 3) /\ Room("bwd", 4)
    /\ IF routed
       THEN pipe' = Passed("bwd", 3) /\ UNCHANGED lost
       ELSE Dropped("bwd", 3)
    /\ UNCHANGED <<held, clientVars, serverVars, proxyVars, sent, last, data>>

(* The route was idle for five minutes.                                     *)
CleanupStale ==
    /\ routed
    /\ routed' = FALSE
    /\ UNCHANGED <<pipeVars, clientVars, proxied, proxyVars, history>>

-----------------------------------------------------------------------------
(***************************************************************************)
(* The proxy: Forward, in the read loop, and a reader per target           *)
(* connection.                                                             *)
(***************************************************************************)
(* removeConnection: by ID, whichever connection has it.                    *)
RemoveConnection ==
    /\ cur' = None
    /\ target' = [t \in Targets |-> IF t = cur THEN "closed" ELSE target[t]]

Forward ==
    /\ Waiting("fwd", 6) /\ to = None
    /\ cur # None
    /\ to' = cur
    /\ UNCHANGED <<pipeVars, clientVars, serverVars, cur, target, readers, history>>

Dial(t) ==
    /\ Waiting("fwd", 6) /\ to = None
    /\ cur = None /\ target[t] = "new"
    /\ cur' = t /\ to' = t
    /\ target' = [target EXCEPT ![t] = "open"]
    /\ readers' = readers \cup {t}
    /\ UNCHANGED <<pipeVars, clientVars, serverVars, history>>

(* The packet that wanted the connection is dropped; the next one dials.    *)
DialFails ==
    /\ Waiting("fwd", 6) /\ to = None
    /\ cur = None
    /\ Dropped("fwd", 6)
    /\ UNCHANGED <<held, clientVars, serverVars, proxyVars, sent, last, data>>

(* It blocks while the target reads nothing, and has no deadline either.    *)
Write ==
    /\ to # None /\ target[to] = "open"
    /\ Arrived("fwd", 6)
    /\ to' = None
    /\ UNCHANGED <<held, clientVars, serverVars, cur, target, readers, sent, lost>>

(* The target has closed; the first write after that may still succeed.     *)
WriteLost ==
    /\ to # None /\ target[to] = "shut"
    /\ Dropped("fwd", 6)
    /\ to' = None
    /\ UNCHANGED <<held, clientVars, serverVars, cur, target, readers, sent, last, data>>

BugRetry ==
    /\ to # None /\ target[to] \in {"shut", "closed"}
    /\ RemoveConnection
    /\ pipe' = [pipe EXCEPT !["fwd"][6] = Tail(@), !["fwd"][5] = Append(@, First("fwd", 6))]
    /\ to' = None
    /\ UNCHANGED <<held, clientVars, serverVars, readers, history>>

WriteFails ==
    /\ to # None /\ target[to] \in {"shut", "closed"}
    /\ RemoveConnection
    /\ Dropped("fwd", 6)
    /\ to' = None
    /\ UNCHANGED <<held, clientVars, serverVars, readers, sent, last, data>>

(* The target answers, whether it was asked or not, and the reader reads    *)
(* it, perhaps when the target has closed already.                          *)
TargetRead(t) ==
    LET n == sent[t] + 1 IN
    /\ t \in readers /\ target[t] \in {"open", "shut"} /\ held[t] = 0
    /\ MaySend(Targets)
    /\ sent' = [sent EXCEPT ![t] = n]
    /\ held' = [held EXCEPT ![t] = n]
    /\ UNCHANGED <<pipe, clientVars, serverVars, proxyVars, last, data, lost>>

BugNoRoom(t) ==
    /\ held[t] # 0
    /\ pipe' = [pipe EXCEPT !["bwd"][1] = Append(@, InHand(t))]
    /\ held' = [held EXCEPT ![t] = 0]
    /\ UNCHANGED <<clientVars, serverVars, proxyVars, history>>

(* readFromTarget sends a copy and waits for room.                          *)
SendResponse(t) ==
    /\ held[t] # 0 /\ Room("bwd", 1)
    /\ pipe' = [pipe EXCEPT !["bwd"][1] = Append(@, InHand(t))]
    /\ held' = [held EXCEPT ![t] = 0]
    /\ UNCHANGED <<clientVars, serverVars, proxyVars, history>>

TargetCloses(t) ==
    /\ target[t] = "open"
    /\ target' = [target EXCEPT ![t] = "shut"]
    /\ UNCHANGED <<pipeVars, clientVars, serverVars, cur, to, readers, history>>

(* Read returns an error: end of file, a closed connection or five minutes  *)
(* without an answer.                                                       *)
ReaderEnds(t) ==
    /\ t \in readers /\ held[t] = 0
    /\ readers' = readers \ {t}
    /\ RemoveConnection
    /\ UNCHANGED <<pipeVars, clientVars, serverVars, to, history>>

-----------------------------------------------------------------------------
Loops ==
    \/ \E d \in Directions, k \in {1, 2, 4, 5} : Move(d, k)
    \/ Lookup \/ DeliverFails \/ DeliverResponse
    \/ RouteFromClient \/ RouteFromProxy
    \/ Forward \/ DialFails \/ Write \/ WriteLost \/ WriteFails

Next ==
    \/ Loops
    \/ \E g \in Locals : Connect(g) \/ Close(g) \/ Read(g) \/ ServerWriter(g)
    \/ RegisterProxy \/ CleanupStale
    \/ \E t \in Targets : Dial(t) \/ TargetRead(t) \/ SendResponse(t) \/ TargetCloses(t)
                            \/ ReaderEnds(t)

(* Loops and readers run.  Nobody has to connect, to send, to dial with     *)
(* success, to take what is written to him, to close or to forget a route.  *)
Fairness ==
    /\ \A d \in Directions, k \in {1, 2, 4, 5} : WF_vars(Move(d, k))
    /\ WF_vars(Lookup) /\ WF_vars(DeliverFails)
    /\ WF_vars(RouteFromClient) /\ WF_vars(RouteFromProxy)
    /\ WF_vars(Forward \/ DialFails) /\ WF_vars(WriteLost \/ WriteFails)
    /\ \A g \in Locals : WF_vars(ServerWriter(g))
    /\ \A t \in Targets : SF_vars(SendResponse(t))

Spec == Init /\ [][Next]_vars /\ Fairness

-----------------------------------------------------------------------------
(***************************************************************************)
(* Properties.                                                             *)
(***************************************************************************)
Stream == INSTANCE ByteStream WITH Smearing <- Locals

(* Whatever a connection sends arrives as a stream with holes: in order,    *)
(* never twice, and no chunk is passed over unless a full channel, a        *)
(* refused route, a failed dial or write or a closed connection cost it.    *)
(* It does so though readers of several target connections share            *)
(* responseChan, and connections of both ends come and go under one ID.     *)
(* The data of an application's chunks may be those of later ones.          *)
Streams == Stream!Spec

(* Targets and applications take what is written to them.  The code does    *)
(* not see to it: forwarder.go:83 and tracker.go:133 write without a        *)
(* deadline, in the read loop that all connections share.                   *)
EndsRead == WF_vars(Write) /\ WF_vars(DeliverResponse)

(* When connections send no more, no chunk stays in the tunnel, provided    *)
(* that both ends read: each has arrived or was given up.  MaxChunks ends   *)
(* the sending.                                                             *)
Settled == \A s \in Sources : \A n \in 1..sent[s] : n <= last[s] \/ n \in lost[s]

Settles == EndsRead => <>[]Settled
=============================================================================
