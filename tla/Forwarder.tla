----------------------------- MODULE Forwarder ------------------------------
(***************************************************************************)
(* The proxy process once it is registered: the PacketForwarder            *)
(* (forwarder.go), which keeps one target connection per connection ID and *)
(* a reader goroutine for each, the read and write loops of its            *)
(* ServerConnection (server_conn.go), the heartbeat loop (proxy.go), and   *)
(* their shutdown (Proxy.stop).                                            *)
(*                                                                         *)
(* A member of Socks is one net.Conn to a target, from its Dial to its     *)
(* Close; a connection ID may have several, one after the other.  pf.mu is *)
(* held across the Dial, so that step is split in two; every other         *)
(* critical section is one step.  Forwarder.Cleanup has no caller in the   *)
(* program, and LastActivity no other reader, so both are left out.        *)
(*                                                                         *)
(* Operators named Bug... are plausible mistakes in the definition that    *)
(* follows them; no specification here uses them.                          *)
(***************************************************************************)
EXTENDS Naturals, Sequences, FiniteSets

CONSTANTS
    Conns,      \* connection IDs
    Socks,      \* target connections, each used once
    ChanCap,    \* capacity of responseChan (100 in the program)
    MaxIn,      \* bound: packets from the server waiting to be received
    SeqMod,     \* responses of a target connection are numbered modulo SeqMod
    None        \* an absent map entry, a nil

ASSUME ForwarderAssumption ==
    /\ None \notin Socks \cup Conns
    /\ ChanCap \in Nat \ {0} /\ MaxIn \in Nat /\ SeqMod \in Nat \ {0}

VARIABLES
    \* PacketForwarder
    connections,  \* connection ID -> its target connection
    cancelled,    \* pf.ctx was cancelled
    \* readFromTarget, one goroutine per target connection
    reader,       \* where it is
    reads,        \* number of the last response it read
    \* ServerConnection
    rl,           \* where readLoop is, inside Forward included
    cur,          \* the connection ID of the packet readLoop forwards
    target,       \* the target connection it writes to
    wl,           \* where writeLoop is
    stopChan,     \* stopChan was closed
    responses,    \* responseChan
    phase,        \* progress of Proxy.stop
    hb,           \* where heartbeatLoop is
    \* the target connections, ours and the far end's side
    conn,         \* the connection ID a target connection was dialled for
    sock,         \* our side: unused, open or closed
    remote,       \* the target's side: up, stalled (takes no data for now),
                  \* closed (FIN) or reset
    \* the stream to the server
    stream,       \* open or ended
    inq,          \* connection IDs of the packets to be received
    room,         \* a Send need not wait: flow control has room for it, or the
                  \* stream has ended and it fails
    \* history
    delivered     \* number of the last response writeLoop took to its Send

forwarderVars == <<connections, cancelled>>
readerVars == <<reader, reads>>
serverConnVars == <<rl, cur, target, wl, stopChan, responses, phase, hb>>
targetVars == <<conn, sock, remote>>
streamVars == <<stream, inq, room>>
vars == <<connections, cancelled, reader, reads, rl, cur, target, wl, stopChan,
          responses, phase, hb, conn, sock, remote, stream, inq, room,
          delivered>>

Numbers == 0 .. SeqMod - 1

Response == [sock : Socks, n : Numbers]

TypeOK ==
    /\ connections \in [Conns -> Socks \cup {None}]
    /\ cancelled \in BOOLEAN
    /\ reader \in [Socks -> {"none", "top", "read", "send", "remove", "done"}]
    /\ reads \in [Socks -> Numbers]
    /\ rl \in {"recv", "forward", "dial", "write", "remove", "end"}
    /\ cur \in Conns \cup {None}
    /\ target \in Socks \cup {None}
    /\ wl \in {"select", "send", "end"}
    /\ stopChan \in BOOLEAN
    /\ responses \in Seq(Response)
    /\ phase \in {"running", "closing", "stopping", "stopped"}
    /\ hb \in {"select", "send", "end"}
    /\ conn \in [Socks -> Conns \cup {None}]
    /\ sock \in [Socks -> {"unused", "open", "closed"}]
    /\ remote \in [Socks -> {"up", "stalled", "closed", "reset"}]
    /\ stream \in {"open", "ended"}
    /\ inq \in Seq(Conns)
    /\ room \in BOOLEAN
    /\ delivered \in [Socks -> Numbers]

(* Connect has returned: the loops run.                                     *)
Init ==
    /\ connections = [c \in Conns |-> None]
    /\ cancelled = FALSE
    /\ reader = [k \in Socks |-> "none"]
    /\ reads = [k \in Socks |-> 0]
    /\ rl = "recv" /\ cur = None /\ target = None
    /\ wl = "select" /\ stopChan = FALSE /\ responses = <<>>
    /\ phase = "running" /\ hb = "select"
    /\ conn = [k \in Socks |-> None]
    /\ sock = [k \in Socks |-> "unused"]
    /\ remote = [k \in Socks |-> "up"]
    /\ stream = "open" /\ inq = <<>> /\ room = TRUE
    /\ delivered = [k \in Socks |-> 0]

-----------------------------------------------------------------------------
(***************************************************************************)
(* readLoop and Forward, which it calls synchronously.                     *)
(***************************************************************************)
RecvPacket ==
    /\ rl = "recv"
    /\ inq # <<>>
    /\ cur' = Head(inq) /\ inq' = Tail(inq)
    /\ rl' = "forward"
    /\ UNCHANGED <<forwarderVars, readerVars, target, wl, stopChan, responses, phase, hb,
                   targetVars, stream, room, delivered>>

(* io.EOF or an error: the loop closes stopChan and ends.  What was still   *)
(* queued may be lost.                                                      *)
RecvEnd ==
    /\ rl = "recv"
    /\ stream = "ended"
    /\ rl' = "end"
    /\ stopChan' = TRUE
    /\ inq' = <<>>
    /\ UNCHANGED <<forwarderVars, readerVars, cur, target, wl, responses, phase, hb,
                   targetVars, stream, room, delivered>>

(* The lookup.  An unknown connection ID is dialled with pf.mu held.        *)
Forward ==
    /\ rl = "forward"
    /\ \/ connections[cur] # None /\ rl' = "write" /\ target' = connections[cur]
       \/ connections[cur] = None /\ rl' = "dial" /\ UNCHANGED target
    /\ UNCHANGED <<forwarderVars, readerVars, cur, wl, stopChan, responses, phase, hb,
                   targetVars, streamVars, delivered>>

(* The connection enters the map and its reader starts before pf.mu is      *)
(* released.                                                                *)
DialOK(k) ==
    /\ rl = "dial"
    /\ sock[k] = "unused"
    /\ sock' = [sock EXCEPT ![k] = "open"]
    /\ conn' = [conn EXCEPT ![k] = cur]
    /\ connections' = [connections EXCEPT ![cur] = k]
    /\ reader' = [reader EXCEPT ![k] = "top"]
    /\ target' = k
    /\ rl' = "write"
    /\ UNCHANGED <<cancelled, reads, cur, wl, stopChan, responses, phase, hb,
                   remote, streamVars, delivered>>

ForwardReturns == rl' = "recv" /\ cur' = None /\ target' = None

(* The dial fails or times out: the packet is dropped.                      *)
DialFail ==
    /\ rl = "dial"
    /\ ForwardReturns
    /\ UNCHANGED <<forwarderVars, readerVars, wl, stopChan, responses, phase, hb,
                   targetVars, streamVars, delivered>>

(* Write blocks while an open target does not accept data; it has no        *)
(* deadline.  It fails once either side is closed; a target that sent FIN   *)
(* may still take the data.                                                 *)
WriteOK ==
    /\ rl = "write"
    /\ sock[target] = "open" /\ remote[target] \in {"up", "closed"}
    /\ ForwardReturns
    /\ UNCHANGED <<forwarderVars, readerVars, wl, stopChan, responses, phase, hb,
                   targetVars, streamVars, delivered>>

WriteFail ==
    /\ rl = "write"
    /\ sock[target] = "closed" \/ remote[target] \in {"closed", "reset"}
    /\ rl' = "remove"
    /\ UNCHANGED <<forwarderVars, readerVars, cur, target, wl, stopChan, responses, phase, hb,
                   targetVars, streamVars, delivered>>

(* Bug: the map entry goes but the connection is not closed.                *)
BugRemoveOnly(c) ==
    /\ connections' = [connections EXCEPT ![c] = None]
    /\ UNCHANGED sock

(* removeConnection closes and deletes whatever the connection ID stands    *)
(* for at that moment.                                                      *)
RemoveConnection(c) ==
    LET k == connections[c] IN
    \/ /\ k # None
       /\ sock' = [sock EXCEPT ![k] = "closed"]
       /\ connections' = [connections EXCEPT ![c] = None]
    \/ k = None /\ UNCHANGED <<sock, connections>>

ForwardRemove ==
    /\ rl = "remove"
    /\ RemoveConnection(cur)
    /\ ForwardReturns
    /\ UNCHANGED <<cancelled, readerVars, wl, stopChan, responses, phase, hb,
                   conn, remote, streamVars, delivered>>

ReadLoop ==
    \/ RecvPacket \/ RecvEnd \/ Forward
    \/ (\E k \in Socks : DialOK(k)) \/ DialFail
    \/ WriteOK \/ WriteFail \/ ForwardRemove

-----------------------------------------------------------------------------
(***************************************************************************)
(* readFromTarget.                                                         *)
(***************************************************************************)
MuFree == rl # "dial"

(* The select on pf.ctx.Done at the top of the loop.                        *)
ReaderTop(k) ==
    /\ reader[k] = "top"
    /\ reader' = [reader EXCEPT ![k] = IF cancelled THEN "remove" ELSE "read"]
    /\ UNCHANGED <<forwarderVars, reads, serverConnVars, targetVars, streamVars, delivered>>

(* Read returns data; the reader then takes pf.mu for LastActivity, which   *)
(* is what MuFree stands for here.                                          *)
ReadData(k) ==
    /\ reader[k] = "read"
    /\ sock[k] = "open" /\ remote[k] # "reset"
    /\ MuFree
    /\ reads' = [reads EXCEPT ![k] = (@ + 1) % SeqMod]
    /\ reader' = [reader EXCEPT ![k] = "send"]
    /\ UNCHANGED <<forwarderVars, serverConnVars, targetVars, streamVars, delivered>>

(* Bug: an error of Read is logged and the loop goes on.                    *)
BugRetryRead(k) ==
    /\ reader[k] = "read"
    /\ reader' = [reader EXCEPT ![k] = "top"]
    /\ UNCHANGED <<forwarderVars, reads, serverConnVars, targetVars, streamVars, delivered>>

(* Bug: the read has no deadline.                                           *)
BugNoDeadline(k) ==
    /\ reader[k] = "read"
    /\ sock[k] = "closed" \/ remote[k] \in {"closed", "reset"}
    /\ reader' = [reader EXCEPT ![k] = "remove"]
    /\ UNCHANGED <<forwarderVars, reads, serverConnVars, targetVars, streamVars, delivered>>

(* Read returns io.EOF or an error because a side is closed, or the         *)
(* five-minute read deadline passes.                                        *)
ReadEnd(k) ==
    /\ reader[k] = "read"
    /\ reader' = [reader EXCEPT ![k] = "remove"]
    /\ UNCHANGED <<forwarderVars, reads, serverConnVars, targetVars, streamVars, delivered>>

(* Bug: the packet is filled with the wrong field of the state.             *)
BugEnqueueConn(k) == responses' = Append(responses, [sock |-> conn[k], n |-> reads[k]])

Enqueue(k) == responses' = Append(responses, [sock |-> k, n |-> reads[k]])

(* Bug: a full channel drops the response.                                  *)
BugDropWhenFull(k) ==
    /\ reader[k] = "send"
    /\ reader' = [reader EXCEPT ![k] = "top"]
    /\ \/ Len(responses) < ChanCap /\ Enqueue(k)
       \/ Len(responses) = ChanCap /\ UNCHANGED responses
    /\ UNCHANGED <<forwarderVars, reads, rl, cur, target, wl, stopChan, phase, hb,
                   targetVars, streamVars, delivered>>

(* The blocking send on responseChan, given up only when pf.ctx is done.    *)
ReaderSend(k) ==
    /\ reader[k] = "send"
    /\ \/ /\ Len(responses) < ChanCap
          /\ Enqueue(k)
          /\ reader' = [reader EXCEPT ![k] = "top"]
       \/ /\ cancelled
          /\ reader' = [reader EXCEPT ![k] = "remove"]
          /\ UNCHANGED responses
    /\ UNCHANGED <<forwarderVars, reads, rl, cur, target, wl, stopChan, phase, hb,
                   targetVars, streamVars, delivered>>

(* The deferred removeConnection and wg.Done.                               *)
ReaderRemove(k) ==
    /\ reader[k] = "remove"
    /\ MuFree
    /\ RemoveConnection(conn[k])
    /\ reader' = [reader EXCEPT ![k] = "done"]
    /\ UNCHANGED <<cancelled, reads, serverConnVars, conn, remote,
                   streamVars, delivered>>

Reader(k) ==
    ReaderTop(k) \/ ReadData(k) \/ ReadEnd(k) \/ ReaderSend(k) \/ ReaderRemove(k)

-----------------------------------------------------------------------------
(***************************************************************************)
(* writeLoop and heartbeatLoop, which share the stream.  Send blocks while *)
(* flow control has no room, and stopChan does not interrupt it; it        *)
(* returns an error, which is only logged, when the stream has ended, and  *)
(* at once when it is called after CloseSend.  gRPC does not allow two     *)
(* Sends of one stream at a time, which these loops do not exclude; the    *)
(* model lets both go on.                                                  *)
(***************************************************************************)
WriteLoopTake ==
    /\ wl = "select"
    /\ responses # <<>>
    /\ delivered' = [delivered EXCEPT ![Head(responses).sock] = Head(responses).n]
    /\ responses' = Tail(responses)
    /\ wl' = IF phase = "running" THEN "send" ELSE "select"
    /\ UNCHANGED <<forwarderVars, readerVars, rl, cur, target, stopChan, phase, hb,
                   targetVars, streamVars>>

WriteLoopSend ==
    /\ wl = "send"
    /\ room
    /\ wl' = "select"
    /\ UNCHANGED <<forwarderVars, readerVars, rl, cur, target, stopChan, responses, phase, hb,
                   targetVars, streamVars, delivered>>

WriteLoopEnd ==
    /\ wl = "select"
    /\ stopChan
    /\ wl' = "end"
    /\ UNCHANGED <<forwarderVars, readerVars, rl, cur, target, stopChan, responses, phase, hb,
                   targetVars, streamVars, delivered>>

HeartbeatMoves(from, to) ==
    /\ hb = from
    /\ hb' = to
    /\ UNCHANGED <<forwarderVars, readerVars, rl, cur, target, wl, stopChan, responses, phase,
                   targetVars, streamVars, delivered>>

(* After CloseSend a heartbeat fails at once: nothing changes.              *)
HeartbeatTick == phase = "running" /\ HeartbeatMoves("select", "send")
HeartbeatSend == room /\ HeartbeatMoves("send", "select")
HeartbeatEnd == stopChan /\ HeartbeatMoves("select", "end")

WriteLoop == WriteLoopTake \/ WriteLoopSend \/ WriteLoopEnd
HeartbeatLoop == HeartbeatTick \/ HeartbeatSend \/ HeartbeatEnd

-----------------------------------------------------------------------------
(***************************************************************************)
(* Proxy.stop.  It does not wait for heartbeatLoop.                        *)
(***************************************************************************)
(* ServerConnection.Close: stopChan and CloseSend, then wait for the loops. *)
StopBegin ==
    /\ phase = "running"
    /\ phase' = "closing"
    /\ stopChan' = TRUE
    /\ UNCHANGED <<forwarderVars, readerVars, rl, cur, target, wl, responses, hb,
                   targetVars, streamVars, delivered>>

(* Bug: the forwarder is stopped while the read loop may still forward.     *)
BugCancelEarly ==
    /\ phase = "closing"
    /\ cancelled' = TRUE
    /\ phase' = "stopping"
    /\ UNCHANGED <<connections, readerVars, rl, cur, target, wl, stopChan, responses, hb,
                   targetVars, streamVars, delivered>>

(* Close returns; PacketForwarder.Stop cancels pf.ctx and waits for the     *)
(* readers.                                                                 *)
StopCancel ==
    /\ phase = "closing"
    /\ rl = "end" /\ wl = "end"
    /\ cancelled' = TRUE
    /\ phase' = "stopping"
    /\ UNCHANGED <<connections, readerVars, rl, cur, target, wl, stopChan, responses, hb,
                   targetVars, streamVars, delivered>>

StopEnd ==
    /\ phase = "stopping"
    /\ \A k \in Socks : reader[k] \in {"none", "done"}
    /\ phase' = "stopped"
    /\ UNCHANGED <<forwarderVars, readerVars, rl, cur, target, wl, stopChan, responses, hb,
                   targetVars, streamVars, delivered>>

-----------------------------------------------------------------------------
(***************************************************************************)
(* The server's end of the stream and the targets.                         *)
(***************************************************************************)
ServerPacket(c) ==
    /\ stream = "open"
    /\ Len(inq) < MaxIn
    /\ inq' = Append(inq, c)
    /\ UNCHANGED <<forwarderVars, readerVars, serverConnVars, targetVars, stream, room,
                   delivered>>

(* The server's handler stops reading while it is in a Send to a client     *)
(* (registry.go:363), and reads again when that Send returns.               *)
FlowControl ==
    /\ stream = "open"
    /\ room' = ~room
    /\ UNCHANGED <<forwarderVars, readerVars, serverConnVars, targetVars, stream, inq,
                   delivered>>

StreamEnds ==
    /\ stream = "open"
    /\ stream' = "ended" /\ room' = TRUE
    /\ UNCHANGED <<forwarderVars, readerVars, serverConnVars, targetVars, inq, delivered>>

(* The server's handler reads the end that CloseSend sent and returns.      *)
ServerReturns == phase # "running" /\ room /\ StreamEnds

(* The connection is lost, or the server stops.                             *)
ConnectionLost == StreamEnds

Server == FlowControl \/ ServerReturns \/ ConnectionLost

TargetMoves(k, from, state) ==
    /\ sock[k] = "open"
    /\ remote[k] \in from
    /\ remote' = [remote EXCEPT ![k] = state]
    /\ UNCHANGED <<forwarderVars, readerVars, serverConnVars, conn, sock, streamVars, delivered>>

TargetCloses(k) == TargetMoves(k, {"up", "stalled"}, "closed")
TargetResets(k) == TargetMoves(k, {"up", "stalled", "closed"}, "reset")
TargetStalls(k) == TargetMoves(k, {"up"}, "stalled")
TargetResumes(k) == TargetMoves(k, {"stalled"}, "up")

Target(k) == TargetCloses(k) \/ TargetResets(k) \/ TargetStalls(k) \/ TargetResumes(k)

Stopped == phase = "stopped" /\ UNCHANGED vars

Next ==
    \/ ReadLoop
    \/ \E k \in Socks : Reader(k)
    \/ WriteLoop
    \/ HeartbeatLoop
    \/ StopBegin \/ StopCancel \/ StopEnd
    \/ \E c \in Conns : ServerPacket(c)
    \/ Server
    \/ \E k \in Socks : Target(k)
    \/ Stopped

Spec == Init /\ [][Next]_vars

(***************************************************************************)
(* The goroutines run when they can (a Write that a target accepts now and *)
(* then, a send on a channel that is drained, and a Send to a server that  *)
(* reads again and again get through: strong fairness), the read deadline  *)
(* fires, and the server's handler returns when it has read the end of the *)
(* stream.  No target has to send, so that nothing is assumed of ReadData, *)
(* and nothing makes a stalled target take data again or a stalled server  *)
(* read: TargetsDrain and ServerReads are those assumptions, where they    *)
(* are needed.                                                             *)
(***************************************************************************)
Fairness ==
    /\ SF_vars(ReadLoop)
    /\ \A k \in Socks :
         /\ SF_vars(ReaderTop(k) \/ ReaderSend(k) \/ ReaderRemove(k))
         /\ WF_vars(ReadEnd(k))
    /\ WF_vars(WriteLoopTake)
    /\ SF_vars(WriteLoopSend \/ WriteLoopEnd)
    /\ SF_vars(HeartbeatSend \/ HeartbeatEnd)
    /\ WF_vars(StopCancel \/ StopEnd)
    /\ SF_vars(ServerReturns)

(* No target stops reading for ever on a connection we leave open.          *)
TargetsDrain == \A k \in Socks : []<>(remote[k] # "stalled" \/ sock[k] # "open")

(* The server does not stop reading for ever on a stream it leaves open.    *)
ServerReads == []<>room

FairSpec == Spec /\ Fairness

-----------------------------------------------------------------------------
(***************************************************************************)
(* Safety.                                                                 *)
(***************************************************************************)
(* The map is exactly the open target connections, each under its own ID    *)
(* and with a reader that will remove it: no socket and no goroutine is     *)
(* leaked, and no packet is written to a connection that was given up       *)
(* (Forward, forwarder.go:49, removeConnection, forwarder.go:162).          *)
ConnectionsOpen ==
    /\ \A c \in Conns : connections[c] # None =>
         /\ conn[connections[c]] = c
         /\ sock[connections[c]] = "open"
         /\ reader[connections[c]] \notin {"none", "done"}
    /\ \A k \in Socks : sock[k] = "open" => connections[conn[k]] = k

(* When Proxy.stop returns, every target connection is closed, readLoop,    *)
(* writeLoop and all readers have ended, and no Forward starts a reader     *)
(* after wg.Wait (proxy.go:62, forwarder.go:212).  Only heartbeatLoop, for  *)
(* which stop does not wait, may be left: it can send nothing any more.     *)
StoppedClean ==
    phase = "stopped" =>
        /\ rl = "end" /\ wl = "end"
        /\ \A k \in Socks : sock[k] # "open" /\ reader[k] \in {"none", "done"}
        /\ stopChan /\ stream = "ended"

Queued(k, n) == {m \in 1 .. n : responses[m].sock = k}

(* Until shutdown no response is lost, repeated or overtaken on its way     *)
(* from a target to writeLoop's Send, however full responseChan gets and    *)
(* however long a Send blocks (readFromTarget, forwarder.go:146).           *)
ResponsesInOrder ==
    ~cancelled =>
        /\ \A n \in 1 .. Len(responses) :
             LET r == responses[n] IN
             r.n = (delivered[r.sock] + Cardinality(Queued(r.sock, n))) % SeqMod
        /\ \A k \in Socks :
             reads[k] = (delivered[k] + Cardinality(Queued(k, Len(responses)))
                         + (IF reader[k] = "send" THEN 1 ELSE 0)) % SeqMod

(***************************************************************************)
(* Liveness, under FairSpec.                                               *)
(***************************************************************************)
(* Stop ends, and heartbeatLoop after it, whatever the loops and the        *)
(* readers were blocked on, if targets that stall take data again and the   *)
(* server reads again (Proxy.stop, proxy.go:62; the select on pf.ctx,       *)
(* forwarder.go:146, and the read deadline, forwarder.go:113, are what a    *)
(* reader ends by).  Without the one, readLoop stays in Write               *)
(* (forwarder.go:83), without the other writeLoop in Send                   *)
(* (server_conn.go:190), and Close waits for both (server_conn.go:227).     *)
StopCompletes ==
    TargetsDrain /\ ServerReads =>
        (phase = "closing" ~> (phase = "stopped" /\ hb = "end"))

(* A reader whose connection was closed ends, if the server reads again so  *)
(* that writeLoop drains responseChan, or unless writeLoop has ended        *)
(* (readFromTarget, forwarder.go:115).                                      *)
ClosedReaderEnds ==
    ServerReads =>
        \A k \in Socks : sock[k] = "closed" ~> (reader[k] = "done" \/ wl = "end")
=============================================================================
