------------------------------- MODULE Client --------------------------------
(***************************************************************************)
(* The client process once it is registered: acceptLoop and cleanupLoop    *)
(* (client.go), one Handle goroutine per redirected connection             *)
(* (handler.go), the ConnectionTracker they share (tracker.go), the read   *)
(* and write loops of its ServerConnection (server_conn.go), and           *)
(* Client.stop.                                                            *)
(*                                                                         *)
(* A member of Locals is one redirected connection of a local application, *)
(* from its Accept to its Close; a connection ID, the hash of the          *)
(* connection's addresses and ports, names one after the other.  Every     *)
(* critical section of ct.mu is one step.                                  *)
(*                                                                         *)
(* Operators named Bug... are plausible mistakes in the definition that    *)
(* follows them; no specification here uses them.                          *)
(***************************************************************************)
EXTENDS Naturals, Sequences

CONSTANTS
    Conns,    \* connection IDs
    Locals,   \* local connections, each used once
    ChanCap,  \* capacity of packetChan (100 in the program)
    MaxIn,    \* bound: packets from the server waiting to be received
    SeqMod,   \* the data read from a connection are numbered modulo SeqMod
    None      \* an absent map entry, a nil

ASSUME ClientAssumption ==
    /\ None \notin Locals \cup Conns
    /\ ChanCap \in Nat \ {0} /\ MaxIn \in Nat /\ SeqMod \in Nat \ {0}

VARIABLES
    \* ConnectionTracker
    connections,  \* connection ID -> its local connection
    activity,     \* what last set LastActivity of a connection's state: a read
                  \* or a response; none in the last five minutes
    \* Handle, one goroutine per local connection
    handler,      \* where it is
    reads,        \* number of the data its buf holds
    \* ServerConnection
    rl,           \* where readLoop is, DeliverResponse included
    target,       \* the local connection readLoop writes to
    wl,           \* where writeLoop is
    packetChan,   \* the packets handlers have for writeLoop
    stopChan,     \* stopChan was closed
    \* Client
    cl,           \* where cleanupLoop is
    phase,        \* progress of Client.stop
    \* the local connections, our side and the application's
    conn,         \* the connection ID
    local,        \* our side: unused, open or closed
    app,          \* the application: up, stalled (reads nothing for now),
                  \* closed (FIN) or reset
    \* the stream to the server
    stream,       \* open or ended
    inq,          \* connection IDs of the packets to be received
    room,         \* a Send need not wait: flow control has room for it, or the
                  \* stream has ended and it fails
    \* history
    alone         \* no handler of its ID was left when it was accepted

trackerVars == <<connections, activity>>
handlerVars == <<handler, reads>>
serverConnVars == <<rl, target, wl, packetChan, stopChan>>
clientVars == <<cl, phase>>
localVars == <<conn, local, app, alone>>
streamVars == <<stream, inq, room>>
vars == <<connections, activity, handler, reads, rl, target, wl, packetChan,
          stopChan, cl, phase, conn, local, app, alone, stream, inq, room>>

Numbers == 0 .. SeqMod - 1

(* n is what buf held when the packet was made.                             *)
Packet == [local : Locals, n : Numbers]

TypeOK ==
    /\ connections \in [Conns -> Locals \cup {None}]
    /\ activity \in [Locals -> {"read", "response", "none"}]
    /\ handler \in [Locals -> {"none", "track", "read", "touch", "send", "remove",
                               "close", "done"}]
    /\ reads \in [Locals -> Numbers]
    /\ rl \in {"select", "recv", "touch", "write", "end"}
    /\ target \in Locals \cup {None}
    /\ wl \in {"select", "send", "end"}
    /\ packetChan \in Seq(Packet)
    /\ stopChan \in BOOLEAN
    /\ cl \in {"select", "end"}
    /\ phase \in {"running", "closing", "waiting", "stopped"}
    /\ conn \in [Locals -> Conns \cup {None}]
    /\ local \in [Locals -> {"unused", "open", "closed"}]
    /\ app \in [Locals -> {"up", "stalled", "closed", "reset"}]
    /\ stream \in {"open", "ended"}
    /\ inq \in Seq(Conns)
    /\ room \in BOOLEAN
    /\ alone \in [Locals -> BOOLEAN]

(* start has returned: the stream is registered and the loops run.          *)
Init ==
    /\ connections = [c \in Conns |-> None]
    /\ activity = [k \in Locals |-> "none"]
    /\ handler = [k \in Locals |-> "none"]
    /\ reads = [k \in Locals |-> 0]
    /\ rl = "select" /\ target = None
    /\ wl = "select" /\ packetChan = <<>> /\ stopChan = FALSE
    /\ cl = "select" /\ phase = "running"
    /\ conn = [k \in Locals |-> None]
    /\ local = [k \in Locals |-> "unused"]
    /\ app = [k \in Locals |-> "up"]
    /\ stream = "open" /\ inq = <<>> /\ room = TRUE
    /\ alone = [k \in Locals |-> FALSE]

-----------------------------------------------------------------------------
(***************************************************************************)
(* acceptLoop and cleanupLoop.                                             *)
(***************************************************************************)
(* The kernel gives an address and port out again when neither side has the *)
(* old connection any more: a reset ends both sides at once.                *)
TupleFree(c) ==
    \A k \in Locals : conn[k] = c =>
        app[k] = "reset" \/ (local[k] = "closed" /\ app[k] = "closed") \/ handler[k] = "done"

(* acceptLoop ends with the listener, in the first step of Client.stop.     *)
Accept(k, c) ==
    /\ phase = "running"
    /\ local[k] = "unused" /\ TupleFree(c)
    /\ local' = [local EXCEPT ![k] = "open"]
    /\ conn' = [conn EXCEPT ![k] = c]
    /\ handler' = [handler EXCEPT ![k] = "track"]
    /\ alone' = [alone EXCEPT ![k] = \A j \in Locals : conn[j] = c => handler[j] = "done"]
    /\ UNCHANGED <<trackerVars, reads, serverConnVars, clientVars, app, streamVars>>

Idle(c) == connections[c] # None /\ activity[connections[c]] = "none"

(* Bug: the entries go but the connections stay open.                       *)
BugForget ==
    /\ cl = "select"
    /\ connections' = [c \in Conns |-> IF Idle(c) THEN None ELSE connections[c]]
    /\ UNCHANGED <<activity, handlerVars, serverConnVars, clientVars, localVars, streamVars>>

(* tracker.Cleanup closes and deletes the connections idle for five minutes. *)
Cleanup ==
    /\ cl = "select"
    /\ \E c \in Conns : Idle(c)
    /\ connections' = [c \in Conns |-> IF Idle(c) THEN None ELSE connections[c]]
    /\ local' = [k \in Locals |->
                   IF \E c \in Conns : Idle(c) /\ connections[c] = k THEN "closed" ELSE local[k]]
    /\ UNCHANGED <<activity, handlerVars, serverConnVars, clientVars, conn, app, alone, streamVars>>

CleanupLoopEnd ==
    /\ cl = "select"
    /\ phase # "running"
    /\ cl' = "end"
    /\ UNCHANGED <<trackerVars, handlerVars, serverConnVars, phase, localVars, streamVars>>

-----------------------------------------------------------------------------
(***************************************************************************)
(* Handle.                                                                 *)
(***************************************************************************)
At(k, from, next) ==
    /\ handler[k] = from
    /\ handler' = [handler EXCEPT ![k] = next]

(* No original destination: the handler closes the connection untracked.    *)
NoOriginalDest(k) ==
    /\ At(k, "track", "close")
    /\ UNCHANGED <<trackerVars, reads, serverConnVars, clientVars, localVars, streamVars>>

(* Bug: the state is filled with the wrong field.                           *)
BugTrackID(k) ==
    /\ At(k, "track", "read")
    /\ connections' = [connections EXCEPT ![conn[k]] = conn[k]]
    /\ activity' = [activity EXCEPT ![k] = "read"]
    /\ UNCHANGED <<reads, serverConnVars, clientVars, localVars, streamVars>>

(* Track replaces whatever the ID stands for.                               *)
Track(k) ==
    /\ At(k, "track", "read")
    /\ connections' = [connections EXCEPT ![conn[k]] = k]
    /\ activity' = [activity EXCEPT ![k] = "read"]
    /\ UNCHANGED <<reads, serverConnVars, clientVars, localVars, streamVars>>

(* Read fills the one buffer of the handler.                                *)
ReadData(k) ==
    /\ At(k, "read", "touch")
    /\ local[k] = "open" /\ app[k] # "reset"
    /\ reads' = [reads EXCEPT ![k] = (@ + 1) % SeqMod]
    /\ UNCHANGED <<trackerVars, serverConnVars, clientVars, localVars, streamVars>>

(* io.EOF or an error, because a side is closed.                            *)
ReadFails(k) ==
    /\ At(k, "read", "remove")
    /\ local[k] = "closed" \/ app[k] \in {"closed", "reset"}
    /\ UNCHANGED <<trackerVars, reads, serverConnVars, clientVars, localVars, streamVars>>

(* Five minutes pass without activity of the connection.                    *)
Expire(k) ==
    /\ handler[k] = "read"
    /\ activity[k] # "none"
    /\ activity' = [activity EXCEPT ![k] = "none"]
    /\ UNCHANGED <<connections, handlerVars, serverConnVars, clientVars, localVars, streamVars>>

(* Bug: the read has no deadline, Cleanup is to close an idle connection.   *)
BugNoDeadline(k) ==
    /\ At(k, "read", "remove")
    /\ local[k] = "closed"
    /\ UNCHANGED <<trackerVars, reads, serverConnVars, clientVars, localVars, streamVars>>

(* The read deadline: five minutes without data from the application,       *)
(* whatever came for it.                                                    *)
ReadDeadline(k) ==
    /\ At(k, "read", "remove")
    /\ activity[k] # "read"
    /\ UNCHANGED <<trackerVars, reads, serverConnVars, clientVars, localVars, streamVars>>

UpdateActivity(k) ==
    /\ At(k, "touch", "send")
    /\ \/ /\ connections[conn[k]] # None
          /\ activity' = [activity EXCEPT ![connections[conn[k]]] = "read"]
       \/ connections[conn[k]] = None /\ UNCHANGED activity
    /\ UNCHANGED <<connections, reads, serverConnVars, clientVars, localVars, streamVars>>

(* Bug: the send waits for room.                                            *)
BugBlockingSend(k) ==
    /\ At(k, "send", "read")
    /\ Len(packetChan) < ChanCap
    /\ packetChan' = Append(packetChan, [local |-> k, n |-> reads[k]])
    /\ UNCHANGED <<trackerVars, reads, rl, target, wl, stopChan, clientVars, localVars, streamVars>>

(* The send never blocks: with packetChan full the data are dropped.        *)
ServerWriter(k) ==
    /\ At(k, "send", "read")
    /\ \/ /\ Len(packetChan) < ChanCap
          /\ packetChan' = Append(packetChan, [local |-> k, n |-> reads[k]])
       \/ Len(packetChan) = ChanCap /\ UNCHANGED packetChan
    /\ UNCHANGED <<trackerVars, reads, rl, target, wl, stopChan, clientVars, localVars, streamVars>>

(* Bug: the connection is closed but stays in the map.                      *)
BugCloseOnly(k) ==
    /\ At(k, "remove", "close")
    /\ connections[conn[k]] # None
    /\ local' = [local EXCEPT ![connections[conn[k]]] = "closed"]
    /\ UNCHANGED <<trackerVars, reads, serverConnVars, clientVars, conn, app, alone, streamVars>>

(* The deferred Remove closes and deletes whatever the ID stands for.       *)
Remove(k) ==
    /\ At(k, "remove", "close")
    /\ \/ /\ connections[conn[k]] # None
          /\ local' = [local EXCEPT ![connections[conn[k]]] = "closed"]
          /\ connections' = [connections EXCEPT ![conn[k]] = None]
       \/ connections[conn[k]] = None /\ UNCHANGED <<local, connections>>
    /\ UNCHANGED <<activity, reads, serverConnVars, clientVars, conn, app, alone, streamVars>>

(* The deferred conn.Close.                                                 *)
CloseLocal(k) ==
    /\ At(k, "close", "done")
    /\ local' = [local EXCEPT ![k] = "closed"]
    /\ UNCHANGED <<trackerVars, reads, serverConnVars, clientVars, conn, app, alone, streamVars>>

Handle(k) ==
    \/ NoOriginalDest(k) \/ Track(k)
    \/ ReadData(k) \/ ReadFails(k) \/ ReadDeadline(k)
    \/ UpdateActivity(k) \/ ServerWriter(k)
    \/ Remove(k) \/ CloseLocal(k)

-----------------------------------------------------------------------------
(***************************************************************************)
(* readLoop, with DeliverResponse, and writeLoop.                          *)
(***************************************************************************)
ReadLoopTop ==
    /\ rl = "select"
    /\ rl' = IF stopChan THEN "end" ELSE "recv"
    /\ UNCHANGED <<trackerVars, handlerVars, target, wl, packetChan, stopChan, clientVars,
                   localVars, streamVars>>

(* The lookup of DeliverResponse, under the read lock.                      *)
RecvPacket ==
    /\ rl = "recv"
    /\ inq # <<>>
    /\ inq' = Tail(inq)
    /\ target' = connections[Head(inq)]
    /\ rl' = IF target' = None THEN "select" ELSE "touch"
    /\ UNCHANGED <<trackerVars, handlerVars, wl, packetChan, stopChan, clientVars,
                   localVars, stream, room>>

(* The loop ends with the stream; stopChan stays open, so that everything   *)
(* else goes on.                                                            *)
RecvEnd ==
    /\ rl = "recv"
    /\ stream = "ended"
    /\ rl' = "end"
    /\ inq' = <<>>
    /\ UNCHANGED <<trackerVars, handlerVars, target, wl, packetChan, stopChan, clientVars,
                   localVars, stream, room>>

(* LastActivity of the state that was looked up, tracked or not by now.     *)
TouchTarget ==
    /\ rl = "touch"
    /\ activity' = [activity EXCEPT ![target] = "response"]
    /\ rl' = "write"
    /\ UNCHANGED <<connections, handlerVars, target, wl, packetChan, stopChan, clientVars,
                   localVars, streamVars>>

(* Write blocks while the application reads nothing, and has no deadline.   *)
(* Its error is only logged.                                                *)
WriteTarget ==
    /\ rl = "write"
    /\ \/ local[target] = "open" /\ app[target] = "up"
       \/ local[target] = "closed" \/ app[target] \in {"closed", "reset"}
    /\ rl' = "select"
    /\ target' = None
    /\ UNCHANGED <<trackerVars, handlerVars, wl, packetChan, stopChan, clientVars,
                   localVars, streamVars>>

ReadLoop == ReadLoopTop \/ RecvPacket \/ RecvEnd \/ TouchTarget \/ WriteTarget

(* packet.Data is a slice of the handler's buf: what is sent is what buf    *)
(* holds by then.                                                           *)
Data(p) == reads[p.local]

(* stream.Send encodes the message, then blocks while flow control has no   *)
(* room; stopChan does not interrupt it.  It returns an error, which is     *)
(* only logged, when the stream has ended, and at once after CloseSend.     *)
WriteLoopTake ==
    /\ wl = "select"
    /\ packetChan # <<>>
    /\ packetChan' = Tail(packetChan)
    /\ wl' = IF phase = "running" THEN "send" ELSE "select"
    /\ UNCHANGED <<trackerVars, handlerVars, rl, target, stopChan, clientVars,
                   localVars, streamVars>>

WriteLoopMoves(from, to) ==
    /\ wl = from
    /\ wl' = to
    /\ UNCHANGED <<trackerVars, handlerVars, rl, target, packetChan, stopChan, clientVars,
                   localVars, streamVars>>

(* After CloseSend a heartbeat fails at once: nothing changes.              *)
HeartbeatTick == phase = "running" /\ WriteLoopMoves("select", "send")
WriteLoopSend == room /\ WriteLoopMoves("send", "select")
WriteLoopEnd == stopChan /\ WriteLoopMoves("select", "end")

WriteLoop == WriteLoopTake \/ HeartbeatTick \/ WriteLoopSend \/ WriteLoopEnd

-----------------------------------------------------------------------------
(***************************************************************************)
(* Client.stop.                                                            *)
(***************************************************************************)
(* cancel and listener.Close, which end acceptLoop, then serverConn.Close:  *)
(* stopChan and CloseSend, and the wait for its loops.                      *)
StopBegin ==
    /\ phase = "running"
    /\ phase' = "closing"
    /\ stopChan' = TRUE
    /\ UNCHANGED <<trackerVars, handlerVars, rl, target, wl, packetChan, cl,
                   localVars, streamVars>>

StopWait ==
    /\ phase = "closing"
    /\ rl = "end" /\ wl = "end"
    /\ phase' = "waiting"
    /\ UNCHANGED <<trackerVars, handlerVars, serverConnVars, cl, localVars, streamVars>>

(* wg counts acceptLoop and cleanupLoop, not the handlers.                  *)
StopEnd ==
    /\ phase = "waiting"
    /\ cl = "end"
    /\ phase' = "stopped"
    /\ UNCHANGED <<trackerVars, handlerVars, serverConnVars, cl, localVars, streamVars>>

-----------------------------------------------------------------------------
(***************************************************************************)
(* The server's end of the stream and the applications.                    *)
(***************************************************************************)
(* A response for an ID this client has used, whether or not the connection *)
(* it was for still exists.                                                 *)
ServerPacket(c) ==
    /\ stream = "open"
    /\ \E k \in Locals : conn[k] = c
    /\ Len(inq) < MaxIn
    /\ inq' = Append(inq, c)
    /\ UNCHANGED <<trackerVars, handlerVars, serverConnVars, clientVars, localVars, stream, room>>

(* The server's handler stops reading while it is in a Send to a proxy      *)
(* (registry.go:337), and reads again when that Send returns.               *)
FlowControl ==
    /\ stream = "open"
    /\ room' = ~room
    /\ UNCHANGED <<trackerVars, handlerVars, serverConnVars, clientVars, localVars, stream, inq>>

StreamEnds ==
    /\ stream = "open"
    /\ stream' = "ended" /\ room' = TRUE
    /\ UNCHANGED <<trackerVars, handlerVars, serverConnVars, clientVars, localVars, inq>>

(* The server's handler reads the end that CloseSend sent and returns.      *)
ServerReturns == phase # "running" /\ room /\ StreamEnds

(* The connection is lost, or the server stops.                             *)
ConnectionLost == StreamEnds

Server == FlowControl \/ ServerReturns \/ ConnectionLost

AppMoves(k, from, state) ==
    /\ local[k] # "unused"
    /\ app[k] \in from
    /\ app' = [app EXCEPT ![k] = state]
    /\ UNCHANGED <<trackerVars, handlerVars, serverConnVars, clientVars, conn, local, alone, streamVars>>

AppCloses(k) == AppMoves(k, {"up", "stalled"}, "closed")
AppResets(k) == AppMoves(k, {"up", "stalled", "closed"}, "reset")

(* That the buffer of an application is full shows only in a Write.         *)
AppStalls(k) == rl = "write" /\ target = k /\ AppMoves(k, {"up"}, "stalled")
AppResumes(k) == AppMoves(k, {"stalled"}, "up")

App(k) == AppCloses(k) \/ AppResets(k) \/ AppStalls(k) \/ AppResumes(k)

Stopped == phase = "stopped" /\ UNCHANGED vars

Next ==
    \/ \E k \in Locals : \E c \in Conns : Accept(k, c)
    \/ Cleanup \/ CleanupLoopEnd
    \/ \E k \in Locals : Handle(k) \/ Expire(k) \/ App(k)
    \/ ReadLoop \/ WriteLoop
    \/ StopBegin \/ StopWait \/ StopEnd
    \/ \E c \in Conns : ServerPacket(c)
    \/ Server
    \/ Stopped

Spec == Init /\ [][Next]_vars

(***************************************************************************)
(* The goroutines run when they can; a Read of a connection that was       *)
(* closed or reset fails once what was sent before is read; a Write that   *)
(* the application takes now and then, and a Send to a server that reads   *)
(* again and again, get through; the server's handler returns when it has  *)
(* read the end of the stream.  No application has to send or to read, and *)
(* nothing makes a server that stalls read again.  Two assumptions stand   *)
(* where they are needed: Pausing, that every connection leaves a gap of   *)
(* five minutes some day, which fires the read deadline, and ServerReads.  *)
(***************************************************************************)
HandleRuns(k) ==
    Track(k) \/ NoOriginalDest(k) \/ UpdateActivity(k) \/ ServerWriter(k)
    \/ Remove(k) \/ CloseLocal(k)

Fairness ==
    /\ SF_vars(ReadLoop)
    /\ \A k \in Locals : SF_vars(HandleRuns(k)) /\ SF_vars(ReadFails(k))
    /\ SF_vars(WriteLoopSend \/ WriteLoopEnd)
    /\ WF_vars(CleanupLoopEnd \/ StopWait \/ StopEnd)
    /\ SF_vars(ServerReturns)

Pausing == \A k \in Locals : SF_vars(Expire(k)) /\ SF_vars(ReadDeadline(k))

(* The server does not stop reading for ever on a stream it leaves open.    *)
ServerReads == []<>room

FairSpec == Spec /\ Fairness

-----------------------------------------------------------------------------
(***************************************************************************)
(* Safety.                                                                 *)
(***************************************************************************)
Handling(k) == handler[k] \in {"read", "touch", "send"}

(* A tracked connection is open, under its own ID, and its handler is there *)
(* to remove it; an open connection has a handler: neither the handlers,    *)
(* nor Cleanup, nor both at once leak a socket or leave a dead one in the   *)
(* map (tracker.go:77 and 91, handler.go:64).                               *)
TrackedOpen ==
    /\ \A c \in Conns : connections[c] # None =>
         /\ conn[connections[c]] = c
         /\ local[connections[c]] = "open"
         /\ Handling(connections[c]) \/ handler[connections[c]] = "remove"
    /\ \A k \in Locals : local[k] = "open" => handler[k] \notin {"none", "done"}

(* A connection the application can still use, and whose handler still      *)
(* reads from it, is found under its ID: who can send can be answered       *)
(* (Track, tracker.go:41, DeliverResponse, tracker.go:120).  This needs     *)
(* that no handler was left of an earlier connection with the ID, whose     *)
(* Track or Remove may come late.                                           *)
Answerable(k) == alone[k] /\ app[k] # "reset" /\ Handling(k) /\ local[k] = "open"

UsableIsTracked == \A k \in Locals : Answerable(k) => connections[conn[k]] = k

(* What is sent is what was read from the application (handler_test.go:40,  *)
(* "expected data %s, got %s", checks it of one packet).                    *)
DataIntact ==
    [][WriteLoopTake => Data(Head(packetChan)) = Head(packetChan).n]_vars

(***************************************************************************)
(* Liveness, under FairSpec.                                               *)
(***************************************************************************)
(* When the application closes or resets its connection, or the tracker     *)
(* closes it, its handler ends, whatever the stream and the other           *)
(* connections do (Handle, handler.go:77 and 112).                          *)
ClosedHandlerEnds ==
    \A k \in Locals :
        (handler[k] # "none" /\ (local[k] = "closed" \/ app[k] \in {"closed", "reset"}))
            ~> handler[k] = "done"

(* Client.stop returns (client.go:92), if every connection is left alone    *)
(* for five minutes some day and the server reads again: a readLoop that is *)
(* blocked in the Write of a response is released when the handler of that  *)
(* connection reaches its read deadline and closes it, a writeLoop that is  *)
(* blocked in Send (server_conn.go:199) only by the server.                 *)
StopReturns == Pausing /\ ServerReads => (phase = "closing" ~> phase = "stopped")
=============================================================================
