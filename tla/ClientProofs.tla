---------------------------- MODULE ClientProofs -----------------------------
(***************************************************************************)
(* Theorems about Client, for any number of connection IDs and local       *)
(* connections and any channel capacity.                                   *)
(***************************************************************************)
EXTENDS Client, TLAPS

(* What the program counters say: readLoop has a connection to write to     *)
(* once the lookup found one; a connection has an ID and a handler exactly  *)
(* from Accept on.                                                          *)
ControlOK ==
    /\ rl \in {"touch", "write"} => target \in Locals
    /\ \A k \in Locals :
         /\ handler[k] = "none" => local[k] = "unused"
         /\ handler[k] # "none" => local[k] # "unused" /\ conn[k] \in Conns

TypeInv == TypeOK /\ ControlOK

(* Nobody closes a connection that is not tracked yet: TrackedOpen needs    *)
(* this of the connection that Track enters.                                *)
NewOpen == \A k \in Locals : handler[k] = "track" => local[k] = "open"

-----------------------------------------------------------------------------
LEMMA InitTypeInv == Init => TypeInv
<1> SUFFICES ASSUME Init PROVE TypeInv
  OBVIOUS
<1>1. 0 \in Numbers
  BY ClientAssumption DEF Numbers
<1>2. TypeOK
  <2>1. packetChan \in Seq(Packet) /\ inq \in Seq(Conns)
    BY DEF Init
  <2>2. reads \in [Locals -> Numbers]
    BY <1>1 DEF Init
  <2> QED
    BY <2>1, <2>2 DEF Init, TypeOK
<1>3. ControlOK
  BY DEF Init, ControlOK
<1> QED
  BY <1>2, <1>3 DEF TypeInv

(* writeLoop changes nothing but its own place and the channel.             *)
LEMMA WriteLoopStep ==
    ASSUME WriteLoop
    PROVE  UNCHANGED <<trackerVars, handlerVars, rl, target, stopChan, clientVars, localVars,
                       streamVars>>
BY DEF WriteLoop, WriteLoopTake, HeartbeatTick, WriteLoopSend, WriteLoopEnd, WriteLoopMoves

LEMMA NextTypeInv == TypeInv /\ TrackedOpen /\ [Next]_vars => TypeInv'
<1> SUFFICES ASSUME TypeInv, TrackedOpen, [Next]_vars PROVE TypeInv'
  OBVIOUS
<1> USE DEF TypeInv
<1>1. ASSUME NEW k \in Locals, NEW c \in Conns, Accept(k, c) PROVE TypeInv'
  <2>1. TypeOK'
    BY <1>1 DEF Accept, TypeOK, trackerVars, serverConnVars, clientVars, streamVars
  <2>2. ControlOK'
    BY <1>1 DEF Accept, TypeOK, ControlOK, serverConnVars
  <2> QED
    BY <2>1, <2>2
<1>2. CASE CleanupLoopEnd
  <2>1. TypeOK'
    BY <1>2 DEF CleanupLoopEnd, TypeOK, trackerVars, handlerVars,
        serverConnVars, localVars, streamVars
  <2>2. ControlOK'
    BY <1>2 DEF CleanupLoopEnd, ControlOK, handlerVars, serverConnVars, localVars
  <2> QED
    BY <2>1, <2>2
<1>3. CASE Cleanup
  <2>1. /\ connections' = [c \in Conns |-> IF Idle(c) THEN None ELSE connections[c]]
        /\ local' = [k \in Locals |->
                       IF \E c \in Conns : Idle(c) /\ connections[c] = k
                         THEN "closed" ELSE local[k]]
        /\ UNCHANGED <<activity, handlerVars, serverConnVars, clientVars, conn, app, alone, streamVars>>
    BY <1>3 DEF Cleanup
  <2>2. TypeOK'
    BY <2>1 DEF TypeOK, handlerVars, serverConnVars, clientVars, streamVars
  <2>3. \A k \in Locals : local'[k] = local[k] \/ (local'[k] = "closed" /\ local[k] = "open")
    BY <2>1 DEF Idle, TrackedOpen
  <2>4. ControlOK'
    BY <2>1, <2>3 DEF ControlOK, handlerVars, serverConnVars
  <2> QED
    BY <2>2, <2>4
<1>4. ASSUME NEW k \in Locals, NoOriginalDest(k) \/ ReadFails(k) \/ ReadDeadline(k) PROVE TypeInv'
  <2>1. TypeOK'
    <3>1. handler' \in [Locals -> {"none", "track", "read", "touch", "send", "remove",
                                   "close", "done"}]
      BY <1>4 DEF NoOriginalDest, ReadFails, ReadDeadline, At, TypeOK
    <3>2. UNCHANGED <<trackerVars, reads, serverConnVars, clientVars, localVars, streamVars>>
      BY <1>4 DEF NoOriginalDest, ReadFails, ReadDeadline
    <3> QED
      BY <3>1, <3>2 DEF TypeOK, trackerVars, serverConnVars, clientVars, localVars, streamVars
  <2>2. ControlOK'
    BY <1>4 DEF NoOriginalDest, ReadFails, ReadDeadline, At, TypeOK, ControlOK,
        serverConnVars, localVars
  <2> QED
    BY <2>1, <2>2
<1>5. ASSUME NEW k \in Locals, Track(k) PROVE TypeInv'
  <2>1. TypeOK'
    BY <1>5 DEF Track, At, TypeOK, serverConnVars, clientVars, localVars, streamVars
  <2>2. ControlOK'
    BY <1>5 DEF Track, At, TypeOK, ControlOK, serverConnVars, localVars
  <2> QED
    BY <2>1, <2>2
<1>6. ASSUME NEW k \in Locals, ReadData(k) PROVE TypeInv'
  <2>1. (reads[k] + 1) % SeqMod \in Numbers
    BY ClientAssumption DEF TypeOK, Numbers
  <2>2. TypeOK'
    BY <1>6, <2>1 DEF ReadData, At, TypeOK, trackerVars, serverConnVars, clientVars,
        localVars, streamVars
  <2>3. ControlOK'
    BY <1>6 DEF ReadData, At, TypeOK, ControlOK, serverConnVars, localVars
  <2> QED
    BY <2>2, <2>3
<1>7. ASSUME NEW k \in Locals, UpdateActivity(k) \/ Expire(k) PROVE TypeInv'
  <2>1. TypeOK'
    <3>1. activity' \in [Locals -> {"read", "response", "none"}]
      BY <1>7 DEF UpdateActivity, Expire, TypeOK
    <3>2. handler' \in [Locals -> {"none", "track", "read", "touch", "send", "remove",
                                   "close", "done"}]
      BY <1>7 DEF UpdateActivity, Expire, At, TypeOK, handlerVars
    <3>3. UNCHANGED <<connections, reads, serverConnVars, clientVars, localVars, streamVars>>
      BY <1>7 DEF UpdateActivity, Expire, handlerVars
    <3> QED
      BY <3>1, <3>2, <3>3 DEF TypeOK, serverConnVars, clientVars, localVars, streamVars
  <2>2. ControlOK'
    BY <1>7 DEF UpdateActivity, Expire, At, TypeOK, ControlOK, handlerVars, serverConnVars,
        localVars
  <2> QED
    BY <2>1, <2>2
<1>8. ASSUME NEW k \in Locals, ServerWriter(k) PROVE TypeInv'
  <2>1. [local |-> k, n |-> reads[k]] \in Packet
    BY DEF TypeOK, Packet
  <2>2. packetChan' \in Seq(Packet)
    <3>1. packetChan \in Seq(Packet)
      BY DEF TypeOK
    <3>2. CASE packetChan' = Append(packetChan, [local |-> k, n |-> reads[k]])
      BY <2>1, <3>1, <3>2
    <3>3. CASE UNCHANGED packetChan
      BY <3>1, <3>3
    <3> QED
      BY <1>8, <3>2, <3>3 DEF ServerWriter
  <2>3. handler' \in [Locals -> {"none", "track", "read", "touch", "send", "remove",
                                 "close", "done"}]
    BY <1>8 DEF ServerWriter, At, TypeOK
  <2>4. TypeOK'
    BY <1>8, <2>2, <2>3 DEF ServerWriter, TypeOK, trackerVars, clientVars, localVars, streamVars
  <2>5. ControlOK'
    BY <1>8 DEF ServerWriter, At, TypeOK, ControlOK, localVars
  <2> QED
    BY <2>4, <2>5
<1>9. ASSUME NEW k \in Locals, Remove(k) PROVE TypeInv'
  <2>1. /\ handler[k] = "remove" /\ conn[k] \in Conns
        /\ handler' = [handler EXCEPT ![k] = "close"]
        /\ UNCHANGED <<activity, reads, serverConnVars, clientVars, conn, app, alone, streamVars>>
    BY <1>9 DEF Remove, At, ControlOK
  <2>2. /\ connections' \in [Conns -> Locals \cup {None}]
        /\ local' \in [Locals -> {"unused", "open", "closed"}]
        /\ \A j \in Locals : local'[j] = local[j] \/ (local'[j] = "closed" /\ local[j] = "open")
    <3>1. CASE connections[conn[k]] = None
      BY <1>9, <3>1 DEF Remove, TypeOK
    <3>2. CASE connections[conn[k]] # None
      <4>1. /\ connections[conn[k]] \in Locals /\ local[connections[conn[k]]] = "open"
            /\ local' = [local EXCEPT ![connections[conn[k]]] = "closed"]
            /\ connections' = [connections EXCEPT ![conn[k]] = None]
        BY <1>9, <2>1, <3>2 DEF Remove, TypeOK, TrackedOpen
      <4> QED
        BY <4>1 DEF TypeOK
    <3> QED
      BY <3>1, <3>2
  <2>3. TypeOK'
    BY <2>1, <2>2 DEF TypeOK, serverConnVars, clientVars, streamVars
  <2>4. ControlOK'
    BY <2>1, <2>2 DEF TypeOK, ControlOK, serverConnVars
  <2> QED
    BY <2>3, <2>4
<1>10. ASSUME NEW k \in Locals, CloseLocal(k) PROVE TypeInv'
  <2>1. TypeOK'
    BY <1>10 DEF CloseLocal, At, TypeOK, trackerVars, serverConnVars, clientVars, streamVars
  <2>2. ControlOK'
    BY <1>10 DEF CloseLocal, At, TypeOK, ControlOK, serverConnVars
  <2> QED
    BY <2>1, <2>2
<1>11. CASE ReadLoop
  <2>1. UNCHANGED <<connections, handlerVars, wl, packetChan, stopChan, clientVars, localVars,
                    stream, room>>
    BY <1>11 DEF ReadLoop, ReadLoopTop, RecvPacket, RecvEnd, TouchTarget, WriteTarget,
        trackerVars, streamVars
  <2>2. /\ inq' \in Seq(Conns)
        /\ target' \in Locals \cup {None}
        /\ rl' \in {"select", "recv", "touch", "write", "end"}
        /\ rl' \in {"touch", "write"} => target' \in Locals
        /\ activity' \in [Locals -> {"read", "response", "none"}]
    <3>1. inq \in Seq(Conns) /\ <<>> \in Seq(Conns)
      BY DEF TypeOK
    <3>2. CASE RecvPacket
      <4>1. Head(inq) \in Conns /\ Tail(inq) \in Seq(Conns)
        BY <3>1, <3>2 DEF RecvPacket
      <4> QED
        BY <3>2, <4>1, ClientAssumption DEF RecvPacket, TypeOK, trackerVars
    <3>3. CASE ReadLoopTop \/ RecvEnd \/ WriteTarget
      BY <3>1, <3>3 DEF ReadLoopTop, RecvEnd, WriteTarget, TypeOK, trackerVars, streamVars
    <3>4. CASE TouchTarget
      BY <3>1, <3>4 DEF TouchTarget, TypeOK, ControlOK, streamVars
    <3> QED
      BY <1>11, <3>2, <3>3, <3>4 DEF ReadLoop
  <2>3. TypeOK'
    BY <2>1, <2>2 DEF TypeOK, handlerVars, clientVars, localVars
  <2>4. ControlOK'
    BY <2>1, <2>2 DEF ControlOK, handlerVars, localVars
  <2> QED
    BY <2>3, <2>4
<1>12. CASE WriteLoop
  <2>1. packetChan' \in Seq(Packet) /\ wl' \in {"select", "send", "end"}
    <3>1. CASE WriteLoopTake
      BY <1>12, <3>1 DEF WriteLoopTake, TypeOK
    <3>2. CASE HeartbeatTick \/ WriteLoopSend \/ WriteLoopEnd
      BY <3>2 DEF HeartbeatTick, WriteLoopSend, WriteLoopEnd, WriteLoopMoves, TypeOK
    <3> QED
      BY <1>12, <3>1, <3>2 DEF WriteLoop
  <2>2. UNCHANGED <<trackerVars, handlerVars, rl, target, stopChan, clientVars, localVars,
                    streamVars>>
    BY <1>12, WriteLoopStep
  <2>3. TypeOK'
    BY <2>1, <2>2 DEF TypeOK, trackerVars, handlerVars, clientVars, localVars, streamVars
  <2>4. ControlOK'
    BY <2>2 DEF ControlOK, handlerVars, localVars
  <2> QED
    BY <2>3, <2>4
<1>13. CASE StopBegin \/ StopWait \/ StopEnd \/ Server \/ \E c \in Conns : ServerPacket(c)
  <2>1. CASE StopBegin \/ StopWait \/ StopEnd \/ Server
    <3>1. /\ phase' \in {"running", "closing", "waiting", "stopped"}
          /\ stopChan' \in BOOLEAN /\ stream' \in {"open", "ended"} /\ room' \in BOOLEAN
          /\ UNCHANGED <<trackerVars, handlerVars, rl, target, wl, packetChan, cl,
                         localVars, inq>>
      <4>1. CASE FlowControl
        <5>1. room' \in BOOLEAN
          BY <4>1 DEF FlowControl
        <5> QED
          BY <4>1, <5>1 DEF FlowControl, TypeOK, serverConnVars, clientVars
      <4>2. CASE StopBegin \/ StopWait \/ StopEnd \/ StreamEnds
        BY <4>2 DEF StopBegin, StopWait, StopEnd, StreamEnds, TypeOK, serverConnVars,
            clientVars, streamVars
      <4> QED
        BY <2>1, <4>1, <4>2 DEF Server, ServerReturns, ConnectionLost
    <3> QED
      BY <3>1 DEF TypeOK, ControlOK, trackerVars, handlerVars, localVars
  <2>2. ASSUME NEW c \in Conns, ServerPacket(c) PROVE TypeInv'
    <3>1. inq' \in Seq(Conns)
      BY <2>2 DEF ServerPacket, TypeOK
    <3> QED
      BY <2>2, <3>1 DEF ServerPacket, TypeOK, ControlOK, trackerVars, handlerVars,
          serverConnVars, clientVars, localVars
  <2> QED
    BY <1>13, <2>1, <2>2
<1>14. ASSUME NEW k \in Locals, App(k) PROVE TypeInv'
  <2>1. /\ app' \in [Locals -> {"up", "stalled", "closed", "reset"}]
        /\ UNCHANGED <<trackerVars, handlerVars, serverConnVars, clientVars, conn, local, alone, streamVars>>
    BY <1>14 DEF App, AppCloses, AppResets, AppStalls, AppResumes, AppMoves, TypeOK
  <2> QED
    BY <2>1 DEF TypeOK, ControlOK, trackerVars, handlerVars, serverConnVars, clientVars, streamVars
<1>15. CASE UNCHANGED vars
  BY <1>15 DEF vars, TypeOK, ControlOK
<1> QED
  BY <1>1, <1>2, <1>3, <1>4, <1>5, <1>6, <1>7, <1>8, <1>9, <1>10, <1>11, <1>12, <1>13, <1>14,
     <1>15 DEF Next, Handle, Stopped

-----------------------------------------------------------------------------
(***************************************************************************)
(* The tracker and the sockets.                                            *)
(***************************************************************************)
(* The steps after which both still agree because no map entry and no       *)
(* socket changed.                                                          *)
LEMMA SameTracker ==
    ASSUME TrackedOpen, NewOpen,
           UNCHANGED <<connections, conn, local>>,
           \A k \in Locals :
             /\ (Handling(k) \/ handler[k] = "remove") =>
                  (Handling(k) \/ handler[k] = "remove")'
             /\ handler[k] \notin {"none", "done"} => handler'[k] \notin {"none", "done"}
             /\ handler'[k] = "track" => handler[k] = "track",
           TypeOK
    PROVE  TrackedOpen' /\ NewOpen'
<1>1. \A c \in Conns : connections[c] # None => connections[c] \in Locals
  BY DEF TypeOK
<1> QED
  BY <1>1 DEF TrackedOpen, NewOpen

LEMMA NextTracked ==
    TypeInv /\ TrackedOpen /\ NewOpen /\ [Next]_vars => TrackedOpen' /\ NewOpen'
<1> SUFFICES ASSUME TypeInv, TrackedOpen, NewOpen, [Next]_vars
             PROVE  TrackedOpen' /\ NewOpen'
  OBVIOUS
<1> USE DEF TypeInv
<1>0. \A c \in Conns : connections[c] # None =>
        /\ connections[c] \in Locals /\ conn[connections[c]] = c
        /\ local[connections[c]] = "open"
        /\ handler[connections[c]] \in {"read", "touch", "send", "remove"}
  BY DEF TypeOK, TrackedOpen, Handling
<1>1. ASSUME NEW k \in Locals, NEW c \in Conns, Accept(k, c)
      PROVE  TrackedOpen' /\ NewOpen'
  <2>1. /\ local[k] = "unused" /\ UNCHANGED connections
        /\ local' = [local EXCEPT ![k] = "open"]
        /\ conn' = [conn EXCEPT ![k] = c]
        /\ handler' = [handler EXCEPT ![k] = "track"]
    BY <1>1 DEF Accept, trackerVars
  <2>2. \A d \in Conns : connections[d] # k
    BY <1>0, <2>1, ClientAssumption
  <2> QED
    BY <1>0, <2>1, <2>2 DEF TypeOK, TrackedOpen, NewOpen, Handling
<1>2. CASE Cleanup
  <2>1. /\ connections' = [c \in Conns |-> IF Idle(c) THEN None ELSE connections[c]]
        /\ local' = [k \in Locals |->
                       IF \E c \in Conns : Idle(c) /\ connections[c] = k
                         THEN "closed" ELSE local[k]]
        /\ UNCHANGED <<handler, conn>>
    BY <1>2 DEF Cleanup, handlerVars
  <2>2. ASSUME NEW c \in Conns, connections'[c] # None
        PROVE  connections'[c] = connections[c] /\ local'[connections[c]] = "open"
    <3>1. ~Idle(c) /\ connections'[c] = connections[c]
      BY <2>1, <2>2
    <3>2. ~\E d \in Conns : Idle(d) /\ connections[d] = connections[c]
      BY <1>0, <2>2, <3>1 DEF Idle
    <3> QED
      BY <1>0, <2>1, <2>2, <3>1, <3>2
  <2>3. \A k \in Locals : local'[k] = "open" => local[k] = "open"
    BY <2>1
  <2>4. \A k \in Locals : handler[k] = "track" => local'[k] = local[k]
    BY <1>0, <2>1 DEF Idle
  <2> QED
    BY <1>0, <2>1, <2>2, <2>3, <2>4 DEF TrackedOpen, NewOpen, Handling
<1>3. ASSUME NEW k \in Locals, Track(k) PROVE TrackedOpen' /\ NewOpen'
  <2>1. /\ handler[k] = "track" /\ conn[k] \in Conns /\ local[k] = "open"
        /\ handler' = [handler EXCEPT ![k] = "read"]
        /\ connections' = [connections EXCEPT ![conn[k]] = k]
        /\ UNCHANGED <<conn, local>>
    BY <1>3 DEF Track, At, ControlOK, NewOpen, localVars
  <2> QED
    BY <1>0, <2>1, ClientAssumption DEF TypeOK, TrackedOpen, NewOpen, Handling
<1>4. ASSUME NEW k \in Locals, NoOriginalDest(k) PROVE TrackedOpen' /\ NewOpen'
  <2>1. /\ handler[k] = "track" /\ handler' = [handler EXCEPT ![k] = "close"]
        /\ UNCHANGED <<connections, conn, local>>
    BY <1>4 DEF NoOriginalDest, At, trackerVars, localVars
  <2>2. \A c \in Conns : connections[c] # k
    BY <1>0, <2>1, ClientAssumption
  <2> QED
    BY <1>0, <2>1, <2>2 DEF TypeOK, TrackedOpen, NewOpen, Handling
<1>5. ASSUME NEW k \in Locals, Remove(k) PROVE TrackedOpen' /\ NewOpen'
  <2>1. /\ handler[k] = "remove" /\ conn[k] \in Conns /\ UNCHANGED conn
        /\ handler' = [handler EXCEPT ![k] = "close"]
    BY <1>5 DEF Remove, At, ControlOK
  <2>2. /\ connections'[conn[k]] = None
        /\ \A c \in Conns : c # conn[k] => connections'[c] = connections[c]
    BY <1>5, <2>1 DEF Remove, TypeOK
  <2>3. \A j \in Locals : local'[j] = local[j]
                          \/ (local'[j] = "closed" /\ j = connections[conn[k]])
    BY <1>5, <2>1 DEF Remove, TypeOK
  <2>4. ASSUME NEW c \in Conns, connections'[c] # None
        PROVE  /\ connections'[c] = connections[c] /\ connections[c] # k
               /\ local'[connections[c]] = "open"
    <3>1. c # conn[k] /\ connections'[c] = connections[c]
      BY <2>2, <2>4
    <3> QED
      BY <1>0, <2>1, <2>3, <2>4, <3>1
  <2>5. \A j \in Locals : handler[j] = "track" => local'[j] = local[j]
    BY <1>0, <2>1, <2>3, ClientAssumption
  <2> QED
    BY <1>0, <2>1, <2>3, <2>4, <2>5 DEF TypeOK, TrackedOpen, NewOpen, Handling
<1>6. ASSUME NEW k \in Locals, CloseLocal(k) PROVE TrackedOpen' /\ NewOpen'
  <2>1. /\ handler[k] = "close" /\ handler' = [handler EXCEPT ![k] = "done"]
        /\ local' = [local EXCEPT ![k] = "closed"] /\ UNCHANGED <<connections, conn>>
    BY <1>6 DEF CloseLocal, At, trackerVars
  <2>2. \A c \in Conns : connections[c] # k
    BY <1>0, <2>1, ClientAssumption
  <2> QED
    BY <1>0, <2>1, <2>2 DEF TypeOK, TrackedOpen, NewOpen, Handling
<1>7. ASSUME NEW k \in Locals,
             \/ ReadData(k) \/ ReadFails(k) \/ ReadDeadline(k) \/ UpdateActivity(k)
             \/ ServerWriter(k) \/ Expire(k) \/ App(k)
      PROVE  TrackedOpen' /\ NewOpen'
  <2>1. UNCHANGED <<connections, conn, local>>
    BY <1>7 DEF ReadData, ReadFails, ReadDeadline, UpdateActivity, ServerWriter, Expire, App,
        AppCloses, AppResets, AppStalls, AppResumes, AppMoves, trackerVars, localVars
  <2>2. \/ UNCHANGED handler
        \/ /\ handler[k] \in {"read", "touch", "send"}
           /\ \E next \in {"read", "touch", "send", "remove"} :
                handler' = [handler EXCEPT ![k] = next]
    BY <1>7 DEF ReadData, ReadFails, ReadDeadline, UpdateActivity, ServerWriter, Expire, App,
        AppCloses, AppResets, AppStalls, AppResumes, AppMoves, At, handlerVars
  <2> QED
    BY <2>1, <2>2, SameTracker DEF TypeOK, Handling
<1>8. CASE \/ CleanupLoopEnd \/ ReadLoop \/ WriteLoop
           \/ StopBegin \/ StopWait \/ StopEnd \/ Server \/ UNCHANGED vars
           \/ \E c \in Conns : ServerPacket(c)
  <2>1. UNCHANGED <<connections, conn, local, handler>>
    BY <1>8, WriteLoopStep DEF CleanupLoopEnd, ReadLoop, ReadLoopTop, RecvPacket, RecvEnd,
        TouchTarget, WriteTarget, StopBegin, StopWait, StopEnd, Server, FlowControl,
        ServerReturns, ConnectionLost, StreamEnds, ServerPacket, trackerVars, handlerVars,
        localVars, vars
  <2> QED
    BY <2>1, SameTracker DEF Handling
<1> QED
  BY <1>1, <1>2, <1>3, <1>4, <1>5, <1>6, <1>7, <1>8 DEF Next, Handle, Stopped

Inv == TypeInv /\ TrackedOpen /\ NewOpen

LEMMA Invariance == Spec => []Inv
<1>1. Init => Inv
  BY InitTypeInv DEF Inv, Init, TrackedOpen, NewOpen
<1>2. Inv /\ [Next]_vars => Inv'
  BY NextTypeInv, NextTracked DEF Inv
<1> QED
  BY <1>1, <1>2, PTL DEF Spec

(* Every variable of the client keeps its type.                             *)
THEOREM TypeCorrect == Spec => []TypeOK
<1>1. Inv => TypeOK
  BY DEF Inv, TypeInv
<1> QED
  BY <1>1, Invariance, PTL

(* The tracker holds only open connections whose handlers will remove them, *)
(* and every open connection has a handler, even when addresses and ports   *)
(* come back early.                                                         *)
THEOREM TrackedAreOpen == Spec => []TrackedOpen
<1>1. Inv => TrackedOpen
  BY DEF Inv
<1> QED
  BY <1>1, Invariance, PTL

-----------------------------------------------------------------------------
(***************************************************************************)
(* Responses find their connection, as long as no handler was left of an   *)
(* earlier one with its ID.                                                *)
(***************************************************************************)
Alive(k) == handler[k] \notin {"none", "done"}

Usable(k) == alone[k] /\ app[k] # "reset" /\ local[k] = "open" /\ Alive(k)

OneHandler ==
    \A j, k \in Locals : j # k /\ Usable(k) /\ Alive(j) => conn[j] # conn[k]

(* A usable connection had no other handler of its ID when it was accepted, *)
(* and Accept makes none while it is open and not reset.                    *)
LEMMA NextOneHandler ==
    ASSUME TypeInv, TrackedOpen, OneHandler, [Next]_vars
    PROVE  OneHandler'
<1> USE DEF TypeInv
<1>1. ASSUME NEW k \in Locals, NEW c \in Conns, Accept(k, c) PROVE OneHandler'
  <2>1. /\ conn' = [conn EXCEPT ![k] = c]
        /\ handler' = [handler EXCEPT ![k] = "track"]
        /\ local' = [local EXCEPT ![k] = "open"]
        /\ alone' = [alone EXCEPT ![k] = \A j \in Locals : conn[j] = c => handler[j] = "done"]
        /\ UNCHANGED app
    BY <1>1 DEF Accept
  <2>2. ASSUME NEW j \in Locals, Usable(j) PROVE conn[j] # c
    BY <1>1, <2>2 DEF Accept, TupleFree, Usable, Alive
  <2>3. ASSUME NEW i \in Locals, NEW j \in Locals, i # j, Usable(j)', Alive(i)'
        PROVE  conn'[i] # conn'[j]
    <3>1. CASE j = k
      <4>1. Alive(i) /\ conn'[i] = conn[i] /\ conn'[j] = c
        BY <2>1, <2>3, <3>1 DEF TypeOK, Alive
      <4>2. \A h \in Locals : conn[h] = c => handler[h] = "done"
        BY <2>1, <2>3, <3>1 DEF TypeOK, Usable
      <4> QED
        BY <4>1, <4>2 DEF Alive
    <3>2. CASE j # k
      <4>1. Usable(j) /\ conn'[j] = conn[j]
        BY <2>1, <2>3, <3>2 DEF TypeOK, Usable, Alive
      <4>2. CASE i = k
        BY <2>1, <2>2, <4>1, <4>2 DEF TypeOK
      <4>3. CASE i # k
        BY <2>1, <2>3, <4>1, <4>3 DEF TypeOK, OneHandler, Alive
      <4> QED
        BY <4>2, <4>3
    <3> QED
      BY <3>1, <3>2
  <2> QED
    BY <2>3 DEF OneHandler
<1>2. ASSUME UNCHANGED conn, \A k \in Locals : (Usable(k)' => Usable(k)) /\ (Alive(k)' => Alive(k))
      PROVE  OneHandler'
  BY <1>2 DEF OneHandler
<1>3. ASSUME NEW k \in Locals, Handle(k) PROVE OneHandler'
  <2>1. UNCHANGED <<conn, app, alone>>
    BY <1>3 DEF Handle, NoOriginalDest, Track, ReadData, ReadFails, ReadDeadline,
        UpdateActivity, ServerWriter, Remove, CloseLocal, localVars
  <2>2. /\ Alive(k)
        /\ \A j \in Locals : j # k => handler'[j] = handler[j]
    BY <1>3 DEF Handle, NoOriginalDest, Track, ReadData, ReadFails, ReadDeadline,
        UpdateActivity, ServerWriter, Remove, CloseLocal, At, TypeOK, Alive
  <2>3. \A j \in Locals : local'[j] = "open" => local[j] = "open"
    BY <1>3 DEF Handle, NoOriginalDest, Track, ReadData, ReadFails, ReadDeadline,
        UpdateActivity, ServerWriter, Remove, CloseLocal, localVars, TypeOK
  <2> QED
    BY <1>2, <2>1, <2>2, <2>3 DEF Alive, Usable
<1>4. ASSUME NEW k \in Locals, App(k) PROVE OneHandler'
  <2>1. /\ UNCHANGED <<conn, alone, local, handler>>
        /\ \A j \in Locals : app'[j] # "reset" => app[j] # "reset"
    BY <1>4 DEF App, AppCloses, AppResets, AppStalls, AppResumes, AppMoves, handlerVars, TypeOK
  <2> QED
    BY <1>2, <2>1 DEF Alive, Usable
<1>5. CASE Cleanup
  <2>1. /\ UNCHANGED <<conn, alone, app, handler>>
        /\ \A j \in Locals : local'[j] = "open" => local[j] = "open"
    BY <1>5 DEF Cleanup, handlerVars, TypeOK
  <2> QED
    BY <1>2, <2>1 DEF Alive, Usable
<1>6. CASE \/ \E k \in Locals : Expire(k)
           \/ CleanupLoopEnd \/ ReadLoop \/ WriteLoop
           \/ StopBegin \/ StopWait \/ StopEnd \/ Server \/ UNCHANGED vars
           \/ \E c \in Conns : ServerPacket(c)
  <2>1. UNCHANGED <<conn, handler, local, app, alone>>
    BY <1>6, WriteLoopStep DEF Expire, CleanupLoopEnd, ReadLoop, ReadLoopTop, RecvPacket,
        RecvEnd, TouchTarget, WriteTarget, StopBegin, StopWait, StopEnd, Server, FlowControl,
        ServerReturns, ConnectionLost, StreamEnds, ServerPacket, handlerVars, localVars, vars
  <2> QED
    BY <1>2, <2>1 DEF Alive, Usable
<1> QED
  BY <1>1, <1>3, <1>4, <1>5, <1>6 DEF Next, Stopped

LEMMA NextUsable ==
    ASSUME Inv, OneHandler, UsableIsTracked, [Next]_vars
    PROVE  UsableIsTracked'
<1> USE DEF Inv, TypeInv
<1>1. ASSUME UNCHANGED <<connections, conn>>, \A k \in Locals : Answerable(k)' => Answerable(k)
      PROVE  UsableIsTracked'
  BY <1>1 DEF UsableIsTracked, Answerable
<1>2. ASSUME NEW k \in Locals, NEW c \in Conns, Accept(k, c) PROVE UsableIsTracked'
  <2>1. /\ handler' = [handler EXCEPT ![k] = "track"] /\ UNCHANGED connections
        /\ conn' = [conn EXCEPT ![k] = c]
        /\ \A j \in Locals : j # k => local'[j] = local[j] /\ alone'[j] = alone[j]
        /\ UNCHANGED app
    BY <1>2 DEF Accept, trackerVars, TypeOK
  <2> QED
    BY <2>1 DEF TypeOK, UsableIsTracked, Answerable, Handling
<1>3. ASSUME NEW k \in Locals, Track(k) PROVE UsableIsTracked'
  <2>1. /\ handler[k] = "track" /\ handler' = [handler EXCEPT ![k] = "read"]
        /\ conn[k] \in Conns /\ connections' = [connections EXCEPT ![conn[k]] = k]
        /\ UNCHANGED <<conn, local, app, alone>>
    BY <1>3 DEF Track, At, ControlOK, localVars
  <2>2. ASSUME NEW j \in Locals, Answerable(j)'
        PROVE  connections'[conn'[j]] = j
    <3>1. CASE j = k
      BY <2>1, <3>1 DEF TypeOK
    <3>2. CASE j # k
      <4>1. Answerable(j) /\ Usable(j) /\ Alive(k)
        BY <2>1, <2>2, <3>2 DEF TypeOK, Answerable, Usable, Handling, Alive
      <4>2. conn[j] # conn[k] /\ connections[conn[j]] = j /\ conn[j] \in Conns
        BY <3>2, <4>1 DEF OneHandler, UsableIsTracked, ControlOK, Answerable, Handling
      <4> QED
        BY <2>1, <4>2 DEF TypeOK
    <3> QED
      BY <3>1, <3>2
  <2> QED
    BY <2>2 DEF UsableIsTracked, Answerable
<1>4. ASSUME NEW k \in Locals, Remove(k) PROVE UsableIsTracked'
  <2>1. /\ handler[k] = "remove" /\ handler' = [handler EXCEPT ![k] = "close"]
        /\ conn[k] \in Conns /\ UNCHANGED <<conn, app, alone>>
    BY <1>4 DEF Remove, At, ControlOK
  <2>2. /\ \A c \in Conns : c # conn[k] => connections'[c] = connections[c]
        /\ \A j \in Locals : local'[j] = "open" => local[j] = "open"
    BY <1>4, <2>1 DEF Remove, TypeOK
  <2>3. ASSUME NEW j \in Locals, Answerable(j)'
        PROVE  connections'[conn'[j]] = j
    <3>1. j # k /\ Answerable(j) /\ Usable(j) /\ Alive(k)
      BY <2>1, <2>2, <2>3 DEF TypeOK, Answerable, Usable, Handling, Alive
    <3>2. conn[j] # conn[k] /\ connections[conn[j]] = j /\ conn[j] \in Conns
      BY <3>1 DEF OneHandler, UsableIsTracked, ControlOK, Answerable, Handling
    <3> QED
      BY <2>1, <2>2, <3>2
  <2> QED
    BY <2>3 DEF UsableIsTracked, Answerable
<1>5. CASE Cleanup
  <2>1. /\ connections' = [c \in Conns |-> IF Idle(c) THEN None ELSE connections[c]]
        /\ local' = [k \in Locals |->
                       IF \E c \in Conns : Idle(c) /\ connections[c] = k
                         THEN "closed" ELSE local[k]]
        /\ UNCHANGED <<handler, conn, app, alone>>
    BY <1>5 DEF Cleanup, handlerVars
  <2>2. ASSUME NEW k \in Locals, Answerable(k)'
        PROVE  connections'[conn'[k]] = k
    <3>1. local'[k] = "open" /\ Answerable(k)
      BY <2>1, <2>2 DEF Answerable, Handling
    <3>2. connections[conn[k]] = k /\ conn[k] \in Conns
      BY <3>1 DEF UsableIsTracked, ControlOK, Answerable, Handling
    <3>3. ~Idle(conn[k])
      BY <2>1, <3>1, <3>2
    <3> QED
      BY <2>1, <3>2, <3>3
  <2> QED
    BY <2>2 DEF UsableIsTracked, Answerable
<1>6. ASSUME NEW k \in Locals,
             \/ NoOriginalDest(k) \/ CloseLocal(k) \/ ReadData(k) \/ ReadFails(k)
             \/ ReadDeadline(k) \/ UpdateActivity(k) \/ ServerWriter(k) \/ Expire(k) \/ App(k)
      PROVE  UsableIsTracked'
  <2>1. UNCHANGED <<connections, conn, alone>>
    BY <1>6 DEF NoOriginalDest, CloseLocal, ReadData, ReadFails, ReadDeadline, UpdateActivity,
        ServerWriter, Expire, App, AppCloses, AppResets, AppStalls, AppResumes, AppMoves,
        trackerVars, localVars
  <2>2. UNCHANGED local \/ local' = [local EXCEPT ![k] = "closed"]
    BY <1>6 DEF NoOriginalDest, CloseLocal, ReadData, ReadFails, ReadDeadline, UpdateActivity,
        ServerWriter, Expire, App, AppCloses, AppResets, AppStalls, AppResumes, AppMoves,
        localVars
  <2>3. \A j \in Locals :
          (Handling(j)' => Handling(j)) /\ (app'[j] # "reset" => app[j] # "reset")
    BY <1>6 DEF NoOriginalDest, CloseLocal, ReadData, ReadFails, ReadDeadline, UpdateActivity,
        ServerWriter, Expire, App, AppCloses, AppResets, AppStalls, AppResumes, AppMoves,
        At, Handling, handlerVars, localVars, TypeOK
  <2> QED
    BY <1>1, <2>1, <2>2, <2>3 DEF TypeOK, Answerable
<1>7. CASE \/ CleanupLoopEnd \/ ReadLoop \/ WriteLoop
           \/ StopBegin \/ StopWait \/ StopEnd \/ Server \/ UNCHANGED vars
           \/ \E c \in Conns : ServerPacket(c)
  <2>1. UNCHANGED <<connections, conn, local, handler, app, alone>>
    BY <1>7, WriteLoopStep DEF CleanupLoopEnd, ReadLoop, ReadLoopTop, RecvPacket, RecvEnd,
        TouchTarget, WriteTarget, StopBegin, StopWait, StopEnd, Server, FlowControl,
        ServerReturns, ConnectionLost, StreamEnds, ServerPacket, trackerVars, handlerVars,
        localVars, vars
  <2> QED
    BY <1>1, <2>1 DEF Answerable, Handling
<1> QED
  BY <1>2, <1>3, <1>4, <1>5, <1>6, <1>7 DEF Next, Handle, Stopped

(* Every connection an application can still use is found under its ID,     *)
(* whatever handlers, Cleanup and readLoop do to the tracker at once, if    *)
(* it had the ID for itself when it was accepted.                           *)
THEOREM UsableAreTracked == Spec => []UsableIsTracked
<1>1. Init => Inv /\ OneHandler /\ UsableIsTracked
  BY InitTypeInv DEF Inv, Init, TrackedOpen, NewOpen, OneHandler, Usable, Alive, UsableIsTracked,
     Answerable, Handling
<1>2. Inv /\ OneHandler /\ UsableIsTracked /\ [Next]_vars
        => (Inv /\ OneHandler /\ UsableIsTracked)'
  BY NextTypeInv, NextTracked, NextOneHandler, NextUsable DEF Inv
<1> QED
  BY <1>1, <1>2, PTL DEF Spec
=============================================================================
