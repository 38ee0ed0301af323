-------------------------- MODULE ForwarderProofs ---------------------------
(***************************************************************************)
(* Theorems about Forwarder, for any number of connection IDs and target   *)
(* connections and any channel capacity.                                   *)
(***************************************************************************)
EXTENDS Forwarder, NumberLemmas, SequenceTheorems, TLAPS

(* What the program counters say: Forward has a packet, and a target once   *)
(* it looked one up; a Dial finds nothing under the ID, because pf.mu is    *)
(* held; every target connection ever opened has an ID and a reader.        *)
ControlOK ==
    /\ rl \in {"forward", "dial", "write", "remove"} => cur \in Conns
    /\ rl \in {"write", "remove"} => target \in Socks
    /\ rl = "dial" => connections[cur] = None
    /\ \A k \in Socks :
         /\ reader[k] = "none" <=> sock[k] = "unused"
         /\ sock[k] # "unused" => conn[k] \in Conns

TypeInv == TypeOK /\ ControlOK

(* readLoop ends with the stream only, and Stop cancels pf.ctx only after   *)
(* readLoop and writeLoop have ended, so that nothing starts a reader any   *)
(* more.                                                                    *)
StopOrder ==
    /\ rl = "end" => stopChan /\ stream = "ended"
    /\ phase \in {"stopping", "stopped"} => rl = "end" /\ wl = "end"
    /\ phase = "stopped" => \A k \in Socks : reader[k] \in {"none", "done"}

-----------------------------------------------------------------------------
LEMMA InitTypeInv == Init => TypeInv
<1> SUFFICES ASSUME Init PROVE TypeInv
  OBVIOUS
<1>1. 0 \in Numbers
  BY ForwarderAssumption DEF Numbers
<1>2. TypeOK
  <2>1. responses \in Seq(Response) /\ inq \in Seq(Conns)
    BY DEF Init
  <2>2. reads \in [Socks -> Numbers] /\ delivered \in [Socks -> Numbers]
    BY <1>1 DEF Init
  <2> QED
    BY <2>1, <2>2 DEF Init, TypeOK
<1>3. ControlOK
  BY DEF Init, ControlOK
<1> QED
  BY <1>2, <1>3 DEF TypeInv

LEMMA RemoveType ==
    ASSUME TypeOK, NEW c \in Conns, RemoveConnection(c)
    PROVE  /\ connections' \in [Conns -> Socks \cup {None}]
           /\ sock' \in [Socks -> {"unused", "open", "closed"}]
           /\ \A d \in Conns : connections[d] = None => connections'[d] = None
           /\ \A k \in Socks : sock'[k] = sock[k]
                               \/ (k = connections[c] /\ sock'[k] = "closed")
  BY DEF TypeOK, RemoveConnection

LEMMA NextTypeInv == TypeInv /\ ConnectionsOpen /\ [Next]_vars => TypeInv'
<1> SUFFICES ASSUME TypeInv, ConnectionsOpen, [Next]_vars PROVE TypeInv'
  OBVIOUS
<1> USE DEF TypeInv
<1>1. CASE RecvPacket
  <2>1. Head(inq) \in Conns /\ Tail(inq) \in Seq(Conns)
    BY <1>1 DEF RecvPacket, TypeOK
  <2>2. TypeOK'
    BY <1>1, <2>1 DEF RecvPacket, TypeOK, forwarderVars, readerVars, targetVars
  <2>3. ControlOK'
    BY <1>1, <2>1 DEF RecvPacket, ControlOK, forwarderVars, readerVars, targetVars
  <2> QED
    BY <2>2, <2>3
<1>2. CASE RecvEnd
  <2>1. TypeOK'
    BY <1>2 DEF RecvEnd, TypeOK, forwarderVars, readerVars, targetVars
  <2>2. ControlOK'
    BY <1>2 DEF RecvEnd, ControlOK, forwarderVars, readerVars, targetVars
  <2> QED
    BY <2>1, <2>2
<1>3. CASE Forward
  <2>1. connections[cur] \in Socks \cup {None} /\ cur \in Conns
    BY <1>3 DEF Forward, TypeOK, ControlOK
  <2>2. TypeOK'
    BY <1>3, <2>1 DEF Forward, TypeOK, forwarderVars, readerVars, targetVars, streamVars
  <2>3. ControlOK'
    BY <1>3, <2>1 DEF Forward, ControlOK, forwarderVars, readerVars, targetVars, streamVars
  <2> QED
    BY <2>2, <2>3
<1>4. ASSUME NEW k \in Socks, DialOK(k) PROVE TypeInv'
  <2>1. cur \in Conns
    BY <1>4 DEF DialOK, ControlOK
  <2>2. TypeOK'
    BY <1>4, <2>1 DEF DialOK, TypeOK, streamVars
  <2>3. ControlOK'
    BY <1>4, <2>1 DEF DialOK, TypeOK, ControlOK, streamVars
  <2> QED
    BY <2>2, <2>3
<1>5. CASE DialFail \/ WriteOK
  <2>1. TypeOK'
    BY <1>5 DEF DialFail, WriteOK, ForwardReturns, TypeOK, forwarderVars, readerVars,
        targetVars, streamVars
  <2>2. ControlOK'
    BY <1>5 DEF DialFail, WriteOK, ForwardReturns, ControlOK, forwarderVars, readerVars,
        targetVars, streamVars
  <2> QED
    BY <2>1, <2>2
<1>6. CASE WriteFail
  <2>1. TypeOK'
    BY <1>6 DEF WriteFail, TypeOK, forwarderVars, readerVars, targetVars, streamVars
  <2>2. ControlOK'
    BY <1>6 DEF WriteFail, ControlOK, forwarderVars, readerVars, targetVars, streamVars
  <2> QED
    BY <2>1, <2>2
<1>7. CASE ForwardRemove
  <2>1. cur \in Conns /\ RemoveConnection(cur)
    BY <1>7 DEF ForwardRemove, ControlOK
  <2>2. /\ connections' \in [Conns -> Socks \cup {None}]
        /\ sock' \in [Socks -> {"unused", "open", "closed"}]
        /\ \A k \in Socks : sock'[k] = sock[k]
                            \/ (k = connections[cur] /\ sock'[k] = "closed")
    BY <2>1, RemoveType
  <2>3. TypeOK'
    BY <1>7, <2>2 DEF ForwardRemove, ForwardReturns, TypeOK, readerVars, streamVars
  <2>4. \A k \in Socks : sock[k] = "unused" <=> sock'[k] = "unused"
    BY <2>1, <2>2, ForwarderAssumption DEF ConnectionsOpen
  <2>5. ControlOK'
    BY <1>7, <2>2, <2>4 DEF ForwardRemove, ForwardReturns, ControlOK, readerVars, streamVars
  <2> QED
    BY <2>3, <2>5
<1>8. ASSUME NEW k \in Socks, ReaderTop(k) \/ ReadEnd(k) PROVE TypeInv'
  <2>1. TypeOK'
    BY <1>8 DEF ReaderTop, ReadEnd, TypeOK, forwarderVars, serverConnVars, targetVars, streamVars
  <2>2. ControlOK'
    BY <1>8 DEF ReaderTop, ReadEnd, TypeOK, ControlOK, forwarderVars, serverConnVars, targetVars, streamVars
  <2> QED
    BY <2>1, <2>2
<1>9. ASSUME NEW k \in Socks, ReadData(k) PROVE TypeInv'
  <2>1. (reads[k] + 1) % SeqMod \in Numbers
    BY ForwarderAssumption DEF TypeOK, Numbers
  <2>2. TypeOK'
    BY <1>9, <2>1 DEF ReadData, TypeOK, forwarderVars, serverConnVars, targetVars, streamVars
  <2>3. ControlOK'
    BY <1>9 DEF ReadData, TypeOK, ControlOK, forwarderVars, serverConnVars, targetVars, streamVars
  <2> QED
    BY <2>2, <2>3
<1>10. ASSUME NEW k \in Socks, ReaderSend(k) PROVE TypeInv'
  <2>1. [sock |-> k, n |-> reads[k]] \in Response
    BY DEF TypeOK, Response
  <2>2. responses' \in Seq(Response)
    <3>1. responses \in Seq(Response)
      BY DEF TypeOK
    <3>2. CASE Enqueue(k)
      BY <2>1, <3>1, <3>2 DEF Enqueue
    <3>3. CASE UNCHANGED responses
      BY <3>1, <3>3
    <3> QED
      BY <1>10, <3>2, <3>3 DEF ReaderSend
  <2>3. reader' \in [Socks -> {"none", "top", "read", "send", "remove", "done"}]
    BY <1>10 DEF ReaderSend, TypeOK
  <2>4. TypeOK'
    BY <1>10, <2>2, <2>3 DEF ReaderSend, TypeOK, forwarderVars, targetVars, streamVars
  <2>5. ControlOK'
    BY <1>10 DEF ReaderSend, TypeOK, ControlOK, forwarderVars, targetVars, streamVars
  <2> QED
    BY <2>4, <2>5
<1>11. ASSUME NEW k \in Socks, ReaderRemove(k) PROVE TypeInv'
  <2>1. conn[k] \in Conns /\ RemoveConnection(conn[k]) /\ sock[k] # "unused" /\ rl # "dial"
    BY <1>11 DEF ReaderRemove, ControlOK, MuFree
  <2>2. /\ connections' \in [Conns -> Socks \cup {None}]
        /\ sock' \in [Socks -> {"unused", "open", "closed"}]
        /\ \A j \in Socks : sock'[j] = sock[j]
                            \/ (j = connections[conn[k]] /\ sock'[j] = "closed")
    BY <2>1, RemoveType
  <2>3. TypeOK'
    <3>1. reader' \in [Socks -> {"none", "top", "read", "send", "remove", "done"}]
      BY <1>11 DEF ReaderRemove, TypeOK
    <3>2. UNCHANGED <<cancelled, reads, serverConnVars, conn, remote, streamVars, delivered>>
      BY <1>11 DEF ReaderRemove
    <3> QED
      BY <2>2, <3>1, <3>2 DEF TypeOK, serverConnVars, streamVars
  <2>4. \A j \in Socks : sock[j] = "unused" <=> sock'[j] = "unused"
    BY <2>1, <2>2, ForwarderAssumption DEF ConnectionsOpen
  <2>5. ControlOK'
    BY <1>11, <2>1, <2>4 DEF ReaderRemove, TypeOK, ControlOK, serverConnVars, streamVars
  <2> QED
    BY <2>3, <2>5
<1>12. CASE WriteLoopTake
  <2>1. Head(responses) \in Response /\ Tail(responses) \in Seq(Response)
    BY <1>12 DEF WriteLoopTake, TypeOK
  <2>2. TypeOK'
    BY <1>12, <2>1 DEF WriteLoopTake, TypeOK, Response, forwarderVars, readerVars, targetVars, streamVars
  <2>3. ControlOK'
    BY <1>12 DEF WriteLoopTake, ControlOK, forwarderVars, readerVars, targetVars, streamVars
  <2> QED
    BY <2>2, <2>3
<1>13. CASE WriteLoopSend \/ WriteLoopEnd \/ HeartbeatLoop \/ StopBegin \/ StopCancel \/ StopEnd
  <2>1. TypeOK'
    <3>1. CASE WriteLoopSend \/ WriteLoopEnd
      BY <3>1 DEF WriteLoopSend, WriteLoopEnd, TypeOK, forwarderVars, readerVars, targetVars,
          streamVars
    <3>2. CASE HeartbeatLoop
      <4>1. /\ hb' \in {"select", "send", "end"}
            /\ UNCHANGED <<forwarderVars, readerVars, rl, cur, target, wl, stopChan, responses,
                           phase, targetVars, streamVars, delivered>>
        BY <3>2 DEF HeartbeatLoop, HeartbeatTick, HeartbeatSend, HeartbeatEnd, HeartbeatMoves
      <4> QED
        BY <4>1 DEF TypeOK, forwarderVars, readerVars, targetVars, streamVars
    <3>3. CASE StopBegin \/ StopEnd
      <4>1. /\ stopChan' \in BOOLEAN
            /\ phase' \in {"closing", "stopped"}
            /\ UNCHANGED <<forwarderVars, readerVars, rl, cur, target, wl, responses, hb,
                           targetVars, streamVars, delivered>>
        BY <3>3 DEF StopBegin, StopEnd, TypeOK
      <4> QED
        BY <4>1 DEF TypeOK, forwarderVars, readerVars, targetVars, streamVars
    <3>4. CASE StopCancel
      BY <3>4 DEF StopCancel, TypeOK, forwarderVars, readerVars, targetVars, streamVars
    <3> QED
      BY <1>13, <3>1, <3>2, <3>3, <3>4
  <2>2. ControlOK'
    BY <1>13 DEF WriteLoopSend, WriteLoopEnd, HeartbeatLoop, HeartbeatTick, HeartbeatSend,
        HeartbeatEnd, HeartbeatMoves, StopBegin, StopCancel, StopEnd, ControlOK, forwarderVars,
        readerVars, targetVars, streamVars
  <2> QED
    BY <2>1, <2>2
<1>14. ASSUME NEW c \in Conns, ServerPacket(c) PROVE TypeInv'
  <2>1. TypeOK'
    BY <1>14 DEF ServerPacket, TypeOK, forwarderVars, readerVars, serverConnVars, targetVars
  <2>2. ControlOK'
    BY <1>14 DEF ServerPacket, ControlOK, forwarderVars, readerVars, serverConnVars, targetVars
  <2> QED
    BY <2>1, <2>2
<1>15. ASSUME Server \/ \E k \in Socks : Target(k) PROVE TypeInv'
  <2>1. TypeOK'
    <3>1. CASE FlowControl
      <4>1. room' \in BOOLEAN
        BY <3>1 DEF FlowControl
      <4>2. UNCHANGED <<forwarderVars, readerVars, serverConnVars, targetVars, stream, inq,
                        delivered>>
        BY <3>1 DEF FlowControl
      <4> QED
        BY <4>1, <4>2 DEF TypeOK, forwarderVars, readerVars, serverConnVars, targetVars
    <3>2. CASE StreamEnds
      BY <3>2 DEF StreamEnds, TypeOK, forwarderVars, readerVars, serverConnVars, targetVars
    <3>3. ASSUME NEW k \in Socks, Target(k) PROVE TypeOK'
      BY <3>3 DEF Target, TargetCloses, TargetResets, TargetStalls, TargetResumes, TargetMoves,
          TypeOK, forwarderVars, readerVars, serverConnVars, targetVars, streamVars
    <3> QED
      BY <1>15, <3>1, <3>2, <3>3 DEF Server, ServerReturns, ConnectionLost
  <2>2. ControlOK'
    BY <1>15 DEF Server, FlowControl, ServerReturns, ConnectionLost, StreamEnds,
        Target, TargetCloses, TargetResets, TargetStalls, TargetResumes, TargetMoves,
        ControlOK, forwarderVars, readerVars, serverConnVars, targetVars, streamVars
  <2> QED
    BY <2>1, <2>2
<1>16. CASE UNCHANGED vars
  BY <1>16 DEF vars, TypeOK, ControlOK
<1> QED
  BY <1>1, <1>2, <1>3, <1>4, <1>5, <1>6, <1>7, <1>8, <1>9, <1>10, <1>11, <1>12, <1>13, <1>14,
     <1>15, <1>16 DEF Next, ReadLoop, Reader, WriteLoop, Stopped

-----------------------------------------------------------------------------
(***************************************************************************)
(* The map and the open target connections.                                *)
(***************************************************************************)
LEMMA RemoveKeepsOpen ==
    ASSUME TypeInv, ConnectionsOpen, NEW c \in Conns, RemoveConnection(c),
           UNCHANGED conn,
           \A k \in Socks : reader'[k] = reader[k] \/ (conn[k] = c /\ reader'[k] # "none")
    PROVE  ConnectionsOpen'
<1>1. ASSUME NEW d \in Conns, connections'[d] # None
      PROVE  /\ conn'[connections'[d]] = d
             /\ sock'[connections'[d]] = "open"
             /\ reader'[connections'[d]] \notin {"none", "done"}
  <2>1. d # c /\ connections'[d] = connections[d] /\ connections[d] \in Socks
    BY <1>1 DEF RemoveConnection, TypeInv, TypeOK
  <2>2. /\ conn[connections[d]] = d /\ sock[connections[d]] = "open"
        /\ reader[connections[d]] \notin {"none", "done"}
    BY <1>1, <2>1 DEF ConnectionsOpen
  <2>3. connections[d] # connections[c]
    BY <1>1, <2>1, <2>2 DEF ConnectionsOpen
  <2> QED
    BY <2>1, <2>2, <2>3 DEF RemoveConnection, TypeInv, TypeOK
<1>2. ASSUME NEW k \in Socks, sock'[k] = "open" PROVE connections'[conn'[k]] = k
  <2>1. sock[k] = "open" /\ connections[c] # k
    BY <1>2, ForwarderAssumption DEF RemoveConnection, TypeInv, TypeOK
  <2>2. connections[conn[k]] = k /\ conn[k] \in Conns
    BY <2>1 DEF ConnectionsOpen, TypeInv, ControlOK
  <2> QED
    BY <2>1, <2>2 DEF RemoveConnection, TypeInv, TypeOK
<1> QED
  BY <1>1, <1>2 DEF ConnectionsOpen

LEMMA NextOpen == TypeInv /\ ConnectionsOpen /\ [Next]_vars => ConnectionsOpen'
<1> SUFFICES ASSUME TypeInv, ConnectionsOpen, [Next]_vars PROVE ConnectionsOpen'
  OBVIOUS
<1> USE DEF TypeInv
<1>1. ASSUME UNCHANGED <<connections, conn, sock>>,
             \A k \in Socks : reader[k] \notin {"none", "done"} => reader'[k] \notin {"none", "done"}
      PROVE  ConnectionsOpen'
  BY <1>1 DEF ConnectionsOpen, TypeOK
<1>2. ASSUME NEW k \in Socks, DialOK(k) PROVE ConnectionsOpen'
  <2>1. /\ cur \in Conns /\ connections[cur] = None /\ sock[k] = "unused" /\ k # None
        /\ connections' = [connections EXCEPT ![cur] = k]
        /\ conn' = [conn EXCEPT ![k] = cur]
        /\ sock' = [sock EXCEPT ![k] = "open"]
        /\ reader' = [reader EXCEPT ![k] = "top"]
    BY <1>2, ForwarderAssumption DEF DialOK, ControlOK
  <2>2. ASSUME NEW c \in Conns, connections'[c] # None
        PROVE  /\ conn'[connections'[c]] = c
               /\ sock'[connections'[c]] = "open"
               /\ reader'[connections'[c]] \notin {"none", "done"}
    <3>1. CASE c = cur
      BY <2>1, <3>1 DEF TypeOK
    <3>2. CASE c # cur
      <4>1. connections'[c] = connections[c] /\ connections[c] \in Socks /\ connections[c] # k
        BY <2>1, <2>2, <3>2 DEF TypeOK, ConnectionsOpen
      <4> QED
        BY <2>1, <2>2, <4>1 DEF TypeOK, ConnectionsOpen
    <3> QED
      BY <3>1, <3>2
  <2>3. ASSUME NEW j \in Socks, sock'[j] = "open" PROVE connections'[conn'[j]] = j
    <3>1. CASE j = k
      BY <2>1, <3>1 DEF TypeOK
    <3>2. CASE j # k
      <4>1. sock[j] = "open" /\ conn'[j] = conn[j] /\ conn[j] \in Conns /\ j # None
        BY <2>1, <2>3, <3>2, ForwarderAssumption DEF TypeOK, ControlOK
      <4>2. connections[conn[j]] = j
        BY <4>1 DEF ConnectionsOpen
      <4> QED
        BY <2>1, <4>1, <4>2 DEF TypeOK
    <3> QED
      BY <3>1, <3>2
  <2> QED
    BY <2>2, <2>3 DEF ConnectionsOpen
<1>3. CASE ForwardRemove
  BY <1>3, RemoveKeepsOpen DEF ForwardRemove, ControlOK, readerVars
<1>4. ASSUME NEW k \in Socks, ReaderRemove(k) PROVE ConnectionsOpen'
  <2>1. /\ conn[k] \in Conns /\ RemoveConnection(conn[k]) /\ UNCHANGED conn
        /\ reader' = [reader EXCEPT ![k] = "done"]
    BY <1>4 DEF ReaderRemove, ControlOK
  <2>2. \A j \in Socks : reader'[j] = reader[j] \/ (conn[j] = conn[k] /\ reader'[j] # "none")
    BY <2>1 DEF TypeOK
  <2> QED
    BY <2>1, <2>2, RemoveKeepsOpen
<1>5. ASSUME NEW k \in Socks, ReaderTop(k) \/ ReadData(k) \/ ReadEnd(k) \/ ReaderSend(k)
      PROVE  ConnectionsOpen'
  BY <1>1, <1>5 DEF ReaderTop, ReadData, ReadEnd, ReaderSend, TypeOK, forwarderVars, targetVars
<1>6. CASE RecvPacket \/ RecvEnd \/ Forward \/ DialFail \/ WriteOK \/ WriteFail
  BY <1>1, <1>6 DEF RecvPacket, RecvEnd, Forward, DialFail, WriteOK, WriteFail, forwarderVars,
      readerVars, targetVars
<1>7. CASE WriteLoop \/ HeartbeatLoop \/ StopBegin \/ StopCancel \/ StopEnd \/ Server
           \/ \E c \in Conns : ServerPacket(c)
  BY <1>1, <1>7 DEF WriteLoop, WriteLoopTake, WriteLoopSend, WriteLoopEnd, HeartbeatLoop,
      HeartbeatTick, HeartbeatSend, HeartbeatEnd, HeartbeatMoves, StopBegin, StopCancel, StopEnd,
      Server, FlowControl, ServerReturns, ConnectionLost, StreamEnds, ServerPacket,
      forwarderVars, readerVars, targetVars
<1>8. CASE \E k \in Socks : Target(k)
  BY <1>1, <1>8 DEF Target, TargetCloses, TargetResets, TargetStalls, TargetResumes, TargetMoves,
      forwarderVars, readerVars
<1>9. CASE UNCHANGED vars
  BY <1>1, <1>9 DEF vars
<1> QED
  BY <1>2, <1>3, <1>4, <1>5, <1>6, <1>7, <1>8, <1>9 DEF Next, ReadLoop, Reader, Stopped

LEMMA NextStopOrder == TypeInv /\ StopOrder /\ [Next]_vars => StopOrder'
<1> SUFFICES ASSUME TypeInv, StopOrder, [Next]_vars PROVE StopOrder'
  OBVIOUS
<1> USE DEF TypeInv
<1>1. CASE ReadLoop
  BY <1>1 DEF ReadLoop, RecvPacket, RecvEnd, Forward, DialOK, DialFail, WriteOK, WriteFail,
      ForwardRemove, ForwardReturns, StopOrder, readerVars, streamVars
<1>2. ASSUME NEW k \in Socks, Reader(k) PROVE StopOrder'
  <2>1. UNCHANGED <<phase, rl, wl, stopChan, stream>>
    BY <1>2 DEF Reader, ReaderTop, ReadData, ReadEnd, ReaderSend, ReaderRemove, serverConnVars,
        streamVars
  <2>2. reader[k] \notin {"none", "done"}
    BY <1>2 DEF Reader, ReaderTop, ReadData, ReadEnd, ReaderSend, ReaderRemove
  <2> QED
    BY <2>1, <2>2 DEF StopOrder
<1>3. CASE WriteLoop \/ HeartbeatLoop
  BY <1>3 DEF WriteLoop, WriteLoopTake, WriteLoopSend, WriteLoopEnd, HeartbeatLoop, HeartbeatTick,
      HeartbeatSend, HeartbeatEnd, HeartbeatMoves, StopOrder, readerVars, streamVars
<1>4. CASE StopBegin \/ StopCancel \/ StopEnd
  BY <1>4 DEF StopBegin, StopCancel, StopEnd, StopOrder, readerVars, streamVars
<1>5. CASE Server \/ (\E c \in Conns : ServerPacket(c)) \/ (\E k \in Socks : Target(k))
  BY <1>5 DEF Server, FlowControl, ServerReturns, ConnectionLost, StreamEnds, ServerPacket,
      Target, TargetCloses, TargetResets, TargetStalls, TargetResumes, TargetMoves, StopOrder,
      readerVars, serverConnVars, streamVars
<1>6. CASE UNCHANGED vars
  BY <1>6 DEF vars, StopOrder
<1> QED
  BY <1>1, <1>2, <1>3, <1>4, <1>5, <1>6 DEF Next, Stopped

-----------------------------------------------------------------------------
(***************************************************************************)
(* Responses on their way through responseChan.                            *)
(***************************************************************************)
(* How many of the first n of a queue are of the target connection k.       *)
Of(seq, k, n) == {m \in 1 .. n : seq[m].sock = k}
InFront(seq, k, n) == Cardinality(Of(seq, k, n))
One(r, k) == IF r.sock = k THEN 1 ELSE 0

LEMMA InFrontType ==
  ASSUME NEW seq, NEW k, NEW n \in Nat
  PROVE  IsFiniteSet(Of(seq, k, n)) /\ InFront(seq, k, n) \in Nat
<1>1. IsFiniteSet(1 .. n)
  BY FS_Interval
<1>2. Of(seq, k, n) \in SUBSET (1 .. n)
  BY DEF Of
<1>3. IsFiniteSet(Of(seq, k, n))
  BY <1>1, <1>2, FS_Subset
<1> QED
  BY <1>3, FS_CardinalityType DEF InFront

LEMMA InFrontNone ==
  ASSUME NEW seq, NEW k
  PROVE  InFront(seq, k, 0) = 0
<1>1. Of(seq, k, 0) = {}
  BY DEF Of
<1> QED
  BY <1>1, FS_EmptySet DEF InFront

LEMMA InFrontNext ==
  ASSUME NEW seq, NEW k, NEW n \in Nat
  PROVE  InFront(seq, k, n + 1) = InFront(seq, k, n) + One(seq[n + 1], k)
<1>1. IsFiniteSet(Of(seq, k, n)) /\ InFront(seq, k, n) \in Nat
  BY InFrontType
<1>2. n + 1 \notin Of(seq, k, n)
  BY DEF Of
<1>3. CASE seq[n + 1].sock = k
  <2>1. Of(seq, k, n + 1) = Of(seq, k, n) \cup {n + 1}
    BY <1>3 DEF Of
  <2> QED
    BY <1>1, <1>2, <1>3, <2>1, FS_AddElement DEF InFront, One
<1>4. CASE seq[n + 1].sock # k
  <2>1. Of(seq, k, n + 1) = Of(seq, k, n)
    BY <1>4 DEF Of
  <2> QED
    BY <1>1, <1>4, <2>1 DEF InFront, One
<1> QED
  BY <1>3, <1>4

(* Appending changes nothing in front of the new response.                  *)
LEMMA InFrontSame ==
  ASSUME NEW s, NEW t, NEW k, NEW n \in Nat, \A m \in 1 .. n : s[m] = t[m]
  PROVE  InFront(s, k, n) = InFront(t, k, n)
<1>1. Of(s, k, n) = Of(t, k, n)
  BY DEF Of
<1> QED
  BY <1>1 DEF InFront

(* Taking the first response away moves the others up by one.               *)
LEMMA InFrontTail ==
  ASSUME NEW s \in Seq(Response), s # <<>>, NEW k, NEW n \in 0 .. Len(s) - 1
  PROVE  InFront(s, k, n + 1) = InFront(Tail(s), k, n) + One(Head(s), k)
<1> DEFINE t == Tail(s)
           one == One(Head(s), k)
           T == {m \in Nat : m <= Len(s) - 1 => InFront(s, k, m + 1) = InFront(t, k, m) + one}
<1>1. /\ Len(s) \in Nat /\ Head(s) = s[1] /\ Len(t) = Len(s) - 1
      /\ \A i \in 1 .. Len(t) : t[i] = s[i + 1]
  BY HeadTailProperties, LenProperties
<1>2. one \in Nat
  BY DEF One
<1>3. 0 \in T
  <2>1. InFront(s, k, 0 + 1) = InFront(s, k, 0) + One(s[0 + 1], k)
    BY InFrontNext
  <2>2. InFront(s, k, 0) = 0 /\ InFront(t, k, 0) = 0
    BY InFrontNone
  <2>3. one = One(s[0 + 1], k)
    BY <1>1
  <2> HIDE DEF t, one
  <2> QED
    BY <2>1, <2>2, <2>3
<1>4. ASSUME NEW m \in Nat, m \in T PROVE m + 1 \in T
  <2> SUFFICES ASSUME m + 1 <= Len(s) - 1
               PROVE  InFront(s, k, (m + 1) + 1) = InFront(t, k, m + 1) + one
    OBVIOUS
  <2>1. InFront(s, k, m + 1) = InFront(t, k, m) + one
    BY <1>1, <1>4
  <2>2. InFront(s, k, (m + 1) + 1) = InFront(s, k, m + 1) + One(s[(m + 1) + 1], k)
    BY InFrontNext
  <2>3. InFront(t, k, m + 1) = InFront(t, k, m) + One(t[m + 1], k)
    BY InFrontNext
  <2>4. t[m + 1] = s[(m + 1) + 1]
    BY <1>1
  <2>5. InFront(t, k, m) \in Nat /\ One(t[m + 1], k) \in Nat
    BY InFrontType DEF One
  <2> HIDE DEF t, one
  <2> QED
    BY <1>2, <2>1, <2>2, <2>3, <2>4, <2>5
<1>5. n \in Nat /\ n <= Len(s) - 1
  BY <1>1
<1> HIDE DEF T
<1>6. n \in T
  BY <1>3, <1>4, <1>5, Induction
<1> QED
  BY <1>5, <1>6 DEF T

Sending(k) == IF reader[k] = "send" THEN 1 ELSE 0

(* ResponsesInOrder before shutdown.                                        *)
InOrder ==
    /\ \A n \in 1 .. Len(responses) :
         responses[n].n = (delivered[responses[n].sock]
                           + InFront(responses, responses[n].sock, n)) % SeqMod
    /\ \A k \in Socks :
         reads[k] = (delivered[k] + InFront(responses, k, Len(responses)) + Sending(k)) % SeqMod

LEMMA InOrderIs == ResponsesInOrder <=> (~cancelled => InOrder)
BY DEF ResponsesInOrder, InOrder, Queued, InFront, Of, Sending

LEMMA NumbersAreNat == Numbers \subseteq Nat /\ SeqMod \in Nat \ {0}
BY ForwarderAssumption DEF Numbers

(* A reader that takes a response from its target.                          *)
LEMMA ReadInOrder ==
  ASSUME TypeInv, InOrder, NEW k \in Socks, ReadData(k)
  PROVE  InOrder'
<1>1. /\ UNCHANGED <<responses, delivered>> /\ reader[k] = "read"
      /\ reads' = [reads EXCEPT ![k] = (reads[k] + 1) % SeqMod]
      /\ reader' = [reader EXCEPT ![k] = "send"]
      /\ reads \in [Socks -> Numbers] /\ delivered \in [Socks -> Numbers]
      /\ reader \in [Socks -> {"none", "top", "read", "send", "remove", "done"}]
      /\ responses \in Seq(Response)
  BY DEF ReadData, serverConnVars, TypeInv, TypeOK
<1>2. ASSUME NEW n \in 1 .. Len(responses)
      PROVE  responses'[n].n = (delivered'[responses'[n].sock]
                                + InFront(responses', responses'[n].sock, n)) % SeqMod
  BY <1>1, <1>2 DEF InOrder
<1>3. ASSUME NEW j \in Socks
      PROVE  reads'[j] = (delivered'[j] + InFront(responses', j, Len(responses')) + Sending(j)') % SeqMod
  <2> DEFINE a == delivered[j] + InFront(responses, j, Len(responses))
  <2>1. a \in Nat
    <3>1. Len(responses) \in Nat /\ delivered[j] \in Nat
      BY <1>1, LenProperties, NumbersAreNat
    <3> QED
      BY <3>1, InFrontType
  <2>2. reads[j] = (a + Sending(j)) % SeqMod
    BY DEF InOrder
  <2>3. delivered'[j] + InFront(responses', j, Len(responses')) = a
    BY <1>1
  <2> HIDE DEF a
  <2>4. CASE j = k
    <3>1. Sending(j) = 0 /\ Sending(j)' = 1 /\ reads'[j] = (reads[j] + 1) % SeqMod
      BY <1>1, <2>4 DEF Sending
    <3>2. reads[j] = a % SeqMod
      BY <2>1, <2>2, <3>1
    <3>3. ((a % SeqMod) + 1) % SeqMod = (a + 1) % SeqMod
      BY <2>1, NumbersAreNat, RemainderOfSum
    <3> QED
      BY <2>3, <3>1, <3>2, <3>3
  <2>5. CASE j # k
    <3>1. Sending(j)' = Sending(j) /\ reads'[j] = reads[j]
      BY <1>1, <2>5 DEF Sending
    <3> QED
      BY <2>2, <2>3, <3>1
  <2> QED
    BY <2>4, <2>5
<1> QED
  BY <1>1, <1>2, <1>3 DEF InOrder

(* A reader that hands its response to responseChan.                        *)
LEMMA EnqueueInOrder ==
  ASSUME TypeInv, InOrder, NEW k \in Socks, reader[k] = "send", Enqueue(k),
         reader' = [reader EXCEPT ![k] = "top"], UNCHANGED <<reads, delivered>>
  PROVE  InOrder'
<1> DEFINE new == [sock |-> k, n |-> reads[k]]
           L == Len(responses)
<1>1. /\ reads \in [Socks -> Numbers] /\ delivered \in [Socks -> Numbers]
      /\ reader \in [Socks -> {"none", "top", "read", "send", "remove", "done"}]
      /\ responses \in Seq(Response) /\ new \in Response
  BY DEF TypeInv, TypeOK, Response
<1>2. /\ responses' = Append(responses, new) /\ L \in Nat /\ Len(responses') = L + 1
      /\ \A i \in 1 .. L : responses'[i] = responses[i]
      /\ responses'[L + 1] = new
  BY <1>1, AppendProperties, LenProperties DEF Enqueue
<1>3. new.sock = k /\ new.n = reads[k]
  OBVIOUS
<1>4. ASSUME NEW j \in Socks
      PROVE  InFront(responses', j, L + 1) = InFront(responses, j, L) + (IF j = k THEN 1 ELSE 0)
  <2>1. InFront(responses', j, L + 1) = InFront(responses', j, L) + One(responses'[L + 1], j)
    BY <1>2, InFrontNext
  <2>2. InFront(responses', j, L) = InFront(responses, j, L)
    BY <1>2, InFrontSame
  <2>3. One(responses'[L + 1], j) = IF j = k THEN 1 ELSE 0
    BY <1>2, <1>3 DEF One
  <2> QED
    BY <2>1, <2>2, <2>3
<1> HIDE DEF new, L
<1>5. ASSUME NEW j \in Socks
      PROVE  /\ InFront(responses, j, L) \in Nat /\ delivered[j] \in Nat
             /\ reads[j] = (delivered[j] + InFront(responses, j, L) + Sending(j)) % SeqMod
  BY <1>1, <1>2, InFrontType, NumbersAreNat DEF InOrder, L
<1>6. ASSUME NEW n \in 1 .. L + 1
      PROVE  responses'[n].n = (delivered'[responses'[n].sock]
                                + InFront(responses', responses'[n].sock, n)) % SeqMod
  <2>1. CASE n \in 1 .. L
    <3>1. responses'[n] = responses[n] /\ \A m \in 1 .. n : responses'[m] = responses[m]
      BY <1>2, <2>1
    <3>2. InFront(responses', responses[n].sock, n) = InFront(responses, responses[n].sock, n)
      BY <2>1, <3>1, InFrontSame
    <3>3. responses[n].n = (delivered[responses[n].sock]
                            + InFront(responses, responses[n].sock, n)) % SeqMod
      BY <2>1 DEF InOrder, L
    <3> QED
      BY <3>1, <3>2, <3>3
  <2>2. CASE n = L + 1
    <3>1. responses'[n].sock = k /\ responses'[n].n = reads[k]
      BY <1>2, <1>3, <2>2
    <3>2. InFront(responses', k, n) = InFront(responses, k, L) + 1
      BY <1>4, <2>2
    <3>3. Sending(k) = 1
      BY DEF Sending
    <3>4. reads[k] = (delivered[k] + (InFront(responses, k, L) + 1)) % SeqMod
      BY <1>5, <3>3
    <3> QED
      BY <3>1, <3>2, <3>4
  <2> QED
    BY <1>2, <2>1, <2>2
<1>7. ASSUME NEW j \in Socks
      PROVE  reads'[j] = (delivered'[j] + InFront(responses', j, L + 1) + Sending(j)') % SeqMod
  <2>1. Sending(j) = (IF j = k THEN 1 ELSE 0) + Sending(j)'
    BY <1>1 DEF Sending
  <2>2. Sending(j)' \in Nat
    BY DEF Sending
  <2>3. delivered[j] + InFront(responses, j, L) + Sending(j)
          = delivered[j] + InFront(responses', j, L + 1) + Sending(j)'
    BY <1>4, <1>5, <2>1, <2>2
  <2> QED
    BY <1>5, <2>3
<1> QED
  BY <1>2, <1>6, <1>7 DEF InOrder

(* writeLoop takes the first response.                                      *)
LEMMA TakeInOrder ==
  ASSUME TypeInv, InOrder, WriteLoopTake
  PROVE  InOrder'
<1> DEFINE h == Head(responses)
           L == Len(responses)
<1>1. /\ reads \in [Socks -> Numbers] /\ delivered \in [Socks -> Numbers]
      /\ responses \in Seq(Response) /\ responses # <<>>
      /\ delivered' = [delivered EXCEPT ![h.sock] = h.n]
      /\ responses' = Tail(responses)
      /\ UNCHANGED <<reads, reader>>
  BY DEF WriteLoopTake, readerVars, TypeInv, TypeOK
<1>2. /\ L \in Nat /\ L >= 1 /\ h = responses[1] /\ h \in Response
      /\ Len(responses') = L - 1
      /\ \A i \in 1 .. L - 1 : responses'[i] = responses[i + 1]
  BY <1>1, EmptySeq, HeadTailProperties, LenProperties
<1>3. \A i \in 1 .. L : responses[i] \in Response
  BY <1>1, ElementOfSeq
<1>4. h.sock \in Socks /\ h.n = (delivered[h.sock] + 1) % SeqMod
  <2>1. h.sock \in Socks
    BY <1>2 DEF Response
  <2>2. h.n = (delivered[h.sock] + InFront(responses, h.sock, 1)) % SeqMod
    BY <1>2 DEF InOrder
  <2>3. InFront(responses, h.sock, 0 + 1) = InFront(responses, h.sock, 0) + One(responses[0 + 1], h.sock)
    BY InFrontNext
  <2>4. InFront(responses, h.sock, 0) = 0
    BY InFrontNone
  <2>5. One(responses[0 + 1], h.sock) = 1
    BY <1>2 DEF One
  <2> QED
    BY <2>1, <2>2, <2>3, <2>4, <2>5
<1> HIDE DEF h
<1>5. ASSUME NEW j \in Socks, NEW m \in 0 .. L - 1
      PROVE  (delivered'[j] + InFront(responses', j, m)) % SeqMod
               = (delivered[j] + InFront(responses, j, m + 1)) % SeqMod
  <2> DEFINE c == InFront(responses', j, m)
  <2>1. c \in Nat /\ delivered[j] \in Nat
    <3>1. m \in Nat
      BY <1>2
    <3>2. c \in Nat
      BY <3>1, InFrontType
    <3> QED
      BY <1>1, <3>2, NumbersAreNat
  <2>2. InFront(responses, j, m + 1) = c + One(h, j)
    BY <1>1, InFrontTail DEF h
  <2> HIDE DEF c
  <2>3. CASE h.sock = j
    <3>1. delivered'[j] = (delivered[j] + 1) % SeqMod /\ One(h, j) = 1
      BY <1>1, <1>4, <2>3 DEF One
    <3>2. delivered[j] + 1 \in Nat
      BY <2>1
    <3>3. (((delivered[j] + 1) % SeqMod) + c) % SeqMod = ((delivered[j] + 1) + c) % SeqMod
      BY <2>1, <3>2, NumbersAreNat, RemainderOfSum
    <3>4. (delivered[j] + 1) + c = delivered[j] + (c + 1)
      BY <2>1
    <3> QED
      BY <2>2, <3>1, <3>3, <3>4 DEF c
  <2>4. CASE h.sock # j
    <3>1. delivered'[j] = delivered[j] /\ One(h, j) = 0
      BY <1>1, <1>4, <2>4 DEF One
    <3>2. InFront(responses, j, m + 1) = c
      BY <2>1, <2>2, <3>1
    <3> QED
      BY <3>1, <3>2 DEF c
  <2> QED
    BY <2>3, <2>4
<1>6. ASSUME NEW n \in 1 .. L - 1
      PROVE  responses'[n].n = (delivered'[responses'[n].sock]
                                + InFront(responses', responses'[n].sock, n)) % SeqMod
  <2>1. responses'[n] = responses[n + 1] /\ n + 1 \in 1 .. L /\ n \in 0 .. L - 1
    BY <1>2
  <2>2. responses'[n].sock \in Socks
    BY <1>3, <2>1 DEF Response
  <2>3. responses[n + 1].n = (delivered[responses[n + 1].sock]
                              + InFront(responses, responses[n + 1].sock, n + 1)) % SeqMod
    BY <2>1 DEF InOrder
  <2> QED
    BY <1>5, <2>1, <2>2, <2>3
<1>7. ASSUME NEW j \in Socks
      PROVE  reads'[j] = (delivered'[j] + InFront(responses', j, L - 1) + Sending(j)') % SeqMod
  <2> DEFINE a == delivered[j] + InFront(responses, j, L)
             b == delivered'[j] + InFront(responses', j, L - 1)
             e == Sending(j)
  <2>1. reads[j] = (a + e) % SeqMod /\ e \in Nat
    BY DEF InOrder, Sending
  <2>2. b % SeqMod = a % SeqMod
    <3>1. L - 1 \in 0 .. L - 1 /\ (L - 1) + 1 = L
      BY <1>2
    <3> QED
      BY <1>5, <3>1
  <2>3. a \in Nat /\ b \in Nat
    <3>1. delivered[j] \in Nat /\ delivered'[j] \in Nat
      BY <1>1, <1>2, NumbersAreNat DEF Response
    <3>2. InFront(responses, j, L) \in Nat /\ InFront(responses', j, L - 1) \in Nat
      BY <1>2, InFrontType
    <3> QED
      BY <3>1, <3>2
  <2>4. Sending(j)' = e /\ reads'[j] = reads[j]
    BY <1>1 DEF Sending
  <2> HIDE DEF a, b, e
  <2>5. ((a % SeqMod) + e) % SeqMod = (a + e) % SeqMod
    BY <2>1, <2>3, NumbersAreNat, RemainderOfSum
  <2>6. ((b % SeqMod) + e) % SeqMod = (b + e) % SeqMod
    BY <2>1, <2>3, NumbersAreNat, RemainderOfSum
  <2> QED
    BY <2>1, <2>2, <2>4, <2>5, <2>6 DEF b
<1> QED
  BY <1>2, <1>6, <1>7 DEF InOrder

LEMMA NextInOrder == TypeInv /\ ResponsesInOrder /\ [Next]_vars => ResponsesInOrder'
<1> SUFFICES ASSUME TypeInv, ResponsesInOrder, [Next]_vars, ~cancelled' PROVE InOrder'
  <2>1. ResponsesInOrder' <=> (~cancelled' => InOrder')
    BY InOrderIs, PTL
  <2> QED
    BY <2>1
<1> USE DEF TypeInv
<1>1. ~cancelled /\ InOrder
  <2>1. ~cancelled
    BY DEF Next, vars, ReadLoop, RecvPacket, RecvEnd, Forward, DialOK, DialFail, WriteOK, WriteFail,
        ForwardRemove, Reader, ReaderTop, ReadData, ReadEnd, ReaderSend, ReaderRemove,
        WriteLoop, WriteLoopTake, WriteLoopSend, WriteLoopEnd, HeartbeatLoop, HeartbeatTick,
        HeartbeatSend, HeartbeatEnd, HeartbeatMoves, StopBegin, StopCancel, StopEnd, ServerPacket,
        Server, FlowControl, ServerReturns, ConnectionLost, StreamEnds, Target, TargetCloses, TargetResets, TargetStalls, TargetResumes, TargetMoves, Stopped,
        forwarderVars
  <2> QED
    BY <2>1, InOrderIs
<1>2. ASSUME UNCHANGED <<responses, delivered, reads>>,
             \A k \in Socks : reader[k] = "send" <=> reader'[k] = "send"
      PROVE  InOrder'
  BY <1>1, <1>2 DEF InOrder, Sending
<1>3. ASSUME NEW k \in Socks, Reader(k) PROVE InOrder'
  <2>1. CASE ReadData(k)
    BY <1>1, <2>1, ReadInOrder
  <2>2. CASE ReaderSend(k)
    BY <1>1, <2>2, EnqueueInOrder DEF ReaderSend, forwarderVars
  <2>3. CASE ReaderTop(k) \/ ReadEnd(k) \/ ReaderRemove(k)
    BY <1>2, <2>3 DEF ReaderTop, ReadEnd, ReaderRemove, TypeOK, serverConnVars
  <2> QED
    BY <1>3, <2>1, <2>2, <2>3 DEF Reader
<1>4. CASE ReadLoop
  BY <1>2, <1>4 DEF ReadLoop, RecvPacket, RecvEnd, Forward, DialOK, DialFail, WriteOK, WriteFail,
      ForwardRemove, ControlOK, TypeOK, readerVars
<1>5. CASE WriteLoopTake
  BY <1>1, <1>5, TakeInOrder
<1>6. CASE WriteLoopSend \/ WriteLoopEnd \/ HeartbeatLoop \/ StopBegin \/ StopCancel \/ StopEnd
  BY <1>2, <1>6 DEF WriteLoopSend, WriteLoopEnd, HeartbeatLoop, HeartbeatTick, HeartbeatSend,
      HeartbeatEnd, HeartbeatMoves, StopBegin, StopCancel, StopEnd, readerVars
<1>7. CASE Server \/ (\E c \in Conns : ServerPacket(c)) \/ (\E k \in Socks : Target(k))
  BY <1>2, <1>7 DEF Server, FlowControl, ServerReturns, ConnectionLost, StreamEnds, ServerPacket,
      Target, TargetCloses, TargetResets, TargetStalls,
      TargetResumes, TargetMoves, readerVars, serverConnVars
<1>8. CASE UNCHANGED vars
  BY <1>2, <1>8 DEF vars
<1> QED
  BY <1>3, <1>4, <1>5, <1>6, <1>7, <1>8 DEF Next, WriteLoop, Stopped

LEMMA InitInOrder == Init => ResponsesInOrder
<1> SUFFICES ASSUME Init PROVE InOrder
  BY InOrderIs
<1>1. /\ responses = <<>> /\ reads = [k \in Socks |-> 0] /\ delivered = [k \in Socks |-> 0]
      /\ reader = [k \in Socks |-> "none"]
  BY DEF Init
<1>2. ASSUME NEW k \in Socks
      PROVE  reads[k] = (delivered[k] + InFront(responses, k, Len(responses)) + Sending(k)) % SeqMod
  <2>1. InFront(responses, k, 0) = 0 /\ Len(responses) = 0
    BY <1>1, InFrontNone
  <2>2. reads[k] = 0 /\ delivered[k] = 0 /\ Sending(k) = 0
    BY <1>1 DEF Sending
  <2>3. 0 % SeqMod = 0
    BY NumbersAreNat
  <2> QED
    BY <2>1, <2>2, <2>3
<1> QED
  BY <1>1, <1>2 DEF InOrder

Inv == TypeInv /\ ConnectionsOpen /\ StopOrder /\ ResponsesInOrder

LEMMA Invariance == Spec => []Inv
<1>1. Init => Inv
  <2>1. Init => ConnectionsOpen /\ StopOrder
    BY DEF Init, ConnectionsOpen, StopOrder
  <2> QED
    BY <2>1, InitTypeInv, InitInOrder DEF Inv
<1>2. Inv /\ [Next]_vars => Inv'
  BY NextTypeInv, NextOpen, NextStopOrder, NextInOrder DEF Inv
<1> QED
  BY <1>1, <1>2, PTL DEF Spec

(* Every variable of the proxy keeps its type.                              *)
THEOREM TypeCorrect == Spec => []TypeOK
<1>1. Inv => TypeOK
  BY DEF Inv, TypeInv
<1> QED
  BY <1>1, Invariance, PTL

(* The map holds exactly the open target connections, whatever order dials, *)
(* failed writes and ends of readers come in.                               *)
THEOREM MapIsOpenConnections == Spec => []ConnectionsOpen
<1>1. Inv => ConnectionsOpen
  BY DEF Inv
<1> QED
  BY <1>1, Invariance, PTL

(* No reader and no open target connection outlives Proxy.stop, which       *)
(* returns only after readLoop, writeLoop and the stream have ended.        *)
THEOREM StopIsClean == Spec => []StoppedClean
<1>1. Inv => StoppedClean
  <2> SUFFICES ASSUME Inv, phase = "stopped", NEW k \in Socks
               PROVE  sock[k] # "open" /\ reader[k] \in {"none", "done"}
    BY DEF StoppedClean, Inv, StopOrder
  <2>1. reader[k] \in {"none", "done"}
    BY DEF Inv, StopOrder
  <2>2. sock[k] # "open"
    BY <2>1, ForwarderAssumption DEF Inv, TypeInv, ControlOK, ConnectionsOpen
  <2> QED
    BY <2>1, <2>2
<1> QED
  BY <1>1, Invariance, PTL

(* Until shutdown every response of a target is handed to Send once         *)
(* and in order, whatever the capacity of responseChan and however many     *)
(* readers fill it.                                                         *)
THEOREM ResponsesKeepOrder == Spec => []ResponsesInOrder
<1>1. Inv => ResponsesInOrder
  BY DEF Inv
<1> QED
  BY <1>1, Invariance, PTL
=============================================================================
