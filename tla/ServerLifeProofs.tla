--------------------------- MODULE ServerLifeProofs ---------------------------
(***************************************************************************)
(* Theorems about the life of the server process, for every set of streams *)
(* and every assignment of IDs to them.                                    *)
(***************************************************************************)
EXTENDS ServerLife, TLAPS

-----------------------------------------------------------------------------
LEMMA KindsOfStreams ==
  /\ \A s \in Streams : KindOf(s) \in Kinds /\ (KindOf(s) = "client" <=> s \in ClientStreams)
  /\ \A s \in Streams : IdOf[s] \in Ids
  /\ None \notin Streams
BY ServerLifeAssumption DEF KindOf, Kinds, Streams

LEMMA ExitTyped ==
  ASSUME TypeOK, NEW how \in {"ok", "error"}, Exit(how)
  PROVE  TypeOK'
BY DEF Exit, TypeOK

(* Every variable keeps its range whatever the order of the ends of the     *)
(* streams and of the steps of start and stop; only clients have routes.    *)
THEOREM TypeCorrect == Spec => []TypeOK
<1>1. Init => TypeOK
  BY DEF Init, TypeOK
<1>2. TypeOK /\ [Next]_vars => TypeOK'
  <2> SUFFICES ASSUME TypeOK, [Next]_vars
               PROVE  TypeOK'
    OBVIOUS
  <2> USE DEF mainVars, streamVars, registryVars
  <2>1. UNCHANGED vars => TypeOK'
    BY DEF vars, TypeOK
  <2>2. Start \/ ListenClients \/ ListenProxies => TypeOK'
    BY ExitTyped DEF Start, ListenClients, ListenProxies, Goto, TypeOK, Kinds
  <2>3. StopBegin \/ Deadline \/ Abandon \/ Select => TypeOK'
    BY ExitTyped DEF StopBegin, Deadline, Abandon, Select, Goto, TypeOK, Stopping
  <2>4. ForceStop("client", "forceClients", "forceProxies") => TypeOK'
    BY DEF ForceStop, Goto, TypeOK, Kinds, Stopping
  <2>5. ForceStop("proxy", "forceProxies", "join") => TypeOK'
    BY DEF ForceStop, Goto, TypeOK, Kinds, Stopping
  <2>6. Join \/ Cancel \/ JoinLoop \/ Lock => TypeOK'
    BY DEF Join, Cancel, JoinLoop, Lock, Goto, TypeOK, Stopping
  <2>7. Replace => TypeOK'
    BY DEF Replace, Goto, TypeOK, Stopping
  <2>8. Finish => TypeOK'
    BY ExitTyped DEF Finish
  <2>9. GracefulStop => TypeOK'
    BY DEF GracefulStop, Drain, Drained, TypeOK, Kinds
  <2>10. Tick \/ CleanupLock \/ CleanupStaleConnections \/ LoopEnd => TypeOK'
    BY DEF Tick, CleanupLock, CleanupStaleConnections, LoopEnd, TypeOK
  <2>11. ASSUME NEW s \in Streams
         PROVE  /\ Open(s) => TypeOK'
                /\ Leave(s) \/ RouteFromClient(s) => TypeOK'
                /\ RecvEnd(s) => TypeOK'
    BY DEF Open, Leave, RouteFromClient, RecvEnd, TypeOK
  <2>12. ASSUME NEW s \in Streams
         PROVE  /\ Register(s) => TypeOK'
                /\ Unregister(s) => TypeOK'
    BY DEF Register, Unregister, TypeOK
  <2> QED
    BY <2>1, <2>2, <2>3, <2>4, <2>5, <2>6, <2>7, <2>8, <2>9, <2>10, <2>11, <2>12, Zenon
       DEF Next, Main, Handler, Finished
<1> QED
  BY <1>1, <1>2, PTL DEF Spec

-----------------------------------------------------------------------------
LEMMA ExitOwned ==
  ASSUME TypeOK, NEW how, Exit(how)
  PROVE  EntriesOwned'
BY DEF Exit, EntriesOwned, TypeOK

(* The deferred Unregister goes by ID, and Cleanup replaces the maps under  *)
(* handlers that may still run when stop had to use force; even so an entry *)
(* is always that of a handler that will remove it, and until Cleanup a     *)
(* handler that registered has its entry.                                   *)
THEOREM EntriesAreOwned == Spec => []EntriesOwned
<1>1. Init => EntriesOwned
  BY DEF Init, EntriesOwned
<1>2. TypeOK /\ EntriesOwned /\ [Next]_vars => EntriesOwned'
  <2> SUFFICES ASSUME TypeOK, EntriesOwned, [Next]_vars
               PROVE  EntriesOwned'
    OBVIOUS
  <2> USE DEF mainVars, streamVars, registryVars
  <2>1. UNCHANGED vars => EntriesOwned'
    BY DEF vars, EntriesOwned
  <2>2. Start \/ ListenClients \/ ListenProxies => EntriesOwned'
    BY ExitOwned DEF Start, ListenClients, ListenProxies, Goto, EntriesOwned
  <2>3. StopBegin \/ Deadline \/ Abandon \/ Select => EntriesOwned'
    BY ExitOwned DEF StopBegin, Deadline, Abandon, Select, Goto, EntriesOwned
  <2>4. ForceStop("client", "forceClients", "forceProxies") => EntriesOwned'
    BY DEF ForceStop, Goto, EntriesOwned
  <2>5. ForceStop("proxy", "forceProxies", "join") => EntriesOwned'
    BY DEF ForceStop, Goto, EntriesOwned
  <2>6. Join \/ Cancel \/ JoinLoop \/ Lock => EntriesOwned'
    BY DEF Join, Cancel, JoinLoop, Lock, Goto, EntriesOwned
  <2>7. Replace => EntriesOwned'
    BY DEF Replace, Goto, EntriesOwned
  <2>8. Finish => EntriesOwned'
    BY ExitOwned DEF Finish
  <2>9. GracefulStop => EntriesOwned'
    BY DEF GracefulStop, Drain, Drained, EntriesOwned
  <2>10. Tick \/ CleanupLock \/ CleanupStaleConnections \/ LoopEnd => EntriesOwned'
    BY DEF Tick, CleanupLock, CleanupStaleConnections, LoopEnd, EntriesOwned
  <2>11. ASSUME NEW s \in Streams, Open(s) PROVE EntriesOwned'
    BY <2>11 DEF Open, EntriesOwned, TypeOK
  <2>12. ASSUME NEW s \in Streams, Leave(s) \/ RouteFromClient(s) PROVE EntriesOwned'
    BY <2>12 DEF Leave, RouteFromClient, EntriesOwned
  <2>13. ASSUME NEW s \in Streams, RecvEnd(s) PROVE EntriesOwned'
    BY <2>13 DEF RecvEnd, EntriesOwned, TypeOK
  <2>14. ASSUME NEW s \in Streams, Register(s) PROVE EntriesOwned'
    BY <2>14, KindsOfStreams DEF Register, EntriesOwned, TypeOK
  (* Until Cleanup the entry under the ID is the handler's own, so that none *)
  (* that another counts on goes with it.                                    *)
  <2>15. ASSUME NEW s \in Streams, Unregister(s) PROVE EntriesOwned'
    <3>1. \A i \in Ids : directory'[i] # None => directory'[i] = directory[i] /\ i # IdOf[s]
      BY <2>15, KindsOfStreams DEF Unregister, TypeOK
    <3>2. \A i \in Ids : directory'[i] # None =>
            IdOf[directory'[i]] = i /\ handler'[directory'[i]] \in {"registered", "unregister"}
      BY <2>15, <3>1 DEF Unregister, EntriesOwned, TypeOK
    <3>3. \A t \in Streams : handler'[t] \in {"registered", "unregister"} /\ pc' # "stopped" =>
            directory'[IdOf[t]] = t
      BY <2>15, KindsOfStreams DEF Unregister, EntriesOwned, TypeOK
    <3> QED
      BY <3>2, <3>3 DEF EntriesOwned
  <2> QED
    BY <2>1, <2>2, <2>3, <2>4, <2>5, <2>6, <2>7, <2>8, <2>9, <2>10, <2>11, <2>12, <2>13,
       <2>14, <2>15, Zenon DEF Next, Main, Handler, Finished
<1> QED
  BY <1>1, <1>2, TypeCorrect, PTL DEF Spec
-----------------------------------------------------------------------------
(***************************************************************************)
(* The order of stop.                                                      *)
(***************************************************************************)
(* How far the goroutine of Stop is tells what the servers still take.      *)
ClientsDrained == graceful \in {"proxies", "waitProxies", "done"}
ProxiesOpen == graceful \in {"idle", "clients", "waitClients", "proxies"}

StopOrder ==
  /\ pc \in {"down", "listenClients", "listenProxies", "up"} => graceful = "idle"
  /\ pc \in {"down", "listenClients", "listenProxies"} =>
        /\ \A k \in Kinds : server[k] # "serving"
        /\ \A s \in Streams : ~Running(s)
  /\ pc = "exited" => \A s \in Streams : ~Running(s)
  /\ pc \in {"forceClients", "forceProxies"} => deadline
  /\ pc \in {"join", "cancel", "joinLoop", "lock", "replace", "stopped"} =>
        graceful = "done" \/ deadline
  /\ exit = "ok" => graceful = "done"
  /\ graceful \notin {"idle", "clients"} => server["client"] # "serving"
  /\ graceful \in {"waitProxies", "done"} => server["proxy"] # "serving"
  /\ ClientsDrained => \A s \in ClientStreams : ~Running(s)
  /\ graceful = "done" => \A s \in ProxyStreams : ~Running(s)
  /\ pc \in {"up"} \cup Stopping /\ ~deadline /\ ProxiesOpen => server["proxy"] = "serving"

LEMMA ExitOrder ==
  ASSUME TypeOK, StopOrder, NEW how, how = "ok" => graceful = "done", Exit(how)
  PROVE  StopOrder'
BY DEF Exit, StopOrder, TypeOK, Running, Kinds, Streams, Stopping, ClientsDrained, ProxiesOpen

(* A handler that goes on, or one that ends.                                *)
LEMMA HandlerOrder ==
  ASSUME TypeOK, StopOrder, UNCHANGED mainVars,
         \A s \in Streams : Running(s)' => Running(s)
  PROVE  StopOrder'
BY DEF mainVars, StopOrder, Streams, ClientsDrained, ProxiesOpen

LEMMA OrderInvariant == Spec => []StopOrder
<1>1. Init => StopOrder
  BY DEF Init, StopOrder, Running, Streams, Stopping, ClientsDrained, Kinds
<1>2. TypeOK /\ StopOrder /\ [Next]_vars => StopOrder'
  <2> SUFFICES ASSUME TypeOK, StopOrder, [Next]_vars
               PROVE  StopOrder'
    OBVIOUS
  <2> USE DEF mainVars, streamVars, registryVars
  <2>1. UNCHANGED vars => StopOrder'
    BY HandlerOrder DEF vars, Running
  <2>2. Start \/ ListenClients \/ ListenProxies => StopOrder'
    BY ExitOrder DEF Start, ListenClients, ListenProxies, Goto, StopOrder, TypeOK, Running,
                     Kinds, Streams, Stopping, ClientsDrained, ProxiesOpen
  <2>3. StopBegin \/ Deadline \/ Abandon \/ Select => StopOrder'
    BY ExitOrder DEF StopBegin, Deadline, Abandon, Select, Goto, StopOrder, TypeOK, Running,
                     Streams, Stopping, ClientsDrained, ProxiesOpen
  <2>4. ForceStop("client", "forceClients", "forceProxies") => StopOrder'
    BY DEF ForceStop, Goto, StopOrder, TypeOK, Running, Kinds, Streams, Stopping,
           ClientsDrained, ProxiesOpen
  <2>5. ForceStop("proxy", "forceProxies", "join") => StopOrder'
    BY DEF ForceStop, Goto, StopOrder, TypeOK, Running, Kinds, Streams, Stopping,
           ClientsDrained, ProxiesOpen
  <2>6. Join \/ Cancel \/ JoinLoop \/ Lock => StopOrder'
    BY DEF Join, Cancel, JoinLoop, Lock, Goto, StopOrder, Running, Streams, Stopping,
           ClientsDrained, ProxiesOpen
  <2>7. Replace => StopOrder'
    BY DEF Replace, Goto, StopOrder, Running, Streams, Stopping, ClientsDrained, ProxiesOpen
  <2>8. Finish => StopOrder'
    BY ExitOrder DEF Finish, StopOrder
  <2>9. pc # "exited" /\ GracefulStop => StopOrder'
    <3>1. ASSUME Drain("client", "clients", "waitClients") PROVE StopOrder'
      BY <3>1 DEF Drain, StopOrder, TypeOK, Running, Kinds, Streams, Stopping,
                  ClientsDrained, ProxiesOpen
    <3>2. ASSUME Drained("client", "waitClients", "proxies") PROVE StopOrder'
      <4>1. \A s \in ClientStreams : ~Running(s)
        BY <3>2, KindsOfStreams DEF Drained, Running, Streams
      <4> QED
        BY <3>2, <4>1 DEF Drained, StopOrder, TypeOK, Running, Kinds, Streams, Stopping,
                          ClientsDrained, ProxiesOpen
    <3>3. ASSUME Drain("proxy", "proxies", "waitProxies") PROVE StopOrder'
      BY <3>3 DEF Drain, StopOrder, TypeOK, Running, Kinds, Streams, Stopping,
                  ClientsDrained, ProxiesOpen
    <3>4. ASSUME Drained("proxy", "waitProxies", "done") PROVE StopOrder'
      <4>1. \A s \in ProxyStreams : ~Running(s)
        BY <3>4, ServerLifeAssumption DEF Drained, Running, Streams, KindOf
      <4> QED
        BY <3>4, <4>1 DEF Drained, StopOrder, TypeOK, Running, Kinds, Streams, Stopping,
                          ClientsDrained, ProxiesOpen
    <3> QED
      BY <3>1, <3>2, <3>3, <3>4 DEF GracefulStop
  <2>10. Tick \/ CleanupLock \/ CleanupStaleConnections \/ LoopEnd => StopOrder'
    BY HandlerOrder DEF Tick, CleanupLock, CleanupStaleConnections, LoopEnd, Running
  (* A server that takes a stream is not yet being drained.                  *)
  <2>11. ASSUME NEW s \in Streams, pc # "exited", Open(s) PROVE StopOrder'
    <3>1. server[KindOf(s)] = "serving" /\ KindOf(s) \in Kinds
      BY <2>11, KindsOfStreams DEF Open
    <3>2. pc \in {"up"} \cup Stopping
      BY <2>11, <3>1 DEF StopOrder, TypeOK
    <3>3. CASE s \in ClientStreams
      <4>1. graceful \in {"idle", "clients"}
        BY <3>1, <3>3 DEF StopOrder, KindOf
      <4> QED
        BY <2>11, <3>2, <4>1 DEF Open, StopOrder, Running, Stopping, ClientsDrained, ProxiesOpen
    <3>4. CASE s \notin ClientStreams
      <4>1. graceful \notin {"waitProxies", "done"}
        BY <3>1, <3>4 DEF StopOrder, KindOf
      <4> QED
        BY <2>11, <3>2, <3>4, <4>1
           DEF Open, StopOrder, TypeOK, Running, Stopping, Streams, ClientsDrained, ProxiesOpen
    <3> QED
      BY <3>3, <3>4
  <2>12. ASSUME NEW s \in Streams, Leave(s) \/ RouteFromClient(s) PROVE StopOrder'
    BY <2>12, HandlerOrder DEF Leave, RouteFromClient, Running
  <2>13. ASSUME NEW s \in Streams, RecvEnd(s) PROVE StopOrder'
    BY <2>13, HandlerOrder DEF RecvEnd, Running, TypeOK
  <2>14. ASSUME NEW s \in Streams, Register(s) PROVE StopOrder'
    BY <2>14, HandlerOrder DEF Register, Running, TypeOK
  <2>15. ASSUME NEW s \in Streams, Unregister(s) PROVE StopOrder'
    BY <2>15, HandlerOrder DEF Unregister, Running, TypeOK
  <2> QED
    BY <2>1, <2>2, <2>3, <2>4, <2>5, <2>6, <2>7, <2>8, <2>9, <2>10, <2>11, <2>12, <2>13,
       <2>14, <2>15, Zenon DEF Next, Main, Handler, Finished
<1> QED
  BY <1>1, <1>2, TypeCorrect, PTL DEF Spec

(* When both calls of GracefulStop have returned nobody runs or is          *)
(* registered, and only then does the process report a complete shutdown.   *)
THEOREM CleanupAfterDrain == Spec => []DrainedBeforeCleanup
<1>1. StopOrder /\ EntriesOwned /\ TypeOK => DrainedBeforeCleanup
  <2> SUFFICES ASSUME StopOrder, EntriesOwned, TypeOK
               PROVE  DrainedBeforeCleanup
    OBVIOUS
  <2>1. ASSUME graceful = "done" PROVE \A s \in Streams : ~Running(s)
    BY <2>1 DEF StopOrder, Streams, ClientsDrained
  <2>2. ASSUME graceful = "done", NEW i \in Ids PROVE directory[i] = None
    BY <2>1, <2>2 DEF EntriesOwned, TypeOK, Running
  <2> QED
    BY <2>1, <2>2 DEF DrainedBeforeCleanup, StopOrder
<1> QED
  BY <1>1, OrderInvariant, EntriesAreOwned, TypeCorrect, PTL

(* Before the deadline the server for proxies serves as long as the handler *)
(* of a client runs: Stop drains the one for clients first.                 *)
THEOREM ProxiesLast == Spec => []ProxiesOutlastClients
<1>1. StopOrder /\ TypeOK => ProxiesOutlastClients
  <2> SUFFICES ASSUME StopOrder, TypeOK, NEW s \in ClientStreams, Running(s), ~deadline
               PROVE  server["proxy"] = "serving"
    BY DEF ProxiesOutlastClients
  <2>1. ~ClientsDrained
    BY DEF StopOrder
  <2>2. pc \in {"up"} \cup Stopping
    BY DEF StopOrder, TypeOK, Streams
  <2> QED
    BY <2>1, <2>2 DEF StopOrder, TypeOK, ClientsDrained, ProxiesOpen
<1> QED
  BY <1>1, OrderInvariant, TypeCorrect, PTL
===============================================================================
