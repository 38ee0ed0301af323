----------------------------- MODULE ServerLife ------------------------------
(***************************************************************************)
(* The life of the server process: Server.start and stop (server.go),      *)
(* GRPCServer.Start and Stop (grpc_server.go) with the two gRPC servers,   *)
(* Registry.Cleanup and cleanupLoop (registry.go), as fx runs them from    *)
(* main.go.  What handlers do while the server is up is the subject of     *)
(* Registry; here a handler registers, makes a route, and ends, which may  *)
(* happen before, during and after each step of stop.                      *)
(*                                                                         *)
(* Operators named Bug... are plausible mistakes in the definition that    *)
(* follows them; no specification here uses them.                          *)
(***************************************************************************)
EXTENDS Integers, FiniteSets

CONSTANTS
    ClientStreams,  \* Connect calls of clients, each made once
    ProxyStreams,   \* Connect calls of proxies, each made once
    Ids,            \* IDs of clients and proxies
    IdOf,           \* IdOf[s]: the ID stream s registers
    None            \* no stream

Streams == ClientStreams \cup ProxyStreams

ASSUME ServerLifeAssumption ==
    /\ ClientStreams \cap ProxyStreams = {}
    /\ None \notin Streams
    /\ IdOf \in [Streams -> Ids]
    /\ \A c \in ClientStreams, p \in ProxyStreams : IdOf[c] # IdOf[p]

VARIABLES
    pc,           \* where main is in start and stop
    graceful,     \* where the goroutine of GRPCServer.Stop is
    server,       \* the two gRPC servers
    deadline,     \* the context of app.Stop has expired
    exit,         \* how the process ended
    handler,      \* the handler of each stream
    cut,          \* streams whose peer has left or whose transport is closed
    directory,    \* ID -> the stream of its ClientConn or ProxyConn
    connections,  \* client streams whose connection has a route
    mu,           \* who holds Registry.mu across steps
    cancelled,    \* Registry.ctx
    loop          \* cleanupLoop

vars == <<pc, graceful, server, deadline, exit, handler, cut, directory, connections, mu,
          cancelled, loop>>
mainVars == <<pc, graceful, server, deadline, exit>>
streamVars == <<handler, cut>>
registryVars == <<directory, connections, mu, cancelled, loop>>

Kinds == {"client", "proxy"}
KindOf(s) == IF s \in ClientStreams THEN "client" ELSE "proxy"

Stopping == {"select", "forceClients", "forceProxies", "join", "cancel", "joinLoop", "lock",
             "replace", "stopped"}

TypeOK ==
    /\ pc \in {"down", "listenClients", "listenProxies", "up", "exited"} \cup Stopping
    /\ graceful \in {"idle", "clients", "waitClients", "proxies", "waitProxies", "done"}
    /\ server \in [Kinds -> {"none", "listening", "serving", "draining", "stopped"}]
    /\ deadline \in BOOLEAN
    /\ exit \in {"none", "ok", "error"}
    /\ handler \in [Streams -> {"idle", "open", "refused", "registered", "unregister", "done"}]
    /\ cut \in SUBSET Streams
    /\ directory \in [Ids -> Streams \cup {None}]
    /\ connections \in SUBSET ClientStreams
    /\ mu \in {"free", "loop", "stop"}
    /\ cancelled \in BOOLEAN
    /\ loop \in {"select", "lock", "clean", "done"}

Init ==
    /\ pc = "down"
    /\ graceful = "idle"
    /\ server = [k \in Kinds |-> "none"]
    /\ deadline = FALSE
    /\ exit = "none"
    /\ handler = [s \in Streams |-> "idle"]
    /\ cut = {}
    /\ directory = [i \in Ids |-> None]
    /\ connections = {}
    /\ mu = "free"
    /\ cancelled = FALSE
    /\ loop = "select"

-----------------------------------------------------------------------------
(***************************************************************************)
(* main: app.Start, the signal, app.Stop.                                  *)
(***************************************************************************)
(* The kernel ends whatever the process still has.                          *)
Exit(how) ==
    /\ pc' = "exited"
    /\ exit' = how
    /\ server' = [k \in Kinds |-> "stopped"]
    /\ handler' = [s \in Streams |-> IF handler[s] = "idle" THEN "idle" ELSE "done"]
    /\ directory' = [i \in Ids |-> None]
    /\ connections' = {}
    /\ mu' = "free"
    /\ loop' = "done"
    /\ UNCHANGED <<graceful, deadline, cut, cancelled>>

Goto(from, next) == pc = from /\ pc' = next

Start ==
    /\ Goto("down", "listenClients")
    /\ UNCHANGED <<graceful, server, deadline, exit, streamVars, registryVars>>

ListenClients ==
    \/ /\ Goto("listenClients", "listenProxies")
       /\ server' = [server EXCEPT !["client"] = "listening"]
       /\ UNCHANGED <<graceful, deadline, exit, streamVars, registryVars>>
    \/ pc = "listenClients" /\ Exit("error")

(* Without a second listener the first is closed and start fails.           *)
ListenProxies ==
    \/ /\ Goto("listenProxies", "up")
       /\ server' = [k \in Kinds |-> "serving"]
       /\ UNCHANGED <<graceful, deadline, exit, streamVars, registryVars>>
    \/ pc = "listenProxies" /\ Exit("error")

StopBegin ==
    /\ Goto("up", "select")
    /\ graceful' = "clients"
    /\ UNCHANGED <<server, deadline, exit, streamVars, registryVars>>

(* The 15 seconds that app.Stop and the hook share.                         *)
Deadline ==
    /\ pc \in Stopping
    /\ ~deadline
    /\ deadline' = TRUE
    /\ UNCHANGED <<pc, graceful, server, exit, streamVars, registryVars>>

(* app.Stop returns at the deadline, wherever the hook is by then.          *)
Abandon == pc \in Stopping /\ deadline /\ Exit("error")

Select ==
    /\ \/ graceful = "done" /\ Goto("select", "join")
       \/ deadline /\ Goto("select", "forceClients")
    /\ UNCHANGED <<graceful, server, deadline, exit, streamVars, registryVars>>

(* grpc.Server.Stop closes every transport and does not wait for handlers.  *)
ForceStop(kind, from, next) ==
    /\ Goto(from, next)
    /\ server' = [server EXCEPT ![kind] = "stopped"]
    /\ cut' = cut \cup {s \in Streams : KindOf(s) = kind /\ handler[s] # "idle"}
    /\ UNCHANGED <<graceful, deadline, exit, handler, registryVars>>

(* wg.Wait: both calls of Serve have returned.                              *)
Join ==
    /\ Goto("join", "cancel")
    /\ \A k \in Kinds : server[k] = "stopped"
    /\ UNCHANGED <<graceful, server, deadline, exit, streamVars, registryVars>>

Finish ==
    /\ pc = "stopped"
    /\ Exit(IF deadline THEN "error" ELSE "ok")

-----------------------------------------------------------------------------
(***************************************************************************)
(* The goroutine of GRPCServer.Stop: GracefulStop of the server for        *)
(* clients, then of the one for proxies.  GracefulStop takes no new stream *)
(* and returns when the handlers of all streams have.                      *)
(***************************************************************************)
Drain(kind, from, next) ==
    /\ graceful = from
    /\ pc # "exited"
    /\ graceful' = next
    /\ server' = [server EXCEPT ![kind] = IF @ = "serving" THEN "draining" ELSE @]
    /\ UNCHANGED <<pc, deadline, exit, streamVars, registryVars>>

BugNoWait(kind, from, next) ==
    /\ graceful = from
    /\ pc # "exited"
    /\ graceful' = next
    /\ server' = [server EXCEPT ![kind] = "stopped"]
    /\ UNCHANGED <<pc, deadline, exit, streamVars, registryVars>>

Drained(kind, from, next) ==
    /\ graceful = from
    /\ pc # "exited"
    /\ \A s \in Streams : KindOf(s) = kind => handler[s] \in {"idle", "done"}
    /\ graceful' = next
    /\ server' = [server EXCEPT ![kind] = "stopped"]
    /\ UNCHANGED <<pc, deadline, exit, streamVars, registryVars>>

BugProxiesFirst ==
    \/ Drain("proxy", "clients", "waitClients") \/ Drained("proxy", "waitClients", "proxies")
    \/ Drain("client", "proxies", "waitProxies") \/ Drained("client", "waitProxies", "done")

GracefulStop ==
    \/ Drain("client", "clients", "waitClients") \/ Drained("client", "waitClients", "proxies")
    \/ Drain("proxy", "proxies", "waitProxies") \/ Drained("proxy", "waitProxies", "done")

-----------------------------------------------------------------------------
(***************************************************************************)
(* Registry.Cleanup and cleanupLoop.                                       *)
(***************************************************************************)
BugLockFirst ==
    /\ Goto("cancel", "joinLoop")
    /\ mu = "free"
    /\ mu' = "stop"
    /\ cancelled' = TRUE
    /\ UNCHANGED <<graceful, server, deadline, exit, streamVars, directory, connections, loop>>

Cancel ==
    /\ Goto("cancel", "joinLoop")
    /\ cancelled' = TRUE
    /\ UNCHANGED <<graceful, server, deadline, exit, streamVars, directory, connections, mu, loop>>

JoinLoop ==
    /\ Goto("joinLoop", "lock")
    /\ loop = "done"
    /\ UNCHANGED <<graceful, server, deadline, exit, streamVars, registryVars>>

Lock ==
    /\ Goto("lock", "replace")
    /\ mu \in {"free", "stop"}
    /\ mu' = "stop"
    /\ UNCHANGED <<graceful, server, deadline, exit, streamVars, directory, connections,
                   cancelled, loop>>

Replace ==
    /\ Goto("replace", "stopped")
    /\ directory' = [i \in Ids |-> None]
    /\ connections' = {}
    /\ mu' = "free"
    /\ UNCHANGED <<graceful, server, deadline, exit, streamVars, cancelled, loop>>

Tick ==
    /\ loop = "select"
    /\ loop' = "lock"
    /\ UNCHANGED <<mainVars, streamVars, directory, connections, mu, cancelled>>

CleanupLock ==
    /\ loop = "lock"
    /\ mu = "free"
    /\ loop' = "clean"
    /\ mu' = "loop"
    /\ UNCHANGED <<mainVars, streamVars, directory, connections, cancelled>>

(* Which routes are idle is a matter of time.                               *)
CleanupStaleConnections ==
    /\ loop = "clean"
    /\ loop' = "select"
    /\ mu' = "free"
    /\ \E idle \in SUBSET connections : connections' = connections \ idle
    /\ UNCHANGED <<mainVars, streamVars, directory, cancelled>>

LoopEnd ==
    /\ loop = "select"
    /\ cancelled
    /\ loop' = "done"
    /\ UNCHANGED <<mainVars, streamVars, directory, connections, mu, cancelled>>

-----------------------------------------------------------------------------
(***************************************************************************)
(* Streams: the peer calls Connect, the handler takes its Register, routes *)
(* its packets and ends.  A message may have come before the transport     *)
(* was closed and be taken after.                                          *)
(***************************************************************************)
Open(s) ==
    /\ handler[s] = "idle"
    /\ server[KindOf(s)] = "serving"
    /\ handler' = [handler EXCEPT ![s] = "open"]
    /\ UNCHANGED <<mainVars, cut, registryVars>>

BugOverwrite(s) ==
    /\ handler[s] = "open"
    /\ mu = "free"
    /\ directory' = [directory EXCEPT ![IdOf[s]] = s]
    /\ handler' = [handler EXCEPT ![s] = "registered"]
    /\ UNCHANGED <<mainVars, cut, connections, mu, cancelled, loop>>

Register(s) ==
    /\ handler[s] = "open"
    /\ mu = "free"
    /\ IF directory[IdOf[s]] = None
       THEN /\ directory' = [directory EXCEPT ![IdOf[s]] = s]
            /\ handler' = [handler EXCEPT ![s] = "registered"]
       ELSE /\ handler' = [handler EXCEPT ![s] = "refused"]
            /\ UNCHANGED directory
    /\ UNCHANGED <<mainVars, cut, connections, mu, cancelled, loop>>

BugRouteFromAnyone(s) ==
    /\ handler[s] = "registered"
    /\ mu = "free"
    /\ connections' = connections \cup {s}
    /\ UNCHANGED <<mainVars, streamVars, directory, mu, cancelled, loop>>

RouteFromClient(s) ==
    /\ s \in ClientStreams
    /\ handler[s] = "registered"
    /\ mu = "free"
    /\ \E p \in ProxyStreams : directory[IdOf[p]] = p
    /\ connections' = connections \cup {s}
    /\ UNCHANGED <<mainVars, streamVars, directory, mu, cancelled, loop>>

Leave(s) ==
    /\ handler[s] \in {"open", "refused", "registered"}
    /\ cut' = cut \cup {s}
    /\ UNCHANGED <<mainVars, handler, registryVars>>

RecvEnd(s) ==
    /\ s \in cut
    /\ handler[s] \in {"open", "refused", "registered"}
    /\ handler' = [handler EXCEPT ![s] = IF @ = "registered" THEN "unregister" ELSE "done"]
    /\ UNCHANGED <<mainVars, cut, registryVars>>

(* The deferred Unregister goes by ID, whoever holds the entry.             *)
Unregister(s) ==
    /\ handler[s] = "unregister"
    /\ mu = "free"
    /\ directory' = [directory EXCEPT ![IdOf[s]] = None]
    /\ handler' = [handler EXCEPT ![s] = "done"]
    /\ UNCHANGED <<mainVars, cut, connections, mu, cancelled, loop>>

-----------------------------------------------------------------------------
Main ==
    \/ Start \/ ListenClients \/ ListenProxies \/ Select
    \/ ForceStop("client", "forceClients", "forceProxies")
    \/ ForceStop("proxy", "forceProxies", "join")
    \/ Join \/ Cancel \/ JoinLoop \/ Lock \/ Replace \/ Finish

Handler(s) == RouteFromClient(s) \/ RecvEnd(s) \/ Register(s) \/ Unregister(s)

Finished == pc = "exited" /\ UNCHANGED vars

Next ==
    \/ pc # "exited" /\ (Main \/ StopBegin \/ Deadline \/ Abandon \/ GracefulStop)
    \/ pc # "exited" /\ (Tick \/ CleanupLock \/ CleanupStaleConnections \/ LoopEnd)
    \/ \E s \in Streams : pc # "exited" /\ (Open(s) \/ Leave(s) \/ Handler(s))
    \/ Finished

(* Goroutines run; a mutex and a select with several ready cases starve     *)
(* nobody.  Nobody has to start or stop the server, or to connect, and the  *)
(* deadline need not come.                                                  *)
Fairness ==
    /\ SF_vars(Main /\ pc # "down") /\ WF_vars(GracefulStop)
    /\ WF_vars(CleanupLock) /\ WF_vars(CleanupStaleConnections) /\ SF_vars(LoopEnd)
    /\ \A s \in Streams : WF_vars(RecvEnd(s)) /\ SF_vars(Unregister(s))

Spec == Init /\ [][Next]_vars /\ Fairness

-----------------------------------------------------------------------------
(***************************************************************************)
(* Properties.                                                             *)
(***************************************************************************)
Running(s) == handler[s] \notin {"idle", "done"}

(* Once both calls of GracefulStop have returned no handler runs, nobody is *)
(* registered any more, and Registry.Cleanup replaces maps that no one      *)
(* reads; the process reports a complete shutdown in this case only.  The   *)
(* forced way may have handlers beside Cleanup, but never ends well.        *)
DrainedBeforeCleanup ==
    /\ graceful = "done" => /\ \A s \in Streams : ~Running(s)
                            /\ \A i \in Ids : directory[i] = None
    /\ exit = "ok" => graceful = "done"

(* An entry belongs to a handler that will remove it, in the maps Cleanup   *)
(* made as well, to which a late Register may still add; until Cleanup a    *)
(* registered handler has its entry.                                        *)
EntriesOwned ==
    /\ \A i \in Ids : directory[i] # None =>
            /\ IdOf[directory[i]] = i
            /\ handler[directory[i]] \in {"registered", "unregister"}
    /\ \A s \in Streams : handler[s] \in {"registered", "unregister"} /\ pc # "stopped" =>
            directory[IdOf[s]] = s

(* Until the deadline the clients that are still there can be served: the   *)
(* server for proxies takes and keeps streams as long as one runs.          *)
ProxiesOutlastClients ==
    (\E s \in ClientStreams : Running(s)) /\ ~deadline =>
        server["proxy"] = "serving"

(* If the peers leave, stop ends on its own, without the deadline: the      *)
(* cleanup loop, which takes the lock that Cleanup needs, ends too.         *)
PeersLeave == \A s \in Streams : []<>(~Running(s))

StopCompletes == PeersLeave => (pc \in Stopping ~> pc = "exited")
=============================================================================
