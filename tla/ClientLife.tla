------------------------------ MODULE ClientLife ------------------------------
(***************************************************************************)
(* The life of client processes on one host: how a process comes by its    *)
(* configuration (config.go, loader.go, main.go), Client.start and         *)
(* Client.stop (client.go), run by fx from main.go, and the redirection    *)
(* rule (rule.go, builder.go, netfilter.go, iptables.go) in the kernel's   *)
(* nat table, which outlives the processes.  What a running client does is *)
(* the subject of Client.                                                  *)
(*                                                                         *)
(* A process may run again with another configuration, and an operator may *)
(* start one while another runs.  A Manager holds one rule, and            *)
(* NetfilterManager.active is TRUE exactly while pc is in Holding, so that *)
(* neither is a variable; a process listens exactly while pc is "run".     *)
(* The server's address is left out: Connect may fail with any.            *)
(*                                                                         *)
(* Operators named Bug... are plausible mistakes in the definition that    *)
(* follows them; no specification here uses them.                          *)
(***************************************************************************)
EXTENDS Integers, FiniteSets, SequencesExt

CONSTANTS
    Procs,     \* client processes, each of which may run again after its end
    Texts,     \* what may stand for a network in a configuration
    Cidrs,     \* texts that name one
    Covers,    \* Covers[c]: the addresses of the network c
    Defaults,  \* DefaultConfig
    Settings,  \* what a file, the environment or the flags may set
    None       \* a field that is not set

Port == 1..65535
Rule == [cidr : Cidrs, port : Port]
Config == [cidr : Texts, port : Int]

ASSUME ClientLifeAssumption ==
    /\ IsFiniteSet(Procs)
    /\ Cidrs \subseteq Texts /\ DOMAIN Covers = Cidrs
    /\ None \notin Texts \cup Int
    /\ Defaults \in Rule
    /\ Settings \subseteq [cidr : Texts \cup {None}, port : Int \cup {None}]

VARIABLES
    chain,   \* the redirection rules in the OUTPUT chain, first match first
    pc,      \* where start or stop of the process is; down when there is none
    config,  \* the configuration of each process
    \* history
    left,    \* <<p, r>> if p ended holding rule r and has not removed one since
    alone    \* no other process was up since this one was launched

vars == <<chain, pc, config, left, alone>>

Holding == {"listen", "undo", "run", "closing", "cleanup"}

(* A rule that was built is well formed.                                    *)
TypeOK ==
    /\ chain \in Seq(Rule)
    /\ pc \in [Procs -> {"down", "connect", "setup", "check", "insert"} \cup Holding]
    /\ config \in [Procs -> Config]
    /\ \A p \in Procs : pc[p] \in {"check", "insert"} \cup Holding => config[p] \in Rule
    /\ left \in SUBSET (Procs \X Rule)
    /\ alone \in [Procs -> BOOLEAN]

Init ==
    /\ chain = <<>>
    /\ pc = [p \in Procs |-> "down"]
    /\ config = [p \in Procs |-> Defaults]
    /\ left = {}
    /\ alone = [p \in Procs |-> FALSE]

-----------------------------------------------------------------------------
(***************************************************************************)
(* The configuration.                                                      *)
(***************************************************************************)
Override(base, over) ==
    [f \in DOMAIN base |-> IF over[f] = None THEN base[f] ELSE over[f]]

(* viper takes an empty variable of the environment for one not set.        *)
NonEmpty(env) == IF env.cidr = "" THEN [env EXCEPT !.cidr = None] ELSE env

(* Load: without a file the environment does not count; a .env file goes    *)
(* into the environment, in place of what is there; the environment goes    *)
(* before any other file.                                                   *)
Load(kind, file, env) ==
    CASE kind = "none"  -> Defaults
      [] kind = ".env"  -> Override(Defaults, NonEmpty(Override(env, file)))
      [] kind = "other" -> Override(Override(Defaults, file), NonEmpty(env))

Kinds == {"none", ".env", "other"}

Validate(cfg) == cfg.port \in Port /\ cfg.cidr # ""

(* A flag that is zero or empty is not set.                                 *)
Flags == {s \in Settings : s.port # 0 /\ s.cidr # ""}

(* After Load, which has validated what the flags replace.                  *)
applyOverrides(cfg, flags) == Override(cfg, flags)

(* Rule.Validate, for the rule that Setup fills in.                         *)
ValidateRule(rule) == rule.port \in Port /\ rule.cidr \in Cidrs

-----------------------------------------------------------------------------
(***************************************************************************)
(* The process.                                                            *)
(***************************************************************************)
Goto(p, from, next) ==
    /\ pc[p] = from
    /\ pc' = [pc EXCEPT ![p] = next]

RuleOf(p) == config[p]

(* What is left of a process: nothing of its configuration.                 *)
End(p) ==
    /\ pc' = [pc EXCEPT ![p] = "down"]
    /\ config' = [config EXCEPT ![p] = Defaults]
    /\ UNCHANGED alone

(* The kernel closes the listener of a process that ends; the rule stays.   *)
Exit(p) ==
    /\ End(p)
    /\ left' = IF pc[p] \in Holding THEN left \cup {<<p, RuleOf(p)>>} ELSE left
    /\ UNCHANGED chain

(* A process that finds no valid configuration ends at once.                *)
Launch(p) ==
    /\ Goto(p, "down", "connect")
    /\ \E kind \in Kinds, file \in Settings, env \in Settings, flags \in Flags :
            /\ Validate(Load(kind, file, env))
            /\ config' = [config EXCEPT ![p] = applyOverrides(Load(kind, file, env), flags)]
    /\ alone' = [q \in Procs |-> q = p /\ \A r \in Procs \ {p} : pc[r] = "down"]
    /\ UNCHANGED <<chain, left>>

(* A panic or a kill.  An iptables -I that it had started runs to its end.  *)
Crash(p) ==
    \/ pc[p] # "down" /\ Exit(p)
    \/ /\ pc[p] = "insert" /\ End(p)
       /\ chain' = Cons(RuleOf(p), chain)
       /\ left' = left \cup {<<p, RuleOf(p)>>}

-----------------------------------------------------------------------------
(***************************************************************************)
(* Client.start.  Any error of it ends the process (fx calls no OnStop of  *)
(* a component whose OnStart failed).                                      *)
(***************************************************************************)
(* serverConn.Connect and the registration.                                 *)
Connect(p) ==
    \/ /\ Goto(p, "connect", "setup")
       /\ UNCHANGED <<chain, config, left, alone>>
    \/ pc[p] = "connect" /\ Exit(p)

(* Bug: the rule is installed as it is configured.                          *)
BugAnyRule(p) ==
    /\ Goto(p, "setup", "check")
    /\ UNCHANGED <<chain, config, left, alone>>

(* Setup: MustBuild panics when the rule is not valid, which is news here:  *)
(* the flags were not validated, nor that the CIDR is one.                  *)
BuildRule(p) ==
    \/ /\ Goto(p, "setup", "check")
       /\ ValidateRule(RuleOf(p))
       /\ UNCHANGED <<chain, config, left, alone>>
    \/ pc[p] = "setup" /\ ~ValidateRule(RuleOf(p)) /\ Exit(p)

Exists(rule) == \E i \in DOMAIN chain : chain[i] = rule

(* Bug: the rule is inserted without a question.                            *)
BugNoCheck(p) ==
    /\ Goto(p, "check", "insert")
    /\ UNCHANGED <<chain, config, left, alone>>

(* Bug: any redirection rule will do.                                       *)
BugAnyExists(p) ==
    \/ /\ chain = <<>> /\ Goto(p, "check", "insert")
       /\ UNCHANGED <<chain, config, left, alone>>
    \/ /\ chain # <<>> /\ Goto(p, "check", "listen")
       /\ UNCHANGED <<chain, config, left, alone>>

(* Apply asks first whether the rule exists, possibly left over from a      *)
(* process that crashed and wherever it is in the chain; only exit status 1 *)
(* of iptables means that it does not.                                      *)
CheckRule(p) ==
    \/ /\ ~Exists(RuleOf(p)) /\ Goto(p, "check", "insert")
       /\ UNCHANGED <<chain, config, left, alone>>
    \/ /\ Exists(RuleOf(p)) /\ Goto(p, "check", "listen")
       /\ UNCHANGED <<chain, config, left, alone>>
    \/ pc[p] = "check" /\ Exit(p)

InsertRule(p) ==
    \/ /\ Goto(p, "insert", "listen")
       /\ chain' = Cons(RuleOf(p), chain)
       /\ UNCHANGED <<config, left, alone>>
    \/ pc[p] = "insert" /\ Exit(p)

(* net.Listen fails when another process has the port.                      *)
Listen(p) ==
    \/ /\ Goto(p, "listen", "run")
       /\ \A q \in Procs : pc[q] = "run" => config[q].port # config[p].port
       /\ UNCHANGED <<chain, config, left, alone>>
    \/ /\ Goto(p, "listen", "undo")
       /\ UNCHANGED <<chain, config, left, alone>>

(* iptables -D removes the first copy; a rule that is not there is no       *)
(* error.                                                                   *)
DeleteRule(p) ==
    /\ chain' = RemoveFirst(chain, RuleOf(p))
    /\ left' = left \ {<<p, RuleOf(p)>>}
    /\ End(p)

(* netfilter.Cleanup, whose error start ignores and stop only logs; either  *)
(* way the process ends.                                                    *)
NetfilterCleanup(p) ==
    /\ pc[p] \in {"undo", "cleanup"}
    /\ DeleteRule(p) \/ Exit(p)

-----------------------------------------------------------------------------
(***************************************************************************)
(* Client.stop, on a signal.                                               *)
(***************************************************************************)
(* cancel and listener.Close.                                               *)
StopBegin(p) ==
    /\ Goto(p, "run", "closing")
    /\ UNCHANGED <<chain, config, left, alone>>

(* serverConn.Close and wg.Wait return.                                     *)
StopClosed(p) ==
    /\ Goto(p, "closing", "cleanup")
    /\ UNCHANGED <<chain, config, left, alone>>

(* main gives the hooks fx.DefaultTimeout and exits when it is over, though *)
(* stop may still wait: readLoop may be blocked for minutes (StopReturns of *)
(* Client).                                                                 *)
StopTimeout(p) == pc[p] \in {"closing", "cleanup"} /\ Exit(p)

Next ==
    \E p \in Procs :
        \/ Launch(p) \/ Crash(p)
        \/ Connect(p) \/ BuildRule(p) \/ CheckRule(p) \/ InsertRule(p) \/ Listen(p)
        \/ NetfilterCleanup(p)
        \/ StopBegin(p) \/ StopClosed(p) \/ StopTimeout(p)

Spec == Init /\ [][Next]_vars
-----------------------------------------------------------------------------
(***************************************************************************)
(* Properties.                                                             *)
(***************************************************************************)
(* Processes that answer for a copy of a rule.  One that is about to insert *)
(* it has seen that there was none, its own of an earlier run included.     *)
Answering(rule) ==
    {p \in Procs :
        \/ pc[p] \in Holding /\ RuleOf(p) = rule
        \/ <<p, rule>> \in left /\ ~(pc[p] = "insert" /\ RuleOf(p) = rule)}

Copies(rule) == {i \in DOMAIN chain : chain[i] = rule}

(* Restarts after crashes, failed starts, overlapping runs and changes of   *)
(* the configuration pile up no rules: of each there are at most as many    *)
(* copies as processes that hold it or ended without removing theirs.       *)
(* Checking before inserting (Apply) and removing at every later failure    *)
(* (start, line 76) make it so.                                             *)
RulesAccounted ==
    \A i \in DOMAIN chain :
        Cardinality(Copies(chain[i])) <= Cardinality(Answering(chain[i]))

(* The rule that decides about an address is the first that covers it.      *)
GoesTo(address, port) ==
    \E i \in DOMAIN chain :
        /\ address \in Covers[chain[i].cidr] /\ chain[i].port = port
        /\ \A j \in 1..(i - 1) : address \notin Covers[chain[j].cidr]

(* A rule of another configuration was left over for the address.           *)
Shadowed(p, address) ==
    \E old \in left : old[2] # RuleOf(p) /\ address \in Covers[old[2].cidr]

(* From the end of Setup to that of stop, the traffic to the target network *)
(* is redirected to the port of a client that no other ran beside, whatever *)
(* its predecessors left behind, but for addresses that a rule of another   *)
(* configuration was left over for: Apply finds a copy of its rule further  *)
(* down and inserts none.  Beside another it is not so either: a second     *)
(* process shares the rule, fails to listen, and removes it (start, line    *)
(* 76).                                                                     *)
RunningIsRedirected ==
    \A p \in Procs : alone[p] /\ pc[p] \in Holding =>
        /\ Exists(RuleOf(p))
        /\ \A address \in Covers[RuleOf(p).cidr] :
                GoesTo(address, RuleOf(p).port) \/ Shadowed(p, address)
=============================================================================
