------------------------------- MODULE Hosting -------------------------------
(***************************************************************************)
(* Ports, agent processes and admin tokens: PortAllocator, AgentSupervisor *)
(* and HostedAgentManager (hosting/), the runner's use of them             *)
(* (runner/engine.py), the cancel route and the routes of hosted agents    *)
(* (api/hosted.py).                                                        *)
(*                                                                         *)
(* Runs and requests to host are tasks on the event loop; a run's cleanup  *)
(* holds the loop from its first line to its last.  Cancelling a run and   *)
(* stopping a hosted agent are threadpool threads, which interleave with   *)
(* everything.  Each run and each hosted agent has one process here.       *)
(***************************************************************************)
EXTENDS Integers, Sequences, FiniteSets, SequencesExt

CONSTANTS
    Runs, Hosts,    \* runs, and agents that are hosted
    Start,          \* first port of each pool: Start.run, Start.hosted
    Offsets,        \* port_offset of the runs' agents
    Pins,           \* ports a caller of POST /hosted-agents may pin
    MaxKills,       \* bound: runs cancelled and agents stopped
    None

Owner == Runs \cup Hosts
ASSUME OwnerAssumption == Runs \cap Hosts = {} /\ None \notin Owner
ASSUME PortAssumption ==
    Start \in [run : Nat, hosted : Nat] /\ Offsets \subseteq Nat /\ Pins \subseteq Nat
ASSUME KillsAssumption == MaxKills \in Nat

VARIABLES
    pool,           \* the two PortAllocators: next, free, in_use
    pc,             \* where the task of a run or of a request to host is
    port,           \* the port it was given
    pinned,         \* ports that were ever pinned
    proc,           \* the operating system's processes; dying: sent SIGKILL
    processes,      \* keys of supervisor._processes
    agents,         \* keys of supervisor._agents
    admin_tokens,   \* whose admin token is kept for a port
    cancelled,      \* runs marked cancelled
    killer,         \* where the thread that cancels or stops an owner is
    took,           \* owners whose process that thread has in hand
    hosted,         \* manager._hosted
    stale,          \* ports whose token was dropped by a kill that found no process
    named           \* the agent a request to a hosted agent looked up

poolVars == <<pool, port, pinned>>
supVars  == <<processes, agents, admin_tokens, stale>>
vars == <<poolVars, pc, proc, supVars, cancelled, killer, took, hosted, named>>

\* A run that fails is cleaned up twice: by its except and its finally clause.
Cleaning == {"kill2", "release2", "kill1", "release1"}

PoolsOK ==
    \A k \in {"run", "hosted"} :
        /\ pool[k].next \in Nat /\ pool[k].in_use \subseteq Nat
        /\ pool[k].free \in Seq(Nat) /\ IsInjective(pool[k].free)
        /\ ToSet(pool[k].free) \cap pool[k].in_use = {}

TablesOK ==
    /\ pc \in [Owner -> {"new", "allocated", "launching", "up", "over"} \cup Cleaning]
    /\ port \in [Owner -> Nat \cup {None}] /\ pinned \subseteq Pins
    /\ proc \in [Owner -> {"none", "starting", "up", "dying", "dead"}]
    /\ processes \subseteq Owner /\ agents \subseteq Owner /\ took \subseteq Owner
    /\ \A p \in DOMAIN admin_tokens : p \in Nat /\ admin_tokens[p] \in Owner
    /\ cancelled \subseteq Runs
    /\ killer \in [Owner -> {"off", "list", "take", "wait", "release", "done"}]
    /\ hosted \subseteq Hosts /\ stale \subseteq Nat
    /\ named \in Hosts \cup {None}

TypeOK == PoolsOK /\ TablesOK

\* No run is inside code that holds the event loop.
LoopFree == \A r \in Runs : pc[r] \notin Cleaning \cup {"allocated"}

MayKill == Cardinality({j \in Owner : killer[j] # "off"}) < MaxKills

\* A process nobody has told to end, or not yet.
Alive(j) == proc[j] \in {"starting", "up"}

Goto(j, label) == pc' = [pc EXCEPT ![j] = label]

------------------------------------------------------------------------------
(* PortAllocator.                                                          *)

\* The first port from next on that is not in use.
NextFree(p) ==
    CHOOSE n \in p.next..(p.next + Cardinality(p.in_use)) :
        n \notin p.in_use /\ \A m \in p.next..(n - 1) : m \in p.in_use

\* Mutation of allocate: the port asked for is looked for among the recycled only.
allocate_in_use(p, start, offset) ==
    LET candidate == start + offset
        recycled  == IF p.free = <<>> THEN None ELSE Last(p.free)
        n         == NextFree(p)
    IN  IF candidate \notin ToSet(p.free)
        THEN [port |-> candidate,
              pool |-> [p EXCEPT !.in_use = @ \cup {candidate},
                                 !.next = IF candidate >= @ THEN candidate + 1 ELSE @]]
        ELSE IF p.free # <<>>
        THEN [port |-> recycled,
              pool |-> [p EXCEPT !.in_use = @ \cup {recycled}, !.free = Front(@)]]
        ELSE [port |-> n, pool |-> [p EXCEPT !.in_use = @ \cup {n}, !.next = n + 1]]

\* The port asked for, if it is neither in use nor recycled; else the port
\* released last; else the next one.
allocate(p, start, offset) ==
    LET candidate == start + offset
        recycled  == IF p.free = <<>> THEN None ELSE Last(p.free)
        n         == NextFree(p)
    IN  IF candidate \notin p.in_use \cup ToSet(p.free)
        THEN [port |-> candidate,
              pool |-> [p EXCEPT !.in_use = @ \cup {candidate},
                                 !.next = IF candidate >= @ THEN candidate + 1 ELSE @]]
        ELSE IF p.free # <<>>
        THEN [port |-> recycled,
              pool |-> [p EXCEPT !.in_use = @ \cup {recycled}, !.free = Front(@)]]
        ELSE [port |-> n, pool |-> [p EXCEPT !.in_use = @ \cup {n}, !.next = n + 1]]

\* Mutation of release: it does not look whether the port is in use.
release_always(p, n) == [p EXCEPT !.in_use = @ \ {n}, !.free = Append(@, n)]

release(p, n) ==
    IF n \in p.in_use THEN [p EXCEPT !.in_use = @ \ {n}, !.free = Append(@, n)] ELSE p

------------------------------------------------------------------------------
(* AgentSupervisor.                                                        *)

\* The token first, then the process and the two tables.
launch(j, n) ==
    /\ admin_tokens' = [p \in DOMAIN admin_tokens \cup {n} |->
                           IF p = n THEN j ELSE admin_tokens[p]]
    /\ proc' = [proc EXCEPT ![j] = "starting"]
    /\ processes' = processes \cup {j} /\ agents' = agents \cup {j}
    /\ UNCHANGED stale

Without(f, p) == [q \in DOMAIN f \ {p} |-> f[q]]

\* kill, until it waits: the process leaves the table, and the token of the
\* agent's port goes, whether there was a process or not.
KillTake(j) ==
    /\ processes' = processes \ {j}
    /\ IF j \in agents
       THEN /\ admin_tokens' = Without(admin_tokens, port[j])
            /\ stale' = IF j \in processes THEN stale ELSE stale \cup {port[j]}
       ELSE UNCHANGED <<admin_tokens, stale>>
    /\ UNCHANGED agents

\* Mutation of Reap: a process that does not end in time is left alone.
ReapGivesUp(j) ==
    proc' = [proc EXCEPT ![j] = IF @ \in {"starting", "up", "dying"} THEN "dead" ELSE @]
    \/ UNCHANGED proc

\* The rest of it: terminate and wait; a process that does not end in time is
\* sent SIGKILL, and not waited for.
Reap(j) ==
    \E outcome \in {"dead", "dying"} :
        proc' = [proc EXCEPT ![j] = IF @ \in {"starting", "up", "dying"} THEN outcome ELSE @]

\* The operating system ends a process that was sent SIGKILL.
Dies(j) ==
    /\ proc[j] = "dying"
    /\ proc' = [proc EXCEPT ![j] = "dead"]
    /\ UNCHANGED <<poolVars, pc, supVars, cancelled, killer, took, hosted, named>>

\* A process exits by itself, before or after it is ready; the supervisor and
\* the manager do not notice.
Exits(j) ==
    /\ Alive(j)
    /\ proc' = [proc EXCEPT ![j] = "dead"]
    /\ UNCHANGED <<poolVars, pc, supVars, cancelled, killer, took, hosted, named>>

\* The agent reports ready: it could bind its port.  The line is read even when
\* the process has ended since it was printed.
AgentReady(j) ==
    /\ pc[j] = "launching" /\ LoopFree
    /\ \/ /\ proc[j] = "starting"
          /\ \A k \in Owner \ {j} : proc[k] \in {"up", "dying"} => port[k] # port[j]
          /\ proc' = [proc EXCEPT ![j] = "up"]
       \/ proc[j] \in {"dying", "dead"} /\ UNCHANGED proc

\* Its pipe is closed, for it has ended; or it prints another line after the
\* deadline (which is looked at between two lines) and is sent SIGKILL, and not
\* waited for.
AgentFails(j) ==
    /\ pc[j] = "launching" /\ LoopFree
    /\ \/ proc[j] = "dead" /\ UNCHANGED proc
       \/ Alive(j) /\ proc' = [proc EXCEPT ![j] = "dying"]

------------------------------------------------------------------------------
(* A run.                                                                  *)

AllocatePorts(r, offset) ==
    /\ pc[r] = "new" /\ LoopFree
    /\ LET a == allocate(pool.run, Start.run, offset)
       IN  pool' = [pool EXCEPT !.run = a.pool] /\ port' = [port EXCEPT ![r] = a.port]
    /\ Goto(r, "allocated")
    /\ UNCHANGED <<pinned, proc, supVars, cancelled, killer, took, hosted, named>>

\* Spawn the agent, unless the run is cancelled or its manifest, bootstrap file
\* or adapter raises.
Spawn(r) ==
    /\ pc[r] = "allocated"
    /\ \/ Goto(r, "kill2") /\ UNCHANGED <<proc, supVars>>
       \/ r \notin cancelled /\ Goto(r, "launching") /\ launch(r, port[r])
    /\ UNCHANGED <<poolVars, cancelled, killer, took, hosted, named>>

RunReady(r) ==
    /\ AgentReady(r) /\ Goto(r, "up")
    /\ UNCHANGED <<poolVars, supVars, cancelled, killer, took, hosted, named>>

RunLaunchFails(r) ==
    /\ AgentFails(r) /\ Goto(r, "kill2")
    /\ UNCHANGED <<poolVars, supVars, cancelled, killer, took, hosted, named>>

\* The steps are done (one cleanup), or one of them raised (two).
StepsEnd(r) ==
    /\ pc[r] = "up" /\ LoopFree
    /\ \E label \in {"kill1", "kill2"} : Goto(r, label)
    /\ UNCHANGED <<poolVars, proc, supVars, cancelled, killer, took, hosted, named>>

\* _cleanup_run kills what the process table has of the run ...
CleanupKill(r) ==
    /\ pc[r] \in {"kill1", "kill2"}
    /\ Goto(r, IF pc[r] = "kill2" THEN "release2" ELSE "release1")
    /\ IF r \in processes THEN KillTake(r) /\ Reap(r) ELSE UNCHANGED <<supVars, proc>>
    /\ UNCHANGED <<poolVars, cancelled, killer, took, hosted, named>>

\* ... and releases its ports.
CleanupRelease(r) ==
    /\ pc[r] \in {"release1", "release2"}
    /\ Goto(r, IF pc[r] = "release2" THEN "kill1" ELSE "over")
    /\ pool' = [pool EXCEPT !.run = release(@, port[r])]
    /\ UNCHANGED <<port, pinned, proc, supVars, cancelled, killer, took, hosted, named>>

------------------------------------------------------------------------------
(* The threads that cancel a run or stop a hosted agent.                   *)

\* cancel_run marks the run and goes on to kill_run.
Cancel(r) ==
    /\ pc[r] # "over" /\ killer[r] = "off" /\ MayKill
    /\ cancelled' = cancelled \cup {r}
    /\ killer' = [killer EXCEPT ![r] = "list"]
    /\ UNCHANGED <<poolVars, pc, proc, supVars, took, hosted, named>>

\* kill_run takes its copy of the keys.
KillRun(r) ==
    /\ killer[r] = "list"
    /\ killer' = [killer EXCEPT ![r] = IF r \in processes THEN "take" ELSE "done"]
    /\ UNCHANGED <<poolVars, pc, proc, supVars, cancelled, took, hosted, named>>

\* Mutation of Stop: the agent stays in the table.
StopKeeps(h) ==
    /\ h \in hosted /\ killer[h] = "off" /\ MayKill
    /\ killer' = [killer EXCEPT ![h] = "take"]
    /\ UNCHANGED <<poolVars, pc, proc, supVars, cancelled, took, hosted, named>>

\* DELETE /hosted-agents/{id}: out of the table, then kill.
Stop(h) ==
    /\ h \in hosted /\ MayKill
    /\ hosted' = hosted \ {h}
    /\ killer' = [killer EXCEPT ![h] = "take"]
    /\ UNCHANGED <<poolVars, pc, proc, supVars, cancelled, took, named>>

ThreadTakes(j) ==
    /\ killer[j] = "take"
    /\ killer' = [killer EXCEPT ![j] = "wait"]
    /\ took' = took \cup ({j} \cap processes)
    /\ KillTake(j)
    /\ UNCHANGED <<poolVars, pc, proc, cancelled, hosted, named>>

\* Mutation of ThreadReaps: the token is dropped once the process is gone.
ThreadReapsAndDrops(j) ==
    /\ killer[j] = "wait"
    /\ killer' = [killer EXCEPT ![j] = IF j \in Hosts THEN "release" ELSE "done"]
    /\ took' = took \ {j}
    /\ admin_tokens' = Without(admin_tokens, port[j])
    /\ IF j \in took THEN Reap(j) ELSE UNCHANGED proc
    /\ UNCHANGED <<poolVars, pc, processes, agents, stale, cancelled, hosted, named>>

\* The process the thread has is gone.
ThreadReaps(j) ==
    /\ killer[j] = "wait"
    /\ killer' = [killer EXCEPT ![j] = IF j \in Hosts THEN "release" ELSE "done"]
    /\ took' = took \ {j}
    /\ IF j \in took THEN Reap(j) ELSE UNCHANGED proc
    /\ UNCHANGED <<poolVars, pc, supVars, cancelled, hosted, named>>

\* stop releases the hosted agent's port.
StopRelease(h) ==
    /\ killer[h] = "release"
    /\ killer' = [killer EXCEPT ![h] = "done"]
    /\ pool' = [pool EXCEPT !.hosted = release(@, port[h])]
    /\ Goto(h, "over")
    /\ UNCHANGED <<port, pinned, proc, supVars, cancelled, took, hosted, named>>

------------------------------------------------------------------------------
(* Hosted agents.                                                          *)

\* POST /hosted-agents: a port of the manager's pool, or the one asked for.
Host(h, pin) ==
    LET a == allocate(pool.hosted, Start.hosted, 0)
        n == IF pin = None THEN a.port ELSE pin
    IN  /\ pc[h] = "new" /\ LoopFree
        /\ pool' = IF pin = None THEN [pool EXCEPT !.hosted = a.pool] ELSE pool
        /\ pinned' = pinned \cup ({pin} \ {None})
        /\ port' = [port EXCEPT ![h] = n]
        /\ launch(h, n)
        /\ Goto(h, "launching")
        /\ UNCHANGED <<cancelled, killer, took, hosted, named>>

\* The manifest, the bootstrap file or the adapter raises before the launch: the
\* port is released, pinned or not.
HostUnprepared(h, pin) ==
    LET a == allocate(pool.hosted, Start.hosted, 0)
    IN  /\ pc[h] = "new" /\ LoopFree
        /\ pool' = [pool EXCEPT !.hosted =
                       IF pin = None THEN release(a.pool, a.port) ELSE release(@, pin)]
        /\ pinned' = pinned \cup ({pin} \ {None})
        /\ Goto(h, "over")
        /\ UNCHANGED <<port, proc, supVars, cancelled, killer, took, hosted, named>>

HostReady(h) ==
    /\ AgentReady(h) /\ Goto(h, "up")
    /\ hosted' = hosted \cup {h}
    /\ UNCHANGED <<poolVars, supVars, cancelled, killer, took, named>>

\* The launch raises: the port is released, pinned or not; the tables keep
\* what launch put there.
HostFails(h) ==
    /\ AgentFails(h) /\ Goto(h, "over")
    /\ pool' = [pool EXCEPT !.hosted = release(@, port[h])]
    /\ UNCHANGED <<port, pinned, supVars, cancelled, killer, took, hosted, named>>

\* trust-peer, resolve-and-handshake or invoke looks its agent up, then awaits.
LookUp(h) ==
    /\ named = None /\ h \in hosted
    /\ named' = h
    /\ UNCHANGED <<poolVars, pc, proc, supVars, cancelled, killer, took, hosted>>

\* Who answers a call to the port n with the token kept for it.
Reached(n) ==
    {j \in Owner : /\ proc[j] = "up" /\ port[j] = n
                   /\ n \in DOMAIN admin_tokens /\ admin_tokens[n] = j}

\* It calls the port it read, whoever listens there by now.
Dial ==
    /\ named # None /\ LoopFree
    /\ named' = None
    /\ UNCHANGED <<poolVars, pc, proc, supVars, cancelled, killer, took, hosted>>

------------------------------------------------------------------------------
EmptyPool(start) == [next |-> start, free |-> <<>>, in_use |-> {}]

Init ==
    /\ pool = [run |-> EmptyPool(Start.run), hosted |-> EmptyPool(Start.hosted)]
    /\ pc = [j \in Owner |-> "new"] /\ port = [j \in Owner |-> None] /\ pinned = {}
    /\ proc = [j \in Owner |-> "none"]
    /\ processes = {} /\ agents = {} /\ admin_tokens = [p \in {} |-> None] /\ stale = {}
    /\ cancelled = {} /\ killer = [j \in Owner |-> "off"] /\ took = {}
    /\ hosted = {} /\ named = None

RunStep(r) ==
    \/ \E offset \in Offsets : AllocatePorts(r, offset)
    \/ Spawn(r) \/ RunReady(r) \/ RunLaunchFails(r) \/ StepsEnd(r)
    \/ CleanupKill(r) \/ CleanupRelease(r)
    \/ Cancel(r) \/ KillRun(r)

HostStep(h) ==
    \/ \E pin \in Pins \cup {None} : Host(h, pin) \/ HostUnprepared(h, pin)
    \/ HostReady(h) \/ HostFails(h) \/ Stop(h) \/ StopRelease(h) \/ LookUp(h)

Next ==
    \/ \E r \in Runs : RunStep(r)
    \/ \E h \in Hosts : HostStep(h)
    \/ \E j \in Owner : ThreadTakes(j) \/ ThreadReaps(j) \/ Exits(j) \/ Dies(j)
    \/ Dial

Spec == Init /\ [][Next]_vars

------------------------------------------------------------------------------
(* Properties.                                                             *)

\* j has a port of a pool and has not given it back.
Owns(j) ==
    /\ port[j] \notin pinned \cup {None}
    /\ pc[j] \notin {"new", "over", "kill1", "release1"}

\* A port is never handed out to two of its pool at once, whatever was released
\* twice, recycled or asked for by its offset (PortAllocator; the except and
\* finally clauses of a run).
NoSharedPort ==
    \A j, k \in Owner : j # k /\ Owns(j) /\ Owns(k) => port[j] # port[k]

\* An agent is not started on a port where a process listens that nobody has
\* ended: a port given back had its owner's process waited for or sent SIGKILL,
\* unless a cancel took that process away from the run's own cleanup and is still
\* waiting for it, or the port was pinned (kill, _cleanup_run, host).
PortIsGivenUpAtLaunch ==
    \A j, k \in Owner :
        proc[j] = "starting" /\ proc[k] = "up" /\ port[j] = port[k]
            => k \in took \/ port[j] \in pinned

\* The service keeps the admin token of an agent that is up and not being killed,
\* so its calls are not refused; unless a late kill of an earlier owner of the
\* port dropped it, or the port was pinned (launch, kill).
TokensKept ==
    \A j \in processes : proc[j] = "up" /\ port[j] \notin stale \cup pinned =>
        port[j] \in DOMAIN admin_tokens /\ admin_tokens[port[j]] = j

\* A request to a hosted agent reaches another one only if the one it names was
\* stopped after it was looked up, or had exited by itself and its port was pinned:
\* a port of the pool is not handed out again while its agent is hosted, whether it
\* runs or not (mgr.get before the await, hosted.port after; host, stop).
MisdirectedOnlyIfGone ==
    [][Dial => \/ Reached(port[named]) \subseteq {named}
               \/ named \notin hosted
               \/ proc[named] = "dead" /\ port[named] \in pinned]_vars

==============================================================================
