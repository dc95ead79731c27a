------------------------------ MODULE Runtimes ------------------------------
(***************************************************************************)
(* The long-lived Xray processes (xray/runtime.rs, xray/mod.rs), their     *)
(* ports, the main_port column the client endpoints read, the VIP and the  *)
(* process around them (main.rs, app.rs): start, serve, stop, be killed.   *)
(*                                                                         *)
(* A session is an Xray process with the port it listens on; a port is     *)
(* reserved as long as its session is held by somebody (PortReservation).  *)
(* Stopping a session waits until the process is reaped, dropping it kills *)
(* it: either way process and port go with the session.                    *)
(*                                                                         *)
(* Nobody watches the processes.  One that ends by itself leaves its       *)
(* session, map entry, port and column behind.  The leftovers of a killed  *)
(* service are sent a SIGTERM when it starts again and are not waited for. *)
(***************************************************************************)
EXTENDS Integers, FiniteSets

CONSTANTS
  Nodes,        \* the proxies
  NoNode,       \* stands for no proxy
  MainPorts,    \* ports.main
  VipPort,      \* vip_port.port
  Cap,          \* health.max_active_runtimes
  Callers,      \* who calls ensure: the scheduler task
  Stops,        \* bound: how often the process stops
  Linger,       \* bound: how many orphans outlive the start of the next process
  Losses        \* bound: no process ends by itself after so many that did, or stops

ASSUME RuntimesConstants ==
  /\ NoNode \notin Nodes /\ IsFiniteSet(Nodes)
  /\ MainPorts \subseteq Nat \ {0} /\ VipPort \in Nat \ ({0} \cup MainPorts)
  /\ Cap \in Nat \ {0}
  /\ Callers # {} /\ Stops \in Nat /\ Linger \in Nat /\ Losses \in Nat

NoPort == 0     \* NULL

VARIABLES
  service,      \* down, starting (up to the end of reconciliation), serving, stopping
  active,       \* the ACTIVE, valid, leased rows
  column,       \* nodes.main_port
  procs,        \* the Xray processes that run, each with its port
  orphans,      \* ports of processes a killed service left, sent a SIGTERM and still there
  exited,       \* ports of sessions whose process has ended by itself
  inner,        \* RuntimeManager: the port of each runtime
  starting,     \*   the nodes with a start in flight
  call,         \* where each call of ensure is
  todo,         \* candidates reconciliation has not come to
  vip,          \* RuntimeManager: the node on the VIP port
  swap,         \* where maintain_vip is
  stops

memory == <<inner, starting, call, todo, vip, swap>>
fate == <<orphans, exited>>
vars == <<service, active, column, procs, fate, memory, stops>>

Idle == [at |-> "idle", node |-> NoNode, port |-> NoPort]
Calls == [at : {"idle", "reserve", "start", "insert", "column"},
          node : Nodes \cup {NoNode}, port : MainPorts \cup {NoPort}]
NoSwap == [at |-> "idle", new |-> NoNode, old |-> NoNode]
Swaps == [at : {"idle", "preflight", "switch", "recover"},
          new : Nodes \cup {NoNode}, old : Nodes \cup {NoNode}]
Ports == MainPorts \cup {VipPort}
Processes == [node : Nodes, port : Ports]

Process(n, port) == [node |-> n, port |-> port]

TypeOK ==
  /\ service \in {"down", "starting", "serving", "stopping"}
  /\ active \subseteq Nodes
  /\ column \in [Nodes -> MainPorts \cup {NoPort}]
  /\ procs \subseteq Processes /\ orphans \cup exited \subseteq Ports
  /\ inner \in [Nodes -> MainPorts \cup {NoPort}]
  /\ starting \subseteq Nodes /\ todo \subseteq Nodes
  /\ call \in [Callers -> Calls]
  /\ vip \in Nodes \cup {NoNode} /\ swap \in Swaps
  /\ stops \in 0 .. Stops

\* The keys of the map.
Running == {n \in Nodes : inner[n] # NoPort}

\* PORT_RESERVATIONS
Reserved ==
  ({inner[n] : n \in Nodes} \cup {call[c].port : c \in Callers}) \ {NoPort}

\* The kernel refuses a bind to what another process listens on.
PortsOf(ps) == {p.port : p \in ps}
Listening(port) == port \in PortsOf(procs) \cup orphans

\* Memory that the process has when it starts.
Fresh ==
  /\ inner' = [n \in Nodes |-> NoPort]
  /\ starting' = {} /\ todo' = {}
  /\ call' = [c \in Callers |-> Idle]
  /\ vip' = NoNode /\ swap' = NoSwap
  /\ exited' = {}

NoColumn == [n \in Nodes |-> NoPort]

Init ==
  /\ service = "down" /\ active \in SUBSET Nodes
  /\ column = NoColumn /\ procs = {} /\ orphans = {} /\ exited = {}
  /\ inner = NoColumn /\ starting = {} /\ todo = {}
  /\ call = [c \in Callers |-> Idle]
  /\ vip = NoNode /\ swap = NoSwap /\ stops = 0
-----------------------------------------------------------------------------
\* Who is told to end does, at once, later or, if it ignores the signal, not at all.
Lingering ==
  {ports \in SUBSET (orphans \cup PortsOf(procs)) : Cardinality(ports) <= Linger}

\* Mutant of Boot: the stored ports are believed.
BootTrusting ==
  /\ service = "down"
  /\ service' = "starting"
  /\ procs' = {} /\ orphans' \in Lingering /\ exited' = {}
  /\ todo' = active
  /\ UNCHANGED <<active, column, inner, starting, call, vip, swap, stops>>

\* main up to reconcile_active_runtimes: leftovers of an earlier process are
\* told to end, stored ports forgotten, candidates read.
Boot ==
  /\ service = "down"
  /\ service' = "starting"
  /\ procs' = {} /\ orphans' \in Lingering /\ exited' = {}
  /\ column' = NoColumn
  /\ todo' = active
  /\ UNCHANGED <<active, inner, starting, call, vip, swap, stops>>

OrphanEnds(port) ==
  /\ port \in orphans
  /\ orphans' = orphans \ {port}
  /\ UNCHANGED <<service, active, column, procs, exited, memory, stops>>

\* An Xray process ends by itself: nothing else takes notice.
Exits(p) ==
  /\ service # "down" /\ p \in procs /\ Cardinality(exited) + stops < Losses
  /\ procs' = procs \ {p} /\ exited' = exited \cup {p.port}
  /\ UNCHANGED <<service, active, column, orphans, memory, stops>>

\* Reconciliation is over, the listener is bound, the tasks are spawned.
Serve ==
  /\ service = "starting" /\ todo = {} /\ \A c \in Callers : call[c] = Idle
  /\ service' = "serving"
  /\ UNCHANGED <<active, column, procs, fate, memory, stops>>

\* Verdicts and leases change the rows at any time.
RowsChange(n) ==
  /\ active' \in {active \cup {n}, active \ {n}} \ {active}
  /\ UNCHANGED <<service, column, procs, fate, memory, stops>>
-----------------------------------------------------------------------------
\* ensure, first look at the map: a node that has a runtime keeps it.
Begins(c, n) ==
  /\ call[c] = Idle
  /\ call' = [call EXCEPT ![c] =
                IF n \in Running THEN Idle ELSE [Idle EXCEPT !.at = "reserve", !.node = n]]

\* Reconciliation calls for the next candidate, all by itself ...
Reconcile(c, n) ==
  /\ service = "starting" /\ n \in todo
  /\ \A d \in Callers : call[d] = Idle
  /\ Begins(c, n)
  /\ todo' = todo \ {n}
  /\ UNCHANGED <<service, active, column, procs, fate, inner, starting, vip, swap, stops>>

\* ... and the scheduler for a node that has just completed a download; the
\* batch in hand is also finished while the process stops.
Ensure(c, n) ==
  /\ service \in {"serving", "stopping"}
  /\ n \notin Running
  /\ Begins(c, n)
  /\ UNCHANGED <<service, active, column, procs, fate, inner, starting, todo, vip, swap, stops>>

\* Mutant of Full: starts in flight are not counted.
FullOfRunning == Cardinality(Running) > Cap

Full == Cardinality(Running) + Cardinality(starting) >= Cap

\* The cap also ends reconciliation.
Refuse(c) ==
  /\ call[c].at = "reserve"
  /\ call[c].node \in starting \/ Full
  /\ call' = [call EXCEPT ![c] = Idle]
  /\ todo' = IF call[c].node \in starting THEN todo ELSE {}
  /\ UNCHANGED <<service, active, column, procs, fate, inner, starting, vip, swap, stops>>

Reserve(c) ==
  /\ call[c].at = "reserve"
  /\ call[c].node \notin starting /\ ~Full
  /\ starting' = starting \cup {call[c].node}
  /\ call' = [call EXCEPT ![c].at = "start"]
  /\ UNCHANGED <<service, active, column, procs, fate, inner, todo, vip, swap, stops>>

\* allocate_port takes the first port it may have.
Free == {port \in MainPorts : port \notin Reserved /\ ~Listening(port)}

\* The session is started there, and the node is no longer "starting".
Start(c, port) ==
  /\ call[c].at = "start"
  /\ port \in Free /\ \A other \in Free : port <= other
  /\ procs' = procs \cup {Process(call[c].node, port)}
  /\ exited' = exited \ {port}
  /\ starting' = starting \ {call[c].node}
  /\ call' = [call EXCEPT ![c].at = "insert", ![c].port = port]
  /\ UNCHANGED <<service, active, column, orphans, inner, todo, vip, swap, stops>>

\* No port, no process, or no answer within 3 s: the process is reaped.
StartFails(c) ==
  /\ call[c].at = "start"
  /\ starting' = starting \ {call[c].node}
  /\ call' = [call EXCEPT ![c] = Idle]
  /\ UNCHANGED <<service, active, column, procs, fate, inner, todo, vip, swap, stops>>

\* Another call may have been faster: the session is then redundant.
Insert(c) ==
  LET n == call[c].node
      port == call[c].port
  IN /\ call[c].at = "insert"
     /\ IF n \in Running
        THEN /\ procs' = procs \ {Process(n, port)}
             /\ call' = [call EXCEPT ![c] = Idle]
             /\ UNCHANGED inner
        ELSE /\ inner' = [inner EXCEPT ![n] = port]
             /\ call' = [call EXCEPT ![c].at = "column"]
             /\ UNCHANGED procs
     /\ UNCHANGED <<service, active, column, fate, starting, todo, vip, swap, stops>>

\* Mutant of SetColumn: the port of the VIP is stored.
SetColumnOfVip(c) ==
  /\ call[c].at = "column"
  /\ column' = [column EXCEPT ![call[c].node] = VipPort]
  /\ call' = [call EXCEPT ![c] = Idle]
  /\ UNCHANGED <<service, active, procs, fate, inner, starting, todo, vip, swap, stops>>

\* set_main_port, which may find the database locked.
SetColumn(c) ==
  /\ call[c].at = "column"
  /\ column' \in {column, [column EXCEPT ![call[c].node] = call[c].port]}
  /\ call' = [call EXCEPT ![c] = Idle]
  /\ UNCHANGED <<service, active, procs, fate, inner, starting, todo, vip, swap, stops>>
-----------------------------------------------------------------------------
\* best_vip_candidate looks at the rows alone.
Candidates == {n \in active : column[n] # NoPort}

\* maintain_vip: no VIP, or another node is better by the margin for long enough.
VipTick(n) ==
  /\ service = "serving" /\ swap = NoSwap
  /\ n \in Candidates \ {vip}
  /\ swap' = [NoSwap EXCEPT !.at = "preflight", !.new = n]
  /\ UNCHANGED <<service, active, column, procs, fate, inner, starting, call, todo, vip, stops>>

\* The candidate has no port to be tried on, or does not start there.
PreflightFails ==
  /\ swap.at = "preflight"
  /\ swap' = NoSwap
  /\ UNCHANGED <<service, active, column, procs, fate, inner, starting, call, todo, vip, stops>>

\* Mutant of Preflight: the VIP is taken down and not forgotten.
PreflightInPlace ==
  /\ swap.at = "preflight"
  /\ swap' = [swap EXCEPT !.at = "switch", !.old = vip]
  /\ procs' = {p \in procs : p.port # VipPort}
  /\ UNCHANGED <<service, active, column, fate, inner, starting, call, todo, vip, stops>>

\* It starts: the VIP in place is taken down.
Preflight ==
  /\ swap.at = "preflight"
  /\ swap' = [swap EXCEPT !.at = "switch", !.old = vip]
  /\ vip' = NoNode
  /\ procs' = {p \in procs : p.port # VipPort}
  /\ UNCHANGED <<service, active, column, fate, inner, starting, call, todo, stops>>

\* The start is over as soon as the port answers.  An orphan on it answers too:
\* the new process then ends for want of its port, after it was taken for ready.
OnVip(n) ==
  /\ IF Listening(VipPort)
     THEN exited' = exited \cup {VipPort} /\ UNCHANGED procs
     ELSE /\ exited' = exited \ {VipPort}
          /\ procs' = procs \cup {Process(n, VipPort)}
  /\ vip' = n /\ swap' = NoSwap
  /\ UNCHANGED <<service, active, column, orphans, inner, starting, call, todo, stops>>

Switch == swap.at = "switch" /\ OnVip(swap.new)

SwitchFails ==
  /\ swap.at = "switch"
  /\ swap' = IF swap.old = NoNode THEN NoSwap ELSE [swap EXCEPT !.at = "recover"]
  /\ UNCHANGED <<service, active, column, procs, fate, inner, starting, call, todo, vip, stops>>

\* The old one again, with the best effort.
Recover == swap.at = "recover" /\ OnVip(swap.old)

RecoverFails ==
  /\ swap.at = "recover"
  /\ swap' = NoSwap
  /\ UNCHANGED <<service, active, column, procs, fate, inner, starting, call, todo, vip, stops>>
-----------------------------------------------------------------------------
\* SIGTERM: the token is cancelled, tasks finish what they are at.
StopAsked ==
  /\ service = "serving" /\ stops < Stops
  /\ service' = "stopping"
  /\ UNCHANGED <<active, column, procs, fate, memory, stops>>

\* After 45 s a task is aborted; a session it holds is dropped.
AbortCall(c) ==
  /\ service = "stopping" /\ call[c] # Idle
  /\ procs' = IF call[c].at = "insert"
              THEN procs \ {Process(call[c].node, call[c].port)} ELSE procs
  /\ call' = [call EXCEPT ![c] = Idle]
  /\ UNCHANGED <<service, active, column, fate, inner, starting, todo, vip, swap, stops>>

AbortSwap ==
  /\ service = "stopping" /\ swap # NoSwap
  /\ swap' = NoSwap
  /\ UNCHANGED <<service, active, column, procs, fate, inner, starting, call, todo, vip, stops>>

\* Sessions in hand: of the map, of the calls, of the VIP.
Held ==
  {Process(n, inner[n]) : n \in Running}
    \cup {Process(call[c].node, call[c].port) : c \in {d \in Callers : call[d].at = "insert"}}
    \cup {Process(n, VipPort) : n \in {vip} \ {NoNode}}

\* RuntimeManager::shutdown; a port that cannot be cleared stays in its column.
Shutdown ==
  /\ service = "stopping" /\ swap = NoSwap /\ \A c \in Callers : call[c] = Idle
  /\ stops < Stops /\ stops' = stops + 1
  /\ service' = "down"
  /\ procs' = procs \ Held
  /\ \E kept \in SUBSET Running :
        column' = [n \in Nodes |-> IF n \in Running \ kept THEN NoPort ELSE column[n]]
  /\ Fresh
  /\ UNCHANGED <<active, orphans>>

\* The listener cannot be bound: main returns, and drops all it holds.
StartupFails ==
  /\ service = "starting" /\ \A c \in Callers : call[c] = Idle
  /\ stops < Stops /\ stops' = stops + 1
  /\ service' = "down"
  /\ procs' = procs \ Held
  /\ Fresh
  /\ UNCHANGED <<active, column, orphans>>

\* Killed: the Xray processes are in groups of their own and live on, unless
\* they share a container that goes too.
Crash ==
  /\ service # "down"
  /\ stops < Stops /\ stops' = stops + 1
  /\ service' = "down"
  /\ \/ UNCHANGED <<procs, orphans>>
     \/ procs' = {} /\ orphans' = {}
  /\ Fresh
  /\ UNCHANGED <<active, column>>
-----------------------------------------------------------------------------
CallSteps(c) ==
  \/ \E n \in Nodes : Reconcile(c, n)
  \/ \E n \in Nodes : Ensure(c, n)
  \/ Refuse(c) \/ Reserve(c)
  \/ \E port \in MainPorts : Start(c, port)
  \/ StartFails(c) \/ Insert(c) \/ SetColumn(c)

VipSteps ==
  \/ \E n \in Nodes : VipTick(n)
  \/ PreflightFails \/ Preflight
  \/ Switch \/ SwitchFails \/ Recover \/ RecoverFails

LifeSteps ==
  \/ Boot \/ Serve \/ StopAsked
  \/ \E p \in Processes : Exits(p)
  \/ \E port \in Ports : OrphanEnds(port)
  \/ \E c \in Callers : AbortCall(c)
  \/ AbortSwap \/ Shutdown \/ StartupFails \/ Crash

Next ==
  \/ \E n \in Nodes : RowsChange(n)
  \/ \E c \in Callers : CallSteps(c)
  \/ VipSteps
  \/ LifeSteps

Spec == Init /\ [][Next]_vars

\* Started again when it is down; calls and switches end; an ACTIVE node is
\* downloaded through again and again, and what is tried for ever succeeds.
FairSpec ==
  /\ Spec
  /\ WF_vars(Boot \/ Serve) /\ WF_vars(VipSteps)
  /\ \A c \in Callers :
        /\ WF_vars(Reserve(c) \/ Refuse(c) \/ StartFails(c) \/ Insert(c) \/ SetColumn(c))
        /\ WF_vars(\E n \in Nodes : Reconcile(c, n))
        /\ SF_vars(\E port \in MainPorts : Start(c, port))
  /\ \A n \in Nodes : SF_vars(n \in active /\ \E c \in Callers : Ensure(c, n))
  /\ SF_vars(vip = NoNode /\ \E n \in Nodes : VipTick(n))
  /\ SF_vars(Preflight) /\ SF_vars(Switch)
-----------------------------------------------------------------------------
\* A port that /best hands out leads through the proxy it is given for, or
\* nowhere.  It is the port of a runtime of that very node in the map, not one
\* that an earlier process has left in the column, not one of a start that failed
\* or turned out redundant; that runtime runs unless its own process has ended
\* by itself; and even then nobody else's Xray listens there (storage 1048,
\* runtime.rs 55, PortReservation).
ColumnIsHonest ==
  service = "serving" =>
    \A n \in Nodes : column[n] # NoPort =>
      /\ inner[n] = column[n]
      /\ Process(n, column[n]) \in procs \/ column[n] \in exited
      /\ \A p \in procs : p.port = column[n] => p.node = n
      /\ column[n] \notin orphans

\* Every Xray process has an owner that will stop it, through failed starts,
\* switches, aborted tasks and restarts, unless it belongs to a killed service
\* and has had its SIGTERM (xray/mod.rs 124, runtime.rs 117).
NoStrays == service # "down" => procs \subseteq Held

\* Columns, map and processes agree: no port that leads through another proxy,
\* and no process that nobody will stop.
ProcessesAreAccounted == ColumnIsHonest /\ NoStrays

\* "concurrent requests cannot overshoot the configured long-lived Xray
\* process cap" (runtime.rs 34); orphans that linger come on top.
CapHolds ==
  service # "down" => Cardinality({p \in procs : p.port \in MainPorts}) <= Cap

\* The process on the VIP port is that of the VIP.
VipServes == vip # NoNode /\ Process(vip, VipPort) \in procs

\* However many starts, switches and recoveries fail, and whenever the process
\* is restarted, the VIP is taken up again as long as there is a candidate, and
\* an ACTIVE node gets a runtime unless the cap is reached or orphans hold every
\* port left.  Not so a VIP whose own process has ended by itself: maintain_vip
\* is satisfied with the node (runtime.rs 161).
ProxiesReturn ==
  /\ []<>(\/ service # "serving" \/ Candidates = {} \/ VipServes
          \/ vip # NoNode /\ VipPort \in exited)
  /\ \A n \in Nodes :
       []<>(service # "serving" \/ n \notin active \/ n \in Running \/ Full \/ Free = {})

\* It would be so for every VIP if somebody looked after its process (violated).
VipReturns == []<>(service # "serving" \/ Candidates = {} \/ VipServes)
=============================================================================
