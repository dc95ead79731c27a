-------------------------- MODULE Runtimes_proofs ---------------------------
(***************************************************************************)
(* Theorems about module Runtimes, for any nodes, ports and cap, and any   *)
(* number of stops and kills.  That ports, processes and owners agree is   *)
(* proved for any number of callers of ensure; that the cap holds, for the *)
(* one caller there is.                                                    *)
(***************************************************************************)
EXTENDS Runtimes, FiniteSetTheorems, TLAPS

(***************************************************************************)
(* Types, with what a call and a switch know at each of their steps.       *)
(***************************************************************************)
CallsInProgress ==
  {q \in Calls : /\ q.at # "idle" => q.node \in Nodes
                 /\ q.at \in {"insert", "column"} <=> q.port # NoPort}

SwapsInProgress ==
  {s \in Swaps : /\ s.at # "idle" => s.new \in Nodes
                 /\ s.at = "recover" => s.old \in Nodes}

Shapes == call \in [Callers -> CallsInProgress] /\ swap \in SwapsInProgress

LEMMA CallForms ==
  /\ Idle \in CallsInProgress
  /\ \A n \in Nodes : [Idle EXCEPT !.at = "reserve", !.node = n] \in CallsInProgress
  /\ \A q \in CallsInProgress :
       /\ q.at = "reserve" => [q EXCEPT !.at = "start"] \in CallsInProgress
       /\ q.at = "start" => \A port \in MainPorts :
                              [q EXCEPT !.at = "insert", !.port = port] \in CallsInProgress
       /\ q.at = "insert" => [q EXCEPT !.at = "column"] \in CallsInProgress
<1>1. \A port \in MainPorts : port # NoPort
  BY RuntimesConstants DEF NoPort
<1>2. Idle \in CallsInProgress
  BY DEF Idle, CallsInProgress, Calls
<1>3. \A n \in Nodes : [Idle EXCEPT !.at = "reserve", !.node = n] \in CallsInProgress
  BY DEF Idle, CallsInProgress, Calls
<1>4. ASSUME NEW q \in CallsInProgress, q.at = "reserve"
      PROVE  [q EXCEPT !.at = "start"] \in CallsInProgress
  BY <1>4 DEF CallsInProgress, Calls
<1>5. ASSUME NEW q \in CallsInProgress, q.at = "start", NEW port \in MainPorts
      PROVE  [q EXCEPT !.at = "insert", !.port = port] \in CallsInProgress
  BY <1>1, <1>5 DEF CallsInProgress, Calls
<1>6. ASSUME NEW q \in CallsInProgress, q.at = "insert"
      PROVE  [q EXCEPT !.at = "column"] \in CallsInProgress
  BY <1>6 DEF CallsInProgress, Calls
<1>. QED
  BY <1>2, <1>3, <1>4, <1>5, <1>6

LEMMA SwapForms ==
  /\ NoSwap \in SwapsInProgress
  /\ \A n \in Nodes : [NoSwap EXCEPT !.at = "preflight", !.new = n] \in SwapsInProgress
  /\ \A s \in SwapsInProgress :
       /\ s.at = "preflight" => \A n \in Nodes \cup {NoNode} :
                                  [s EXCEPT !.at = "switch", !.old = n] \in SwapsInProgress
       /\ s.at = "switch" /\ s.old # NoNode => [s EXCEPT !.at = "recover"] \in SwapsInProgress
<1>1. NoSwap \in SwapsInProgress
  BY DEF NoSwap, SwapsInProgress, Swaps
<1>2. \A n \in Nodes : [NoSwap EXCEPT !.at = "preflight", !.new = n] \in SwapsInProgress
  BY DEF NoSwap, SwapsInProgress, Swaps
<1>3. ASSUME NEW s \in SwapsInProgress, s.at = "preflight", NEW n \in Nodes \cup {NoNode}
      PROVE  [s EXCEPT !.at = "switch", !.old = n] \in SwapsInProgress
  BY <1>3 DEF SwapsInProgress, Swaps
<1>4. ASSUME NEW s \in SwapsInProgress, s.at = "switch", s.old # NoNode
      PROVE  [s EXCEPT !.at = "recover"] \in SwapsInProgress
  BY <1>4 DEF SwapsInProgress, Swaps
<1>. QED
  BY <1>1, <1>2, <1>3, <1>4

\* The rest of TypeOK.
Others ==
  /\ service \in {"down", "starting", "serving", "stopping"}
  /\ active \subseteq Nodes
  /\ column \in [Nodes -> MainPorts \cup {NoPort}]
  /\ procs \subseteq Processes /\ orphans \cup exited \subseteq Ports
  /\ inner \in [Nodes -> MainPorts \cup {NoPort}]
  /\ starting \subseteq Nodes /\ todo \subseteq Nodes
  /\ vip \in Nodes \cup {NoNode}
  /\ stops \in 0 .. Stops

Typed == Others /\ Shapes

LEMMA TypedIsTypeOK == Typed => TypeOK
<1>1. CallsInProgress \subseteq Calls /\ SwapsInProgress \subseteq Swaps
  BY DEF CallsInProgress, SwapsInProgress
<1>. QED
  BY <1>1 DEF Typed, Others, Shapes, TypeOK

LEMMA InitTyped == Init => Typed
<1>. SUFFICES ASSUME Init PROVE Typed
  OBVIOUS
<1>1. /\ column \in [Nodes -> MainPorts \cup {NoPort}]
      /\ inner \in [Nodes -> MainPorts \cup {NoPort}]
  BY DEF Init, NoColumn
<1>2. Shapes
  BY CallForms, SwapForms DEF Init, Shapes
<1>. QED
  BY <1>1, <1>2, RuntimesConstants DEF Init, Typed, Others

\* Only one call changes, and the VIP does not.
LEMMA CallStepShapes ==
  ASSUME Typed, NEW c \in Callers, NEW q \in CallsInProgress,
         call' = [call EXCEPT ![c] = q], swap' = swap
  PROVE  Shapes'
BY DEF Typed, Shapes

LEMMA FreshTyped ==
  ASSUME Typed, Fresh, service' = "down", stops' \in 0 .. Stops, active' = active,
         column' \in [Nodes -> MainPorts \cup {NoPort}], procs' \subseteq procs,
         orphans' \subseteq orphans
  PROVE  Typed'
<1>1. /\ inner' \in [Nodes -> MainPorts \cup {NoPort}]
      /\ starting' \subseteq Nodes /\ todo' \subseteq Nodes /\ vip' \in Nodes \cup {NoNode}
      /\ exited' = {}
  BY DEF Fresh
<1>2. Shapes'
  BY CallForms, SwapForms DEF Fresh, Shapes
<1>. QED
  BY <1>1, <1>2 DEF Typed, Others

LEMMA Facts ==
  ASSUME Typed, NEW c \in Callers
  PROVE  /\ call[c] \in CallsInProgress
         /\ call[c].at # "idle" => call[c].node \in Nodes
         /\ call[c].port \in MainPorts \cup {NoPort}
         /\ call[c].at \in {"insert", "column"} <=> call[c].port # NoPort
BY DEF Typed, Shapes, CallsInProgress, Calls

LEMMA TypeStep == Typed /\ [Next]_vars => Typed'
<1>. SUFFICES ASSUME Typed, [Next]_vars PROVE Typed'
  OBVIOUS
<1>1. ASSUME NEW n \in Nodes, RowsChange(n) PROVE Typed'
  BY <1>1 DEF RowsChange, memory, fate, Typed, Others, Shapes
<1>2. CASE Boot
  <2>1. orphans' \cup exited' \subseteq Ports
    <3>1. \A p \in Processes : p.port \in Ports
      BY DEF Processes
    <3>. QED
      BY <1>2, <3>1 DEF Boot, Lingering, PortsOf, Typed, Others
  <2>. QED
    BY <1>2, <2>1 DEF Boot, NoColumn, Typed, Others, Shapes
<1>3. CASE Serve \/ StopAsked
  BY <1>3 DEF Serve, StopAsked, memory, fate, Typed, Others, Shapes
<1>4. ASSUME NEW c \in Callers, NEW n \in Nodes, Reconcile(c, n) \/ Ensure(c, n) PROVE Typed'
  <2>1. PICK q \in CallsInProgress : call' = [call EXCEPT ![c] = q]
    BY <1>4, CallForms DEF Reconcile, Ensure, Begins
  <2>2. Shapes'
    BY <1>4, <2>1, CallStepShapes DEF Reconcile, Ensure
  <2>. QED
    BY <1>4, <2>2 DEF Reconcile, Ensure, fate, Typed, Others
<1>5. ASSUME NEW c \in Callers, Refuse(c) \/ StartFails(c) PROVE Typed'
  <2>1. Shapes'
    BY <1>5, CallForms, CallStepShapes DEF Refuse, StartFails
  <2>. QED
    BY <1>5, <2>1 DEF Refuse, StartFails, fate, Typed, Others
<1>6. ASSUME NEW c \in Callers, Reserve(c) PROVE Typed'
  <2>1. Shapes'
    <3>1. call' = [call EXCEPT ![c] = [call[c] EXCEPT !.at = "start"]] /\ call[c].at = "reserve"
      BY <1>6 DEF Reserve, Typed, Shapes
    <3>2. [call[c] EXCEPT !.at = "start"] \in CallsInProgress
      BY <3>1, Facts, CallForms
    <3>. QED
      BY <1>6, <3>1, <3>2, CallStepShapes DEF Reserve
  <2>2. call[c].node \in Nodes
    BY <1>6, Facts DEF Reserve
  <2>. QED
    BY <1>6, <2>1, <2>2 DEF Reserve, fate, Typed, Others
<1>7. ASSUME NEW c \in Callers, NEW port \in MainPorts, Start(c, port) PROVE Typed'
  <2>1. Shapes'
    <3>1. /\ call' = [call EXCEPT ![c] = [call[c] EXCEPT !.at = "insert", !.port = port]]
          /\ call[c].at = "start"
      BY <1>7 DEF Start, Typed, Shapes
    <3>2. [call[c] EXCEPT !.at = "insert", !.port = port] \in CallsInProgress
      BY <3>1, Facts, CallForms
    <3>. QED
      BY <1>7, <3>1, <3>2, CallStepShapes DEF Start
  <2>2. Process(call[c].node, port) \in Processes
    BY <1>7, Facts DEF Start, Process, Processes, Ports
  <2>. QED
    BY <1>7, <2>1, <2>2 DEF Start, Typed, Others
<1>8. ASSUME NEW c \in Callers, Insert(c) PROVE Typed'
  <2>1. call[c].at = "insert" /\ call[c].node \in Nodes /\ call[c].port \in MainPorts
    BY <1>8, Facts DEF Insert
  <2>2. Shapes'
    <3>1. [call[c] EXCEPT !.at = "column"] \in CallsInProgress
      BY <2>1, Facts, CallForms
    <3>2. \/ call' = [call EXCEPT ![c] = Idle]
          \/ call' = [call EXCEPT ![c] = [call[c] EXCEPT !.at = "column"]]
      BY <1>8 DEF Insert, Typed, Shapes
    <3>. QED
      BY <1>8, <3>1, <3>2, CallForms, CallStepShapes DEF Insert
  <2>3. inner' \in [Nodes -> MainPorts \cup {NoPort}] /\ procs' \subseteq Processes
    BY <1>8, <2>1 DEF Insert, Typed, Others
  <2>. QED
    BY <1>8, <2>2, <2>3 DEF Insert, fate, Typed, Others
<1>9. ASSUME NEW c \in Callers, SetColumn(c) PROVE Typed'
  <2>1. Shapes'
    BY <1>9, CallForms, CallStepShapes DEF SetColumn
  <2>2. call[c].node \in Nodes /\ call[c].port \in MainPorts
    BY <1>9, Facts DEF SetColumn
  <2>3. column' \in [Nodes -> MainPorts \cup {NoPort}]
    BY <1>9, <2>2 DEF SetColumn, fate, Typed, Others
  <2>. QED
    BY <1>9, <2>1, <2>3 DEF SetColumn, fate, Typed, Others
<1>10. CASE VipSteps
  <2>1. ASSUME swap' \in SwapsInProgress, vip' \in Nodes \cup {NoNode}, procs' \subseteq Processes,
               exited' \subseteq Ports, orphans' = orphans,
               UNCHANGED << service, active, column, inner, starting, call, todo, stops >>
        PROVE  Typed'
    BY <2>1 DEF Typed, Others, Shapes
  <2>2. swap \in SwapsInProgress /\ vip \in Nodes \cup {NoNode} /\ procs \subseteq Processes
        /\ exited \subseteq Ports /\ VipPort \in Ports
    BY DEF Typed, Others, Shapes, Ports
  <2>3. ASSUME NEW n \in Nodes, VipTick(n) PROVE Typed'
    BY <2>1, <2>2, <2>3, SwapForms DEF VipTick, fate
  <2>4. CASE PreflightFails \/ RecoverFails
    BY <2>1, <2>2, <2>4, SwapForms DEF PreflightFails, RecoverFails, fate
  <2>5. CASE Preflight
    BY <2>1, <2>2, <2>5, SwapForms DEF Preflight, fate
  <2>6. ASSUME NEW n \in Nodes, OnVip(n) PROVE Typed'
    <3>1. Process(n, VipPort) \in Processes
      BY <2>2 DEF Process, Processes
    <3>. QED
      BY <2>1, <2>2, <2>6, <3>1, SwapForms DEF OnVip
  <2>7. CASE Switch \/ Recover
    <3>1. Switch => swap.new \in Nodes
      BY <2>2 DEF Switch, SwapsInProgress
    <3>2. Recover => swap.old \in Nodes
      BY <2>2 DEF Recover, SwapsInProgress
    <3>. QED
      BY <2>6, <2>7, <3>1, <3>2 DEF Switch, Recover
  <2>8. CASE SwitchFails
    BY <2>1, <2>2, <2>8, SwapForms DEF SwitchFails, fate
  <2>. QED
    BY <1>10, <2>3, <2>4, <2>5, <2>7, <2>8 DEF VipSteps
<1>11. ASSUME NEW c \in Callers, AbortCall(c) PROVE Typed'
  <2>1. Shapes'
    BY <1>11, CallForms, CallStepShapes DEF AbortCall
  <2>. QED
    BY <1>11, <2>1 DEF AbortCall, fate, Typed, Others
<1>12. CASE AbortSwap
  BY <1>12, SwapForms DEF AbortSwap, fate, Typed, Others, Shapes
<1>13. CASE Shutdown
  <2>1. stops' \in 0 .. Stops
    BY <1>13, RuntimesConstants DEF Shutdown, Typed, Others
  <2>2. column' \in [Nodes -> MainPorts \cup {NoPort}]
    BY <1>13 DEF Shutdown, Typed, Others
  <2>. QED
    BY <1>13, <2>1, <2>2, FreshTyped DEF Shutdown
<1>14. CASE StartupFails \/ Crash
  <2>1. stops' \in 0 .. Stops
    BY <1>14, RuntimesConstants DEF StartupFails, Crash, Typed, Others
  <2>2. column' \in [Nodes -> MainPorts \cup {NoPort}]
    BY <1>14 DEF StartupFails, Crash, Typed, Others
  <2>. QED
    BY <1>14, <2>1, <2>2, FreshTyped DEF StartupFails, Crash
<1>15. ASSUME NEW p \in Processes, Exits(p) PROVE Typed'
  <2>1. p.port \in Ports
    BY DEF Processes
  <2>. QED
    BY <1>15, <2>1 DEF Exits, memory, Typed, Others, Shapes
<1>16. ASSUME NEW port \in Ports, OrphanEnds(port) PROVE Typed'
  BY <1>16 DEF OrphanEnds, memory, Typed, Others, Shapes
<1>17. CASE UNCHANGED vars
  BY <1>17 DEF vars, memory, fate, Typed, Others, Shapes
<1>. QED
  BY <1>1, <1>2, <1>3, <1>4, <1>5, <1>6, <1>7, <1>8, <1>9, <1>10, <1>11, <1>12, <1>13,
     <1>14, <1>15, <1>16, <1>17 DEF Next, CallSteps, LifeSteps

\* The types of the runtime manager and of the columns that go with it.
THEOREM TypeCorrect == Spec => []TypeOK
<1>1. Init => Typed
  BY InitTyped
<1>2. Typed /\ [Next]_vars => Typed'
  BY TypeStep
<1>3. Typed => TypeOK
  BY TypedIsTypeOK
<1>. QED
  BY <1>1, <1>2, <1>3, PTL DEF Spec

(***************************************************************************)
(* Processes, ports and columns.  Every process has its owner; what an     *)
(* owner holds runs unless it has ended by itself; and the port of a       *)
(* session is nobody else's, so that a port in the column leads through no *)
(* other proxy and stopping a redundant session stops no other.            *)
(***************************************************************************)
InHand(c) == call[c].at = "insert"

Live ==
  /\ \A n \in Running : Process(n, inner[n]) \in procs \/ inner[n] \in exited
  /\ \A c \in Callers :
       InHand(c) => Process(call[c].node, call[c].port) \in procs \/ call[c].port \in exited

Distinct ==
  /\ \A m, n \in Running : inner[m] = inner[n] => m = n
  /\ \A c \in Callers : InHand(c) => \A n \in Nodes : inner[n] # call[c].port
  /\ \A c, d \in Callers : InHand(c) /\ InHand(d) /\ call[c].port = call[d].port => c = d

\* No session is on a port that an orphan still holds.
Apart ==
  /\ \A n \in Running : inner[n] \notin orphans
  /\ \A c \in Callers : InHand(c) => call[c].port \notin orphans

Columns ==
  /\ \A c \in Callers : call[c].at = "column" => inner[call[c].node] = call[c].port
  /\ \A n \in Nodes : column[n] # NoPort => inner[n] = column[n]

Ledger ==
  /\ service = "down" => /\ inner = NoColumn /\ vip = NoNode /\ swap = NoSwap
                         /\ \A c \in Callers : call[c] = Idle
  /\ service # "down" => procs \subseteq Held /\ Live /\ Distinct /\ Apart /\ Columns

\* No VIP is in place while one is being put there.
Switching == swap.at \in {"switch", "recover"} => vip = NoNode

LEMMA SwitchingStep == Switching /\ [Next]_vars => Switching'
<1>. SUFFICES ASSUME Switching, [Next]_vars PROVE Switching'
  OBVIOUS
<1>1. CASE UNCHANGED << vip, swap >>
  BY <1>1 DEF Switching
<1>2. CASE swap' = NoSwap
  BY <1>2 DEF Switching, NoSwap
<1>3. CASE Preflight
  BY <1>3 DEF Preflight, Switching
<1>4. CASE SwitchFails
  BY <1>4 DEF SwitchFails, Switching, NoSwap
<1>5. ASSUME NEW n \in Nodes, VipTick(n) PROVE Switching'
  BY <1>5 DEF VipTick, Switching, NoSwap
<1>6. ASSUME NEW c \in Callers, CallSteps(c) \/ AbortCall(c) PROVE UNCHANGED << vip, swap >>
  BY <1>6 DEF CallSteps, Reconcile, Ensure, Refuse, Reserve, Start, StartFails, Insert,
              SetColumn, AbortCall
<1>7. CASE \/ (\E n \in Nodes : RowsChange(n)) \/ Boot \/ Serve \/ StopAsked
           \/ (\E p \in Processes : Exits(p)) \/ (\E port \in Ports : OrphanEnds(port))
           \/ UNCHANGED vars
  <2>1. UNCHANGED << vip, swap >>
    BY <1>7 DEF RowsChange, Boot, Serve, StopAsked, Exits, OrphanEnds, vars, memory
  <2>. QED
    BY <1>1, <2>1
<1>8. CASE \/ PreflightFails \/ Switch \/ Recover \/ RecoverFails \/ AbortSwap
           \/ Shutdown \/ StartupFails \/ Crash
  <2>1. swap' = NoSwap
    BY <1>8 DEF PreflightFails, Switch, Recover, OnVip, RecoverFails, AbortSwap,
                Shutdown, StartupFails, Crash, Fresh
  <2>. QED
    BY <1>2, <2>1
<1>. QED
  BY <1>1, <1>3, <1>4, <1>5, <1>6, <1>7, <1>8 DEF Next, VipSteps, LifeSteps

LEMMA PortFacts ==
  /\ VipPort \notin MainPorts /\ NoPort \notin MainPorts
  /\ \A m, n, a, b : Process(m, a) = Process(n, b) <=> m = n /\ a = b
BY RuntimesConstants DEF NoPort, Process

LEMMA HeldIs ==
  ASSUME NEW p
  PROVE  p \in Held <=>
           \/ \E n \in Running : p = Process(n, inner[n])
           \/ \E c \in Callers : InHand(c) /\ p = Process(call[c].node, call[c].port)
           \/ vip # NoNode /\ p = Process(vip, VipPort)
BY DEF Held, InHand

\* Nothing changes hands: the calls that have no session in hand may move.
LEMMA Untouched ==
  ASSUME Typed, Ledger, service # "down", service' # "down",
         UNCHANGED << inner, vip, procs, column, exited >>, orphans' \subseteq orphans,
         \A c \in Callers : \/ call'[c] = call[c]
                            \/ call[c].at # "insert" /\ call'[c].at \notin {"insert", "column"}
  PROVE  Ledger'
<1>1. \A c \in Callers : InHand(c)' <=> InHand(c)
  BY DEF InHand
<1>2. \A c \in Callers : InHand(c) => call'[c] = call[c]
  BY DEF InHand
<1>3. Running' = Running
  BY DEF Running
<1>4. ASSUME NEW p, p \in Held PROVE p \in Held'
  <2>1. \/ \E n \in Running : p = Process(n, inner[n])
        \/ \E c \in Callers : InHand(c) /\ p = Process(call[c].node, call[c].port)
        \/ vip # NoNode /\ p = Process(vip, VipPort)
    BY <1>4, HeldIs
  <2>. QED
    BY <1>2, <1>3, <2>1 DEF Held, InHand
<1>5. procs' \subseteq Held'
  BY <1>4 DEF Ledger
<1>6. Live'
  BY <1>1, <1>2, <1>3 DEF Ledger, Live
<1>7. Distinct' /\ Apart'
  BY <1>1, <1>2, <1>3 DEF Ledger, Distinct, Apart
<1>8. Columns'
  BY DEF Ledger, Columns
<1>. QED
  BY <1>5, <1>6, <1>7, <1>8 DEF Ledger

LEMMA StopsHolding ==
  ASSUME Fresh, service' = "down"
  PROVE  Ledger'
BY DEF Fresh, Ledger, NoColumn

LEMMA StartKeeps ==
  ASSUME Typed, Ledger, NEW c \in Callers, NEW port \in MainPorts, Start(c, port)
  PROVE  Ledger'
<1>. DEFINE n == call[c].node
            p == Process(n, port)
<1>1. service # "down"
  BY DEF Start, Ledger, Idle
<1>2. /\ n \in Nodes /\ call[c].at = "start"
      /\ call' = [call EXCEPT ![c].at = "insert", ![c].port = port]
      /\ procs' = procs \cup {p} /\ exited' = exited \ {port}
      /\ UNCHANGED << service, inner, vip, column, orphans >>
  BY Facts DEF Start
<1>3. /\ InHand(c)' /\ call'[c].node = n /\ call'[c].port = port /\ ~InHand(c)
      /\ \A d \in Callers \ {c} : call'[d] = call[d] /\ (InHand(d)' <=> InHand(d))
  BY <1>2 DEF InHand, Typed, Shapes, CallsInProgress, Calls
<1>4. /\ \A m \in Nodes : inner[m] # port
      /\ \A d \in Callers : call[d].port # port
      /\ port \notin orphans
  BY PortFacts DEF Start, Free, Reserved, Listening
<1>5. procs' \subseteq Held'
  <2>. SUFFICES ASSUME NEW x \in procs' PROVE x \in Held'
    OBVIOUS
  <2>1. CASE x = p
    BY <1>3, <2>1 DEF Held, InHand
  <2>2. CASE x \in procs
    <3>1. x \in Held
      BY <1>1, <2>2 DEF Ledger
    <3>2. \/ \E m \in Running : x = Process(m, inner[m])
          \/ \E d \in Callers : InHand(d) /\ x = Process(call[d].node, call[d].port)
          \/ vip # NoNode /\ x = Process(vip, VipPort)
      BY <3>1, HeldIs
    <3>3. ASSUME NEW m \in Running, x = Process(m, inner[m]) PROVE x \in Held'
      BY <1>2, <3>3 DEF Held, Running
    <3>4. ASSUME NEW d \in Callers, InHand(d), x = Process(call[d].node, call[d].port)
          PROVE  x \in Held'
      BY <1>3, <3>4 DEF Held, InHand
    <3>5. CASE vip # NoNode /\ x = Process(vip, VipPort)
      BY <1>2, <3>5 DEF Held
    <3>. QED
      BY <3>2, <3>3, <3>4, <3>5
  <2>. QED
    BY <1>2, <2>1, <2>2
<1>6. Live'
  <2>1. \A m \in Running' : m \in Running /\ inner'[m] = inner[m]
    BY <1>2 DEF Running
  <2>2. \A m \in Running' : Process(m, inner'[m]) \in procs' \/ inner'[m] \in exited'
    BY <1>1, <1>2, <1>4, <2>1 DEF Ledger, Live, Running
  <2>3. \A d \in Callers : InHand(d)' => \/ Process(call'[d].node, call'[d].port) \in procs'
                                        \/ call'[d].port \in exited'
    <3>1. Process(call'[c].node, call'[c].port) \in procs'
      BY <1>2, <1>3
    <3>2. ASSUME NEW d \in Callers \ {c}, InHand(d)'
          PROVE  \/ Process(call'[d].node, call'[d].port) \in procs'
                 \/ call'[d].port \in exited'
      <4>1. InHand(d) /\ call'[d] = call[d]
        BY <1>3, <3>2
      <4>2. \/ Process(call[d].node, call[d].port) \in procs
            \/ call[d].port \in exited
        BY <1>1, <4>1 DEF Ledger, Live
      <4>. QED
        BY <1>2, <1>4, <4>1, <4>2
    <3>. QED
      BY <3>1, <3>2
  <2>. QED
    BY <2>2, <2>3 DEF Live
<1>7. Distinct' /\ Apart'
  <2>1. Distinct
    BY <1>1 DEF Ledger
  <2>2. \A d \in Callers : InHand(d)' => \A m \in Nodes : inner'[m] # call'[d].port
    <3>1. \A m \in Nodes : inner'[m] # call'[c].port
      BY <1>2, <1>3, <1>4
    <3>2. ASSUME NEW d \in Callers \ {c}, InHand(d)', NEW m \in Nodes
          PROVE  inner'[m] # call'[d].port
      BY <1>2, <1>3, <2>1, <3>2 DEF Distinct
    <3>. QED
      BY <3>1, <3>2
  <2>3. ASSUME NEW d \in Callers, NEW e \in Callers, InHand(d)', InHand(e)',
               call'[d].port = call'[e].port, d # e
        PROVE  FALSE
    <3>1. CASE d = c
      BY <1>3, <1>4, <2>3, <3>1
    <3>2. CASE e = c
      BY <1>3, <1>4, <2>3, <3>2
    <3>3. CASE d # c /\ e # c
      BY <1>3, <2>1, <2>3, <3>3 DEF Distinct
    <3>. QED
      BY <3>1, <3>2, <3>3
  <2>4. \A m, l \in Running' : inner'[m] = inner'[l] => m = l
    BY <1>2, <2>1 DEF Distinct, Running
  <2>5. Apart'
    <3>1. \A m \in Running' : inner'[m] \notin orphans'
      BY <1>1, <1>2 DEF Ledger, Apart, Running
    <3>2. call'[c].port \notin orphans'
      BY <1>2, <1>3, <1>4
    <3>3. ASSUME NEW d \in Callers \ {c}, InHand(d)' PROVE call'[d].port \notin orphans'
      <4>1. InHand(d) /\ call'[d] = call[d]
        BY <1>3, <3>3
      <4>. QED
        BY <1>1, <1>2, <4>1 DEF Ledger, Apart
    <3>. QED
      BY <3>1, <3>2, <3>3 DEF Apart
  <2>. QED
    BY <2>2, <2>3, <2>4, <2>5 DEF Distinct
<1>8. Columns'
  <2>1. \A d \in Callers : call'[d].at = "column" => d # c
    BY <1>3 DEF InHand
  <2>. QED
    BY <1>1, <1>2, <1>3, <2>1 DEF Ledger, Columns
<1>. QED
  BY <1>1, <1>2, <1>5, <1>6, <1>7, <1>8 DEF Ledger

LEMMA InsertKeeps ==
  ASSUME Typed, Ledger, NEW c \in Callers, Insert(c)
  PROVE  Ledger'
<1>. DEFINE n == call[c].node
            port == call[c].port
            p == Process(n, port)
<1>1. service # "down" /\ InHand(c) /\ call[c].at = "insert"
  BY DEF Insert, Ledger, Idle, InHand
<1>2. n \in Nodes /\ port \in MainPorts /\ (p \in procs \/ port \in exited)
  BY <1>1, Facts, PortFacts DEF Ledger, Live
<1>3. UNCHANGED << service, vip, column, orphans, exited >>
  BY DEF Insert, fate
<1>4. /\ \A m \in Nodes : inner[m] # port
      /\ \A d \in Callers \ {c} : InHand(d) => call[d].port # port
  BY <1>1 DEF Ledger, Distinct
<1>5. CASE n \in Running
  <2>1. call' = [call EXCEPT ![c] = Idle] /\ procs' = procs \ {p} /\ inner' = inner
    BY <1>5 DEF Insert
  <2>2. /\ ~InHand(c)' /\ call'[c].at = "idle"
        /\ \A d \in Callers \ {c} : call'[d] = call[d] /\ (InHand(d)' <=> InHand(d))
    BY <2>1 DEF InHand, Typed, Shapes, Idle
  <2>3. procs' \subseteq Held'
    <3>. SUFFICES ASSUME NEW x \in procs' PROVE x \in Held'
      OBVIOUS
    <3>1. x \in Held /\ x # p
      BY <1>1, <2>1 DEF Ledger
    <3>2. \/ \E m \in Running : x = Process(m, inner[m])
          \/ \E d \in Callers \ {c} : InHand(d) /\ x = Process(call[d].node, call[d].port)
          \/ vip # NoNode /\ x = Process(vip, VipPort)
      BY <3>1, HeldIs
    <3>. QED
      BY <1>3, <2>1, <2>2, <3>2 DEF Held, InHand, Running
  <2>4. Live'
    <3>1. \A m \in Running : Process(m, inner[m]) # p
      BY <1>4, PortFacts DEF Running
    <3>2. \A d \in Callers \ {c} : InHand(d) => Process(call[d].node, call[d].port) # p
      BY <1>4, PortFacts
    <3>. QED
      BY <1>1, <1>3, <2>1, <2>2, <3>1, <3>2 DEF Ledger, Live, Running
  <2>5. Distinct' /\ Apart'
    BY <1>1, <1>3, <2>1, <2>2 DEF Ledger, Distinct, Apart, Running
  <2>6. Columns'
    <3>1. \A d \in Callers : call'[d].at = "column" => d # c
      BY <2>2
    <3>. QED
      BY <1>1, <1>3, <2>1, <2>2, <3>1 DEF Ledger, Columns
  <2>. QED
    BY <1>1, <1>3, <2>3, <2>4, <2>5, <2>6 DEF Ledger
<1>6. CASE n \notin Running
  <2>1. /\ inner' = [inner EXCEPT ![n] = port] /\ procs' = procs
        /\ call' = [call EXCEPT ![c].at = "column"]
    BY <1>6 DEF Insert
  <2>2. /\ ~InHand(c)' /\ call'[c].at = "column" /\ call'[c].node = n /\ call'[c].port = port
        /\ \A d \in Callers \ {c} : call'[d] = call[d] /\ (InHand(d)' <=> InHand(d))
    BY <2>1 DEF InHand, Typed, Shapes, CallsInProgress, Calls
  <2>3. /\ inner'[n] = port /\ inner[n] = NoPort
        /\ \A m \in Nodes \ {n} : inner'[m] = inner[m]
    BY <1>2, <1>6, <2>1 DEF Typed, Others, Running
  <2>4. Running' = Running \cup {n}
    BY <1>2, <2>3, PortFacts DEF Running
  <2>5. procs' \subseteq Held'
    <3>. SUFFICES ASSUME NEW x \in procs' PROVE x \in Held'
      OBVIOUS
    <3>1. x \in Held
      BY <1>1, <2>1 DEF Ledger
    <3>2. \/ \E m \in Running : x = Process(m, inner[m])
          \/ x = p
          \/ \E d \in Callers \ {c} : InHand(d) /\ x = Process(call[d].node, call[d].port)
          \/ vip # NoNode /\ x = Process(vip, VipPort)
      BY <3>1, HeldIs
    <3>3. ASSUME NEW m \in Running, x = Process(m, inner[m]) PROVE x \in Held'
      <4>1. m \in Running' /\ inner'[m] = inner[m]
        BY <1>6, <2>3, <2>4 DEF Running
      <4>. QED
        BY <3>3, <4>1 DEF Held
    <3>4. CASE x = p
      BY <2>3, <2>4, <3>4 DEF Held
    <3>5. ASSUME NEW d \in Callers \ {c}, InHand(d), x = Process(call[d].node, call[d].port)
          PROVE  x \in Held'
      BY <2>2, <3>5 DEF Held, InHand
    <3>6. CASE vip # NoNode /\ x = Process(vip, VipPort)
      BY <1>3, <3>6 DEF Held
    <3>. QED
      BY <3>2, <3>3, <3>4, <3>5, <3>6
  <2>6. Live'
    <3>1. \A m \in Running' : Process(m, inner'[m]) \in procs' \/ inner'[m] \in exited'
      BY <1>1, <1>2, <1>3, <2>1, <2>3, <2>4 DEF Ledger, Live, Running
    <3>2. \A d \in Callers : InHand(d)' => \/ Process(call'[d].node, call'[d].port) \in procs'
                                          \/ call'[d].port \in exited'
      BY <1>1, <1>3, <2>1, <2>2 DEF Ledger, Live
    <3>. QED
      BY <3>1, <3>2 DEF Live
  <2>7. Distinct' /\ Apart'
    <3>1. \A m, l \in Running' : inner'[m] = inner'[l] => m = l
      BY <1>1, <1>4, <2>3, <2>4 DEF Ledger, Distinct, Running
    <3>2. /\ \A d \in Callers : InHand(d)' => \A m \in Nodes : inner'[m] # call'[d].port
          /\ \A d, e \in Callers :
               InHand(d)' /\ InHand(e)' /\ call'[d].port = call'[e].port => d = e
      BY <1>1, <1>4, <2>2, <2>3 DEF Ledger, Distinct
    <3>3. \A m \in Running' : inner'[m] \notin orphans'
      BY <1>1, <1>3, <2>3, <2>4 DEF Ledger, Apart, Running
    <3>4. \A d \in Callers : InHand(d)' => call'[d].port \notin orphans'
      BY <1>1, <1>3, <2>2 DEF Ledger, Apart
    <3>. QED
      BY <3>1, <3>2, <3>3, <3>4 DEF Distinct, Apart
  <2>8. Columns'
    <3>1. \A m \in Nodes : column[m] # NoPort => m # n
      BY <1>1, <2>3 DEF Ledger, Columns
    <3>2. ASSUME NEW d \in Callers, call'[d].at = "column" PROVE inner'[call'[d].node] = call'[d].port
      <4>1. CASE d = c
        BY <2>2, <2>3, <4>1
      <4>2. CASE d # c
        <5>1. /\ call[d].at = "column" /\ call[d].node \in Nodes /\ call[d].port # NoPort
              /\ inner[call[d].node] = call[d].port
          BY <1>1, <2>2, <3>2, <4>2, Facts DEF Ledger, Columns
        <5>2. call[d].node # n
          BY <2>3, <5>1
        <5>. QED
          BY <2>2, <2>3, <4>2, <5>1, <5>2
      <4>. QED
        BY <4>1, <4>2
    <3>. QED
      BY <1>1, <1>3, <2>3, <3>1, <3>2 DEF Ledger, Columns
  <2>. QED
    BY <1>1, <1>3, <2>5, <2>6, <2>7, <2>8 DEF Ledger
<1>. QED
  BY <1>5, <1>6

LEMMA SetColumnKeeps ==
  ASSUME Typed, Ledger, NEW c \in Callers, SetColumn(c)
  PROVE  Ledger'
<1>. DEFINE n == call[c].node
            port == call[c].port
<1>1. service # "down" /\ call[c].at = "column" /\ n \in Nodes /\ inner[n] = port
  BY Facts DEF SetColumn, Ledger, Idle, Columns
<1>2. /\ call' = [call EXCEPT ![c] = Idle]
      /\ column' \in {column, [column EXCEPT ![n] = port]}
      /\ UNCHANGED << service, procs, inner, vip, orphans, exited >>
  BY DEF SetColumn, fate
<1>3. /\ call'[c].at = "idle"
      /\ \A d \in Callers \ {c} : call'[d] = call[d]
  BY <1>2 DEF Typed, Shapes, Idle
<1>4. \A d \in Callers : (InHand(d)' <=> InHand(d)) /\ (InHand(d) => call'[d] = call[d])
  BY <1>1, <1>3 DEF InHand
<1>5. procs' \subseteq Held'
  <2>. SUFFICES ASSUME NEW x \in procs' PROVE x \in Held'
    OBVIOUS
  <2>1. x \in Held
    BY <1>1, <1>2 DEF Ledger
  <2>2. \/ \E m \in Running : x = Process(m, inner[m])
        \/ \E d \in Callers : InHand(d) /\ x = Process(call[d].node, call[d].port)
        \/ vip # NoNode /\ x = Process(vip, VipPort)
    BY <2>1, HeldIs
  <2>. QED
    BY <1>2, <1>4, <2>2 DEF Held, InHand, Running
<1>6. Live'
  BY <1>1, <1>2, <1>4 DEF Ledger, Live, Running
<1>7. Distinct' /\ Apart'
  BY <1>1, <1>2, <1>4 DEF Ledger, Distinct, Apart, Running
<1>8. Columns'
  <2>1. \A m \in Nodes : column'[m] # NoPort => inner'[m] = column'[m]
    BY <1>1, <1>2 DEF Ledger, Columns, Typed, Others
  <2>2. \A d \in Callers : call'[d].at = "column" => d # c
    BY <1>3
  <2>. QED
    BY <1>1, <1>2, <1>3, <2>1, <2>2 DEF Ledger, Columns
<1>. QED
  BY <1>1, <1>2, <1>5, <1>6, <1>7, <1>8 DEF Ledger

LEMMA AbortCallKeeps ==
  ASSUME Typed, Ledger, NEW c \in Callers, AbortCall(c)
  PROVE  Ledger'
<1>. DEFINE p == Process(call[c].node, call[c].port)
<1>1. /\ service # "down" /\ call' = [call EXCEPT ![c] = Idle]
      /\ procs' = IF InHand(c) THEN procs \ {p} ELSE procs
      /\ UNCHANGED << service, inner, vip, column, orphans, exited >>
  BY DEF AbortCall, InHand, fate
<1>2. /\ call'[c].at = "idle" /\ ~InHand(c)'
      /\ \A d \in Callers \ {c} : call'[d] = call[d] /\ (InHand(d)' <=> InHand(d))
  BY <1>1 DEF InHand, Typed, Shapes, Idle
<1>3. InHand(c) => /\ \A m \in Nodes : inner[m] # call[c].port
                   /\ \A d \in Callers \ {c} : InHand(d) => call[d].port # call[c].port
  BY <1>1 DEF Ledger, Distinct
<1>4. procs' \subseteq Held'
  <2>. SUFFICES ASSUME NEW x \in procs' PROVE x \in Held'
    OBVIOUS
  <2>1. x \in Held /\ (InHand(c) => x # p)
    BY <1>1 DEF Ledger
  <2>2. \/ \E m \in Running : x = Process(m, inner[m])
        \/ \E d \in Callers \ {c} : InHand(d) /\ x = Process(call[d].node, call[d].port)
        \/ vip # NoNode /\ x = Process(vip, VipPort)
    BY <2>1, HeldIs
  <2>. QED
    BY <1>1, <1>2, <2>2 DEF Held, InHand, Running
<1>5. Live'
  <2>1. InHand(c) => \A m \in Running : Process(m, inner[m]) # p
    BY <1>3, PortFacts DEF Running
  <2>2. InHand(c) => \A d \in Callers \ {c} :
                       InHand(d) => Process(call[d].node, call[d].port) # p
    BY <1>3, PortFacts
  <2>. QED
    BY <1>1, <1>2, <2>1, <2>2 DEF Ledger, Live, Running
<1>6. Distinct' /\ Apart'
  BY <1>1, <1>2 DEF Ledger, Distinct, Apart, Running
<1>7. Columns'
  <2>1. \A d \in Callers : call'[d].at = "column" => d # c
    BY <1>2
  <2>. QED
    BY <1>1, <1>2, <2>1 DEF Ledger, Columns
<1>. QED
  BY <1>1, <1>4, <1>5, <1>6, <1>7 DEF Ledger

\* What the VIP does leaves ports and calls alone.
LEMMA VipKeeps ==
  ASSUME Typed, Ledger, service # "down", UNCHANGED << service, inner, call, column, orphans >>,
         procs' \subseteq Held',
         \A q \in procs : q.port # VipPort => q \in procs',
         exited \ {VipPort} \subseteq exited'
  PROVE  Ledger'
<1>1. \A m \in Running : Process(m, inner[m]).port # VipPort
  BY PortFacts DEF Running, Process, Typed, Others
<1>2. \A c \in Callers : InHand(c) => Process(call[c].node, call[c].port).port # VipPort
  BY Facts, PortFacts DEF InHand, Process
<1>3. /\ \A m \in Running : inner[m] # VipPort
      /\ \A c \in Callers : InHand(c) => call[c].port # VipPort
  BY <1>1, <1>2 DEF Process
<1>4. Live'
  BY <1>1, <1>2, <1>3 DEF Ledger, Live, Running, InHand
<1>5. Distinct' /\ Apart' /\ Columns'
  BY DEF Ledger, Distinct, Apart, Columns, InHand, Running
<1>. QED
  BY <1>4, <1>5 DEF Ledger

LEMMA PreflightKeeps ==
  ASSUME Typed, Ledger, Preflight
  PROVE  Ledger'
<1>1. /\ service # "down" /\ vip' = NoNode /\ procs' = {p \in procs : p.port # VipPort}
      /\ UNCHANGED << service, inner, call, column, orphans, exited >>
  BY DEF Preflight, Ledger, NoSwap, fate
<1>2. ASSUME NEW x \in procs' PROVE x \in Held'
  <2>1. x \in Held /\ x.port # VipPort
    BY <1>1, <1>2 DEF Ledger
  <2>2. Process(vip, VipPort).port = VipPort
    BY DEF Process
  <2>3. \/ \E m \in Running : x = Process(m, inner[m])
        \/ \E d \in Callers : InHand(d) /\ x = Process(call[d].node, call[d].port)
    BY <2>1, <2>2, HeldIs
  <2>. QED
    BY <1>1, <2>3 DEF Held, InHand, Running
<1>. QED
  BY <1>1, <1>2, VipKeeps

LEMMA OnVipKeeps ==
  ASSUME Typed, Ledger, swap # NoSwap, NEW n \in Nodes, OnVip(n), vip = NoNode
  PROVE  Ledger'
<1>1. /\ service # "down" /\ vip' = n /\ n # NoNode
      /\ procs' \in {procs, procs \cup {Process(n, VipPort)}}
      /\ exited \ {VipPort} \subseteq exited'
      /\ UNCHANGED << service, inner, call, column, orphans >>
  BY RuntimesConstants DEF OnVip, Ledger
<1>2. ASSUME NEW x \in procs' PROVE x \in Held'
  <2>1. CASE x = Process(n, VipPort)
    BY <1>1, <2>1 DEF Held
  <2>2. CASE x \in procs
    <3>1. x \in Held
      BY <1>1, <2>2 DEF Ledger
    <3>2. \/ \E m \in Running : x = Process(m, inner[m])
          \/ \E d \in Callers : InHand(d) /\ x = Process(call[d].node, call[d].port)
      BY <3>1, HeldIs
    <3>. QED
      BY <1>1, <3>2 DEF Held, InHand, Running
  <2>. QED
    BY <1>1, <1>2, <2>1, <2>2
<1>. QED
  BY <1>1, <1>2, VipKeeps

\* A process that ends by itself leaves its owner with a dead port.
LEMMA ExitKeeps ==
  ASSUME Typed, Ledger, NEW p \in Processes, Exits(p)
  PROVE  Ledger'
<1>1. /\ service # "down" /\ procs' = procs \ {p} /\ exited' = exited \cup {p.port}
      /\ UNCHANGED << service, column, orphans, inner, call, vip, swap >>
  BY DEF Exits, memory
<1>2. Held' = Held /\ Running' = Running
  BY <1>1 DEF Held, Running
<1>3. \A n, port : Process(n, port) = p => port = p.port
  BY DEF Process
<1>4. Live'
  BY <1>1, <1>2, <1>3 DEF Ledger, Live, InHand
<1>5. Distinct' /\ Apart' /\ Columns'
  BY <1>1, <1>2 DEF Ledger, Distinct, Apart, Columns, InHand
<1>. QED
  BY <1>1, <1>2, <1>4, <1>5 DEF Ledger

LEMMA LedgerStep == Typed /\ Ledger /\ Switching /\ [Next]_vars => Ledger'
<1>. SUFFICES ASSUME Typed, Ledger, Switching, [Next]_vars PROVE Ledger'
  OBVIOUS
<1>1. ASSUME UNCHANGED << service, column, procs, fate, inner, call, vip, swap >> PROVE Ledger'
  <2>1. Held' = Held /\ Running' = Running
    BY <1>1 DEF Held, Running
  <2>. QED
    BY <1>1, <2>1 DEF Ledger, Live, Distinct, Apart, Columns, InHand, fate
<1>2. CASE (\E n \in Nodes : RowsChange(n)) \/ UNCHANGED vars
  BY <1>1, <1>2 DEF RowsChange, vars, memory
<1>3. CASE Boot
  <2>1. /\ service' = "starting" /\ procs' = {} /\ column' = NoColumn
        /\ inner' = NoColumn /\ \A c \in Callers : call'[c] = Idle
    BY <1>3 DEF Boot, Ledger
  <2>2. Live' /\ Distinct' /\ Apart' /\ Columns'
    BY <2>1, PortFacts DEF Live, Distinct, Apart, Columns, Running, InHand, Idle, NoColumn
  <2>. QED
    BY <2>1, <2>2 DEF Ledger
<1>4. CASE Serve \/ StopAsked
  BY <1>4, Untouched DEF Serve, StopAsked, memory, fate
<1>5. ASSUME NEW c \in Callers, NEW n \in Nodes, Reconcile(c, n) \/ Ensure(c, n) PROVE Ledger'
  <2>1. service # "down" /\ UNCHANGED << service, inner, vip, procs, column, orphans, exited >>
    BY <1>5 DEF Reconcile, Ensure, fate
  <2>2. /\ call[c] = Idle
        /\ \/ call' = [call EXCEPT ![c] = Idle]
           \/ call' = [call EXCEPT ![c] = [Idle EXCEPT !.at = "reserve", !.node = n]]
    BY <1>5 DEF Reconcile, Ensure, Begins
  <2>3. \A d \in Callers : \/ call'[d] = call[d]
                           \/ call[d].at # "insert" /\ call'[d].at \notin {"insert", "column"}
    <3>1. CASE call' = [call EXCEPT ![c] = Idle]
      BY <2>2, <3>1 DEF Typed, Shapes, Idle
    <3>2. CASE call' = [call EXCEPT ![c] = [Idle EXCEPT !.at = "reserve", !.node = n]]
      <4>1. call[c].at = "idle"
        BY <2>2 DEF Idle
      <4>2. [Idle EXCEPT !.at = "reserve", !.node = n].at = "reserve"
        BY DEF Idle
      <4>3. /\ call'[c] = [Idle EXCEPT !.at = "reserve", !.node = n]
            /\ \A d \in Callers \ {c} : call'[d] = call[d]
        BY <3>2 DEF Typed, Shapes
      <4>. HIDE <3>2
      <4>4. call'[c].at = "reserve"
        BY <4>2, <4>3
      <4>. QED
        BY <4>1, <4>3, <4>4
    <3>. QED
      BY <2>2, <3>1, <3>2
  <2>. QED
    BY <2>1, <2>3, Untouched
<1>6. ASSUME NEW c \in Callers, Refuse(c) \/ StartFails(c) \/ Reserve(c) PROVE Ledger'
  <2>1. service # "down" /\ UNCHANGED << service, inner, vip, procs, column, orphans, exited >>
    BY <1>6 DEF Refuse, StartFails, Reserve, Ledger, Idle, fate
  <2>2. \A d \in Callers : \/ call'[d] = call[d]
                           \/ call[d].at # "insert" /\ call'[d].at \notin {"insert", "column"}
    <3>1. CASE Refuse(c) \/ StartFails(c)
      <4>1. call[c].at \in {"reserve", "start"} /\ call' = [call EXCEPT ![c] = Idle]
        BY <3>1 DEF Refuse, StartFails
      <4>2. call'[c] = Idle /\ \A d \in Callers \ {c} : call'[d] = call[d]
        BY <4>1 DEF Typed, Shapes
      <4>. QED
        BY <4>1, <4>2 DEF Idle
    <3>2. CASE Reserve(c)
      <4>1. call[c].at = "reserve" /\ call' = [call EXCEPT ![c].at = "start"]
        BY <3>2 DEF Reserve
      <4>2. call'[c].at = "start" /\ \A d \in Callers \ {c} : call'[d] = call[d]
        BY <4>1 DEF Typed, Shapes, CallsInProgress, Calls
      <4>3. call[c].at # "insert" /\ call'[c].at \notin {"insert", "column"}
        BY <4>1, <4>2
      <4>. QED
        BY <4>2, <4>3
    <3>. QED
      BY <1>6, <3>1, <3>2
  <2>. QED
    BY <2>1, <2>2, Untouched
<1>7. ASSUME NEW c \in Callers,
             (\E port \in MainPorts : Start(c, port)) \/ Insert(c) \/ SetColumn(c) \/ AbortCall(c)
      PROVE  Ledger'
  BY <1>7, StartKeeps, InsertKeeps, SetColumnKeeps, AbortCallKeeps
<1>8. CASE \/ (\E n \in Nodes : VipTick(n)) \/ PreflightFails \/ SwitchFails \/ RecoverFails
           \/ AbortSwap
  <2>1. service # "down" /\ UNCHANGED << service, inner, vip, procs, column, orphans, exited, call >>
    <3>1. CASE \E n \in Nodes : VipTick(n)
      BY <3>1 DEF VipTick, fate
    <3>2. CASE PreflightFails \/ SwitchFails \/ RecoverFails
      BY <3>2 DEF PreflightFails, SwitchFails, RecoverFails, Ledger, NoSwap, fate
    <3>3. CASE AbortSwap
      BY <3>3 DEF AbortSwap, fate
    <3>. QED
      BY <1>8, <3>1, <3>2, <3>3
  <2>. QED
    BY <2>1, Untouched
<1>9. CASE Switch \/ Recover
  <2>1. swap # NoSwap /\ vip = NoNode
    BY <1>9 DEF Switch, Recover, Switching, NoSwap
  <2>2. (Switch => swap.new \in Nodes) /\ (Recover => swap.old \in Nodes)
    BY DEF Switch, Recover, Typed, Shapes, SwapsInProgress
  <2>. QED
    BY <1>9, <2>1, <2>2, OnVipKeeps DEF Switch, Recover
<1>10. CASE Shutdown \/ StartupFails \/ Crash
  BY <1>10, StopsHolding DEF Shutdown, StartupFails, Crash
<1>11. ASSUME NEW p \in Processes, Exits(p) PROVE Ledger'
  BY <1>11, ExitKeeps
<1>12. ASSUME NEW port \in Ports, OrphanEnds(port) PROVE Ledger'
  <2>1. /\ UNCHANGED << service, inner, vip, procs, column, exited, call, swap >>
        /\ orphans' \subseteq orphans
    BY <1>12 DEF OrphanEnds, memory
  <2>2. CASE service = "down"
    BY <2>1, <2>2 DEF Ledger
  <2>3. CASE service # "down"
    BY <2>1, <2>3, Untouched
  <2>. QED
    BY <2>2, <2>3
<1>. QED
  BY <1>2, <1>3, <1>4, <1>5, <1>6, <1>7, <1>8, <1>9, <1>10, <1>11, <1>12, PreflightKeeps
     DEF Next, CallSteps, VipSteps, LifeSteps

LEMMA LedgerInit == Init => Ledger /\ Switching
BY DEF Init, Ledger, Switching

\* For any number of callers, failed starts, switches, aborted tasks, processes
\* that end by themselves, kills and restarts: a port the clients are given is
\* that of the node's own runtime, on which nobody else's Xray listens, an orphan
\* of a killed service included; and no Xray process outlives its owner unless
\* it has had its SIGTERM (RuntimeManager, maintain_vip, main).
THEOREM AccountsSound == Spec => []ProcessesAreAccounted
<1>1. Init => Typed /\ Ledger /\ Switching
  BY InitTyped, LedgerInit
<1>2. Typed /\ Ledger /\ Switching /\ [Next]_vars => (Typed /\ Ledger /\ Switching)'
  BY TypeStep, LedgerStep, SwitchingStep
<1>3. Typed /\ Ledger => ProcessesAreAccounted
  <2>. SUFFICES ASSUME Typed, Ledger PROVE ProcessesAreAccounted
    OBVIOUS
  <2>1. ColumnIsHonest
    <3>. SUFFICES ASSUME service = "serving", NEW n \in Nodes, column[n] # NoPort
                  PROVE  /\ inner[n] = column[n]
                         /\ Process(n, column[n]) \in procs \/ column[n] \in exited
                         /\ \A p \in procs : p.port = column[n] => p.node = n
                         /\ column[n] \notin orphans
      BY DEF ColumnIsHonest
    <3>1. inner[n] = column[n] /\ n \in Running
      BY DEF Ledger, Columns, Running
    <3>2. Process(n, column[n]) \in procs \/ column[n] \in exited
      BY <3>1 DEF Ledger, Live
    <3>3. column[n] \notin orphans
      BY <3>1 DEF Ledger, Apart
    <3>4. ASSUME NEW p \in procs, p.port = column[n] PROVE p.node = n
      <4>1. p.port # VipPort
        BY <3>1, <3>4, PortFacts DEF Typed, Others
      <4>2. \A m, port : Process(m, port).node = m /\ Process(m, port).port = port
        BY DEF Process
      <4>3. \/ \E m \in Running : p = Process(m, inner[m])
            \/ \E c \in Callers : InHand(c) /\ p = Process(call[c].node, call[c].port)
        BY <4>1, <4>2, HeldIs DEF Ledger
      <4>4. ASSUME NEW c \in Callers, InHand(c), p = Process(call[c].node, call[c].port)
            PROVE  FALSE
        BY <3>1, <3>4, <4>2, <4>4 DEF Ledger, Distinct, Running
      <4>5. ASSUME NEW m \in Running, p = Process(m, inner[m]) PROVE p.node = n
        <5>1. inner[m] = inner[n]
          BY <3>1, <3>4, <4>2, <4>5
        <5>2. m = n
          BY <3>1, <5>1 DEF Ledger, Distinct
        <5>. QED
          BY <4>2, <4>5, <5>2
      <4>. QED
        BY <4>3, <4>4, <4>5
    <3>. QED
      BY <3>1, <3>2, <3>3, <3>4
  <2>2. NoStrays
    BY DEF NoStrays, Ledger
  <2>. QED
    BY <2>1, <2>2 DEF ProcessesAreAccounted
<1>. QED
  BY <1>1, <1>2, <1>3, PTL DEF Spec

(***************************************************************************)
(* The cap.  A start in flight is counted by whoever reserves next until   *)
(* its session is there, and again when it is in the map.  What is not     *)
(* counted in between is at most one session of each other caller.         *)
(***************************************************************************)
\* The calls between their reservation and their insertion.
UnderWay == {c \in Callers : call[c].at \in {"start", "insert"}}

Room ==
  service # "down" =>
    Cardinality(Running) + Cardinality(UnderWay) <= Cap + Cardinality(Callers) - 1

LEMMA Finite ==
  ASSUME Typed
  PROVE  /\ IsFiniteSet(Running) /\ Cardinality(Running) \in Nat
         /\ IsFiniteSet(starting) /\ Cardinality(starting) \in Nat
<1>1. Running \in SUBSET Nodes /\ starting \in SUBSET Nodes
  BY DEF Running, Typed, Others
<1>2. IsFiniteSet(Running) /\ IsFiniteSet(starting)
  BY <1>1, RuntimesConstants, FS_Subset
<1>. QED
  BY <1>2, FS_CardinalityType

LEMMA FiniteCallers ==
  ASSUME IsFiniteSet(Callers), NEW F \in SUBSET Callers
  PROVE  /\ IsFiniteSet(F) /\ Cardinality(F) \in Nat
         /\ Cardinality(Callers) \in Nat \ {0}
         /\ Cardinality(F) <= Cardinality(Callers)
<1>1. IsFiniteSet(F) /\ Cardinality(F) <= Cardinality(Callers)
  BY FS_Subset
<1>2. Cardinality(F) \in Nat /\ Cardinality(Callers) \in Nat
  BY <1>1, FS_CardinalityType
<1>3. Cardinality(Callers) # 0
  BY RuntimesConstants, FS_EmptySet
<1>. QED
  BY <1>1, <1>2, <1>3

\* No runtime is added, and no call goes on to start one.
LEMMA RoomKept ==
  ASSUME IsFiniteSet(Callers), Typed, Room, service # "down", inner' = inner,
         \A c \in Callers : call'[c].at \in {"start", "insert"} => call[c].at \in {"start", "insert"}
  PROVE  Room'
<1>1. Running' = Running /\ UnderWay' \subseteq UnderWay /\ UnderWay \subseteq Callers
  BY DEF Running, UnderWay
<1>2. IsFiniteSet(UnderWay) /\ Cardinality(UnderWay) \in Nat
  BY <1>1, FiniteCallers
<1>3. /\ Cardinality(UnderWay') \in Nat /\ Cardinality(UnderWay') <= Cardinality(UnderWay)
      /\ Cardinality(Callers) \in Nat
  BY <1>1, <1>2, FiniteCallers, FS_Subset
<1>. QED
  BY <1>1, <1>2, <1>3, Finite, RuntimesConstants DEF Room

LEMMA RoomStep ==
  ASSUME IsFiniteSet(Callers), Typed, Ledger, Room, [Next]_vars
  PROVE  Room'
<1>1. CASE Boot
  <2>1. Running' = {} /\ UnderWay' = {}
    BY <1>1 DEF Boot, Ledger, NoColumn, Running, UnderWay, Idle
  <2>2. Cardinality(Callers) \in Nat \ {0}
    BY FiniteCallers
  <2>. QED
    BY <2>1, <2>2, FS_EmptySet, RuntimesConstants DEF Room
<1>2. CASE Shutdown \/ StartupFails \/ Crash
  BY <1>2 DEF Shutdown, StartupFails, Crash, Room
<1>3. CASE \/ (\E n \in Nodes : RowsChange(n)) \/ Serve \/ StopAsked \/ VipSteps \/ AbortSwap
           \/ (\E p \in Processes : Exits(p)) \/ (\E port \in Ports : OrphanEnds(port))
           \/ UNCHANGED vars
  <2>1. UNCHANGED << inner, call >> /\ (service' # "down" => service # "down")
    <3>1. CASE \/ (\E n \in Nodes : RowsChange(n)) \/ Serve \/ StopAsked
               \/ (\E p \in Processes : Exits(p)) \/ (\E port \in Ports : OrphanEnds(port))
               \/ UNCHANGED vars
      BY <3>1 DEF RowsChange, Serve, StopAsked, Exits, OrphanEnds, vars, memory
    <3>2. CASE VipSteps \/ AbortSwap
      BY <3>2 DEF VipSteps, VipTick, PreflightFails, Preflight, Switch, SwitchFails, Recover,
                  RecoverFails, OnVip, AbortSwap
    <3>. QED
      BY <1>3, <3>1, <3>2
  <2>2. Running' = Running /\ UnderWay' = UnderWay
    BY <2>1 DEF Running, UnderWay
  <2>. QED
    BY <2>1, <2>2 DEF Room
<1>4. ASSUME NEW c \in Callers, NEW n \in Nodes, Reconcile(c, n) \/ Ensure(c, n) PROVE Room'
  <2>1. PICK q \in {Idle, [Idle EXCEPT !.at = "reserve", !.node = n]} :
          call' = [call EXCEPT ![c] = q]
    BY <1>4 DEF Reconcile, Ensure, Begins
  <2>2. q.at \notin {"start", "insert"}
    <3>1. Idle.at = "idle" /\ [Idle EXCEPT !.at = "reserve", !.node = n].at = "reserve"
      BY DEF Idle
    <3>. QED
      BY <3>1
  <2>3. /\ call'[c] = q
        /\ \A d \in Callers \ {c} : call'[d] = call[d]
    BY <2>1 DEF Typed, Shapes
  <2>4. service # "down" /\ inner' = inner
    BY <1>4 DEF Reconcile, Ensure
  <2>. QED
    BY <2>2, <2>3, <2>4, RoomKept
<1>5. ASSUME NEW c \in Callers, Refuse(c) \/ StartFails(c) \/ SetColumn(c) \/ AbortCall(c)
      PROVE  Room'
  <2>1. service # "down" /\ inner' = inner /\ call' = [call EXCEPT ![c] = Idle]
    BY <1>5 DEF Refuse, StartFails, SetColumn, AbortCall, Ledger, Idle
  <2>2. /\ call'[c].at = "idle"
        /\ \A d \in Callers \ {c} : call'[d] = call[d]
    BY <2>1 DEF Typed, Shapes, Idle
  <2>. QED
    BY <2>1, <2>2, RoomKept
<1>6. ASSUME NEW c \in Callers, Reserve(c) PROVE Room'
  <2>1. inner' = inner /\ Cardinality(Running) + Cardinality(starting) < Cap
    <3>1. ~(Cardinality(Running) + Cardinality(starting) >= Cap)
      BY <1>6 DEF Reserve, Full
    <3>. QED
      BY <1>6, <3>1, Finite, RuntimesConstants DEF Reserve
  <2>2. Cardinality(Running) < Cap /\ Running' = Running
    BY <2>1, Finite, RuntimesConstants DEF Running
  <2>3. UnderWay' \subseteq Callers
    BY DEF UnderWay
  <2>4. /\ Cardinality(UnderWay') \in Nat /\ Cardinality(Callers) \in Nat
        /\ Cardinality(UnderWay') <= Cardinality(Callers)
    BY <2>3, FiniteCallers
  <2>. QED
    BY <2>2, <2>4, Finite, RuntimesConstants DEF Room
<1>7. ASSUME NEW c \in Callers, NEW port \in MainPorts, Start(c, port) PROVE Room'
  <2>1. service # "down" /\ inner' = inner /\ call[c].at = "start"
    BY <1>7 DEF Start, Ledger, Idle
  <2>2. \A d \in Callers \ {c} : call'[d] = call[d]
    BY <1>7 DEF Start, Typed, Shapes
  <2>. QED
    BY <2>1, <2>2, RoomKept
<1>8. ASSUME NEW c \in Callers, Insert(c) PROVE Room'
  <2>1. /\ service # "down" /\ call[c].at = "insert" /\ call[c].node \in Nodes
        /\ call[c].port # NoPort
    BY <1>8, Facts DEF Insert, Ledger, Idle
  <2>2. c \in UnderWay /\ UnderWay \subseteq Callers
    BY <2>1 DEF UnderWay
  <2>3. call'[c].at \notin {"start", "insert"} /\ \A d \in Callers \ {c} : call'[d] = call[d]
    <3>1. CASE call' = [call EXCEPT ![c] = Idle]
      BY <3>1 DEF Typed, Shapes, Idle
    <3>2. CASE call' = [call EXCEPT ![c].at = "column"]
      BY <3>2 DEF Typed, Shapes, CallsInProgress, Calls
    <3>. QED
      BY <1>8, <3>1, <3>2 DEF Insert
  <2>4. Running' \in {Running, Running \cup {call[c].node}}
    BY <1>8, <2>1 DEF Insert, Running, Typed, Others
  <2>5. Cardinality(Running \cup {call[c].node}) \in {Cardinality(Running), Cardinality(Running) + 1}
    BY Finite, FS_AddElement
  <2>6. Cardinality(Running') \in {Cardinality(Running), Cardinality(Running) + 1}
    BY <2>4, <2>5
  <2>7. UnderWay' = UnderWay \ {c}
    BY <2>3 DEF UnderWay
  <2>8. IsFiniteSet(UnderWay) /\ Cardinality(UnderWay) \in Nat /\ Cardinality(Callers) \in Nat
    BY <2>2, FiniteCallers
  <2>9. Cardinality(UnderWay') = Cardinality(UnderWay) - 1
    BY <2>2, <2>7, <2>8, FS_RemoveElement
  <2>. QED
    BY <2>1, <2>6, <2>8, <2>9, Finite, RuntimesConstants DEF Room
<1>. QED
  BY <1>1, <1>2, <1>3, <1>4, <1>5, <1>6, <1>7, <1>8 DEF Next, CallSteps, LifeSteps

\* The Xray processes on the main ports.
OnMainPorts == {p \in procs : p.port \in MainPorts}

\* They are the runtimes and the sessions that are not yet among them.
LEMMA RoomMeansCap ==
  ASSUME IsFiniteSet(Callers), Typed, Ledger, Room, service # "down"
  PROVE  /\ Cardinality(OnMainPorts) \in Nat
         /\ Cardinality(OnMainPorts) <= Cap + Cardinality(Callers) - 1
<1>. DEFINE own == [n \in Running |-> Process(n, inner[n])]
            theirs == {own[n] : n \in Running}
            extra == [c \in UnderWay |-> Process(call[c].node, call[c].port)]
            others == {extra[c] : c \in UnderWay}
<1>1. own \in Surjection(Running, theirs) /\ extra \in Surjection(UnderWay, others)
  BY DEF Surjection
<1>2. IsFiniteSet(theirs) /\ Cardinality(theirs) <= Cardinality(Running)
  BY <1>1, Finite, FS_Surjection
<1>3. UnderWay \subseteq Callers
  BY DEF UnderWay
<1>4. IsFiniteSet(UnderWay) /\ Cardinality(UnderWay) \in Nat /\ Cardinality(Callers) \in Nat
  BY <1>3, FiniteCallers
<1>5. IsFiniteSet(others) /\ Cardinality(others) <= Cardinality(UnderWay)
  BY <1>1, <1>4, FS_Surjection
<1>6. OnMainPorts \in SUBSET (theirs \cup others)
  <2>. SUFFICES ASSUME NEW p \in OnMainPorts PROVE p \in theirs \cup others
    OBVIOUS
  <2>1. p \in Held /\ p.port # VipPort
    BY PortFacts DEF Ledger, OnMainPorts
  <2>2. Process(vip, VipPort).port = VipPort
    BY DEF Process
  <2>3. \/ \E n \in Running : p = Process(n, inner[n])
        \/ \E c \in Callers : InHand(c) /\ p = Process(call[c].node, call[c].port)
    BY <2>1, <2>2, HeldIs
  <2>. QED
    BY <2>3 DEF InHand, UnderWay
<1>7. /\ IsFiniteSet(theirs \cup others) /\ Cardinality(theirs \cap others) \in Nat
      /\ Cardinality(theirs \cup others) =
           Cardinality(theirs) + Cardinality(others) - Cardinality(theirs \cap others)
  <2>1. IsFiniteSet(theirs \cap others)
    BY <1>2, FS_Intersection
  <2>. QED
    BY <1>2, <1>5, <2>1, FS_Union, FS_CardinalityType
<1>8. IsFiniteSet(OnMainPorts) /\ Cardinality(OnMainPorts) <= Cardinality(theirs \cup others)
  BY <1>6, <1>7, FS_Subset
<1>9. /\ Cardinality(OnMainPorts) \in Nat /\ Cardinality(theirs) \in Nat
      /\ Cardinality(others) \in Nat
  BY <1>2, <1>5, <1>8, FS_CardinalityType
<1>. HIDE DEF theirs, others
<1>. QED
  BY <1>2, <1>4, <1>5, <1>7, <1>8, <1>9, Finite, RuntimesConstants DEF Room

LEMMA RoomHolds ==
  ASSUME IsFiniteSet(Callers)
  PROVE  Spec => [](Typed /\ Ledger /\ Room)
<1>1. Init => Typed /\ Ledger /\ Switching /\ Room
  BY InitTyped, LedgerInit DEF Init, Room
<1>2. Typed /\ Ledger /\ Switching /\ Room /\ [Next]_vars
        => (Typed /\ Ledger /\ Switching /\ Room)'
  BY TypeStep, LedgerStep, SwitchingStep, RoomStep
<1>. QED
  BY <1>1, <1>2, PTL DEF Spec

\* However many tasks call ensure at the same time, they overshoot
\* max_active_runtimes by less than their number: what reserve_start misses is
\* the one session each of the others has started and not yet put into the map.
THEOREM OvershootBounded ==
  ASSUME IsFiniteSet(Callers)
  PROVE  Spec => [](service # "down" =>
                      Cardinality(OnMainPorts) <= Cap + Cardinality(Callers) - 1)
<1>1. Typed /\ Ledger /\ Room =>
        (service # "down" => Cardinality(OnMainPorts) <= Cap + Cardinality(Callers) - 1)
  BY RoomMeansCap
<1>. QED
  BY <1>1, RoomHolds, PTL

\* With one caller of ensure, as the code has, no interleaving of starts,
\* redundant sessions, aborted calls and restarts runs more Xray processes on the
\* main ports than max_active_runtimes (ensure, reserve_start).
THEOREM CapSound ==
  ASSUME NEW only, Callers = {only}
  PROVE  Spec => []CapHolds
<1>1. IsFiniteSet(Callers) /\ Cardinality(Callers) = 1
  BY FS_Singleton
<1>2. ASSUME Typed, Ledger, Room PROVE CapHolds
  <2>1. CASE service = "down"
    BY <2>1 DEF CapHolds
  <2>2. CASE service # "down"
    <3>1. /\ Cardinality(OnMainPorts) \in Nat
          /\ Cardinality(OnMainPorts) <= Cap + Cardinality(Callers) - 1
      BY <1>1, <1>2, <2>2, RoomMeansCap
    <3>2. Cardinality(OnMainPorts) <= Cap
      BY <1>1, <3>1, RuntimesConstants
    <3>. QED
      BY <3>2 DEF CapHolds, OnMainPorts
  <2>. QED
    BY <2>1, <2>2
<1>. QED
  BY <1>1, <1>2, RoomHolds, PTL
=============================================================================
