------------------------- MODULE ProxyHealth_proofs -------------------------
(***************************************************************************)
(* Theorems about module ProxyHealth, for any caps on the evidence and the *)
(* counters, any residence and any length of a tick.                       *)
(***************************************************************************)
EXTENDS ProxyHealth, SequenceTheorems, TLAPS

(***************************************************************************)
(* The decision.  For any evidence and counters it stays within Verdicts,  *)
(* which is all module Fleet knows of it, and it demotes only on counters  *)
(* that have reached their thresholds.                                     *)
(***************************************************************************)
\* Whatever the evidence, the counters and the residence are, decide returns a
\* lifecycle that Verdicts names (health::decide): what module Fleet, which
\* tracks none of them, lets a test do to a proxy is all that it can do.
THEOREM DecisionIsAVerdict ==
  ASSUME NEW in, in.lifecycle \in Lifecycles
  PROVE  NextLifecycle(in) \in Verdicts(in.lifecycle, in.stage, in.class)
BY DEF NextLifecycle, Verdicts, Lifecycles

LEMMA DemotionsAreDue ==
  ASSUME NEW in
  PROVE  /\ in.lifecycle = "ACTIVE" /\ NextLifecycle(in) = "PROBATION"
              => in.resident /\ in.independent >= 2
         /\ in.lifecycle = "PROBATION" /\ NextLifecycle(in) = "DORMANT"
              => in.streak >= 3
BY DEF NextLifecycle

LEMMA VerdictsAreLifecycles ==
  ASSUME NEW l \in Lifecycles, NEW stage, NEW class
  PROVE  Verdicts(l, stage, class) \subseteq Lifecycles
BY DEF Verdicts, Lifecycles

LEMMA DivisionIsMonotonic ==
  ASSUME NEW a \in Nat, NEW b \in Nat, a <= b, NEW t \in Nat \ {0}
  PROVE  a \div t <= b \div t /\ a \div t \in Nat
<1>. DEFINE p == a \div t
            q == b \div t
<1>1. p \in Int /\ q \in Int /\ t * p <= a /\ b < t * (q + 1) /\ a < t * (p + 1)
  OBVIOUS
<1>. HIDE DEF p, q
<1>2. ASSUME p >= q + 1 PROVE FALSE
  <2>1. PICK d \in Nat : p = q + 1 + d
    BY <1>1, <1>2
  <2>2. t * p = t * (q + 1) + t * d
    BY <1>1, <2>1
  <2>3. t * d >= 0
    OBVIOUS
  <2>4. t * p \in Int /\ t * (q + 1) \in Int /\ t * d \in Int
    BY <1>1
  <2>. QED
    BY <1>1, <2>2, <2>3, <2>4
<1>3. ASSUME p < 0 PROVE FALSE
  <2>1. PICK d \in Nat : p + 1 = 0 - d
    BY <1>1, <1>3
  <2>2. t * (p + 1) = 0 - t * d
    BY <1>1, <2>1
  <2>3. t * d >= 0
    OBVIOUS
  <2>. QED
    BY <1>1, <2>2, <2>3
<1>. QED
  BY <1>1, <1>2, <1>3 DEF p, q

LEMMA LeasesAreBounded ==
  ASSUME NEW stage, NEW fast
  PROVE  MaxLease \in Nat /\ Ticks(LeaseMinutes(stage, fast)) \in 0..MaxLease
<1>1. LeaseMinutes(stage, fast) \in {0, 30, 120, 360, 720}
  BY DEF LeaseMinutes
<1>2. LeaseMinutes("DOWNLOAD", TRUE) = 720
  BY DEF LeaseMinutes
<1>3. /\ TickMinutes \in Nat \ {0}
      /\ LeaseMinutes(stage, fast) + TickMinutes - 1 \in Nat
      /\ 720 + TickMinutes - 1 \in Nat
      /\ LeaseMinutes(stage, fast) + TickMinutes - 1 <= 720 + TickMinutes - 1
  BY <1>1, HealthConstants
<1>4. MaxLease = (720 + TickMinutes - 1) \div TickMinutes
  BY <1>2 DEF MaxLease, Ticks
<1>5. /\ Ticks(LeaseMinutes(stage, fast)) \in Nat
      /\ Ticks(LeaseMinutes(stage, fast)) <= MaxLease /\ MaxLease \in Nat
  BY <1>3, <1>4, DivisionIsMonotonic DEF Ticks
<1>. QED
  BY <1>5

(***************************************************************************)
(* A run.  However the batch's incident rewrites it, only the last event   *)
(* of a run may be a failure, and its first event is not a download.       *)
(***************************************************************************)
LEMMA Appended ==
  ASSUME NEW T, NEW s \in Seq(T), NEW c \in T
  PROVE  /\ Append(s, c) \in Seq(T)
         /\ Len(s) \in Nat /\ Len(Append(s, c)) = Len(s) + 1
         /\ \A i \in 1..Len(s) : Append(s, c)[i] = s[i]
         /\ Append(s, c)[Len(s) + 1] = c
<1>1. Append(s, c) \in Seq(T)
  OBVIOUS
<1>2. Len(s) \in Nat
  OBVIOUS
<1>3. Len(Append(s, c)) = Len(s) + 1
  OBVIOUS
<1>4. \A i \in 1..Len(s) : Append(s, c)[i] = s[i]
  OBVIOUS
<1>5. Append(s, c)[Len(s) + 1] = c
  OBVIOUS
<1>. QED
  BY <1>1, <1>2, <1>3, <1>4, <1>5

LEMMA AppendToPair ==
  ASSUME NEW T, NEW a \in T, NEW b \in T, NEW c \in T
  PROVE  Append(<< a, b >>, c) = << a, b, c >>
<1>1. ASSUME NEW s \in Seq(T), NEW t \in Seq(T), Len(s) = 2, Len(t) = 3,
             t[1] = s[1], t[2] = s[2], t[3] = c
      PROVE  Append(s, c) = t
  <2>. DEFINE r == Append(s, c)
  <2>1. /\ r \in Seq(T) /\ Len(r) = Len(s) + 1
        /\ \A i \in 1..Len(s) : r[i] = s[i]
        /\ r[Len(s) + 1] = c
    BY Appended
  <2>. HIDE DEF r
  <2>2. Len(r) = 3 /\ r[1] = s[1] /\ r[2] = s[2] /\ r[3] = c
    BY <1>1, <2>1
  <2>3. \A i \in 1..3 : r[i] = t[i]
    BY <1>1, <2>2
  <2>. QED
    BY <1>1, <2>1, <2>2, <2>3, SeqEqual DEF r
<1>2. << a, b >> \in Seq(T) /\ << a, b, c >> \in Seq(T)
  OBVIOUS
<1>. QED
  BY <1>1, <1>2

LEMMA RunsAreReports ==
  ASSUME NEW due \in BOOLEAN, NEW report \in Reports(due), NEW inIncident \in BOOLEAN
  PROVE  LET run == Rewritten(report, inIncident) IN
         /\ run \in Seq(Events) /\ run # << >>
         /\ DOMAIN run = 1..Len(run)
         /\ \A i \in 1..Len(run) - 1 : run[i].class = "SUCCESS"
         /\ run[1].stage # "DOWNLOAD"
<1>. DEFINE run == Rewritten(report, inIncident)
            rewritten(e) == IF inIncident /\ e.class \notin {"SUCCESS", "INVALID_CONFIG"}
                            THEN [e EXCEPT !.class = "ENDPOINT_FAILURE"] ELSE e
<1>1. /\ Passed = << Event("RELAY", "SUCCESS", FALSE), Event("HTTP", "SUCCESS", FALSE) >>
      /\ Passed[1] = Event("RELAY", "SUCCESS", FALSE)
      /\ Passed[2] = Event("HTTP", "SUCCESS", FALSE)
      /\ Len(Passed) = 2
  BY DEF Passed
<1>2. /\ Passed[1].class = "SUCCESS" /\ Passed[1].stage = "RELAY"
      /\ Passed[2].class = "SUCCESS" /\ Passed[2].stage = "HTTP"
      /\ Passed[1] \in Events /\ Passed[2] \in Events
      /\ Passed = << Passed[1], Passed[2] >>
  BY <1>1 DEF Event, Events
<1>3. ASSUME NEW e \in StoppedEarly \cup DownloadEvents
      PROVE  rewritten(e) \in Events /\ rewritten(e).stage = e.stage
  <2>1. /\ e = [stage |-> e.stage, class |-> e.class, fast |-> e.fast]
        /\ e.stage \in Stages
        /\ e.class # "SUCCESS" => e.fast = FALSE
    BY DEF StoppedEarly, DownloadEvents, Event, Stages
  <2>2. CASE rewritten(e) = e
    BY <2>2 DEF Events
  <2>3. CASE rewritten(e) # e
    <3>1. rewritten(e) = [e EXCEPT !.class = "ENDPOINT_FAILURE"] /\ e.fast = FALSE
      BY <2>1, <2>3
    <3>2. /\ rewritten(e) = Event(e.stage, "ENDPOINT_FAILURE", FALSE)
          /\ rewritten(e).stage = e.stage
      BY <2>1, <3>1 DEF Event
    <3>. QED
      BY <2>1, <3>2 DEF Events
  <2>. QED
    BY <2>2, <2>3
<1>4. CASE \E e \in StoppedEarly : report = << e >>
  <2>1. PICK e \in StoppedEarly : report = << e >>
    BY <1>4
  <2>2. run = [i \in 1..1 |-> rewritten(e)]
    BY <2>1 DEF Rewritten
  <2>3. rewritten(e) \in Events /\ rewritten(e).stage # "DOWNLOAD"
    BY <1>3 DEF StoppedEarly, Event
  <2>4. run = << rewritten(e) >> /\ DOMAIN run = 1..1
    <3>. HIDE DEF run, rewritten
    <3>. QED
      BY <2>2
  <2>. HIDE DEF run, rewritten
  <2>5. run \in Seq(Events) /\ Len(run) = 1 /\ run # << >> /\ run[1] = rewritten(e)
    BY <2>3, <2>4
  <2>. QED
    BY <2>3, <2>4, <2>5 DEF run
<1>5. CASE report = Passed
  <2>1. run = [i \in 1..2 |-> rewritten(Passed[i])]
    BY <1>1, <1>5 DEF Rewritten
  <2>2. rewritten(Passed[1]) = Passed[1] /\ rewritten(Passed[2]) = Passed[2]
    BY <1>2
  <2>3. run = << Passed[1], Passed[2] >> /\ DOMAIN run = 1..2
    <3>. HIDE DEF run, rewritten, Passed
    <3>. QED
      BY <2>1, <2>2
  <2>. HIDE DEF run, rewritten, Passed
  <2>4. /\ run \in Seq(Events) /\ Len(run) = 2 /\ run # << >>
        /\ run[1] = Passed[1]
    BY <1>2, <2>3
  <2>. QED
    BY <1>2, <2>3, <2>4 DEF run
<1>6. CASE \E e \in DownloadEvents : report = Append(Passed, e)
  <2>1. PICK e \in DownloadEvents : report = Append(Passed, e)
    BY <1>6
  <2>2. report = << Passed[1], Passed[2], e >>
    <3>1. e \in Events
      BY DEF Events
    <3>. HIDE DEF Passed
    <3>. QED
      BY <1>2, <2>1, <3>1, AppendToPair
  <2>3. rewritten(Passed[1]) = Passed[1] /\ rewritten(Passed[2]) = Passed[2]
    BY <1>2
  <2>4. /\ run = [i \in 1..3 |-> rewritten(report[i])]
        /\ report[1] = Passed[1] /\ report[2] = Passed[2] /\ report[3] = e
    <3>. HIDE DEF Passed
    <3>. QED
      BY <2>2 DEF Rewritten
  <2>5. rewritten(e) \in Events
    BY <1>3
  <2>6. run = << Passed[1], Passed[2], rewritten(e) >> /\ DOMAIN run = 1..3
    <3>. HIDE DEF run, rewritten, Passed
    <3>. QED
      BY <2>3, <2>4
  <2>. HIDE DEF run, rewritten, Passed
  <2>7. /\ run \in Seq(Events) /\ Len(run) = 3 /\ run # << >>
        /\ run[1] = Passed[1] /\ run[2] = Passed[2]
    BY <1>2, <2>5, <2>6
  <2>. QED
    BY <1>2, <2>6, <2>7 DEF run
<1>. QED
  BY <1>4, <1>5, <1>6 DEF Reports

(***************************************************************************)
(* What a step is: one lemma for a step that applies an event, and one for *)
(* all the others, so that the theorems below need not open the actions.   *)
(***************************************************************************)
\* The record that Store::apply_test_event hands to decide for event e.
Considered(e) ==
  [lifecycle |-> life,
   alpha |-> 2 + Least(alpha + AlphaDelta(e.stage, e.class, e.fast), MaxAlpha),
   beta |-> 2 + Least(beta + BetaDelta(e.stage, e.class), MaxBeta),
   resident |-> residence = 0,
   streak |-> NextStreak(streak, e.class),
   independent |-> NextIndependent(independent, e.class, ~failedInRun),
   stage |-> e.stage, class |-> e.class]

\* What the event adds to each failure counter.
Due(event) == IF Conclusive(event.class) THEN 1 ELSE 0

LEMMA DueOfAnEvent ==
  ASSUME NEW e
  PROVE  /\ Due(e) \in {0, 1}
         /\ Due(e) = 1 <=> Conclusive(e.class)
         /\ e.class = "SUCCESS" => Due(e) = 0
BY DEF Due, Conclusive

LEMMA CountersOfAnEvent ==
  ASSUME TypeOK, NEW e
  PROVE  LET s == NextStreak(streak, e.class)
             i == NextIndependent(independent, e.class, ~failedInRun) IN
         /\ s \in Nat /\ i \in Nat
         /\ e.class = "SUCCESS" => s = 0 /\ i = 0
         /\ e.class # "SUCCESS" => s = streak + Due(e) /\ i <= independent + Due(e)
BY DEF TypeOK, NextStreak, NextIndependent, Due, Conclusive, Inconclusive

LEMMA EventApplied ==
  ASSUME TypeOK, ApplyEvent
  PROVE  /\ pending # << >> /\ pending' = Tail(pending)
         /\ Head(pending) \in Events
         /\ life' = NextLifecycle(Considered(Head(pending)))
         /\ LET e == Head(pending)
                in == Considered(e) IN
            /\ in.lifecycle = life /\ in.stage = e.stage /\ in.class = e.class
            /\ in.resident <=> residence = 0
            /\ in.streak = NextStreak(streak, e.class)
            /\ in.independent = NextIndependent(independent, e.class, ~failedInRun)
            /\ streak' = Least(in.streak, CounterCap)
            /\ independent' = Least(in.independent, CounterCap)
         /\ badRuns' = IF Head(pending).class # "SUCCESS" THEN badRuns
                        ELSE IF Fails(pending') THEN 1 ELSE 0
         /\ vouched' = (pending' # << >> /\ (vouched \/ Head(pending).class = "SUCCESS"))
BY HeadTailProperties DEF TypeOK, ApplyEvent, Considered

LEMMA OtherStepsLeaveTheRun ==
  ASSUME [Next]_vars, ~ApplyEvent, ~ApplyFails,
         ~\E due \in IF life = "ACTIVE" THEN BOOLEAN ELSE {TRUE} :
            \E report \in Reports(due), inIncident \in BOOLEAN :
              StartRun(report, inIncident)
  PROVE  /\ UNCHANGED << streak, independent, pending, vouched, badRuns >>
         /\ \/ life' = life
            \/ /\ life \in {"DORMANT", "PROBATION", "CANDIDATE"}
               /\ life' = "PROBATION"
            \/ /\ life \notin {"INVALID", "RETIRED"} /\ life' = "RETIRED"
            \/ life = "RETIRED" /\ life' = "CANDIDATE"
BY DEF Next, vars, Release, Revive, Retire, Reappear, DecayAlpha, DecayBeta, Tick

(***************************************************************************)
(* The invariant.  The failure counters never run ahead of the history of  *)
(* bad runs.  StartRun counts a run as bad before its failure is applied,  *)
(* so while the failure waits the history is one ahead of the counters;    *)
(* nothing else that becomes of an event, the loss of it included, brings  *)
(* them closer.  A run one of whose successes was written and that has     *)
(* events left has clear counters: its failure, if any, comes last.        *)
(***************************************************************************)
FailureComesLast == \A i \in 1..Len(pending) - 1 : pending[i].class = "SUCCESS"

\* The counter stays behind the history, with the failure that waits.
Behind(counter) ==
  /\ counter <= badRuns
  /\ Fails(pending) => Least(counter + 1, CounterCap) <= badRuns

Tally == Behind(streak) /\ Behind(independent)

VouchedIsClear == vouched => pending # << >> /\ streak = 0 /\ independent = 0

IInv == TypeOK /\ FailureComesLast /\ Tally /\ VouchedIsClear

LEMMA LongestLease == MaxLease \in Nat
BY LeasesAreBounded

LEMMA InvInit == Init => IInv
<1>1. Init => TypeOK
  <2>1. << >> \in Seq(Events)
    OBVIOUS
  <2>2. /\ 0 \in 0..MaxAlpha /\ 0 \in 0..MaxBeta /\ 0 \in 0..CounterCap
        /\ 0 \in 0..Residence /\ 0 \in 0..MaxLease
    BY HealthConstants, LongestLease
  <2>. QED
    BY <2>1, <2>2 DEF Init, TypeOK, Lifecycles
<1>2. Init => FailureComesLast /\ Tally /\ VouchedIsClear
  BY DEF Init, FailureComesLast, Tally, Behind, Fails, VouchedIsClear
<1>. QED
  BY <1>1, <1>2 DEF IInv

LEMMA TypeOfARun ==
  ASSUME TypeOK, NEW due \in IF life = "ACTIVE" THEN BOOLEAN ELSE {TRUE},
         NEW report \in Reports(due), NEW inIncident \in BOOLEAN,
         StartRun(report, inIncident)
  PROVE  TypeOK'
<1>1. pending' \in Seq(Events)
  BY RunsAreReports DEF StartRun
<1>2. badRuns' \in 0..CounterCap
  BY HealthConstants DEF StartRun, Least, TypeOK
<1>. QED
  BY <1>1, <1>2 DEF StartRun, TypeOK

LEMMA EvidenceIsCounted ==
  ASSUME NEW stage, NEW class, NEW fast
  PROVE  AlphaDelta(stage, class, fast) \in Nat /\ BetaDelta(stage, class) \in Nat
BY DEF AlphaDelta, BetaDelta

LEMMA TypeOfAnEvent ==
  ASSUME TypeOK, ApplyEvent
  PROVE  TypeOK'
<1>. DEFINE e == Head(pending)
<1>1. pending' \in Seq(Events)
  BY HeadTailProperties DEF TypeOK, ApplyEvent
<1>2. life' \in Lifecycles
  BY EventApplied, DecisionIsAVerdict, VerdictsAreLifecycles DEF TypeOK
<1>3. streak' \in 0..CounterCap /\ independent' \in 0..CounterCap
  <2>1. /\ NextStreak(streak, e.class) \in Nat
        /\ NextIndependent(independent, e.class, ~failedInRun) \in Nat
    BY CountersOfAnEvent DEF TypeOK
  <2>. QED
    BY <2>1, EventApplied, HealthConstants DEF Least
<1>4. alpha' \in 0..MaxAlpha /\ beta' \in 0..MaxBeta
  <2>1. AlphaDelta(e.stage, e.class, e.fast) \in Nat /\ BetaDelta(e.stage, e.class) \in Nat
    BY EvidenceIsCounted
  <2>2. /\ alpha' = Least(alpha + AlphaDelta(e.stage, e.class, e.fast), MaxAlpha)
        /\ beta' = Least(beta + BetaDelta(e.stage, e.class), MaxBeta)
    BY DEF ApplyEvent
  <2>3. /\ alpha + AlphaDelta(e.stage, e.class, e.fast) \in Nat
        /\ beta + BetaDelta(e.stage, e.class) \in Nat
        /\ MaxAlpha \in Nat /\ MaxBeta \in Nat
    BY <2>1, HealthConstants DEF TypeOK
  <2>. QED
    BY <2>2, <2>3 DEF Least
<1>5. lease' \in 0..MaxLease
  <2>1. Ticks(LeaseMinutes(e.stage, e.fast)) \in 0..MaxLease
    BY LeasesAreBounded
  <2>2. lease' = NextLease(lease, Ticks(LeaseMinutes(e.stage, e.fast)), e.class)
    BY DEF ApplyEvent
  <2>. QED
    BY <2>1, <2>2 DEF NextLease, TypeOK
<1>6. /\ failedInRun' \in BOOLEAN /\ downloaded' \in BOOLEAN /\ vouched' \in BOOLEAN
      /\ testing' \in BOOLEAN
  BY DEF ApplyEvent, TypeOK, Conclusive, RealDownload
<1>7. residence' \in 0..Residence
  BY HealthConstants DEF ApplyEvent, TypeOK
<1>8. badRuns' \in 0..CounterCap
  BY EventApplied, HealthConstants DEF TypeOK
<1>. QED
  BY <1>1, <1>2, <1>3, <1>4, <1>5, <1>6, <1>7, <1>8 DEF TypeOK

LEMMA TypeStep == TypeOK /\ [Next]_vars => TypeOK'
<1>. SUFFICES ASSUME TypeOK, [Next]_vars PROVE TypeOK'
  OBVIOUS
<1>1. ASSUME NEW due \in IF life = "ACTIVE" THEN BOOLEAN ELSE {TRUE},
             NEW report \in Reports(due), NEW inIncident \in BOOLEAN,
             StartRun(report, inIncident)
      PROVE  TypeOK'
  BY <1>1, TypeOfARun
<1>2. CASE ApplyEvent
  BY <1>2, TypeOfAnEvent
<1>3. CASE Revive
  BY <1>3 DEF Revive, TypeOK, Lifecycles
<1>4. CASE Retire
  BY <1>4 DEF Retire, TypeOK, Lifecycles
<1>5. CASE Reappear
  BY <1>5 DEF Reappear, TypeOK, Lifecycles
<1>6. CASE DecayAlpha
  BY <1>6, HealthConstants, LongestLease DEF DecayAlpha, TypeOK
<1>7. CASE DecayBeta
  BY <1>7, HealthConstants, LongestLease DEF DecayBeta, TypeOK
<1>8. CASE Tick
  BY <1>8, HealthConstants, LongestLease DEF Tick, TypeOK
<1>9. CASE ApplyFails
  BY <1>9, HeadTailProperties DEF ApplyFails, TypeOK
<1>10. CASE Release
  BY <1>10 DEF Release, TypeOK
<1>11. CASE UNCHANGED vars
  BY <1>11 DEF vars, TypeOK
<1>. QED
  BY <1>1, <1>2, <1>3, <1>4, <1>5, <1>6, <1>7, <1>8, <1>9, <1>10, <1>11 DEF Next

\* A run begins: its failure, when it has one, is counted into the history.
LEMMA TallyOfARun ==
  ASSUME IInv, NEW due \in IF life = "ACTIVE" THEN BOOLEAN ELSE {TRUE},
         NEW report \in Reports(due), NEW inIncident \in BOOLEAN,
         StartRun(report, inIncident)
  PROVE  (FailureComesLast /\ Tally /\ VouchedIsClear)'
<1>1. FailureComesLast'
  BY RunsAreReports DEF StartRun, FailureComesLast
<1>2. /\ streak' = streak /\ independent' = independent /\ vouched' = FALSE
      /\ streak <= badRuns /\ independent <= badRuns
      /\ badRuns' = IF Fails(pending)' THEN Least(badRuns + 1, CounterCap) ELSE badRuns
  BY DEF StartRun, IInv, Tally, Behind, Fails
<1>3. /\ badRuns \in 0..CounterCap /\ streak \in 0..CounterCap
      /\ independent \in 0..CounterCap /\ CounterCap \in Nat
  BY HealthConstants DEF IInv, TypeOK
<1>4. Tally'
  BY <1>2, <1>3 DEF Tally, Behind, Least
<1>. QED
  BY <1>1, <1>2, <1>4 DEF VouchedIsClear

\* What is left of a run once its next event is applied or lost.
LEMMA RestOfARun ==
  ASSUME IInv, pending # << >>, pending' = Tail(pending)
  PROVE  /\ FailureComesLast'
         /\ Fails(pending)' => Fails(pending)
         /\ Head(pending).class # "SUCCESS" => pending' = << >>
         /\ Conclusive(Head(pending).class) => Fails(pending)
         /\ ~Fails(<< >>)
<1>1. /\ pending \in Seq(Events)
      /\ \A i \in 1..Len(pending) - 1 : pending[i].class = "SUCCESS"
  BY DEF IInv, TypeOK, FailureComesLast
<1>2. /\ Len(pending) \in Nat /\ Len(pending) >= 1 /\ DOMAIN pending = 1..Len(pending)
      /\ Head(pending) = pending[1]
      /\ Len(pending') = Len(pending) - 1 /\ DOMAIN pending' = 1..Len(pending')
      /\ \A i \in 1..Len(pending') : pending'[i] = pending[i + 1]
  BY <1>1
<1>3. \A i \in 1..Len(pending') : i + 1 \in 1..Len(pending)
  BY <1>2
<1>4. Fails(pending)' => Fails(pending)
  BY <1>2, <1>3 DEF Fails
<1>5. FailureComesLast'
  BY <1>1, <1>2 DEF FailureComesLast
<1>6. Head(pending).class # "SUCCESS" => pending' = << >>
  <2>1. Head(pending).class # "SUCCESS" => Len(pending) = 1
    BY <1>1, <1>2
  <2>. QED
    BY <1>1, <1>2, <2>1
<1>7. Conclusive(Head(pending).class) => Fails(pending)
  BY <1>2 DEF Fails
<1>8. ~Fails(<< >>)
  BY DEF Fails
<1>. QED
  BY <1>4, <1>5, <1>6, <1>7, <1>8

\* An event is applied: a failure is the last of its run and catches up with
\* the history; a success clears both counters.
LEMMA TallyOfAnEvent ==
  ASSUME IInv, ApplyEvent
  PROVE  (FailureComesLast /\ Tally /\ VouchedIsClear)'
<1>. DEFINE e == Head(pending)
<1>1. /\ pending # << >> /\ pending' = Tail(pending)
      /\ streak' = Least(NextStreak(streak, e.class), CounterCap)
      /\ independent' = Least(NextIndependent(independent, e.class, ~failedInRun),
                              CounterCap)
      /\ badRuns' = IF e.class # "SUCCESS" THEN badRuns
                    ELSE IF Fails(pending') THEN 1 ELSE 0
      /\ vouched' = (pending' # << >> /\ (vouched \/ e.class = "SUCCESS"))
  BY EventApplied DEF IInv
<1>2. /\ badRuns \in 0..CounterCap /\ streak \in 0..CounterCap
      /\ independent \in 0..CounterCap
      /\ CounterCap \in Nat /\ CounterCap >= 3
  BY HealthConstants DEF IInv, TypeOK
<1>3. /\ NextStreak(streak, e.class) \in Nat
      /\ NextIndependent(independent, e.class, ~failedInRun) \in Nat
      /\ e.class = "SUCCESS" => /\ NextStreak(streak, e.class) = 0
                                /\ NextIndependent(independent, e.class, ~failedInRun) = 0
      /\ e.class # "SUCCESS" => /\ NextStreak(streak, e.class) = streak + Due(e)
                                /\ NextIndependent(independent, e.class, ~failedInRun)
                                     <= independent + Due(e)
      /\ Due(e) \in {0, 1} /\ (Due(e) = 1 <=> Conclusive(e.class))
  BY CountersOfAnEvent, DueOfAnEvent DEF IInv
<1>4. /\ FailureComesLast'
      /\ e.class # "SUCCESS" => pending' = << >>
      /\ Conclusive(e.class) => Fails(pending)
      /\ ~Fails(<< >>)
  BY <1>1, RestOfARun
<1>5. /\ streak <= badRuns /\ independent <= badRuns
      /\ Fails(pending) => /\ Least(streak + 1, CounterCap) <= badRuns
                           /\ Least(independent + 1, CounterCap) <= badRuns
  BY DEF IInv, Tally, Behind
<1>6. CASE e.class # "SUCCESS"
  <2>1. streak' <= badRuns /\ independent' <= badRuns
    <3>. HIDE DEF e
    <3>. QED
      BY <1>1, <1>2, <1>3, <1>4, <1>5, <1>6 DEF Least
  <2>2. badRuns' = badRuns /\ pending' = << >> /\ ~Fails(pending')
    BY <1>1, <1>4, <1>6
  <2>. QED
    BY <1>1, <1>4, <2>1, <2>2 DEF Tally, Behind, VouchedIsClear
<1>7. CASE e.class = "SUCCESS"
  <2>1. streak' = 0 /\ independent' = 0
    BY <1>1, <1>2, <1>3, <1>7 DEF Least
  <2>2. badRuns' = IF Fails(pending') THEN 1 ELSE 0
    BY <1>1, <1>7
  <2>3. Tally'
    <3>1. badRuns' \in {0, 1} /\ (Fails(pending') => badRuns' = 1)
      BY <2>2
    <3>. QED
      BY <1>2, <2>1, <3>1 DEF Tally, Behind, Least
  <2>4. VouchedIsClear'
    BY <1>1, <2>1 DEF VouchedIsClear
  <2>. QED
    BY <1>4, <2>3, <2>4
<1>. QED
  BY <1>6, <1>7

\* An event is lost: the counters stay where they are, and so does the history.
LEMMA TallyOfALostEvent ==
  ASSUME IInv, ApplyFails
  PROVE  (FailureComesLast /\ Tally /\ VouchedIsClear)'
<1>1. /\ pending # << >> /\ pending' = Tail(pending)
      /\ vouched' = (vouched /\ pending' # << >>)
      /\ UNCHANGED << streak, independent, badRuns >>
  BY DEF ApplyFails
<1>2. FailureComesLast' /\ (Fails(pending)' => Fails(pending))
  BY <1>1, RestOfARun
<1>. QED
  BY <1>1, <1>2 DEF IInv, Tally, Behind, VouchedIsClear

LEMMA InvStep == IInv /\ [Next]_vars => IInv'
<1>. SUFFICES ASSUME IInv, [Next]_vars PROVE IInv'
  OBVIOUS
<1>1. TypeOK'
  BY TypeStep DEF IInv
<1>2. ASSUME NEW due \in IF life = "ACTIVE" THEN BOOLEAN ELSE {TRUE},
             NEW report \in Reports(due), NEW inIncident \in BOOLEAN,
             StartRun(report, inIncident)
      PROVE  (FailureComesLast /\ Tally /\ VouchedIsClear)'
  BY <1>2, TallyOfARun
<1>3. ASSUME ApplyEvent
      PROVE  (FailureComesLast /\ Tally /\ VouchedIsClear)'
  BY <1>3, TallyOfAnEvent
<1>4. ASSUME ApplyFails
      PROVE  (FailureComesLast /\ Tally /\ VouchedIsClear)'
  BY <1>4, TallyOfALostEvent
<1>5. ASSUME UNCHANGED << streak, independent, pending, vouched, badRuns >>
      PROVE  (FailureComesLast /\ Tally /\ VouchedIsClear)'
  BY <1>5 DEF IInv, FailureComesLast, Tally, Behind, Fails, VouchedIsClear
<1>. QED
  BY <1>1, <1>2, <1>3, <1>4, <1>5, OtherStepsLeaveTheRun DEF IInv

LEMMA InvHolds == Spec => []IInv
BY InvInit, InvStep, PTL DEF Spec

(***************************************************************************)
(* The theorems.                                                           *)
(***************************************************************************)
\* Every row the health model leaves behind is well-formed: a lifecycle decide
\* knows, evidence and counters within their caps, a residence and a lease no
\* longer than the longest the code grants (health::decide, evidence::delta).
THEOREM TypeCorrect == Spec => []TypeOK
<1>1. IInv => TypeOK
  BY DEF IInv
<1>. QED
  BY <1>1, InvHolds, PTL

LEMMA DemotionStep ==
  ASSUME IInv, [Next]_vars
  PROVE  /\ life = "ACTIVE" /\ life' = "PROBATION" => residence = 0 /\ badRuns >= 2
         /\ life = "PROBATION" /\ life' = "DORMANT" => badRuns >= 3
<1>1. CASE ~ApplyEvent
  <2>1. ASSUME NEW due \in IF life = "ACTIVE" THEN BOOLEAN ELSE {TRUE},
               NEW report \in Reports(due), NEW inIncident \in BOOLEAN,
               StartRun(report, inIncident)
        PROVE  life' = life
    BY <2>1 DEF StartRun
  <2>2. ApplyFails => life' = life
    BY DEF ApplyFails
  <2>. QED
    BY <1>1, <2>1, <2>2, OtherStepsLeaveTheRun
<1>2. CASE ApplyEvent
  <2>. DEFINE e == Head(pending)
              in == Considered(e)
  <2>1. /\ pending # << >> /\ life' = NextLifecycle(in)
        /\ in.lifecycle = life /\ (in.resident <=> residence = 0)
        /\ in.streak = NextStreak(streak, e.class)
        /\ in.independent = NextIndependent(independent, e.class, ~failedInRun)
    BY <1>2, EventApplied DEF IInv
  <2>2. /\ life = "ACTIVE" /\ life' = "PROBATION"
             => residence = 0 /\ in.independent >= 2
        /\ life = "PROBATION" /\ life' = "DORMANT" => in.streak >= 3
    <3>1. /\ in.lifecycle = "ACTIVE" /\ NextLifecycle(in) = "PROBATION"
               => in.resident /\ in.independent >= 2
          /\ in.lifecycle = "PROBATION" /\ NextLifecycle(in) = "DORMANT"
               => in.streak >= 3
      BY DemotionsAreDue
    <3>. HIDE DEF in
    <3>. QED
      BY <2>1, <3>1
  <2>3. /\ in.streak \in Nat /\ in.independent \in Nat
        /\ e.class = "SUCCESS" => in.streak = 0 /\ in.independent = 0
        /\ e.class # "SUCCESS" => /\ in.streak = streak + Due(e)
                                  /\ in.independent <= independent + Due(e)
    BY <2>1, CountersOfAnEvent DEF IInv
  <2>5. /\ streak \in 0..CounterCap /\ independent \in 0..CounterCap /\ badRuns \in Nat
        /\ Due(e) \in {0, 1} /\ CounterCap \in Nat /\ CounterCap >= 3
    BY HealthConstants, DueOfAnEvent DEF IInv, TypeOK
  <2>4. /\ Least(streak + Due(e), CounterCap) <= badRuns
        /\ Least(independent + Due(e), CounterCap) <= badRuns
    <3>1. Conclusive(e.class) => Fails(pending)
      BY <1>2, <2>1, EventApplied, RestOfARun DEF IInv
    <3>2. /\ streak <= badRuns /\ independent <= badRuns
          /\ Fails(pending) => /\ Least(streak + 1, CounterCap) <= badRuns
                               /\ Least(independent + 1, CounterCap) <= badRuns
      BY DEF IInv, Tally, Behind
    <3>3. Due(e) = 1 <=> Conclusive(e.class)
      BY DueOfAnEvent
    <3>. HIDE DEF e
    <3>. QED
      BY <2>5, <3>1, <3>2, <3>3 DEF Least
  <2>6. in.independent >= 2 => badRuns >= 2
    <3>. HIDE DEF e, in
    <3>. QED
      BY <2>3, <2>4, <2>5 DEF Least
  <2>7. in.streak >= 3 => badRuns >= 3
    <3>. HIDE DEF e, in
    <3>. QED
      BY <2>3, <2>4, <2>5 DEF Least
  <2>. QED
    BY <2>2, <2>6, <2>7
<1>. QED
  BY <1>1, <1>2

\* Whatever incidents, lost writes, revivals and reappearances come in between,
\* the failure counters never run ahead of the runs: ACTIVE is lost only after
\* the minimum residence and two bad runs since the last success that was
\* written, PROBATION only after three (health::decide with the counters of
\* Store::apply_test_event, any of whose transactions may fail).
THEOREM HysteresisSound == Spec => HysteresisOnDemotion
<1>1. IInv /\ [Next]_vars
        => [/\ life = "ACTIVE" /\ life' = "PROBATION" => residence = 0 /\ badRuns >= 2
            /\ life = "PROBATION" /\ life' = "DORMANT" => badRuns >= 3]_vars
  BY DemotionStep
<1>. QED
  BY <1>1, InvHolds, PTL DEF Spec, HysteresisOnDemotion

LEMMA DownloadStep ==
  ASSUME IInv, [Next]_vars, pending # << >>, Head(pending).stage = "DOWNLOAD",
         pending' # pending, vouched
  PROVE  Standing[life'] >= Standing[life]
<1>. DEFINE e == Head(pending)
            in == Considered(e)
<1>a. ASSUME ~ApplyEvent
      PROVE  life' = life
  <2>1. ASSUME NEW due \in IF life = "ACTIVE" THEN BOOLEAN ELSE {TRUE},
               NEW report \in Reports(due), NEW inIncident \in BOOLEAN,
               StartRun(report, inIncident)
        PROVE  FALSE
    BY <2>1 DEF StartRun
  <2>2. ApplyFails => life' = life
    BY DEF ApplyFails
  <2>. QED
    BY <1>a, <2>1, <2>2, OtherStepsLeaveTheRun
<1>b. life' = life => Standing[life'] >= Standing[life]
  BY DEF IInv, TypeOK, Standing, Lifecycles
<1>1. SUFFICES ASSUME ApplyEvent PROVE Standing[life'] >= Standing[life]
  BY <1>a, <1>b
<1>2. /\ e \in Events /\ pending # << >> /\ life' = NextLifecycle(in)
      /\ in.lifecycle = life /\ in.stage = e.stage /\ in.class = e.class
      /\ in.streak = NextStreak(streak, e.class)
      /\ in.independent = NextIndependent(independent, e.class, ~failedInRun)
  BY <1>1, EventApplied DEF IInv
<1>3. e.class # "INVALID_CONFIG"
  <2>. HIDE DEF e
  <2>. QED
    BY <1>2 DEF Events, StoppedEarly, DownloadEvents, Passed, Event, e
<1>4. in.streak <= 1 /\ in.independent <= 1
  <2>1. streak = 0 /\ independent = 0
    BY DEF IInv, VouchedIsClear
  <2>. QED
    BY <1>2, <2>1, CountersOfAnEvent, DueOfAnEvent DEF IInv
<1>5. in.streak \in Nat /\ in.independent \in Nat
  BY <1>2, CountersOfAnEvent DEF IInv
<1>6. life \in Lifecycles
  BY DEF IInv, TypeOK
<1>7. \/ life' = life
      \/ life' = "ACTIVE" /\ life # "INVALID" /\ life # "RETIRED"
      \/ life = "DORMANT" /\ life' = "PROBATION"
  <2>. HIDE DEF e, in
  <2>1. ~(in.independent >= 2) /\ ~(in.streak >= 3)
    BY <1>4, <1>5
  <2>. QED
    BY <1>2, <1>3, <1>6, <2>1 DEF NextLifecycle, RealDownload, Lifecycles
<1>. QED
  BY <1>6, <1>7 DEF Standing, Lifecycles

\* A run that reaches its download with a success of it written has cleared
\* both counters on the way, so that no download of it, however it fails, takes
\* the proxy down (health::decide, app.rs:431).
THEOREM DownloadsSound == Spec => DownloadFailuresNeverDemote
<1>1. IInv /\ [Next]_vars
        => [pending # << >> /\ Head(pending).stage = "DOWNLOAD" /\ pending' # pending
              /\ vouched => Standing[life'] >= Standing[life]]_vars
  <2>. SUFFICES ASSUME IInv, Next, pending # << >>, Head(pending).stage = "DOWNLOAD",
                       pending' # pending, vouched
                PROVE  Standing[life'] >= Standing[life]
    OBVIOUS
  <2>. QED
    BY DownloadStep
<1>. QED
  BY <1>1, InvHolds, PTL DEF Spec, DownloadFailuresNeverDemote

(***************************************************************************)
(* The lifecycle.  With all the evidence, counters, runs and clocks in     *)
(* place, the one proxy makes only the moves that module Lifecycle lets a  *)
(* proxy of the fleet make; module Fleet reaches the same with none of the *)
(* evidence and all of the races.                                          *)
(***************************************************************************)
Legal == INSTANCE Lifecycle
           WITH Nodes <- {"proxy"}, life <- [node \in {"proxy"} |-> life]

LEMMA MovesAreLegal ==
  ASSUME TypeOK, [Next]_vars, life' # life
  PROVE  << life, life' >> \in Legal!Moves
<1>1. CASE ~ApplyEvent
  <2>1. ASSUME NEW due \in IF life = "ACTIVE" THEN BOOLEAN ELSE {TRUE},
               NEW report \in Reports(due), NEW inIncident \in BOOLEAN,
               StartRun(report, inIncident)
        PROVE  FALSE
    BY <2>1 DEF StartRun
  <2>a. ~ApplyFails
    BY DEF ApplyFails
  <2>2. \/ /\ life \in {"DORMANT", "PROBATION", "CANDIDATE"}
           /\ life' = "PROBATION"
        \/ /\ life \notin {"INVALID", "RETIRED"} /\ life' = "RETIRED"
        \/ life = "RETIRED" /\ life' = "CANDIDATE"
    BY <1>1, <2>1, <2>a, OtherStepsLeaveTheRun
  <2>. QED
    BY <2>2 DEF TypeOK, Lifecycles, Legal!Moves, Legal!Live
<1>2. CASE ApplyEvent
  <2>. DEFINE in == Considered(Head(pending))
  <2>1. life' = NextLifecycle(in) /\ in.lifecycle = life
    BY <1>2, EventApplied
  <2>2. life \in Lifecycles
    BY DEF TypeOK
  <2>3. \/ life \in Legal!Live /\ life' \in {"INVALID", "ACTIVE"}
        \/ life = "RETIRED" /\ life' = "INVALID"
        \/ life = "ACTIVE" /\ life' = "PROBATION"
        \/ life = "PROBATION" /\ life' = "DORMANT"
        \/ life = "DORMANT" /\ life' = "PROBATION"
    <3>. HIDE DEF in
    <3>. QED
      BY <2>1, <2>2 DEF NextLifecycle, Lifecycles, Legal!Live
  <2>. QED
    BY <2>3 DEF Legal!Moves, Legal!Live
<1>. QED
  BY <1>1, <1>2

\* Every step of the health model is a step of Lifecycle, or leaves it alone.
THEOREM LifecycleRespected == Spec => [][Legal!Next]_life
<1>1. IInv /\ [Next]_vars => [Legal!Next]_life
  <2>. SUFFICES ASSUME IInv, [Next]_vars, life' # life PROVE Legal!Next
    OBVIOUS
  <2>1. << life, life' >> \in Legal!Moves
    BY MovesAreLegal DEF IInv
  <2>2. life' \in Lifecycles
    BY TypeStep DEF IInv, TypeOK
  <2>. DEFINE f == [node \in {"proxy"} |-> life']
  <2>3. f \in [{"proxy"} -> Legal!Live \cup {"INVALID", "RETIRED", Legal!Absent}]
    BY <2>2 DEF Legal!Live, Lifecycles
  <2>. QED
    BY <2>1, <2>3 DEF Legal!Next
<1>. QED
  BY <1>1, InvHolds, PTL DEF Spec

(***************************************************************************)
(* The download.  ActiveHasDownloaded is false, because an operator may    *)
(* revive what was never downloaded through and cheap successes then raise *)
(* it; that is the only way.                                               *)
(***************************************************************************)
Proven == life \in {"ACTIVE", "PROBATION", "DORMANT"} => downloaded

LEMMA ProvenStep == TypeOK /\ Proven /\ [Next /\ ~Revive]_vars => Proven'
<1>. SUFFICES ASSUME TypeOK, Proven, Next, ~Revive PROVE Proven'
  BY DEF vars, Proven
<1>1. CASE ApplyEvent
  <2>. DEFINE in == Considered(Head(pending))
  <2>1. /\ life' = NextLifecycle(in) /\ in.lifecycle = life
        /\ downloaded' = (downloaded \/ RealDownload(in.stage, in.class))
    BY <1>1, EventApplied DEF ApplyEvent, Considered
  <2>2. ASSUME ~RealDownload(in.stage, in.class),
               life' \in {"ACTIVE", "PROBATION", "DORMANT"}
        PROVE  life \in {"ACTIVE", "PROBATION", "DORMANT"}
    <3>. HIDE DEF in
    <3>1. life \in Lifecycles
      BY DEF TypeOK
    <3>. QED
      BY <2>1, <2>2, <3>1 DEF NextLifecycle, Lifecycles
  <2>. QED
    BY <2>1, <2>2 DEF Proven
<1>2. CASE ~ApplyEvent
  BY <1>2 DEF Proven, Next, vars, StartRun, ApplyFails, Release, Retire, Reappear,
              DecayAlpha, DecayBeta, Tick
<1>. QED
  BY <1>1, <1>2

\* Unless an operator revives it, a proxy that is ACTIVE, or was and has been
\* demoted since, has completed a download: no evidence, incident or return
\* from upstream raises a proxy that has not (health::decide, Store::revive_node).
THEOREM DownloadsProve == Init /\ [][Next /\ ~Revive]_vars => []ActiveHasDownloaded
<1>1. Init => TypeOK /\ Proven
  BY InvInit DEF IInv, Init, Proven
<1>2. TypeOK /\ Proven /\ [Next /\ ~Revive]_vars => (TypeOK /\ Proven)'
  <2>1. [Next /\ ~Revive]_vars => [Next]_vars
    OBVIOUS
  <2>. QED
    BY <2>1, TypeStep, ProvenStep
<1>3. Proven => ActiveHasDownloaded
  BY DEF Proven, ActiveHasDownloaded
<1>. QED
  BY <1>1, <1>2, <1>3, PTL
=============================================================================
