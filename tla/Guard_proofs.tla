---------------------------- MODULE Guard_proofs ----------------------------
(***************************************************************************)
(* Theorems about Guard, for any finite set of proxies of any origins, any *)
(* kinds of reports, any thresholds and any ranges of the limits.          *)
(***************************************************************************)
EXTENDS Guard, FiniteSetTheorems, TLAPS

(***************************************************************************)
(* The limits.                                                             *)
(***************************************************************************)
LEMMA ClampedInRange ==
  ASSUME NEW pool \in Pools, NEW n \in Int
  PROVE  Clamped(pool, n) \in Least[pool]..Most[pool]
BY GuardConstants DEF Clamped

\* A value of the limits.
InRange(l) == l \in [Pools -> Nat] /\ \A pool \in Pools : l[pool] \in Least[pool]..Most[pool]

LEMMA LeastInRange == InRange(Least)
<1>1. \A pool \in Pools : Least[pool] \in Nat /\ Most[pool] \in Nat
  BY GuardConstants
<1>. QED
  BY <1>1, GuardConstants DEF InRange

LEMMA CutInRange ==
  ASSUME NEW l, InRange(l)
  PROVE  InRange(Cut(l))
<1>1. \A pool \in Pools : (7 * l[pool]) \div 10 \in Int
  BY DEF InRange
<1>2. \A pool \in Pools : Cut(l)[pool] \in Least[pool]..Most[pool]
  BY <1>1, ClampedInRange DEF Cut
<1>3. Cut(l) = [pool \in Pools |-> Cut(l)[pool]]
  BY DEF Cut
<1>. QED
  BY <1>2, <1>3, GuardConstants DEF InRange

LEMMA RaisedInRange ==
  ASSUME NEW l, InRange(l)
  PROVE  InRange(Raised(l))
<1>1. \A pool \in Pools : Raised(l)[pool] \in Least[pool]..Most[pool]
  BY ClampedInRange DEF Raised, InRange
<1>2. Raised(l) = [pool \in Pools |-> Raised(l)[pool]]
  BY DEF Raised
<1>. QED
  BY <1>1, <1>2, GuardConstants DEF InRange

\* Whatever the range, a limit that is lowered falls until it is at its minimum
\* (numeric edge of app.rs: 0.7 of a limit, rounded down); this is the safety
\* half of LimitsFollowStrain.
THEOREM CutFalls ==
  ASSUME NEW l, InRange(l), NEW pool \in Pools
  PROVE  Cut(l)[pool] = Least[pool] \/ Cut(l)[pool] < l[pool]
<1>. DEFINE n == (7 * l[pool]) \div 10
<1>1. l[pool] \in Nat /\ Least[pool] \in Nat \ {0} /\ l[pool] \in Least[pool]..Most[pool]
      /\ Most[pool] \in Nat
  BY GuardConstants DEF InRange
<1>2. n \in Int /\ n < l[pool]
  BY <1>1
<1>. QED
  BY <1>1, <1>2 DEF Cut, Clamped

(***************************************************************************)
(* Sets of one and of two elements.                                        *)
(***************************************************************************)
LEMMA AtLeastTwo ==
  ASSUME NEW S, IsFiniteSet(S), NEW a \in S, NEW b \in S, a # b
  PROVE  Cardinality(S) >= 2
<1>1. IsFiniteSet({a}) /\ Cardinality({a}) = 1
  BY FS_Singleton
<1>2. IsFiniteSet({a} \cup {b}) /\ Cardinality({a} \cup {b}) = 2
  <2>1. b \notin {a}
    OBVIOUS
  <2>2. /\ IsFiniteSet({a} \cup {b})
        /\ Cardinality({a} \cup {b}) = IF b \in {a} THEN Cardinality({a})
                                      ELSE Cardinality({a}) + 1
    BY ONLY <1>1, FS_AddElement, Zenon
  <2>. QED
    BY <1>1, <2>1, <2>2
<1>3. {a} \cup {b} \in SUBSET S
  OBVIOUS
<1>. QED
  BY <1>2, <1>3, FS_Subset, FS_CardinalityType

LEMMA AtMostOne ==
  ASSUME NEW S, \A a, b \in S : a = b
  PROVE  ~(Cardinality(S) >= 2)
<1>1. CASE S = {}
  BY <1>1, FS_EmptySet
<1>2. CASE S # {}
  <2>1. PICK a : S = {a}
    BY <1>2
  <2>. QED
    BY <2>1, FS_Singleton
<1>. QED
  BY <1>1, <1>2

\* What the members of a batch have in one dimension.
Values(ps, d) == {Origin[p][d] : p \in ps}

LEMMA ValuesFinite ==
  ASSUME NEW ps \in SUBSET Proxies, NEW d
  PROVE  IsFiniteSet(Values(ps, d))
<1>. DEFINE f == [p \in ps |-> Origin[p][d]]
<1>1. f \in Surjection(ps, Values(ps, d))
  BY DEF Surjection, Values
<1>2. IsFiniteSet(ps)
  BY FS_Subset, GuardConstants
<1>. QED
  BY <1>1, <1>2, FS_Surjection

(***************************************************************************)
(* The reports.                                                            *)
(***************************************************************************)
LEMMA ReportShape ==
  ASSUME NEW r \in Reports(TRUE) \cup Reports(FALSE)
  PROVE  \/ r = Passed
         \/ Len(r) = 3 /\ r[1] = Passed[1]
         \/ Len(r) = 1 /\ r[1].class # "SUCCESS"
<1>1. CASE r = Passed
  BY <1>1
<1>2. CASE \E e \in DownloadEvents : r = Append(Passed, e)
  BY <1>2 DEF Passed
<1>3. CASE \E e \in StoppedEarly : r = << e >>
  BY <1>3 DEF StoppedEarly, Event
<1>. QED
  BY <1>1, <1>2, <1>3 DEF Reports

\* A report has events, and correlated_incident counts it as failed exactly when
\* all of them are the fault of the proxy (there is only one, then).
LEMMA FailedReport ==
  ASSUME NEW r \in Kinds
  PROVE  /\ 1 \in 1..Len(r)
         /\ Failed(r) <=> \A i \in 1..Len(r) :
              Conclusive(r[i].class) /\ r[i].class # "INVALID_CONFIG"
<1>1. r \in Reports(TRUE) \cup Reports(FALSE)
  BY GuardConstants
<1>2. CASE r = Passed \/ (Len(r) = 3 /\ r[1] = Passed[1])
  <2>1. Len(r) \in {2, 3} /\ r[1].class = "SUCCESS"
    BY <1>2 DEF Passed, Event
  <2>2. 1 \in 1..Len(r) /\ "SUCCESS" \in ClassesOf(r) /\ ~Conclusive(r[1].class)
    BY <2>1 DEF ClassesOf, Conclusive
  <2>. QED
    BY <2>2 DEF Failed
<1>3. CASE Len(r) = 1 /\ r[1].class # "SUCCESS"
  <2>1. \A i \in 1..Len(r) : i = 1
    BY <1>3
  <2>2. ClassesOf(r) = {r[1].class}
    BY <1>3 DEF ClassesOf
  <2>3. Failed(r) <=> Conclusive(r[1].class) /\ r[1].class # "INVALID_CONFIG"
    BY <1>3, <2>2 DEF Failed, Conclusive
  <2>4. 1 \in 1..Len(r)
    BY <1>3
  <2>. QED
    BY <2>1, <2>3, <2>4
<1>. QED
  BY <1>1, <1>2, <1>3, ReportShape

(***************************************************************************)
(* The invariant: TypeOK says nothing of what belongs to which place of    *)
(* the scheduler, nor how the verdict on a batch and the writes made of it *)
(* depend on its reports.                                                  *)
(***************************************************************************)
Placed ==
  /\ pc \in {"idle", "claiming"} => batch = {}
  /\ pc # "writing" => reports = << >> /\ left = {} /\ blamed = {}

Judged ==
  pc = "writing" =>
    /\ reports \in [batch -> Kinds]
    /\ mass = CorrelatedIncident(reports)
    /\ \A p \in batch \ left : p \in blamed <=> Blames(reports[p])

Inv == TypeOK /\ Placed /\ Judged

LEMMA InitInv == Init => Inv
<1>1. InRange(Least)
  BY LeastInRange
<1>2. 0 \in 0..FailureThreshold /\ 0 \in 0..RecoveryThreshold /\ 0 \in 0..MaxRestarts
  BY GuardConstants
<1>. QED
  BY <1>1, <1>2 DEF Init, Inv, TypeOK, InRange, Placed, Judged, Levels

LEMMA GuardInv ==
  Inv /\ (Sentinel \/ Check) => Inv'
<1>1. ASSUME Inv, Sentinel PROVE Inv'
  BY <1>1 DEF Inv, TypeOK, Placed, Judged, Sentinel, CorrelatedIncident, Blames
<1>2. ASSUME Inv, Check PROVE Inv'
  <2>1. /\ failures' \in 0..FailureThreshold /\ recoveries' \in 0..RecoveryThreshold
        /\ incident' \in BOOLEAN
    <3>1. CASE Healthy
      BY <1>2, <3>1, GuardConstants DEF Inv, TypeOK, Healthy, UpTo
    <3>2. CASE Unhealthy
      BY <1>2, <3>2, GuardConstants DEF Inv, TypeOK, Unhealthy, UpTo
    <3>. QED
      BY <1>2, <3>1, <3>2 DEF Check
  <2>. QED
    BY <1>2, <2>1 DEF Inv, TypeOK, Placed, Judged, Check, CorrelatedIncident, Blames
<1>. QED
  BY <1>1, <1>2

LEMMA TickInv ==
  ASSUME Inv, NEW level \in Levels, Tick(level)
  PROVE  Inv'
<1>1. InRange(limit) /\ pc = "idle" /\ pc' \in {"idle", "claiming"}
  BY DEF Inv, TypeOK, InRange, Tick
<1>2. InRange(limit')
  BY <1>1, CutInRange DEF Tick
<1>. QED
  BY <1>1, <1>2 DEF Inv, TypeOK, InRange, Placed, Judged, Tick, guard

LEMMA ClaimInv ==
  ASSUME Inv, NEW claimed \in SUBSET Proxies, Claim(claimed)
  PROVE  Inv'
BY DEF Inv, TypeOK, Placed, Judged, Claim, guard

LEMMA ProbeInv ==
  ASSUME Inv, NEW returned \in [batch -> Kinds], NEW slow \in BOOLEAN,
         Probe(returned, slow)
  PROVE  Inv'
<1>1. CorrelatedIncident(returned) \in BOOLEAN
  BY DEF CorrelatedIncident
<1>2. (CorrelatedIncident(returned))' = CorrelatedIncident(returned)
  BY DEF Probe, CorrelatedIncident
<1>3. blamed = {}
  BY DEF Inv, Placed, Probe
<1>4. TypeOK'
  BY <1>1, <1>3 DEF Inv, TypeOK, Probe, guard
<1>5. Judged'
  BY <1>3 DEF Inv, TypeOK, Judged, Probe, guard, CorrelatedIncident
<1>. QED
  BY <1>4, <1>5 DEF Inv, Placed, Probe

LEMMA WriteInv ==
  ASSUME Inv, NEW p \in Proxies, Write(p)
  PROVE  Inv'
<1>1. TypeOK'
  BY DEF Inv, TypeOK, Write, guard
<1>2. Judged'
  BY DEF Inv, TypeOK, Judged, Write, guard, CorrelatedIncident, Blames
<1>. QED
  BY <1>1, <1>2 DEF Inv, Placed, Write

LEMMA AdjustInv ==
  ASSUME Inv, Adjust
  PROVE  Inv'
<1>1. InRange(limit)
  BY DEF Inv, TypeOK, InRange
<1>2. InRange(limit')
  BY <1>1, CutInRange, RaisedInRange DEF Adjust
<1>. QED
  BY <1>2 DEF Inv, TypeOK, InRange, Placed, Judged, Adjust, NoBatch, guard

LEMMA RestartInv ==
  ASSUME Inv, Restart
  PROVE  Inv'
<1>1. InRange(limit')
  BY LeastInRange DEF Restart
<1>2. restarts' \in 0..MaxRestarts
  BY GuardConstants DEF Inv, TypeOK, Restart
<1>3. 0 \in 0..FailureThreshold /\ 0 \in 0..RecoveryThreshold
  BY GuardConstants
<1>. QED
  BY <1>1, <1>2, <1>3
  DEF Inv, TypeOK, InRange, Placed, Judged, Restart, NoBatch, Levels

LEMMA InvStep == Inv /\ [Next]_vars => Inv'
<1>. SUFFICES ASSUME Inv, [Next]_vars PROVE Inv'
  OBVIOUS
<1>1. CASE UNCHANGED vars
  BY <1>1 DEF Inv, TypeOK, Placed, Judged, vars, guard, CorrelatedIncident, Blames
<1>2. CASE Sentinel \/ Check
  BY <1>2, GuardInv
<1>3. CASE AnyTick
  BY <1>3, TickInv DEF AnyTick
<1>4. CASE ClaimSome \/ Claim({})
  BY <1>4, ClaimInv DEF ClaimSome
<1>5. CASE AnyProbe
  BY <1>5, ProbeInv DEF AnyProbe
<1>6. CASE \E p \in Proxies : Write(p)
  BY <1>6, WriteInv
<1>7. CASE Adjust \/ Restart
  BY <1>7, AdjustInv, RestartInv
<1>. QED
  BY <1>1, <1>2, <1>3, <1>4, <1>5, <1>6, <1>7 DEF Next

THEOREM Invariant == Spec => []Inv
<1>. QED
  BY InitInv, InvStep, PTL DEF Spec

\* The limits stay in their configured ranges, and everything in its type.
THEOREM TypeCorrect == Spec => []TypeOK
<1>1. Inv => TypeOK
  BY DEF Inv
<1>. QED
  BY <1>1, Invariant, PTL

(***************************************************************************)
(* The verdict on a batch.                                                 *)
(***************************************************************************)
LEMMA FailedAreUnreachable ==
  ASSUME Inv, Writing
  PROVE  {p \in batch : Failed(reports[p])} = Unreachable
<1>1. \A p \in batch : reports[p] \in Kinds
  BY DEF Inv, Judged, Writing
<1>. QED
  BY <1>1, FailedReport DEF Unreachable

\* When nothing works and two servers are concerned, the batch is taken for an
\* incident, and then only an invalid configuration is held against a proxy.
LEMMA OutageInv == Inv => OutageAccusesNobody
<1>. SUFFICES ASSUME Inv, Writing, Unreachable = batch, Cardinality(batch) >= 3,
                     NEW p \in batch, NEW q \in batch,
                     Origin[p]["server"] # Origin[q]["server"]
              PROVE  blamed = {}
  BY DEF OutageAccusesNobody
<1>1. batch \in SUBSET Proxies /\ blamed \subseteq batch \ left
  BY DEF Inv, TypeOK
<1>2. Cardinality(batch) \in Nat
  BY <1>1, FS_Subset, FS_CardinalityType, GuardConstants
<1>3. Cardinality(Values(batch, "server")) >= 2
  BY <1>1, ValuesFinite, AtLeastTwo DEF Values
<1>4. Independent(batch)
  BY <1>3 DEF Independent, Values, Dimensions
<1>5. 100 * Cardinality(batch) >= MassPercent * Cardinality(batch)
  BY <1>2, GuardConstants
<1>6. mass
  BY <1>4, <1>5, FailedAreUnreachable DEF Inv, Judged, Writing, CorrelatedIncident
<1>7. \A x \in batch : ~Blames(reports[x])
  BY <1>6 DEF Unreachable, Blames, ClassesOf
<1>. QED
  BY <1>1, <1>7 DEF Inv, Judged, Writing

\* When all failures share source, protocol and server, they are not taken for
\* an incident, and each is written as it is.
LEMMA BadServerInv == Inv => BadServerIsBlamed
<1>. SUFFICES ASSUME Inv, Writing,
                     \A p, q \in Unreachable : Origin[p] = Origin[q],
                     NEW x \in Unreachable \ left
              PROVE  x \in blamed
  BY DEF BadServerIsBlamed
<1>1. \A d \in Dimensions : ~(Cardinality(Values(Unreachable, d)) >= 2)
  BY AtMostOne DEF Values
<1>2. ~Independent(Unreachable)
  BY <1>1 DEF Independent, Values
<1>3. ~mass
  BY <1>2, FailedAreUnreachable DEF Inv, Judged, Writing, CorrelatedIncident
<1>4. x \in batch /\ reports[x] \in Kinds
  BY DEF Unreachable, Inv, Judged, Writing
<1>5. 1 \in 1..Len(reports[x])
  BY <1>4, FailedReport
<1>6. reports[x][1].class \in ClassesOf(reports[x]) /\ Conclusive(reports[x][1].class)
  BY <1>5 DEF Unreachable, ClassesOf
<1>7. Blames(reports[x])
  BY <1>3, <1>6 DEF Blames
<1>. QED
  BY <1>4, <1>7 DEF Inv, Judged, Writing

\* An outage across two servers accuses nobody, whatever the batch, its
\* origins and the threshold (correlated_incident, spawn_scheduler).
THEOREM OutageSound == Spec => []OutageAccusesNobody
<1>. QED
  BY Invariant, OutageInv, PTL

\* The failures of a single server are held against its proxies.
THEOREM BadServerSound == Spec => []BadServerIsBlamed
<1>. QED
  BY Invariant, BadServerInv, PTL

\* Both at once, as the run of Guard checks them.
THEOREM BlameFair == Spec => []BlameIsFair
<1>1. OutageAccusesNobody /\ BadServerIsBlamed => BlameIsFair
  BY DEF BlameIsFair
<1>. QED
  BY OutageSound, BadServerSound, <1>1, PTL
=============================================================================
