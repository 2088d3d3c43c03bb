---------------------- MODULE RestatementAuditProofs ------------------------
(* A green verdict means what it says, for every table, month, batch and    *)
(* bound: proofs about RestatementAudit.                                    *)
EXTENDS RestatementAudit, WellFoundedInduction, TLAPS

-----------------------------------------------------------------------------
(* Silver depends on the columns of bronze and on nothing else.             *)

(* The end of a version's interval is the same in two tables with the same  *)
(* columns.                                                                 *)
LEMMA SameEnd ==
  ASSUME NEW X, NEW Y, NEW x \in X, NEW y \in Y,
         Columns(X) = Columns(Y),
         x.key = y.key, x.known_at = y.known_at
  PROVE  KnownTo(X, x) = KnownTo(Y, y)
<1> DEFINE Same(r, o) == r.key = o.key /\ r.known_at = o.known_at
<1>1. \A r \in X : \E o \in Y : Same(r, o)
  <2> SUFFICES ASSUME NEW r \in X PROVE \E o \in Y : Same(r, o)
      OBVIOUS
  <2>1. [key |-> r.key, known_at |-> r.known_at, value |-> r.value] \in Columns(Y)
      BY DEF Columns
  <2>2. PICK o \in Y : [key |-> r.key, known_at |-> r.known_at, value |-> r.value]
                   = [key |-> o.key, known_at |-> o.known_at, value |-> o.value]
      BY <2>1 DEF Columns
  <2> QED BY <2>2
<1>2. \A o \in Y : \E r \in X : Same(r, o)
  <2> SUFFICES ASSUME NEW o \in Y PROVE \E r \in X : Same(r, o)
      OBVIOUS
  <2>1. [key |-> o.key, known_at |-> o.known_at, value |-> o.value] \in Columns(X)
      BY DEF Columns
  <2>2. PICK r \in X : [key |-> r.key, known_at |-> r.known_at, value |-> r.value]
                   = [key |-> o.key, known_at |-> o.known_at, value |-> o.value]
      BY <2>1 DEF Columns
  <2> QED BY <2>2
<1>3. IsCurrent(X, x) <=> IsCurrent(Y, y)
  BY <1>1, <1>2 DEF IsCurrent, Versions
<1>4. {o.known_at : o \in Versions(X, x.key)}
        = {o.known_at : o \in Versions(Y, y.key)}
  BY <1>1, <1>2 DEF Versions
<1>5. ASSUME NEW to PROVE IsKnownTo(X, x, to) <=> IsKnownTo(Y, y, to)
  BY <1>1, <1>2 DEF IsKnownTo, Versions
<1>6. Ends(X, x) = Ends(Y, y)
  BY <1>4, <1>5 DEF Ends
<1> QED BY <1>3, <1>6 DEF KnownTo

LEMMA SilverFromColumns ==
  ASSUME NEW X, NEW Y, Columns(X) = Columns(Y)
  PROVE  SilverVersions(X) \subseteq SilverVersions(Y)
<1> SUFFICES ASSUME NEW x \in X
             PROVE  \E y \in Y : /\ y.key = x.key /\ y.value = x.value
                                 /\ y.known_at = x.known_at
                                 /\ KnownTo(Y, y) = KnownTo(X, x)
    BY DEF SilverVersions
<1>1. [key |-> x.key, known_at |-> x.known_at, value |-> x.value] \in Columns(Y)
  BY DEF Columns
<1>2. PICK y \in Y : [key |-> x.key, known_at |-> x.known_at, value |-> x.value]
                 = [key |-> y.key, known_at |-> y.known_at, value |-> y.value]
  BY <1>1 DEF Columns
<1>3. y.key = x.key /\ y.value = x.value /\ y.known_at = x.known_at
  BY <1>2
<1> QED BY <1>3, SameEnd

LEMMA SameSilver ==
  ASSUME NEW X, NEW Y, Columns(X) = Columns(Y)
  PROVE  SilverVersions(X) = SilverVersions(Y)
BY SilverFromColumns

(* So a rebuild, gold included, depends on the columns only.                *)
LEMMA SameRebuild ==
  ASSUME NEW X, NEW Y, SilverVersions(X) = SilverVersions(Y)
  PROVE  Rebuild(X) = Rebuild(Y)
BY DEF Rebuild

-----------------------------------------------------------------------------
(* Type correctness.                                                        *)

LEMMA FailedIsRun ==
  ASSUME audit \in AuditRun
  PROVE  /\ Failed \in AuditRun
         /\ Failed.pc = "teardown"
         /\ Failed.outcome = "red"
         /\ Failed.planned = audit.planned
BY DEF Failed, AuditRun

(* A commit takes the next snapshot number.                                 *)
LEMMA CommitType ==
  ASSUME committed \in Seq(Nat), now \in Nat,
         committed' = Append(committed, now)
  PROVE  /\ committed' \in Seq(Nat)
         /\ Len(committed') = Len(committed) + 1
         /\ DOMAIN committed \subseteq DOMAIN committed'
OBVIOUS

(* What merges and maintenance touch.                                       *)
LEMMA BronzeType == TypeOK /\ [Next]_vars => BronzeOK'
<1> SUFFICES ASSUME TypeOK, [Next]_vars PROVE BronzeOK'
    OBVIOUS
<1> USE DEF TypeOK, BronzeOK, bronzeVars
<1>1. CASE Tick
  BY <1>1 DEF Tick
<1>2. ASSUME NEW batch \in Batches, NEW stamp \in 1 .. now, Land(batch, stamp)
      PROVE  BronzeOK'
  <2> DEFINE staged == {[key |-> o.key, known_at |-> stamp, value |-> o.value] :
                          o \in batch}
             inserts == MergeInserts(bronze, staged, {o.key : o \in batch})
  <2>1. \A o \in batch : o.key \in Keys /\ o.value \in Values
    BY ParametersOK DEF Observation
  <2>2. \A x \in staged : x.key \in Keys /\ x.known_at \in Nat /\ x.value \in Values
    BY <2>1
  <2>3. inserts \subseteq staged
    BY DEF MergeInserts
  <2>4. /\ committed' = Append(committed, now)
        /\ now' = now /\ expired' = expired
        /\ bronze' = bronze \cup
             {[key |-> x.key, known_at |-> x.known_at, value |-> x.value,
               snap |-> Len(committed) + 1] : x \in inserts}
    BY <1>2 DEF Land
  <2>5. Len(committed) + 1 \in Nat
    OBVIOUS
  <2> HIDE DEF inserts, staged
  <2>6. bronze' \subseteq Row
    BY <2>2, <2>3, <2>4, <2>5 DEF Row
  <2> QED BY <2>4, <2>6, CommitType
<1>3. CASE Compact
  BY <1>3, CommitType DEF Compact
<1>4. CASE Vacuum
  BY <1>4 DEF Vacuum
<1>5. CASE Dbt
  BY <1>5 DEF Dbt, StartBuild, RecordManifest, BuildVersions, TestVersions,
              BuildPeriod, BuildDaily, BuildFails, Write
<1>6. CASE Audit
  BY <1>6 DEF Audit, StartAudit, Plan, CheckClocks, Restate, Compare, Teardown,
              Verdict, TaskFails
<1>7. CASE UNCHANGED vars
  BY <1>7 DEF vars
<1> QED
  BY <1>1, <1>2, <1>3, <1>4, <1>5, <1>6, <1>7 DEF Next, Bronze

(* What dbt touches.                                                        *)
LEMMA DbtType == TypeOK /\ [Next]_vars => DbtOK'
<1> SUFFICES ASSUME TypeOK, [Next]_vars PROVE DbtOK'
    OBVIOUS
<1> USE DEF TypeOK, DbtOK, buildVars
<1>1. CASE Bronze
  <2>1. UNCHANGED buildVars
    BY <1>1 DEF Bronze, Tick, Land, Compact, Vacuum
  <2>2. committed \in Seq(Nat) /\ now \in Nat
    BY DEF BronzeOK
  <2>3. committed' = committed \/ committed' = Append(committed, now)
    BY <1>1 DEF Bronze, Tick, Land, Compact, Vacuum, bronzeVars
  <2>4. Len(committed') \in {Len(committed), Len(committed) + 1}
    BY <2>2, <2>3, CommitType
  <2>5. Len(committed) \in Nat
    BY <2>2
  <2> QED BY <2>1, <2>4, <2>5
<1>2. CASE StartBuild
  BY <1>2 DEF StartBuild, bronzeVars
<1>3. CASE RecordManifest
  <2>1. committed # <<>> => Len(committed) \in Nat /\ committed[Len(committed)] \in Nat
    BY DEF BronzeOK
  <2>2. committed = <<>> <=> Len(committed) = 0
    BY DEF BronzeOK
  <2>3. PICK run \in Run : manifest' = Append(manifest, run)
    BY <1>3, <2>1, <2>2 DEF RecordManifest, Run, NoRun
  <2>4. manifest' \in Seq(Run)
    BY <2>3
  <2>5. build' = [build EXCEPT !.recorded = TRUE]
    BY <1>3 DEF RecordManifest
  <2>6. build' \in [node : {"versions", "tests", "period", "daily", "end"},
                    recorded : BOOLEAN]
    BY <2>5
  <2> QED BY <1>3, <2>4, <2>6 DEF RecordManifest, bronzeVars
<1>4. CASE BuildVersions
  <2>1. Len(committed) \in 0 .. Len(committed)
    BY DEF BronzeOK
  <2> QED BY <1>4, <2>1 DEF BuildVersions, Write, bronzeVars
<1>5. CASE TestVersions
  BY <1>5 DEF TestVersions, bronzeVars
<1>6. CASE BuildPeriod
  BY <1>6 DEF BuildPeriod, Write, bronzeVars
<1>7. CASE BuildDaily
  BY <1>7 DEF BuildDaily, Write, bronzeVars
<1>8. CASE BuildFails
  <2>1. PICK recorded \in {build.recorded, TRUE} :
          build' = [node |-> "end", recorded |-> recorded]
    BY <1>8 DEF BuildFails
  <2>2. recorded \in BOOLEAN
    OBVIOUS
  <2>3. build' \in [node : {"versions", "tests", "period", "daily", "end"},
                    recorded : BOOLEAN]
    BY <2>1, <2>2
  <2> QED BY <1>8, <2>3 DEF BuildFails, bronzeVars
<1>9. CASE Audit
  BY <1>9 DEF Audit, StartAudit, Plan, CheckClocks, Restate, Compare, Teardown,
              Verdict, TaskFails, bronzeVars
<1>10. CASE UNCHANGED vars
  BY <1>10 DEF vars, bronzeVars
<1> QED
  BY <1>1, <1>2, <1>3, <1>4, <1>5, <1>6, <1>7, <1>8, <1>9, <1>10 DEF Next, Dbt

(* What the dag touches.                                                    *)
LEMMA AuditType == TypeOK /\ [Next]_vars => AuditOK'
<1> SUFFICES ASSUME TypeOK, [Next]_vars PROVE AuditOK'
    OBVIOUS
<1> USE DEF TypeOK, AuditOK, auditVars
<1>0. audit \in AuditRun
  OBVIOUS
<1>1. CASE Bronze
  BY <1>1 DEF Bronze, Tick, Land, Compact, Vacuum
<1>2. CASE Dbt
  <2>1. UNCHANGED auditVars
    BY <1>2 DEF Dbt, StartBuild, RecordManifest, BuildVersions, TestVersions,
                BuildPeriod, BuildDaily, BuildFails, Write
  <2>2. faults' \in Nat
    BY <1>2 DEF Dbt, StartBuild, RecordManifest, BuildVersions, TestVersions,
                BuildPeriod, BuildDaily, BuildFails, Write
  <2>3. rebuilt' \in BOOLEAN
    BY <1>2 DEF Dbt, StartBuild, RecordManifest, BuildVersions, TestVersions,
                BuildPeriod, BuildDaily, BuildFails, Write
  <2> QED BY <2>1, <2>2, <2>3
<1>3. CASE StartAudit
  <2>1. audit'.pc = "plan" /\ audit'.compared = 0 /\ audit' \in AuditRun
    BY <1>3 DEF StartAudit, Idle, NoRun, AuditRun, Run, Order
  <2> QED BY <1>3, <2>1 DEF StartAudit
<1>4. CASE Plan
  <2>1. /\ audit' \in AuditRun /\ audit'.pc # "compare"
        /\ audit'.pc = "teardown" \/ audit'.compared = audit.compared
    <3>1. CASE manifest = <<>> \/ manifest[Len(manifest)] = NoRun
      BY <1>4, <3>1, FailedIsRun DEF Plan
    <3>2. CASE ~(manifest = <<>> \/ manifest[Len(manifest)] = NoRun)
      <4>1. manifest[Len(manifest)] \in Run
        BY <3>2 DEF DbtOK
      <4>2. audit' = [audit EXCEPT !.pc = "clocks",
                                   !.planned = manifest[Len(manifest)]]
        BY <1>4, <3>2 DEF Plan
      <4> QED BY <4>1, <4>2 DEF AuditRun
    <3> QED BY <3>1, <3>2
  <2> QED BY <1>4, <2>1 DEF Plan
<1>5. CASE CheckClocks
  <2>1. /\ audit' \in AuditRun /\ audit'.pc # "compare"
        /\ audit'.pc = "teardown" \/ audit'.compared = audit.compared
    <3>1. CASE audit' = Failed
      BY <3>1, FailedIsRun
    <3>2. CASE audit' = [audit EXCEPT !.pc = "restate"]
      BY <3>2 DEF AuditRun
    <3> QED BY <1>5, <3>1, <3>2 DEF CheckClocks
  <2> QED BY <1>5, <2>1 DEF CheckClocks
<1>6. CASE Restate
  <2>1. DOMAIN restated' = Tables
    BY <1>6 DEF Restate, Rebuild
  <2>2. audit' \in AuditRun /\ audit'.compared = audit.compared
    BY <1>6 DEF Restate, AuditRun
  <2>3. audit.compared = 0 /\ audit'.pc = "compare"
    BY <1>6 DEF Restate, AuditRun
  <2>4. 0 < Len(Order)
    BY DEF Order
  <2> QED BY <1>6, <2>1, <2>2, <2>3, <2>4 DEF Restate
<1>7. CASE Compare
  <2>1. PICK differ :
          /\ differ \subseteq Tables
          /\ audit' = [audit EXCEPT
               !.compared = @ + 1,
               !.differ = differ,
               !.pc = IF AllCompared(audit.compared + 1) THEN "teardown" ELSE @,
               !.outcome = IF AllCompared(audit.compared + 1) /\ differ # {}
                           THEN "red" ELSE @]
    <3>1. audit.compared + 1 \in 1 .. 3
      BY <1>7 DEF Compare, AuditRun, Order
    <3>2. Order[audit.compared + 1] \in Tables
      BY <3>1 DEF Order, Tables
    <3>3. audit.differ \subseteq Tables
      BY DEF AuditRun
    <3> QED BY <1>7, <3>2, <3>3 DEF Compare
  <2>2. audit.compared < 3 /\ audit.compared \in Nat /\ audit.pc = "compare"
    BY <1>7 DEF Compare, AuditRun, Order
  <2>3. AllCompared(audit.compared + 1) <=> audit.compared = 2
    BY <2>2 DEF AllCompared, Order
  <2>4. audit' \in AuditRun
    <3> DEFINE p == IF AllCompared(audit.compared + 1) THEN "teardown"
                    ELSE audit.pc
               o == IF AllCompared(audit.compared + 1) /\ differ # {}
                    THEN "red" ELSE audit.outcome
               c == audit.compared + 1
    <3>1. p \in {"teardown", "compare"} /\ o \in {"none", "green", "red"}
      BY <2>2 DEF AuditRun
    <3>2. c \in 0 .. Len(Order)
      BY <2>2 DEF Order
    <3>3. audit' = [audit EXCEPT !.compared = c, !.differ = differ, !.pc = p,
                                 !.outcome = o]
      BY <2>1
    <3>4. audit' = [pc |-> p, planned |-> audit.planned, compared |-> c,
                    differ |-> differ, outcome |-> o, raised |-> audit.raised]
      BY <3>3 DEF AuditRun
    <3>5. /\ audit.planned \in Run
          /\ audit.raised \in SUBSET {"plan", "clocks", "restate", "compare",
                                      "teardown", "verdict"}
      BY DEF AuditRun
    <3>6. differ \in SUBSET Tables
      BY <2>1
    <3> HIDE DEF p, o, c
    <3> QED
      BY <3>1, <3>2, <3>4, <3>5, <3>6 DEF AuditRun
  <2>5. audit'.compared = audit.compared + 1
    BY <2>1 DEF AuditRun
  <2>6. audit'.pc = IF audit.compared = 2 THEN "teardown" ELSE "compare"
    BY <2>1, <2>2, <2>3 DEF AuditRun
  <2>7. audit'.pc = "compare" => audit'.compared < Len(Order)
    BY <2>2, <2>5, <2>6 DEF Order
  <2> QED BY <1>7, <2>4, <2>6, <2>7 DEF Compare
<1>8. CASE Teardown
  <2>1. audit' \in AuditRun /\ audit'.pc \in {"idle", "verdict"}
    BY <1>8 DEF Teardown, AuditRun
  <2> QED BY <1>8, <2>1 DEF Teardown
<1>9. CASE Verdict
  <2>1. audit' \in AuditRun /\ audit'.pc = "idle"
    BY <1>9 DEF Verdict, AuditRun
  <2> QED BY <1>9, <2>1 DEF Verdict
<1>10. CASE TaskFails
  <2>1. /\ audit' = [Failed EXCEPT
             !.raised = @ \cup {audit.pc},
             !.pc = IF audit.pc \in {"teardown", "verdict"} THEN "idle" ELSE @]
        /\ audit.pc # "idle"
    BY <1>10 DEF TaskFails
  <2>2. audit.pc \in {"plan", "clocks", "restate", "compare", "teardown", "verdict"}
    BY <2>1 DEF AuditRun
  <2>3. audit' \in AuditRun
    BY <2>1, <2>2, FailedIsRun DEF AuditRun
  <2>4. audit'.pc \in {"idle", "teardown"}
    BY <2>1, FailedIsRun DEF AuditRun
  <2>5. DOMAIN restated' \subseteq Tables
    <3>1. CASE audit.pc = "restate"
      <4>1. PICK n \in 0 .. 3 : restated' = PartlyRestated(n)
        BY <1>10, <3>1 DEF TaskFails
      <4>2. {Order[i] : i \in 1 .. n} \subseteq Tables
        BY DEF Order, Tables
      <4> QED BY <4>1, <4>2 DEF PartlyRestated
    <3>2. CASE audit.pc = "teardown"
      <4>1. PICK left \in SUBSET DOMAIN restated :
              restated' = [t \in left |-> restated[t]]
        BY <1>10, <3>2 DEF TaskFails
      <4> QED BY <4>1
    <3>3. CASE audit.pc \notin {"restate", "teardown"}
      BY <1>10, <3>3 DEF TaskFails
    <3> QED BY <3>1, <3>2, <3>3
  <2> QED BY <1>10, <2>3, <2>4, <2>5 DEF TaskFails
<1>11. CASE UNCHANGED vars
  BY <1>11 DEF vars
<1> QED
  BY <1>1, <1>2, <1>3, <1>4, <1>5, <1>6, <1>7, <1>8, <1>9, <1>10, <1>11
  DEF Next, Audit

(* Every variable stays in its domain, whatever commits, builds and fails   *)
(* meanwhile; in particular compare never runs past the last table.         *)
THEOREM TypeCorrect == Spec => []TypeOK
<1>1. Init => TypeOK
  <2> SUFFICES ASSUME Init PROVE TypeOK
      OBVIOUS
  <2>1. BronzeOK
    BY DEF Init, BronzeOK
  <2>2. DbtOK
    BY DEF Init, DbtOK
  <2>3. Idle \in AuditRun /\ Idle.pc = "idle"
    BY DEF Idle, AuditRun, Run, NoRun, Order
  <2>4. AuditOK
    BY <2>3 DEF Init, AuditOK
  <2> QED BY <2>1, <2>2, <2>4 DEF TypeOK
<1>2. TypeOK /\ [Next]_vars => TypeOK'
  BY BronzeType, DbtType, AuditType DEF TypeOK
<1> QED
  BY <1>1, <1>2, PTL DEF Spec

-----------------------------------------------------------------------------
(* The inductive invariant behind a green verdict.                          *)

(* Every row belongs to a snapshot of the log.                              *)
Logged == \A r \in bronze : r.snap \in 1 .. Len(committed)

(* Silver is what the snapshot it was built from gives.                     *)
SilverIsRead ==
  production["versions"] = SilverVersions(AtSnapshot(bronze, readBy))

Recorded ==
  /\ \A i \in DOMAIN manifest : manifest[i].snapshot <= Len(committed)
  /\ audit.planned.snapshot <= Len(committed)

AtPlanned == InMonth(AtSnapshot(bronze, audit.planned.snapshot))
AtRead == InMonth(AtSnapshot(bronze, readBy))
Bound == audit.planned.learned_up_to

(* The comparison has ended without a difference, or the run is green.      *)
Passed ==
  \/ audit.pc = "teardown" /\ audit.outcome # "red"
  \/ audit.pc = "verdict"
  \/ audit.pc = "idle" /\ audit.outcome = "green"

SameColumns(r, o) ==
  r.key = o.key /\ r.known_at = o.known_at /\ r.value = o.value

(* What check_clocks established stays true while bronze grows: the planned *)
(* snapshot was learned by the bound, and what production read by the bound *)
(* is in the planned snapshot.                                              *)
ClocksHeld ==
  audit.pc \in {"restate", "compare"} =>
    /\ \A r \in AtPlanned : r.known_at <= Bound
    /\ ~rebuilt => \A r \in AtRead : r.known_at <= Bound =>
                     \E o \in AtPlanned : SameColumns(r, o)

(* The restated tables come from rows between the planned snapshot and the  *)
(* bound, though from which bronze is not recorded.                         *)
RestatedInside ==
  audit.pc = "compare" =>
    \E K \in SUBSET bronze :
      /\ restated = Rebuild(K)
      /\ AtPlanned \subseteq K
      /\ K \subseteq InMonth(KnownBy(bronze, Bound))

ComparedEqual ==
  (audit.pc = "compare" /\ ~rebuilt) =>
    \A i \in 1 .. audit.compared : Order[i] \notin audit.differ =>
      restated[Order[i]] = Confined(Order[i], production[Order[i]])

Reproducible ==
  \A t \in Tables : Confined(t, production[t]) = Promised(audit.planned)[t]

PassedIsReproducible == (Passed /\ ~rebuilt) => Reproducible

IInv ==
  /\ TypeOK
  /\ Logged
  /\ SilverIsRead
  /\ Recorded
  /\ ClocksHeld
  /\ RestatedInside
  /\ ComparedEqual
  /\ PassedIsReproducible

LEMMA InitInv == Init => IInv
<1> SUFFICES ASSUME Init PROVE IInv
    OBVIOUS
<1>1. TypeOK
  <2>1. BronzeOK
    BY DEF Init, BronzeOK
  <2>2. DbtOK
    BY DEF Init, DbtOK
  <2>3. Idle \in AuditRun /\ Idle.pc = "idle"
    BY DEF Idle, AuditRun, Run, NoRun, Order
  <2>4. AuditOK
    BY <2>3 DEF Init, AuditOK
  <2> QED BY <2>1, <2>2, <2>4 DEF TypeOK
<1>2. Logged
  BY DEF Init, Logged
<1>3. SilverIsRead
  <2>1. production["versions"] = {}
    BY DEF Init, Tables
  <2>2. SilverVersions(AtSnapshot(bronze, readBy)) = {}
    BY DEF Init, SilverVersions, AtSnapshot
  <2> QED BY <2>1, <2>2 DEF SilverIsRead
<1>4. Recorded
  BY DEF Init, Recorded, Idle, NoRun
<1>5. ClocksHeld /\ RestatedInside /\ ComparedEqual /\ PassedIsReproducible
  BY DEF Init, Idle, ClocksHeld, RestatedInside, ComparedEqual,
         PassedIsReproducible, Passed
<1> QED
  BY <1>1, <1>2, <1>3, <1>4, <1>5 DEF IInv

-----------------------------------------------------------------------------
(* Bronze grows, and an old snapshot keeps its rows.                        *)
LEMMA BronzeStep ==
  ASSUME TypeOK, Logged, Bronze
  PROVE  /\ Logged'
         /\ bronze \subseteq bronze'
         /\ Len(committed) <= Len(committed')
         /\ \A n \in Nat : n <= Len(committed) =>
              AtSnapshot(bronze, n) = AtSnapshot(bronze', n)
         /\ UNCHANGED <<buildVars, auditVars, rebuilt>>
<1>1. committed \in Seq(Nat) /\ now \in Nat /\ Len(committed) \in Nat
  BY DEF TypeOK, BronzeOK
<1>2. UNCHANGED <<buildVars, auditVars, rebuilt>>
  BY DEF Bronze, Tick, Land, Compact, Vacuum
<1>3. CASE Tick \/ Vacuum
  <2>1. bronze' = bronze /\ committed' = committed
    BY <1>3 DEF Tick, Vacuum, bronzeVars
  <2> QED BY <1>1, <1>2, <2>1 DEF Logged
<1>4. CASE Compact
  <2>1. bronze' = bronze /\ Len(committed') = Len(committed) + 1
    BY <1>1, <1>4, CommitType DEF Compact
  <2>2. Logged'
    BY <1>1, <2>1 DEF Logged
  <2> QED BY <1>1, <1>2, <2>1, <2>2
<1>5. ASSUME NEW batch \in Batches, NEW stamp \in 1 .. now, Land(batch, stamp)
      PROVE  /\ Logged'
             /\ bronze \subseteq bronze'
             /\ Len(committed) <= Len(committed')
             /\ \A n \in Nat : n <= Len(committed) =>
                  AtSnapshot(bronze, n) = AtSnapshot(bronze', n)
  <2>1. Len(committed') = Len(committed) + 1
    BY <1>1, <1>5, CommitType DEF Land
  <2>2. bronze \subseteq bronze'
    BY <1>5 DEF Land
  <2>3. \A r \in bronze' : r \in bronze \/ r.snap = Len(committed) + 1
    <3>1. PICK inserts :
            bronze' = bronze \cup
              {[key |-> s.key, known_at |-> s.known_at, value |-> s.value,
                snap |-> Len(committed) + 1] : s \in inserts}
      BY <1>5 DEF Land
    <3> QED BY <3>1
  <2>4. Logged'
    BY <1>1, <2>1, <2>3 DEF Logged
  <2>5. ASSUME NEW n \in Nat, n <= Len(committed)
        PROVE  AtSnapshot(bronze, n) = AtSnapshot(bronze', n)
    BY <1>1, <2>2, <2>3, <2>5 DEF AtSnapshot
  <2> QED BY <1>1, <2>1, <2>2, <2>4, <2>5
<1> QED
  BY <1>2, <1>3, <1>4, <1>5 DEF Bronze

LEMMA BronzeKeeps ==
  ASSUME IInv, Bronze
  PROVE  /\ Logged' /\ SilverIsRead' /\ Recorded' /\ ClocksHeld'
         /\ RestatedInside' /\ ComparedEqual' /\ PassedIsReproducible'
<1> USE DEF IInv
<1>1. /\ bronze \subseteq bronze'
      /\ Len(committed) <= Len(committed')
      /\ Len(committed) \in Nat /\ Len(committed') \in Nat
      /\ UNCHANGED <<manifest, production, readBy, audit, restated, rebuilt>>
  <2>1. TypeOK'
    BY BronzeType, DbtType, AuditType DEF TypeOK, Next
  <2> QED BY <2>1, BronzeStep DEF TypeOK, BronzeOK, buildVars, auditVars
<1>2. /\ audit.planned.snapshot \in Nat /\ readBy \in Nat
      /\ \A i \in DOMAIN manifest : manifest[i].snapshot \in Nat
  <2>1. audit.planned \in Run /\ manifest \in Seq(Run) /\ readBy \in Nat
    BY DEF TypeOK, DbtOK, BronzeOK, AuditOK, AuditRun
  <2>2. \A i \in DOMAIN manifest : manifest[i] \in Run
    BY <2>1
  <2> QED BY <2>1, <2>2 DEF Run
<1>3. /\ AtSnapshot(bronze, readBy) = AtSnapshot(bronze', readBy)
      /\ AtSnapshot(bronze, audit.planned.snapshot)
           = AtSnapshot(bronze', audit.planned.snapshot)
  BY <1>1, <1>2, BronzeStep DEF Recorded, TypeOK, DbtOK
<1>4. AtPlanned' = AtPlanned /\ AtRead' = AtRead /\ Bound' = Bound
  BY <1>1, <1>3 DEF AtPlanned, AtRead, Bound, InMonth
<1>5. Logged'
  BY BronzeStep
<1>6. SilverIsRead'
  BY <1>1, <1>3 DEF SilverIsRead
<1>7. Recorded'
  BY <1>1, <1>2 DEF Recorded
<1>8. ClocksHeld'
  BY <1>1, <1>4 DEF ClocksHeld
<1>9. RestatedInside'
  <2>1. InMonth(KnownBy(bronze, Bound)) \subseteq InMonth(KnownBy(bronze', Bound'))
    BY <1>1, <1>4 DEF InMonth, KnownBy
  <2> QED BY <1>1, <1>4, <2>1 DEF RestatedInside
<1>10. ComparedEqual'
  BY <1>1 DEF ComparedEqual
<1>11. PassedIsReproducible'
  <2>1. Promised(audit.planned)' = Promised(audit.planned)
    BY <1>1, <1>3 DEF Promised
  <2> QED BY <1>1, <2>1 DEF PassedIsReproducible, Passed, Reproducible
<1> QED
  BY <1>5, <1>6, <1>7, <1>8, <1>9, <1>10, <1>11

-----------------------------------------------------------------------------
(* A build changes production only under the rebuilt flag.                  *)
LEMMA DbtStep ==
  ASSUME IInv, Dbt
  PROVE  /\ UNCHANGED <<bronze, committed, audit, restated>>
         /\ rebuilt' \/ UNCHANGED <<production, readBy, rebuilt>>
         /\ SilverIsRead' /\ Recorded'
<1> USE DEF IInv
<1>1. UNCHANGED <<bronze, committed, audit, restated>>
  BY DEF Dbt, StartBuild, RecordManifest, BuildVersions, TestVersions,
         BuildPeriod, BuildDaily, BuildFails, Write, bronzeVars, auditVars
<1>2. rebuilt' \/ UNCHANGED <<production, readBy, rebuilt>>
  BY DEF Dbt, StartBuild, RecordManifest, BuildVersions, TestVersions,
         BuildPeriod, BuildDaily, BuildFails, Write
<1>3. SilverIsRead'
  <2>1. CASE BuildVersions
    <3>1. /\ production' = [production EXCEPT !["versions"] = SilverVersions(bronze)]
          /\ readBy' = Len(committed)
      BY <2>1 DEF BuildVersions, Write
    <3>2. production'["versions"] = SilverVersions(bronze)
      BY <3>1 DEF TypeOK, DbtOK, Tables
    <3>3. AtSnapshot(bronze, Len(committed)) = bronze
      BY DEF Logged, AtSnapshot
    <3> QED BY <1>1, <3>1, <3>2, <3>3 DEF SilverIsRead
  <2>2. CASE BuildPeriod \/ BuildDaily
    <3>1. production'["versions"] = production["versions"] /\ readBy' = readBy
      BY <2>2 DEF BuildPeriod, BuildDaily, Write, TypeOK, DbtOK, Tables
    <3> QED BY <1>1, <3>1 DEF SilverIsRead
  <2>3. CASE UNCHANGED <<production, readBy>>
    BY <1>1, <2>3 DEF SilverIsRead
  <2> QED
    BY <2>1, <2>2, <2>3 DEF Dbt, StartBuild, RecordManifest, TestVersions,
                            BuildFails
<1>4. Recorded'
  <2>1. CASE RecordManifest
    <3>1. PICK run : /\ manifest' = Append(manifest, run)
                     /\ run.snapshot <= Len(committed)
      <4>1. NoRun.snapshot <= Len(committed)
        BY DEF NoRun, TypeOK, BronzeOK
      <4>2. CASE Len(committed) = 0
        BY <2>1, <4>1, <4>2 DEF RecordManifest
      <4>3. CASE Len(committed) # 0
        <5> DEFINE run == [snapshot |-> Len(committed),
                           learned_up_to |-> committed[Len(committed)]]
        <5>1. manifest' = Append(manifest, run)
          BY <2>1, <4>3 DEF RecordManifest
        <5>2. run.snapshot <= Len(committed)
          BY DEF TypeOK, BronzeOK
        <5> QED BY <5>1, <5>2
      <4> QED BY <4>2, <4>3
    <3>2. manifest \in Seq(Run)
      BY DEF TypeOK, DbtOK
    <3>3. \A i \in DOMAIN manifest' : manifest'[i].snapshot <= Len(committed)
      BY <3>1, <3>2 DEF Recorded
    <3> QED BY <1>1, <3>3 DEF Recorded
  <2>2. CASE UNCHANGED manifest
    BY <1>1, <2>2 DEF Recorded
  <2> QED
    BY <2>1, <2>2 DEF Dbt, StartBuild, BuildVersions, TestVersions,
                      BuildPeriod, BuildDaily, BuildFails, Write
<1> QED
  BY <1>1, <1>2, <1>3, <1>4

LEMMA DbtKeeps ==
  ASSUME IInv, Dbt
  PROVE  /\ Logged' /\ SilverIsRead' /\ Recorded' /\ ClocksHeld'
         /\ RestatedInside' /\ ComparedEqual' /\ PassedIsReproducible'
<1> USE DEF IInv
<1>1. /\ UNCHANGED <<bronze, committed, audit, restated>>
      /\ rebuilt' \/ UNCHANGED <<production, readBy, rebuilt>>
  BY DbtStep
<1>2. AtPlanned' = AtPlanned /\ Bound' = Bound
  BY <1>1 DEF AtPlanned, Bound, InMonth, AtSnapshot
<1>3. SilverIsRead' /\ Recorded' /\ Logged'
  BY <1>1, DbtStep DEF Logged
<1>4. RestatedInside'
  BY <1>1, <1>2 DEF RestatedInside
<1>5. CASE rebuilt'
  BY <1>1, <1>2, <1>3, <1>4, <1>5
  DEF ClocksHeld, ComparedEqual, PassedIsReproducible
<1>6. CASE UNCHANGED <<production, readBy, rebuilt>>
  <2>1. AtRead' = AtRead
    BY <1>1, <1>6 DEF AtRead, InMonth, AtSnapshot
  <2>2. Promised(audit.planned)' = Promised(audit.planned)
    BY <1>1 DEF Promised
  <2> QED
    BY <1>1, <1>2, <1>3, <1>4, <1>6, <2>1, <2>2
    DEF ClocksHeld, ComparedEqual, PassedIsReproducible, Passed, Reproducible
<1> QED
  BY <1>1, <1>5, <1>6

-----------------------------------------------------------------------------
(* The heart of the argument: if production stood still and the restated    *)
(* versions equal production's, the rows they came from are the planned     *)
(* snapshot's, so all of the rebuild is what that snapshot gives.           *)
LEMMA EqualVersionsPinRows ==
  ASSUME SilverIsRead, ClocksHeld, audit.pc = "compare", ~rebuilt,
         NEW K,
         restated = Rebuild(K),
         AtPlanned \subseteq K,
         K \subseteq InMonth(KnownBy(bronze, Bound)),
         restated["versions"] = Confined("versions", production["versions"])
  PROVE  restated = Promised(audit.planned)
<1>1. restated["versions"] = SilverVersions(K)
  BY DEF Rebuild, Tables
<1>2. \A x \in K : \E o \in AtPlanned : SameColumns(x, o)
  <2> SUFFICES ASSUME NEW x \in K PROVE \E o \in AtPlanned : SameColumns(x, o)
      OBVIOUS
  <2> DEFINE v == [key |-> x.key, value |-> x.value, known_from |-> x.known_at,
                   known_to |-> KnownTo(K, x)]
  <2>1. v \in SilverVersions(K)
    BY DEF SilverVersions
  <2>2. v \in production["versions"] /\ v.key \in MonthKeys
    BY <1>1, <2>1 DEF Confined
  <2>3. v \in SilverVersions(AtSnapshot(bronze, readBy))
    BY <2>2 DEF SilverIsRead
  <2>4. PICK y \in AtSnapshot(bronze, readBy) :
          v = [key |-> y.key, value |-> y.value, known_from |-> y.known_at,
               known_to |-> KnownTo(AtSnapshot(bronze, readBy), y)]
    BY <2>3 DEF SilverVersions
  <2>5. y.key = x.key /\ y.value = x.value /\ y.known_at = x.known_at
    BY <2>4
  <2>6. x.known_at <= Bound
    BY DEF InMonth, KnownBy
  <2>7. y \in AtRead
    BY <2>2, <2>5 DEF AtRead, InMonth
  <2>8. PICK o \in AtPlanned : SameColumns(y, o)
    BY <2>5, <2>6, <2>7 DEF ClocksHeld
  <2> QED BY <2>5, <2>8 DEF SameColumns
<1>3. Columns(K) = Columns(AtPlanned)
  <2>1. Columns(K) \subseteq Columns(AtPlanned)
    BY <1>2 DEF Columns, SameColumns
  <2>2. Columns(AtPlanned) \subseteq Columns(K)
    BY DEF Columns
  <2> QED BY <2>1, <2>2
<1>4. Rebuild(K) = Rebuild(AtPlanned)
  BY <1>3, SameSilver, SameRebuild
<1> QED
  BY <1>4 DEF Promised, AtPlanned

(* A step of the dag leaves bronze and production alone.                    *)
LEMMA AuditLeaves ==
  ASSUME Audit
  PROVE  UNCHANGED <<bronze, committed, manifest, production, readBy>>
BY DEF Audit, StartAudit, Plan, CheckClocks, Restate, Compare, Teardown,
       Verdict, TaskFails, bronzeVars, buildVars

(* Each task of the dag keeps the rest of the invariant.                    *)
LEMMA AuditKeeps ==
  ASSUME IInv, Audit
  PROVE  /\ Logged' /\ SilverIsRead' /\ Recorded' /\ ClocksHeld'
         /\ RestatedInside' /\ ComparedEqual' /\ PassedIsReproducible'
<1> USE DEF IInv
<1>0. /\ UNCHANGED <<bronze, committed, manifest, production, readBy>>
      /\ audit \in AuditRun
  BY AuditLeaves DEF TypeOK, AuditOK
<1>1. Logged' /\ SilverIsRead' /\ AtRead' = AtRead
  BY <1>0 DEF Logged, SilverIsRead, AtRead, InMonth, AtSnapshot
<1> DEFINE Rest == /\ Recorded' /\ ClocksHeld' /\ RestatedInside'
                   /\ ComparedEqual' /\ PassedIsReproducible'
<1>2. ASSUME audit'.planned = audit.planned
      PROVE  /\ AtPlanned' = AtPlanned /\ Bound' = Bound /\ Recorded'
             /\ Promised(audit.planned)' = Promised(audit.planned)
  BY <1>0, <1>2 DEF AtPlanned, Bound, InMonth, AtSnapshot, Recorded, Promised
<1>3. ASSUME audit'.pc \notin {"restate", "compare"}, ~Passed', Recorded'
      PROVE  Rest
  BY <1>3 DEF ClocksHeld, RestatedInside, ComparedEqual, PassedIsReproducible
<1>4. ASSUME audit' = Failed PROVE Rest
  <2>1. audit'.planned = audit.planned /\ audit'.pc = "teardown"
        /\ audit'.outcome = "red"
    BY <1>0, <1>4, FailedIsRun
  <2> QED BY <1>2, <1>3, <2>1 DEF Passed
<1>5. CASE StartAudit
  <2>1. audit'.pc = "plan" /\ audit'.planned.snapshot = 0
    BY <1>5 DEF StartAudit, Idle, NoRun
  <2>2. Recorded'
    BY <1>0, <2>1 DEF Recorded, TypeOK, BronzeOK
  <2> QED BY <1>1, <1>3, <2>1, <2>2 DEF Passed
<1>6. CASE Plan
  <2>1. CASE audit' = Failed
    BY <1>1, <1>4, <2>1
  <2>2. CASE audit' # Failed
    <3> DEFINE last == manifest[Len(manifest)]
    <3>1. /\ manifest # <<>>
          /\ audit' = [audit EXCEPT !.pc = "clocks", !.planned = last]
      BY <1>6, <2>2 DEF Plan
    <3>2. Len(manifest) \in DOMAIN manifest
      BY <3>1 DEF TypeOK, DbtOK
    <3>3. audit'.pc = "clocks" /\ audit'.planned = last
      BY <1>0, <3>1 DEF AuditRun
    <3>4. Recorded'
      BY <1>0, <3>2, <3>3 DEF Recorded
    <3> QED BY <1>1, <1>3, <3>3, <3>4 DEF Passed
  <2> QED BY <2>1, <2>2
<1>7. CASE CheckClocks
  <2>1. CASE audit' = Failed
    BY <1>1, <1>4, <2>1
  <2>2. CASE audit' # Failed
    <3>1. /\ ClocksAgree(audit.planned)
          /\ audit' = [audit EXCEPT !.pc = "restate"]
          /\ rebuilt' = rebuilt
      BY <1>7, <2>2 DEF CheckClocks
    <3>2. audit'.pc = "restate" /\ audit'.planned = audit.planned
      BY <1>0, <3>1 DEF AuditRun
    <3>3. Columns(AtPlanned) = Columns(InMonth(KnownBy(bronze, Bound)))
      BY <3>1 DEF ClocksAgree, RestatedInput, AtPlanned, Bound
    <3>4. \A r \in AtPlanned : r.known_at <= Bound
      <4> SUFFICES ASSUME NEW r \in AtPlanned PROVE r.known_at <= Bound
          OBVIOUS
      <4>1. [key |-> r.key, known_at |-> r.known_at, value |-> r.value]
              \in Columns(InMonth(KnownBy(bronze, Bound)))
        BY <3>3 DEF Columns
      <4>2. PICK o \in InMonth(KnownBy(bronze, Bound)) :
              [key |-> r.key, known_at |-> r.known_at, value |-> r.value]
                = [key |-> o.key, known_at |-> o.known_at, value |-> o.value]
        BY <4>1 DEF Columns
      <4>3. r.known_at = o.known_at /\ o.known_at <= Bound
        BY <4>2 DEF InMonth, KnownBy
      <4> QED BY <4>3
    <3>5. \A r \in AtRead : r.known_at <= Bound =>
            \E o \in AtPlanned : SameColumns(r, o)
      <4> SUFFICES ASSUME NEW r \in AtRead, r.known_at <= Bound
                   PROVE  \E o \in AtPlanned : SameColumns(r, o)
          OBVIOUS
      <4>1. r \in InMonth(KnownBy(bronze, Bound))
        BY DEF AtRead, InMonth, AtSnapshot, KnownBy
      <4>2. [key |-> r.key, known_at |-> r.known_at, value |-> r.value]
              \in Columns(AtPlanned)
        BY <3>3, <4>1 DEF Columns
      <4>3. PICK o \in AtPlanned :
              [key |-> r.key, known_at |-> r.known_at, value |-> r.value]
                = [key |-> o.key, known_at |-> o.known_at, value |-> o.value]
        BY <4>2 DEF Columns
      <4> QED BY <4>3 DEF SameColumns
    <3>6. ClocksHeld'
      BY <1>1, <1>2, <3>2, <3>4, <3>5 DEF ClocksHeld
    <3>7. RestatedInside' /\ ComparedEqual' /\ PassedIsReproducible'
      BY <3>2 DEF RestatedInside, ComparedEqual, PassedIsReproducible, Passed
    <3> QED BY <1>1, <1>2, <3>2, <3>6, <3>7
  <2> QED BY <2>1, <2>2
<1>8. CASE Restate
  <2>1. /\ audit.pc = "restate"
        /\ restated' = Rebuild(RestatedInput(audit.planned))
        /\ audit' = [audit EXCEPT !.pc = "compare"]
        /\ rebuilt' = rebuilt
    BY <1>8 DEF Restate
  <2>2. /\ audit'.pc = "compare" /\ audit'.planned = audit.planned
        /\ audit'.compared = 0
    BY <1>0, <2>1 DEF AuditRun, TypeOK, AuditOK
  <2>3. ClocksHeld'
    BY <1>1, <1>2, <2>1, <2>2 DEF ClocksHeld
  <2>4. RestatedInside'
    <3> DEFINE K == RestatedInput(audit.planned)
    <3>1. K = InMonth(KnownBy(bronze, Bound))
      BY DEF RestatedInput, Bound
    <3>2. AtPlanned \subseteq K
      BY <2>1, <3>1 DEF ClocksHeld, AtPlanned, InMonth, AtSnapshot, KnownBy
    <3>3. K \in SUBSET bronze
      BY <3>1 DEF InMonth, KnownBy
    <3> HIDE DEF K
    <3>4. restated' = Rebuild(K)
      BY <2>1 DEF K
    <3> QED BY <1>0, <1>2, <2>2, <3>1, <3>2, <3>3, <3>4 DEF RestatedInside
  <2>5. ComparedEqual' /\ PassedIsReproducible'
    BY <2>2 DEF ComparedEqual, PassedIsReproducible, Passed
  <2> QED BY <1>1, <1>2, <2>2, <2>3, <2>4, <2>5
<1>9. CASE Compare
  <2> DEFINE c == audit.compared
             table == Order[c + 1]
             differ == audit.differ \cup
               {t \in {table} : restated[t] # Confined(t, production[t])}
             p == IF AllCompared(c + 1) THEN "teardown" ELSE "compare"
             o == IF AllCompared(c + 1) /\ differ # {} THEN "red"
                  ELSE audit.outcome
  <2>1. /\ audit.pc = "compare" /\ rebuilt' = rebuilt /\ restated' = restated
        /\ audit' = [audit EXCEPT !.compared = c + 1, !.differ = differ,
                                  !.pc = p, !.outcome = o]
    BY <1>9 DEF Compare
  <2>2. /\ audit'.planned = audit.planned /\ audit'.compared = c + 1
        /\ audit'.differ = differ /\ audit'.pc = p /\ audit'.outcome = o
    BY <1>0, <2>1 DEF AuditRun
  <2>3. c \in Nat /\ c < 3 /\ (AllCompared(c + 1) <=> c = 2)
    BY <2>1 DEF TypeOK, AuditOK, AuditRun, Order, AllCompared
  <2>4. ASSUME ~rebuilt, NEW i \in 1 .. c + 1, Order[i] \notin differ
        PROVE  restated[Order[i]] = Confined(Order[i], production[Order[i]])
    <3>1. CASE i = c + 1
      BY <2>4, <3>1
    <3>2. CASE i # c + 1
      <4>1. i \in 1 .. c
        BY <2>3, <3>2
      <4> QED BY <2>1, <2>4, <4>1 DEF ComparedEqual
    <3> QED BY <3>1, <3>2
  <2> HIDE DEF differ
  <2>5. CASE c # 2
    <3>1. audit'.pc = "compare"
      BY <2>2, <2>3, <2>5
    <3>2. ClocksHeld' /\ RestatedInside'
      BY <1>0, <1>1, <1>2, <2>1, <2>2, <3>1 DEF ClocksHeld, RestatedInside
    <3>3. ComparedEqual'
      BY <1>0, <2>1, <2>2, <2>4 DEF ComparedEqual
    <3>4. PassedIsReproducible'
      BY <3>1 DEF PassedIsReproducible, Passed
    <3> QED BY <1>1, <1>2, <2>2, <3>2, <3>3, <3>4
  <2>6. CASE c = 2
    <3>1. audit'.pc = "teardown"
      BY <2>2, <2>3, <2>6
    <3>2. ASSUME Passed', ~rebuilt PROVE Reproducible
      <4>1. differ = {}
        BY <2>2, <2>3, <2>6, <3>1, <3>2 DEF Passed
      <4>2. \A i \in 1 .. 3 :
              restated[Order[i]] = Confined(Order[i], production[Order[i]])
        BY <2>4, <2>6, <3>2, <4>1
      <4>3. /\ restated["versions"] = Confined("versions", production["versions"])
            /\ restated["period"] = Confined("period", production["period"])
            /\ restated["daily"] = Confined("daily", production["daily"])
        BY <4>2 DEF Order
      <4>4. PICK K \in SUBSET bronze :
              /\ restated = Rebuild(K)
              /\ AtPlanned \subseteq K
              /\ K \subseteq InMonth(KnownBy(bronze, Bound))
        BY <2>1 DEF RestatedInside
      <4>5. restated = Promised(audit.planned)
        BY <2>1, <3>2, <4>3, <4>4, EqualVersionsPinRows
      <4> QED BY <4>3, <4>5 DEF Reproducible, Tables
    <3>3. PassedIsReproducible'
      <4>1. Reproducible' <=> Reproducible
        BY <1>0, <1>2, <2>2 DEF Reproducible
      <4> QED BY <2>1, <3>2, <4>1 DEF PassedIsReproducible
    <3>4. ClocksHeld' /\ RestatedInside' /\ ComparedEqual'
      BY <3>1 DEF ClocksHeld, RestatedInside, ComparedEqual
    <3> QED BY <1>1, <1>2, <2>2, <3>3, <3>4
  <2> QED BY <2>5, <2>6
<1>10. CASE Teardown
  <2>1. /\ audit.pc = "teardown" /\ rebuilt' = rebuilt
        /\ audit' = [audit EXCEPT
             !.pc = IF audit.outcome = "red" THEN "idle" ELSE "verdict"]
    BY <1>10 DEF Teardown
  <2>2. /\ audit'.planned = audit.planned /\ audit'.outcome = audit.outcome
        /\ audit'.pc = IF audit.outcome = "red" THEN "idle" ELSE "verdict"
    BY <1>0, <2>1 DEF AuditRun
  <2>3. Passed' => Passed
    BY <2>1, <2>2 DEF Passed
  <2>4. PassedIsReproducible'
    BY <1>0, <1>2, <2>1, <2>2, <2>3 DEF PassedIsReproducible, Reproducible
  <2> QED
    BY <1>1, <1>2, <2>2, <2>4 DEF ClocksHeld, RestatedInside, ComparedEqual
<1>11. CASE Verdict
  <2>1. /\ audit.pc = "verdict" /\ rebuilt' = rebuilt
        /\ audit' = [audit EXCEPT !.pc = "idle", !.outcome = "green"]
    BY <1>11 DEF Verdict
  <2>2. audit'.planned = audit.planned /\ audit'.pc = "idle"
    BY <1>0, <2>1 DEF AuditRun
  <2>3. PassedIsReproducible'
    BY <1>0, <1>2, <2>1, <2>2 DEF PassedIsReproducible, Passed, Reproducible
  <2> QED
    BY <1>1, <1>2, <2>2, <2>3 DEF ClocksHeld, RestatedInside, ComparedEqual
<1>12. CASE TaskFails
  <2>1. audit' = [Failed EXCEPT
          !.raised = @ \cup {audit.pc},
          !.pc = IF audit.pc \in {"teardown", "verdict"} THEN "idle" ELSE @]
    BY <1>12 DEF TaskFails
  <2>2. /\ audit'.planned = audit.planned /\ audit'.outcome = "red"
        /\ audit'.pc \in {"idle", "teardown"}
    BY <1>0, <2>1, FailedIsRun DEF AuditRun
  <2> QED BY <1>1, <1>2, <1>3, <2>2 DEF Passed
<1> QED
  BY <1>5, <1>6, <1>7, <1>8, <1>9, <1>10, <1>11, <1>12 DEF Audit

LEMMA NextInv == IInv /\ [Next]_vars => IInv'
<1> SUFFICES ASSUME IInv, [Next]_vars PROVE IInv'
    OBVIOUS
<1>1. TypeOK'
  BY BronzeType, DbtType, AuditType DEF IInv, TypeOK
<1>2. CASE Bronze
  BY <1>1, <1>2, BronzeKeeps DEF IInv
<1>3. CASE Dbt
  BY <1>1, <1>3, DbtKeeps DEF IInv
<1>4. CASE Audit
  BY <1>1, <1>4, AuditKeeps DEF IInv
<1>5. CASE UNCHANGED vars
  <2>1. UNCHANGED <<bronze, committed, manifest, production, readBy, audit,
                    restated, rebuilt>>
    BY <1>5 DEF vars, bronzeVars, buildVars, auditVars
  <2> QED
    BY <1>1, <2>1
    DEF IInv, Logged, SilverIsRead, Recorded, ClocksHeld, RestatedInside,
        ComparedEqual, PassedIsReproducible, Passed, Reproducible, Promised,
        AtPlanned, AtRead, Bound, InMonth, AtSnapshot, KnownBy
<1> QED
  BY <1>2, <1>3, <1>4, <1>5 DEF Next

(* A green verdict proves that, unless production was written meanwhile,    *)
(* its month is what the snapshot its manifest names gives, in all three    *)
(* tables, whatever was committed, compacted, expired or failed in between. *)
THEOREM GreenIsReproducibleHolds == Spec => []GreenIsReproducible
<1>1. IInv => GreenIsReproducible
  BY DEF IInv, PassedIsReproducible, Passed, Reproducible,
         GreenIsReproducible, Ended
<1> QED
  BY <1>1, InitInv, NextInv, PTL DEF Spec

-----------------------------------------------------------------------------
(* The two routes to one past.                                              *)

LEMMA LeastOfNaturals ==
  ASSUME NEW S \in SUBSET Nat, S # {}
  PROVE  \E m \in S : \A n \in S : m <= n
<1> DEFINE R == OpToRel(<, Nat)
<1>1. \A p \in Nat, q \in Nat : <<p, q>> \in R <=> p < q
  BY DEF OpToRel
<1>2. IsWellFoundedOn(R, Nat)
  BY NatLessThanWellFounded
<1> HIDE DEF R
<1>3. PICK m \in S : \A n \in S : <<n, m>> \notin R
  BY <1>2, WFMin
<1>4. ASSUME NEW n \in S PROVE m <= n
  <2>1. m \in Nat /\ n \in Nat
    OBVIOUS
  <2>2. ~(n < m)
    BY <1>1, <1>3, <2>1
  <2> QED BY <2>1, <2>2
<1> QED BY <1>4

(* A version that is not current ends when the next one was learned.        *)
LEMMA EndIsNext ==
  ASSUME NEW X, \A o \in X : o.known_at \in Nat, NEW r \in X
  PROVE  IF IsCurrent(X, r) THEN KnownTo(X, r) = NoEnd
         ELSE KnownTo(X, r) \in Nat /\ IsKnownTo(X, r, KnownTo(X, r))
<1>1. CASE IsCurrent(X, r)
  BY <1>1 DEF KnownTo
<1>2. CASE ~IsCurrent(X, r)
  <2> DEFINE later == {n \in {o.known_at : o \in Versions(X, r.key)} :
                         n > r.known_at}
  <2>1. later \in SUBSET Nat
    BY DEF Versions
  <2>2. later # {}
    BY <1>2 DEF IsCurrent, Versions
  <2> HIDE DEF later
  <2>3. PICK m \in later : \A n \in later : m <= n
    BY <2>1, <2>2, LeastOfNaturals
  <2> USE DEF later
  <2>4. m \in Ends(X, r)
    BY <2>3 DEF Ends, IsKnownTo, Versions
  <2>5. KnownTo(X, r) \in Ends(X, r)
    <3> HIDE DEF later
    <3>1. KnownTo(X, r) = CHOOSE to \in Ends(X, r) : TRUE
      BY <1>2 DEF KnownTo
    <3> QED BY <2>4, <3>1
  <2>6. Ends(X, r) \subseteq Nat
    BY DEF Ends, Versions
  <2>7. \A to \in Ends(X, r) : IsKnownTo(X, r, to)
    BY DEF Ends
  <2> QED BY <1>2, <2>5, <2>6, <2>7
<1> QED BY <1>1, <1>2

(* The interval of a version holds a moment exactly when the version is the *)
(* newest of what was known then.                                           *)
LEMMA HoldsWhenNewest ==
  ASSUME NEW X, \A o \in X : o.known_at \in Nat, NEW r \in X, NEW t \in Nat
  PROVE  (/\ r.known_at <= t
          /\ t < KnownTo(X, r) \/ KnownTo(X, r) = NoEnd)
         <=> r \in Current(KnownBy(X, t))
<1>1. r \in Current(KnownBy(X, t)) <=>
        /\ r.known_at <= t
        /\ \A o \in X : (o.key = r.key /\ o.known_at <= t) => o.known_at <= r.known_at
  BY DEF Current, KnownBy, IsCurrent, Versions
<1>2. CASE IsCurrent(X, r)
  BY <1>1, <1>2, EndIsNext DEF IsCurrent, Versions
<1>3. CASE ~IsCurrent(X, r)
  <2> DEFINE to == KnownTo(X, r)
  <2>1. to \in Nat /\ IsKnownTo(X, r, to)
    BY <1>3, EndIsNext
  <2>2. to # NoEnd
    BY <2>1 DEF NoEnd
  <2> HIDE DEF to
  <2>3. PICK o \in X : o.key = r.key /\ o.known_at = to /\ to > r.known_at
    BY <2>1 DEF IsKnownTo, Versions
  <2>4. \A p \in X : (p.key = r.key /\ p.known_at > r.known_at) => to <= p.known_at
    BY <2>1 DEF IsKnownTo, Versions
  <2>5. ASSUME t < to, NEW p \in X, p.key = r.key, p.known_at <= t
        PROVE  p.known_at <= r.known_at
    BY <2>1, <2>4, <2>5
  <2>6. ASSUME \A p \in X : (p.key = r.key /\ p.known_at <= t) => p.known_at <= r.known_at
        PROVE  t < to
    BY <2>1, <2>3, <2>6
  <2>7. (/\ r.known_at <= t /\ (t < to \/ to = NoEnd))
          <=> r \in Current(KnownBy(X, t))
    BY <1>1, <2>2, <2>5, <2>6
  <2> QED BY <2>7 DEF to
<1> QED BY <1>2, <1>3

(* For every moment, reading silver as of it gives the current rows of      *)
(* bronze restated at it, whatever order the stamps were committed in.      *)
THEOREM AsOfAgreesHolds == Spec => []AsOfAgrees
<1>1. IInv => AsOfAgrees
  <2> SUFFICES ASSUME IInv, NEW t \in 0 .. now
               PROVE  {[key |-> v.key, known_at |-> v.known_from, value |-> v.value] :
                         v \in ReadAsOf(production["versions"], t)}
                      = Columns(Current(KnownBy(AtSnapshot(bronze, readBy), t)))
      BY DEF AsOfAgrees
  <2> DEFINE X == AtSnapshot(bronze, readBy)
             Version(r) == [key |-> r.key, value |-> r.value, known_from |-> r.known_at,
                            known_to |-> KnownTo(X, r)]
             Read(v) == [key |-> v.key, known_at |-> v.known_from, value |-> v.value]
             Column(r) == [key |-> r.key, known_at |-> r.known_at, value |-> r.value]
  <2>1. t \in Nat /\ \A r \in X : r.known_at \in Nat
    BY DEF IInv, TypeOK, BronzeOK, Row, AtSnapshot
  <2>2. production["versions"] = {Version(r) : r \in X}
    BY DEF IInv, SilverIsRead, SilverVersions
  <2> HIDE DEF X
  <2>3. \A r \in X : Version(r) \in ReadAsOf(production["versions"], t)
                      <=> r \in Current(KnownBy(X, t))
    <3> SUFFICES ASSUME NEW r \in X
                 PROVE  Version(r) \in ReadAsOf(production["versions"], t)
                          <=> r \in Current(KnownBy(X, t))
        OBVIOUS
    <3>1. Version(r) \in ReadAsOf(production["versions"], t)
            <=> /\ r.known_at <= t
                /\ t < KnownTo(X, r) \/ KnownTo(X, r) = NoEnd
      BY <2>2 DEF ReadAsOf
    <3> QED BY <2>1, <3>1, HoldsWhenNewest
  <2>4. \A r \in X : Read(Version(r)) = Column(r)
    OBVIOUS
  <2>5. ReadAsOf(production["versions"], t)
          = {Version(r) : r \in Current(KnownBy(X, t))}
    <3>1. Current(KnownBy(X, t)) \subseteq X
      BY DEF Current, KnownBy
    <3>2. ReadAsOf(production["versions"], t) \subseteq {Version(r) : r \in X}
      BY <2>2 DEF ReadAsOf
    <3> HIDE DEF Version
    <3> QED BY <2>3, <3>1, <3>2
  <2>6. Current(KnownBy(X, t)) \subseteq X
    BY DEF Current, KnownBy
  <2>7. Columns(Current(KnownBy(X, t))) = {Column(r) : r \in Current(KnownBy(X, t))}
    BY DEF Columns
  <2> HIDE DEF Version, Read, Column
  <2>8. {Read(v) : v \in ReadAsOf(production["versions"], t)}
          = {Column(r) : r \in Current(KnownBy(X, t))}
    BY <2>4, <2>5, <2>6
  <2> QED BY <2>7, <2>8 DEF X, Read
<1> QED
  BY <1>1, InitInv, NextInv, PTL DEF Spec

-----------------------------------------------------------------------------
(* The audit schema.                                                        *)
Swept ==
  /\ (audit.pc = "idle" /\ "teardown" \notin audit.raised) => DOMAIN restated = {}
  /\ audit.pc = "verdict" => DOMAIN restated = {}

LEMMA SweptStep == TypeOK /\ Swept /\ [Next]_vars => Swept'
<1> SUFFICES ASSUME TypeOK, Swept, [Next]_vars PROVE Swept'
    OBVIOUS
<1>0. audit \in AuditRun
  BY DEF TypeOK, AuditOK
<1>1. CASE UNCHANGED <<audit, restated>>
  BY <1>1 DEF Swept
<1>2. CASE StartAudit \/ Plan \/ CheckClocks \/ Restate
  <2>1. audit'.pc \notin {"idle", "verdict"}
    BY <1>0, <1>2, FailedIsRun
    DEF StartAudit, Plan, CheckClocks, Restate, Idle, AuditRun
  <2> QED BY <2>1 DEF Swept
<1>3. CASE Compare
  <2>1. audit'.pc \in {"compare", "teardown"}
    BY <1>0, <1>3 DEF Compare, AuditRun
  <2> QED BY <2>1 DEF Swept
<1>4. CASE Teardown
  <2>1. DOMAIN restated' = {}
    BY <1>4 DEF Teardown
  <2> QED BY <2>1 DEF Swept
<1>5. CASE Verdict
  <2>1. DOMAIN restated' = {}
    BY <1>5 DEF Verdict, Swept
  <2> QED BY <2>1 DEF Swept
<1>6. CASE TaskFails
  <2>1. /\ audit' = [Failed EXCEPT
             !.raised = @ \cup {audit.pc},
             !.pc = IF audit.pc \in {"teardown", "verdict"} THEN "idle" ELSE @]
    BY <1>6 DEF TaskFails
  <2>2. /\ audit'.pc = IF audit.pc \in {"teardown", "verdict"} THEN "idle" ELSE "teardown"
        /\ audit.pc \in audit'.raised
    BY <1>0, <2>1, FailedIsRun DEF AuditRun, Failed
  <2>3. CASE audit.pc = "verdict"
    <3>1. restated' = restated
      BY <1>6, <2>3 DEF TaskFails
    <3> QED BY <2>2, <2>3, <3>1 DEF Swept
  <2>4. CASE audit.pc # "verdict"
    BY <2>2, <2>4 DEF Swept
  <2> QED BY <2>3, <2>4
<1>7. CASE Bronze \/ Dbt \/ UNCHANGED vars
  <2>1. UNCHANGED <<audit, restated>>
    BY <1>7 DEF Bronze, Tick, Land, Compact, Vacuum, Dbt, StartBuild, RecordManifest,
                BuildVersions, TestVersions, BuildPeriod, BuildDaily, BuildFails,
                Write, auditVars, vars
  <2> QED BY <1>1, <2>1
<1> QED
  BY <1>2, <1>3, <1>4, <1>5, <1>6, <1>7 DEF Next, Audit

(* When a run of the dag has ended, whatever task of it failed, the audit   *)
(* schema is gone, or its teardown itself raised.                           *)
THEOREM NothingLeftBehindHolds == Spec => []NothingLeftBehind
<1>1. Init => Swept
  BY DEF Init, Swept
<1>2. Swept => NothingLeftBehind
  BY DEF Swept, NothingLeftBehind, Ended
<1> QED
  BY <1>1, <1>2, TypeCorrect, SweptStep, PTL DEF Spec

-----------------------------------------------------------------------------
(* Silver and gold of a month are the month of silver and gold.             *)

LEMMA SilverOfMonth ==
  ASSUME NEW X
  PROVE  SilverVersions(InMonth(X)) = Confined("versions", SilverVersions(X))
<1>1. ASSUME NEW r \in InMonth(X)
      PROVE  KnownTo(InMonth(X), r) = KnownTo(X, r)
  <2>1. Versions(InMonth(X), r.key) = Versions(X, r.key)
    BY DEF Versions, InMonth
  <2>2. IsCurrent(InMonth(X), r) <=> IsCurrent(X, r)
    BY <2>1 DEF IsCurrent
  <2>3. \A to : IsKnownTo(InMonth(X), r, to) <=> IsKnownTo(X, r, to)
    BY <2>1 DEF IsKnownTo
  <2>4. Ends(InMonth(X), r) = Ends(X, r)
    BY <2>1, <2>3 DEF Ends
  <2> QED BY <2>2, <2>4 DEF KnownTo
<1>2. SilverVersions(InMonth(X))
        = {[key |-> r.key, value |-> r.value, known_from |-> r.known_at,
            known_to |-> KnownTo(X, r)] : r \in InMonth(X)}
  BY <1>1 DEF SilverVersions
<1>3. Confined("versions", SilverVersions(X))
        = {v \in SilverVersions(X) : v.key \in MonthKeys}
  BY DEF Confined
<1> QED
  BY <1>2, <1>3 DEF SilverVersions, InMonth

LEMMA NetOfMonth ==
  ASSUME NEW V, \A v \in V : v.key \in Keys
  PROVE  PeriodNet(Confined("versions", V)) = Confined("period", PeriodNet(V))
<1> DEFINE W == Confined("versions", V)
           Group(S, period, type) ==
             {v \in SilverCurrent(S) : PeriodOf[v.key] = period /\ TypeOf[v.key] = type}
           Net(S, v) == [period |-> PeriodOf[v.key], type |-> TypeOf[v.key],
                         net |-> Flow(Group(S, PeriodOf[v.key], TypeOf[v.key]))]
<1>1. W = {v \in V : DayOf[PeriodOf[v.key]] \in Month}
  BY DEF Confined, MonthKeys
<1>2. SilverCurrent(W) = {v \in SilverCurrent(V) : DayOf[PeriodOf[v.key]] \in Month}
  BY <1>1 DEF SilverCurrent
<1>3. \A v \in SilverCurrent(W) :
        Group(W, PeriodOf[v.key], TypeOf[v.key]) = Group(V, PeriodOf[v.key], TypeOf[v.key])
  BY <1>2
<1>4. \A v \in SilverCurrent(W) : Net(W, v) = Net(V, v)
  BY <1>3
<1>5. PeriodNet(W) = {Net(W, v) : v \in SilverCurrent(W)}
  BY DEF PeriodNet
<1>6. PeriodNet(V) = {Net(V, v) : v \in SilverCurrent(V)}
  BY DEF PeriodNet
<1>7. Confined("period", PeriodNet(V)) = {n \in PeriodNet(V) : DayOf[n.period] \in Month}
  BY DEF Confined
<1>8. \A v : Net(V, v).period = PeriodOf[v.key]
  OBVIOUS
<1> HIDE DEF W, Net
<1>9. PeriodNet(W) = {Net(V, v) : v \in SilverCurrent(W)}
  BY <1>4, <1>5
<1>10. {n \in PeriodNet(V) : DayOf[n.period] \in Month}
         = {Net(V, v) : v \in SilverCurrent(W)}
  BY <1>2, <1>6, <1>8
<1> QED
  BY <1>7, <1>9, <1>10 DEF W

LEMMA MixOfMonth ==
  ASSUME NEW N
  PROVE  DailyMix(Confined("period", N)) = Confined("daily", DailyMix(N))
<1> DEFINE M == Confined("period", N)
           Energy(S, n) == TotalNet({m \in S : DayOf[m.period] = DayOf[n.period]
                                               /\ m.type = n.type})
           Entry(S, n) == [day |-> DayOf[n.period], type |-> n.type,
                           energy |-> Energy(S, n)]
           Totals(S) == {Entry(S, n) : n \in S}
           Gross(T, e) == TotalEnergy({f \in T : f.day = e.day /\ f.energy > 0})
           Mix(T, e) == [day |-> e.day, type |-> e.type, energy |-> e.energy,
                         gross |-> Gross(T, e)]
<1>1. M = {n \in N : DayOf[n.period] \in Month}
  BY DEF Confined
<1>2. \A n \in M : {m \in M : DayOf[m.period] = DayOf[n.period] /\ m.type = n.type}
                   = {m \in N : DayOf[m.period] = DayOf[n.period] /\ m.type = n.type}
  BY <1>1
<1>3. \A n \in M : Entry(M, n) = Entry(N, n)
  BY <1>2
<1>4. \A n \in N : Entry(N, n).day = DayOf[n.period]
  OBVIOUS
<1>5. DailyMix(M) = {Mix(Totals(M), e) : e \in Totals(M)}
  BY DEF DailyMix
<1>6. DailyMix(N) = {Mix(Totals(N), e) : e \in Totals(N)}
  BY DEF DailyMix
<1>7. Confined("daily", DailyMix(N)) = {r \in DailyMix(N) : r.day \in Month}
  BY DEF Confined
<1>8. Totals(M) = {e \in Totals(N) : e.day \in Month}
  <2> HIDE DEF M, Entry
  <2> QED BY <1>1, <1>3, <1>4
<1> HIDE DEF M, Totals
<1>9. \A e \in Totals(M) : {f \in Totals(M) : f.day = e.day /\ f.energy > 0}
                          = {f \in Totals(N) : f.day = e.day /\ f.energy > 0}
  BY <1>8
<1>10. \A e \in Totals(M) : Mix(Totals(M), e) = Mix(Totals(N), e)
  BY <1>9
<1>11. \A e : Mix(Totals(N), e).day = e.day
  OBVIOUS
<1> HIDE DEF Mix
<1>12. DailyMix(M) = {Mix(Totals(N), e) : e \in Totals(M)}
  BY <1>5, <1>10
<1>13. {r \in DailyMix(N) : r.day \in Month} = {Mix(Totals(N), e) : e \in Totals(M)}
  BY <1>6, <1>8, <1>11
<1> QED
  BY <1>7, <1>12, <1>13 DEF M

-----------------------------------------------------------------------------
(* No false alarm.                                                          *)

(* A manifest row names a snapshot and when it was committed.               *)
IsRecord(run) ==
  \/ run = NoRun
  \/ run.snapshot \in DOMAIN committed /\ run.learned_up_to = committed[run.snapshot]

(* Nothing is stamped after its commit, and commits are in order.           *)
Clocked ==
  /\ \A i, j \in DOMAIN committed : i <= j => committed[i] <= committed[j]
  /\ \A i \in DOMAIN committed : committed[i] <= now
  /\ \A r \in bronze : r.known_at <= committed[r.snap]
  /\ \A i \in DOMAIN manifest : IsRecord(manifest[i])
  /\ IsRecord(audit.planned)

Cause ==
  \/ audit.planned = NoRun
  \/ audit.planned.snapshot \in expired
  \/ Late(audit.planned)
  \/ Skewed(audit.planned)
  \/ Partial

Before == audit.pc \in {"plan", "clocks", "restate"}

(* A verdict that turns red, and a difference found, have a cause.          *)
Explained ==
  /\ audit.pc = "plan" => audit.planned = NoRun /\ audit.outcome = "none"
  /\ Before => audit.differ = {}
  /\ (~rebuilt /\ audit.pc = "compare" /\ audit.differ # {}) => Cause
  /\ (~rebuilt /\ audit.raised = {} /\ audit.outcome = "red") => Cause

(* Rows of the planned snapshot were learned by the bound, so clocks that   *)
(* disagree do so over a late row.                                          *)
LEMMA ClocksExplained ==
  ASSUME IInv, Clocked, audit.planned # NoRun, ~ClocksAgree(audit.planned)
  PROVE  Late(audit.planned)
<1> DEFINE run == audit.planned
<1>1. /\ run.snapshot \in DOMAIN committed /\ run.learned_up_to = committed[run.snapshot]
      /\ committed \in Seq(Nat)
  BY DEF Clocked, IsRecord, IInv, TypeOK, BronzeOK
<1>2. \A r \in bronze : r.known_at \in Nat /\ r.snap \in DOMAIN committed
  BY DEF IInv, TypeOK, BronzeOK, Row, Logged
<1>3. \A i \in DOMAIN committed : committed[i] \in Nat /\ i \in Nat
  BY <1>1
<1>4. AtPlanned \subseteq RestatedInput(run)
  <2> SUFFICES ASSUME NEW r \in AtPlanned PROVE r \in RestatedInput(run)
      OBVIOUS
  <2>1. r \in bronze /\ r.key \in MonthKeys /\ r.snap <= run.snapshot
    BY DEF AtPlanned, InMonth, AtSnapshot
  <2>2. committed[r.snap] <= committed[run.snapshot] /\ r.known_at <= committed[r.snap]
    BY <1>1, <1>2, <2>1 DEF Clocked
  <2>3. r.known_at <= run.learned_up_to
    BY <1>1, <1>2, <1>3, <2>1, <2>2
  <2> QED BY <2>1, <2>3 DEF RestatedInput, InMonth, KnownBy
<1>5. AtPlanned # RestatedInput(run)
  BY DEF ClocksAgree, AtPlanned
<1>6. PICK r \in RestatedInput(run) : r \notin AtPlanned
  BY <1>4, <1>5
<1>7. r \in InMonth(bronze) /\ r.known_at <= run.learned_up_to /\ ~(r.snap <= run.snapshot)
  BY <1>6 DEF RestatedInput, AtPlanned, InMonth, AtSnapshot, KnownBy
<1>8. r.snap > run.snapshot
  BY <1>1, <1>2, <1>3, <1>7 DEF InMonth
<1> QED
  BY <1>7, <1>8 DEF Late

(* Without a late row, a skewed manifest or a half-built production, each   *)
(* comparison finds identical tables.                                       *)
LEMMA ComparisonExplained ==
  ASSUME IInv, audit.pc = "compare",
         ~Late(audit.planned), ~Skewed(audit.planned), ~Partial
  PROVE  \A t \in Tables : restated[t] = Confined(t, production[t])
<1> DEFINE V == production["versions"]
           S == AtSnapshot(bronze, readBy)
<1>1. PICK K \in SUBSET bronze :
        /\ restated = Rebuild(K)
        /\ AtPlanned \subseteq K
        /\ K \subseteq InMonth(KnownBy(bronze, Bound))
  BY DEF IInv, RestatedInside
<1>2. K = InMonth(S)
  <2>1. K \subseteq AtPlanned
    <3> SUFFICES ASSUME NEW r \in K PROVE r \in AtPlanned
        OBVIOUS
    <3>1. r \in bronze /\ r.key \in MonthKeys /\ r.known_at <= Bound
      BY <1>1 DEF InMonth, KnownBy
    <3>2. r.snap \in Nat /\ audit.planned.snapshot \in Nat
      BY <3>1 DEF IInv, TypeOK, BronzeOK, AuditOK, AuditRun, Run, Row
    <3>3. ~(r.snap > audit.planned.snapshot)
      BY <3>1 DEF Late, InMonth, Bound
    <3> QED BY <3>1, <3>2, <3>3 DEF AtPlanned, InMonth, AtSnapshot
  <2>2. AtPlanned = InMonth(S)
    BY DEF Skewed, AtPlanned
  <2> QED BY <1>1, <2>1, <2>2
<1>3. V = SilverVersions(S)
  BY DEF IInv, SilverIsRead
<1>4. \A v \in V : v.key \in Keys
  <2>1. \A r \in S : r.key \in Keys
    BY DEF IInv, TypeOK, BronzeOK, Row, AtSnapshot
  <2> QED BY <1>3, <2>1 DEF SilverVersions
<1>5. production["period"] = PeriodNet(V) /\ production["daily"] = DailyMix(PeriodNet(V))
  BY DEF Partial
<1> HIDE DEF V, S
<1>6. restated["versions"] = Confined("versions", V)
  BY <1>1, <1>2, <1>3, SilverOfMonth DEF Rebuild, Tables
<1>7. restated["period"] = PeriodNet(SilverVersions(K))
  BY <1>1 DEF Rebuild, Tables
<1>8. restated["daily"] = DailyMix(PeriodNet(SilverVersions(K)))
  BY <1>1 DEF Rebuild, Tables
<1>9. SilverVersions(K) = Confined("versions", V)
  BY <1>2, <1>3, SilverOfMonth
<1>10. PeriodNet(SilverVersions(K)) = Confined("period", PeriodNet(V))
  BY <1>4, <1>9, NetOfMonth
<1>11. DailyMix(PeriodNet(SilverVersions(K))) = Confined("daily", DailyMix(PeriodNet(V)))
  BY <1>10, MixOfMonth
<1> QED
  BY <1>5, <1>6, <1>7, <1>8, <1>10, <1>11 DEF Tables, V

(* A commit comes after those before it.                                    *)
LEMMA CommitInOrder ==
  ASSUME committed \in Seq(Nat), now \in Nat, now' = now, CanCommit,
         committed' = Append(committed, now),
         \A i, j \in DOMAIN committed : i <= j => committed[i] <= committed[j]
  PROVE  /\ DOMAIN committed \subseteq DOMAIN committed'
         /\ \A i \in DOMAIN committed : committed'[i] = committed[i]
         /\ \A i, j \in DOMAIN committed' : i <= j => committed'[i] <= committed'[j]
         /\ \A i \in DOMAIN committed' : committed'[i] <= now'
<1>1. /\ DOMAIN committed = 1 .. Len(committed) /\ Len(committed) \in Nat
      /\ DOMAIN committed' = 1 .. Len(committed) + 1
      /\ \A i \in 1 .. Len(committed) : committed'[i] = committed[i] /\ committed[i] \in Nat
      /\ committed'[Len(committed) + 1] = now
  OBVIOUS
<1>2. \A i \in 1 .. Len(committed) : committed[i] < now
  BY <1>1 DEF CanCommit
<1>3. ASSUME NEW i \in DOMAIN committed' PROVE committed'[i] <= now
  <2>1. CASE i = Len(committed) + 1
    BY <1>1, <2>1
  <2>2. CASE i \in 1 .. Len(committed)
    BY <1>1, <1>2, <2>2
  <2> QED BY <1>1, <2>1, <2>2
<1>4. ASSUME NEW i \in DOMAIN committed', NEW j \in DOMAIN committed', i <= j
      PROVE  committed'[i] <= committed'[j]
  <2>1. CASE j = Len(committed) + 1
    BY <1>1, <1>3, <2>1
  <2>2. CASE j \in 1 .. Len(committed)
    <3>1. i \in 1 .. Len(committed)
      BY <1>1, <1>4, <2>2
    <3> QED BY <1>1, <1>4, <2>2, <3>1
  <2> QED BY <1>1, <2>1, <2>2
<1> QED
  BY <1>1, <1>3, <1>4

LEMMA ClockedStep == IInv /\ Clocked /\ [Next]_vars => Clocked'
<1> SUFFICES ASSUME IInv, Clocked, [Next]_vars PROVE Clocked'
    OBVIOUS
<1> DEFINE Order2(log) == \A i, j \in DOMAIN log : i <= j => log[i] <= log[j]
<1>0. /\ committed \in Seq(Nat) /\ now \in Nat /\ Len(committed) \in Nat
      /\ DOMAIN committed = 1 .. Len(committed)
      /\ manifest \in Seq(Run) /\ audit \in AuditRun
      /\ \A r \in bronze : r.snap \in DOMAIN committed /\ r.known_at \in Nat
  BY DEF IInv, TypeOK, BronzeOK, DbtOK, AuditOK, Logged, Row
<1>1. ASSUME committed' = committed, now' = now, bronze' = bronze,
             manifest' = manifest, IsRecord(audit'.planned)
      PROVE  Clocked'
  BY <1>1 DEF Clocked, IsRecord
<1>2. ASSUME CanCommit, committed' = Append(committed, now), now' = now,
             UNCHANGED <<manifest, audit>>,
             \A r \in bronze' : r \in bronze \/ (r.known_at <= now /\ r.snap = Len(committed) + 1)
      PROVE  Clocked'
  <2>1. /\ DOMAIN committed \subseteq DOMAIN committed'
        /\ \A i \in DOMAIN committed : committed'[i] = committed[i]
        /\ Order2(committed')
        /\ \A i \in DOMAIN committed' : committed'[i] <= now'
    BY <1>0, <1>2, CommitInOrder DEF Clocked
  <2> DEFINE Record(run, log) ==
        \/ run = NoRun
        \/ run.snapshot \in DOMAIN log /\ run.learned_up_to = log[run.snapshot]
  <2>2. \A run : Record(run, committed) => Record(run, committed')
    BY <2>1
  <2>3. \A i \in DOMAIN manifest' : Record(manifest'[i], committed')
    <3>1. \A i \in DOMAIN manifest : Record(manifest[i], committed)
      BY DEF Clocked, IsRecord
    <3> HIDE DEF Record
    <3> QED BY <1>2, <2>2, <3>1
  <2>4. Record(audit'.planned, committed')
    <3>1. Record(audit.planned, committed)
      BY DEF Clocked, IsRecord
    <3> HIDE DEF Record
    <3> QED BY <1>2, <2>2, <3>1
  <2>5. committed'[Len(committed) + 1] = now
    BY <1>0, <1>2
  <2>6. ASSUME NEW r \in bronze' PROVE r.known_at <= committed'[r.snap]
    <3>1. CASE r \in bronze
      BY <1>0, <2>1, <3>1 DEF Clocked
    <3>2. CASE r.known_at <= now /\ r.snap = Len(committed) + 1
      BY <2>5, <3>2
    <3> QED BY <1>2, <3>1, <3>2
  <2> QED BY <2>1, <2>3, <2>4, <2>6 DEF Clocked, IsRecord
<1>3. CASE Tick
  <2>1. now' = now + 1 /\ UNCHANGED <<bronze, committed, manifest, audit>>
    BY <1>3 DEF Tick, bronzeVars, buildVars, auditVars
  <2>2. \A i \in DOMAIN committed : committed[i] <= now'
    <3>1. \A i \in DOMAIN committed : committed[i] \in Nat /\ committed[i] <= now
      BY <1>0 DEF Clocked
    <3> QED BY <1>0, <2>1, <3>1
  <2> QED BY <2>1, <2>2 DEF Clocked, IsRecord
<1>4. ASSUME NEW batch \in Batches, NEW stamp \in 1 .. now, Land(batch, stamp)
      PROVE  Clocked'
  <2>1. /\ CanCommit /\ committed' = Append(committed, now) /\ now' = now
        /\ UNCHANGED <<manifest, audit>>
    BY <1>4 DEF Land, buildVars, auditVars
  <2>2. PICK inserts :
          /\ inserts \subseteq {[key |-> o.key, known_at |-> stamp, value |-> o.value] : o \in batch}
          /\ bronze' = bronze \cup
               {[key |-> s.key, known_at |-> s.known_at, value |-> s.value,
                 snap |-> Len(committed) + 1] : s \in inserts}
    BY <1>4 DEF Land, MergeInserts
  <2>3. \A s \in inserts : s.known_at <= now
    BY <1>0, <2>2
  <2>4. \A r \in bronze' : r \in bronze \/ (r.known_at <= now /\ r.snap = Len(committed) + 1)
    BY <2>2, <2>3
  <2> QED BY <1>2, <2>1, <2>4
<1>5. CASE Compact
  <2>1. /\ CanCommit /\ committed' = Append(committed, now) /\ now' = now
        /\ UNCHANGED <<bronze, manifest, audit>>
    BY <1>5 DEF Compact, buildVars, auditVars
  <2> QED BY <1>2, <2>1
<1>6. CASE Vacuum
  BY <1>1, <1>6 DEF Vacuum, buildVars, auditVars, Clocked
<1>7. CASE RecordManifest
  <2>1. UNCHANGED <<now, bronze, committed, audit>>
    BY <1>7 DEF RecordManifest, bronzeVars, auditVars
  <2>2. PICK run : manifest' = Append(manifest, run) /\ IsRecord(run)
    <3>1. CASE Len(committed) = 0
      BY <1>7, <3>1 DEF RecordManifest, IsRecord
    <3>2. CASE Len(committed) # 0
      <4> DEFINE run == [snapshot |-> Len(committed),
                         learned_up_to |-> committed[Len(committed)]]
      <4>1. manifest' = Append(manifest, run)
        BY <1>7, <3>2 DEF RecordManifest
      <4>2. IsRecord(run)
        BY <1>0, <3>2 DEF IsRecord
      <4> QED BY <4>1, <4>2
    <3> QED BY <3>1, <3>2
  <2>3. \A i \in DOMAIN manifest' : IsRecord(manifest'[i])
    BY <1>0, <2>2 DEF Clocked
  <2> QED BY <2>1, <2>3 DEF Clocked, IsRecord
<1>8. CASE StartBuild \/ BuildVersions \/ TestVersions \/ BuildPeriod \/ BuildDaily
           \/ BuildFails
  <2>1. UNCHANGED <<now, bronze, committed, manifest, audit>>
    BY <1>8 DEF StartBuild, BuildVersions, TestVersions, BuildPeriod, BuildDaily,
                BuildFails, Write, bronzeVars, auditVars
  <2> QED BY <1>1, <2>1 DEF Clocked
<1>9. CASE Audit
  <2>1. UNCHANGED <<now, bronze, committed, manifest>>
    BY <1>9, AuditLeaves DEF Audit, StartAudit, Plan, CheckClocks, Restate, Compare,
                             Teardown, Verdict, TaskFails
  <2>2. \/ audit'.planned \in {audit.planned, NoRun}
        \/ manifest # <<>> /\ audit'.planned = manifest[Len(manifest)]
    <3>1. CASE StartAudit
      BY <3>1 DEF StartAudit, Idle
    <3>2. CASE Plan
      BY <1>0, <3>2, FailedIsRun DEF Plan, AuditRun
    <3>3. CASE CheckClocks \/ Restate \/ Compare \/ Teardown \/ Verdict \/ TaskFails
      BY <1>0, <3>3, FailedIsRun
      DEF CheckClocks, Restate, Compare, Teardown, Verdict, TaskFails, AuditRun
    <3> QED BY <1>9, <3>1, <3>2, <3>3 DEF Audit
  <2>3. manifest # <<>> => Len(manifest) \in DOMAIN manifest
    BY <1>0
  <2>4. IsRecord(audit'.planned)
    BY <2>2, <2>3 DEF Clocked, IsRecord
  <2> QED BY <1>1, <2>1, <2>4
<1>10. CASE UNCHANGED vars
  <2>1. UNCHANGED <<now, bronze, committed, manifest, audit>>
    BY <1>10 DEF vars, bronzeVars, buildVars, auditVars
  <2> QED BY <1>1, <2>1 DEF Clocked
<1> QED
  BY <1>3, <1>4, <1>5, <1>6, <1>7, <1>8, <1>9, <1>10 DEF Next, Bronze, Dbt

-----------------------------------------------------------------------------
(* While production stands still a cause stays one.                         *)
LEMMA CausePersists ==
  ASSUME IInv, [Next]_vars, Cause, audit'.planned = audit.planned,
         UNCHANGED <<production, readBy>>
  PROVE  Cause'
<1>1. /\ audit.planned.snapshot \in Nat /\ readBy \in Nat
      /\ audit.planned.snapshot <= Len(committed) /\ readBy <= Len(committed)
  BY DEF IInv, Recorded, TypeOK, BronzeOK, DbtOK, AuditOK, AuditRun, Run
<1>2. CASE Bronze
  <2>1. bronze \subseteq bronze' /\ expired \subseteq expired'
    BY <1>2, BronzeStep DEF IInv, Bronze, Tick, Land, Compact, Vacuum, bronzeVars
  <2>2. \A n \in Nat : n <= Len(committed) => AtSnapshot(bronze, n) = AtSnapshot(bronze', n)
    BY <1>2, BronzeStep DEF IInv
  <2>3. /\ AtSnapshot(bronze', readBy) = AtSnapshot(bronze, readBy)
        /\ AtSnapshot(bronze', audit.planned.snapshot) = AtSnapshot(bronze, audit.planned.snapshot)
    BY <1>1, <2>2
  <2>4. Late(audit.planned) => Late(audit.planned)'
    BY <2>1 DEF Late, InMonth
  <2>5. Skewed(audit.planned) => Skewed(audit.planned)'
    BY <2>3 DEF Skewed, InMonth
  <2> QED BY <2>1, <2>4, <2>5 DEF Cause, Partial
<1>3. CASE UNCHANGED <<bronze, expired>>
  BY <1>3 DEF Cause, Late, Skewed, Partial, InMonth, AtSnapshot
<1>4. ASSUME Dbt \/ Audit \/ UNCHANGED vars PROVE UNCHANGED <<bronze, expired>>
  BY <1>4 DEF Dbt, StartBuild, RecordManifest, BuildVersions, TestVersions,
              BuildPeriod, BuildDaily, BuildFails, Write, Audit, StartAudit, Plan,
              CheckClocks, Restate, Compare, Teardown, Verdict, TaskFails,
              bronzeVars, vars
<1> QED
  BY <1>2, <1>3, <1>4 DEF Next

LEMMA ExplainedStep == IInv /\ Clocked /\ Explained /\ [Next]_vars => Explained'
<1> SUFFICES ASSUME IInv, Clocked, Explained, [Next]_vars PROVE Explained'
    OBVIOUS
<1>0. audit \in AuditRun
  BY DEF IInv, TypeOK, AuditOK
<1>1. ASSUME audit' = audit, rebuilt' \/ UNCHANGED <<production, readBy, rebuilt>>
      PROVE  Explained'
  BY <1>1, CausePersists DEF Explained, Before
<1>2. CASE Bronze
  BY <1>1, <1>2, BronzeStep DEF IInv, buildVars, auditVars
<1>3. CASE Dbt
  BY <1>1, <1>3, DbtStep
<1>4. CASE UNCHANGED vars
  BY <1>1, <1>4 DEF vars, buildVars, auditVars
<1>5. CASE StartAudit
  <2>1. audit' = [Idle EXCEPT !.pc = "plan"]
    BY <1>5 DEF StartAudit
  <2> QED BY <2>1 DEF Explained, Before, Idle
<1>6. ASSUME Audit PROVE UNCHANGED <<production, readBy>>
  BY <1>6, AuditLeaves
<1>7. CASE Plan
  <2>1. audit.planned = NoRun /\ audit.outcome = "none" /\ audit.differ = {}
    BY <1>7 DEF Plan, Explained, Before
  <2>2. CASE audit' = Failed
    <3>1. audit'.planned = NoRun /\ audit'.pc = "teardown"
      BY <1>0, <2>1, <2>2, FailedIsRun
    <3> QED BY <3>1 DEF Explained, Before, Cause
  <2>3. CASE audit' # Failed
    <3>1. audit' = [audit EXCEPT !.pc = "clocks", !.planned = manifest[Len(manifest)]]
      BY <1>7, <2>3 DEF Plan
    <3>2. audit'.pc = "clocks" /\ audit'.outcome = "none" /\ audit'.differ = {}
      BY <1>0, <2>1, <3>1 DEF AuditRun
    <3> QED BY <3>2 DEF Explained, Before
  <2> QED BY <2>2, <2>3
<1>8. CASE CheckClocks
  <2>1. audit.pc = "clocks" /\ UNCHANGED <<rebuilt, production, readBy>>
    BY <1>6, <1>8 DEF CheckClocks, Audit
  <2>2. CASE audit' = Failed /\ audit' # [audit EXCEPT !.pc = "restate"]
    <3>1. audit'.planned = audit.planned /\ audit'.pc = "teardown"
      BY <1>0, <2>2, FailedIsRun
    <3>2. audit.planned.snapshot \in expired \/ ~ClocksAgree(audit.planned)
      BY <1>8, <2>2 DEF CheckClocks
    <3>3. Cause
      BY <3>2, ClocksExplained DEF Cause
    <3>4. Cause'
      BY <2>1, <3>1, <3>3, CausePersists
    <3> QED BY <3>1, <3>4 DEF Explained, Before
  <2>3. CASE audit' = [audit EXCEPT !.pc = "restate"]
    <3>1. /\ audit'.pc = "restate" /\ audit'.planned = audit.planned
          /\ audit'.outcome = audit.outcome /\ audit'.differ = audit.differ
          /\ audit'.raised = audit.raised
      BY <1>0, <2>3 DEF AuditRun
    <3> QED BY <2>1, <3>1, CausePersists DEF Explained, Before
  <2> QED BY <1>8, <2>2, <2>3 DEF CheckClocks
<1>9. CASE Restate
  <2>1. audit.pc = "restate" /\ UNCHANGED <<rebuilt, production, readBy>>
    BY <1>6, <1>9 DEF Restate, Audit
  <2>2. /\ audit'.pc = "compare" /\ audit'.planned = audit.planned
        /\ audit'.outcome = audit.outcome /\ audit'.differ = audit.differ
        /\ audit'.raised = audit.raised
    BY <1>0, <1>9 DEF Restate, AuditRun
  <2> QED BY <2>1, <2>2, CausePersists DEF Explained, Before
<1>10. CASE Compare
  <2> DEFINE table == Order[audit.compared + 1]
             differ == audit.differ \cup
               {t \in {table} : restated[t] # Confined(t, production[t])}
             last == AllCompared(audit.compared + 1)
  <2>1. /\ audit.pc = "compare" /\ UNCHANGED <<rebuilt, production, readBy>>
        /\ audit' = [audit EXCEPT
             !.compared = @ + 1, !.differ = differ,
             !.pc = IF last THEN "teardown" ELSE @,
             !.outcome = IF last /\ differ # {} THEN "red" ELSE @]
    BY <1>6, <1>10 DEF Compare, Audit
  <2>2. table \in Tables
    <3>1. audit.compared + 1 \in 1 .. 3
      BY <2>1 DEF IInv, TypeOK, AuditOK, AuditRun, Order
    <3> QED BY <3>1 DEF Order, Tables
  <2>3. (~rebuilt /\ differ # {}) => Cause
    <3>1. CASE audit.differ # {}
      BY <2>1, <3>1 DEF Explained
    <3>2. CASE restated[table] # Confined(table, production[table])
      <4>1. Late(audit.planned) \/ Skewed(audit.planned) \/ Partial
        BY <2>1, <2>2, <3>2, ComparisonExplained
      <4> QED BY <4>1 DEF Cause
    <3> QED BY <3>1, <3>2
  <2> HIDE DEF differ, last, table
  <2>4. /\ audit'.planned = audit.planned /\ audit'.differ = differ
        /\ audit'.pc \in {"compare", "teardown"} /\ audit'.raised = audit.raised
        /\ audit'.outcome = "red" => audit.outcome = "red" \/ differ # {}
    BY <1>0, <2>1 DEF AuditRun
  <2>5. (~rebuilt' /\ (differ # {} \/ (audit.raised = {} /\ audit.outcome = "red"))) => Cause'
    BY <2>1, <2>3, <2>4, CausePersists DEF Explained
  <2> QED BY <2>4, <2>5 DEF Explained, Before
<1>11. CASE Teardown \/ Verdict
  <2>1. /\ audit'.planned = audit.planned /\ audit'.pc \in {"idle", "verdict"}
        /\ audit'.outcome = "red" => audit.outcome = "red"
        /\ audit'.raised = audit.raised
        /\ UNCHANGED <<rebuilt, production, readBy>>
    BY <1>0, <1>6, <1>11 DEF Teardown, Verdict, Audit, AuditRun
  <2> QED BY <2>1, CausePersists DEF Explained, Before
<1>12. CASE TaskFails
  <2>1. audit' = [Failed EXCEPT
          !.raised = @ \cup {audit.pc},
          !.pc = IF audit.pc \in {"teardown", "verdict"} THEN "idle" ELSE @]
    BY <1>12 DEF TaskFails
  <2>2. audit'.pc \in {"idle", "teardown"} /\ audit'.raised # {}
    BY <1>0, <2>1, FailedIsRun DEF AuditRun
  <2> QED BY <2>2 DEF Explained, Before
<1> QED
  BY <1>2, <1>3, <1>4, <1>5, <1>7, <1>8, <1>9, <1>10, <1>11, <1>12 DEF Next, Audit

(* No false alarm: every task ran and production stood still, so a red      *)
(* verdict is due to a missing manifest, an expired snapshot, a row stamped *)
(* before the bound and committed after the snapshot, a manifest that names *)
(* another snapshot than was read, or a half-built production.              *)
THEOREM AlarmHasACauseHolds == Spec => []AlarmHasACause
<1>1. Init => Clocked /\ Explained
  BY DEF Init, Clocked, Explained, Before, Cause, Idle, IsRecord
<1>2. Explained => AlarmHasACause
  BY DEF Explained, AlarmHasACause, Cause
<1> QED
  BY <1>1, <1>2, InitInv, NextInv, ClockedStep, ExplainedStep, PTL DEF Spec
=============================================================================
