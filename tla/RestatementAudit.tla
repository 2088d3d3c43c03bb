-------------------------- MODULE RestatementAudit --------------------------
(* Can gold be rebuilt?  `make dbt` builds silver and gold from bronze and  *)
(* records what it read in a manifest; the restatement_audit dag rebuilds a *)
(* month from bronze as of that record, and compares.  Both run beside the  *)
(* merges that go on changing bronze (BronzeIngest), which appear here as   *)
(* single commits, and beside table maintenance.                            *)
EXTENDS Marts, Sequences

CONSTANTS
  Values,
  Batches,     \* what one merge may stage: sets of observations
  Month,       \* the days the audit rebuilds
  MaxAge,      \* VACUUM expires snapshots older than this,
  MinKept,     \* but keeps this many
  MaxTime,     \* bound on the clock
  MaxAudits,   \* bound on audit runs
  MaxFaults,   \* bound on failing dbt nodes and dag tasks
  MaxEvents    \* bound on production builds and failures together

Observation == [key : Keys, value : Values]

ASSUME ParametersOK ==
  /\ Values \subseteq Int
  /\ Batches \subseteq SUBSET Observation
  /\ MaxAge \in Nat /\ MinKept \in Nat \ {0}
  /\ MaxTime \in Nat /\ MaxAudits \in Nat
  /\ MaxFaults \in Nat /\ MaxEvents \in Nat

VARIABLES
  now,         \* the clock
  bronze,      \* bronze.generation
  committed,   \* the commit time of each of its snapshots
  expired,     \* the snapshots VACUUM removed
  manifest,    \* gold.run_manifest, oldest first
  production,  \* the silver and gold tables
  build,       \* the dbt build under way
  builds,
  audit,       \* the dag run under way, or the last one
  restated,    \* the tables of the audit schema
  audits,
  faults,
  readBy,      \* history: the snapshot production.versions was built from
  rebuilt      \* history: a production table was written since plan

bronzeVars == <<bronze, committed, expired>>
buildVars == <<manifest, production, build, builds, readBy>>
auditVars == <<audit, restated, audits>>
vars == <<now, bronzeVars, buildVars, auditVars, faults, rebuilt>>

Tables == {"versions", "period", "daily"}
Order == <<"versions", "period", "daily">>     \* COMPARED
Run == [snapshot : Nat, learned_up_to : Nat]
NoRun == [snapshot |-> 0, learned_up_to |-> 0]
Idle == [pc |-> "idle", planned |-> NoRun, compared |-> 0, differ |-> {},
         outcome |-> "none", raised |-> {}]

Init ==
  /\ now = 1
  /\ bronze = {} /\ committed = <<>> /\ expired = {}
  /\ manifest = <<>>
  /\ production = [t \in Tables |-> {}]
  /\ build = [node |-> "end", recorded |-> TRUE]
  /\ builds = 0
  /\ audit = Idle
  /\ restated = [t \in {} |-> {}]
  /\ audits = 0 /\ faults = 0
  /\ readBy = 0 /\ rebuilt = FALSE

-----------------------------------------------------------------------------
(* Bronze.  Commit times are distinct.                                      *)
CanCommit == \A i \in DOMAIN committed : committed[i] < now

Tick ==
  /\ now < MaxTime
  /\ now' = now + 1
  /\ UNCHANGED <<bronzeVars, buildVars, auditVars, faults, rebuilt>>

(* One merge commits.  Its stamp is an input: anything up to now.           *)
Land(batch, stamp) ==
  LET staged == {[key |-> o.key, known_at |-> stamp, value |-> o.value] :
                   o \in batch}
      inserts == MergeInserts(bronze, staged, {o.key : o \in batch})
  IN  /\ CanCommit
      /\ inserts # {}
      /\ bronze' = bronze \cup
           {[key |-> s.key, known_at |-> s.known_at, value |-> s.value,
             snap |-> Len(committed) + 1] : s \in inserts}
      /\ committed' = Append(committed, now)
      /\ UNCHANGED <<now, expired, buildVars, auditVars, faults, rebuilt>>

(* OPTIMIZE: a snapshot with the same rows.                                 *)
Compact ==
  /\ bronze # {}
  /\ CanCommit
  /\ committed' = Append(committed, now)
  /\ UNCHANGED <<now, bronze, expired, buildVars, auditVars, faults, rebuilt>>

(* VACUUM.                                                                  *)
Vacuum ==
  /\ expired' = expired \cup
       {i \in DOMAIN committed : /\ committed[i] + MaxAge < now
                                 /\ i <= Len(committed) - MinKept}
  /\ expired' # expired
  /\ UNCHANGED <<now, bronze, committed, buildVars, auditVars, faults, rebuilt>>

-----------------------------------------------------------------------------
(* `make dbt`: dbt build with four threads.  run_manifest refers to no      *)
(* other model, so it runs beside the others; those run in dependency       *)
(* order, and a failing test skips the models downstream of it.             *)
Building == build.node # "end" \/ ~build.recorded

StartBuild ==
  /\ ~Building
  /\ builds + faults < MaxEvents
  /\ build' = [node |-> "versions", recorded |-> FALSE]
  /\ builds' = builds + 1
  /\ UNCHANGED <<now, bronzeVars, manifest, production, auditVars, faults,
                 readBy, rebuilt>>

(* The newest snapshot and its commit time; both are null on a new table.   *)
RecordManifest ==
  LET newest == Len(committed)
  IN  /\ ~build.recorded
      /\ manifest' = Append(manifest,
           IF newest = 0 THEN NoRun
           ELSE [snapshot |-> newest, learned_up_to |-> committed[newest]])
      /\ build' = [build EXCEPT !.recorded = TRUE]
      /\ UNCHANGED <<now, bronzeVars, production, builds, auditVars, faults,
                     readBy, rebuilt>>

Write(table, rows, next) ==
  /\ production' = [production EXCEPT ![table] = rows]
  /\ build' = [build EXCEPT !.node = next]
  /\ rebuilt' = TRUE
  /\ UNCHANGED <<now, bronzeVars, manifest, builds, auditVars, faults>>

BuildVersions ==
  /\ build.node = "versions"
  /\ Write("versions", SilverVersions(bronze), "tests")
  /\ readBy' = Len(committed)

(* versions_preserve_every_bronze_row counts bronze again.                  *)
TestVersions ==
  /\ build.node = "tests"
  /\ build' = [build EXCEPT !.node =
       IF Cardinality(bronze) = Cardinality(production["versions"])
       THEN "period" ELSE "end"]
  /\ UNCHANGED <<now, bronzeVars, manifest, production, builds, auditVars,
                 faults, readBy, rebuilt>>

BuildPeriod ==
  /\ build.node = "period"
  /\ Write("period", PeriodNet(production["versions"]), "daily")
  /\ UNCHANGED readBy

BuildDaily ==
  /\ build.node = "daily"
  /\ Write("daily", DailyMix(production["period"]), "end")
  /\ UNCHANGED readBy

(* A node errors and those after it are skipped, or dbt itself dies.        *)
BuildFails ==
  /\ Building
  /\ faults < MaxFaults /\ builds + faults < MaxEvents
  /\ \E recorded \in {build.recorded, TRUE} :
       build' = [node |-> "end", recorded |-> recorded]
  /\ faults' = faults + 1
  /\ UNCHANGED <<now, bronzeVars, manifest, production, builds, auditVars,
                 readBy, rebuilt>>

-----------------------------------------------------------------------------
(* The audited month, in each table.                                        *)
MonthKeys == {k \in Keys : DayOf[PeriodOf[k]] \in Month}
InMonth(table) == {r \in table : r.key \in MonthKeys}

(* The predicate that confines a production table to the month.             *)
Confined(table, rows) ==
  {r \in rows :
     CASE table = "versions" -> r.key \in MonthKeys
       [] table = "period"   -> DayOf[r.period] \in Month
       [] table = "daily"    -> r.day \in Month}

(* dbt run over one month of bronze.                                        *)
Rebuild(table) ==
  LET versions == SilverVersions(table)
      period == PeriodNet(versions)
  IN  [t \in Tables |-> CASE t = "versions" -> versions
                          [] t = "period" -> period
                          [] t = "daily" -> DailyMix(period)]

(* Every column of bronze, which is a row without its snapshot.             *)
Columns(table) == {[key |-> r.key, known_at |-> r.known_at,
                    value |-> r.value] : r \in table}

(* Faulty variant: known_at < the bound.                                    *)
RestatedInputBefore(run) ==
  InMonth({r \in bronze : r.known_at < run.learned_up_to})

RestatedInput(run) == InMonth(KnownBy(bronze, run.learned_up_to))

(* One run of the dag: its tasks run one after the other.                   *)
StartAudit ==
  /\ audit.pc = "idle"
  /\ audits < MaxAudits
  /\ audit' = [Idle EXCEPT !.pc = "plan"]
  /\ audits' = audits + 1
  /\ UNCHANGED <<now, bronzeVars, buildVars, restated, faults, rebuilt>>

(* Faulty variant: teardown runs only when everything before it succeeded.  *)
FailedAltogether == [audit EXCEPT !.pc = "idle", !.outcome = "red"]

(* A failed task fails the ones after it, except teardown.                  *)
Failed == [audit EXCEPT !.pc = "teardown", !.outcome = "red"]

Plan ==
  /\ audit.pc = "plan"
  /\ LET last == manifest[Len(manifest)]
     IN  IF manifest = <<>> \/ last = NoRun
         THEN audit' = Failed
         ELSE audit' = [audit EXCEPT !.pc = "clocks", !.planned = last]
  /\ rebuilt' = FALSE
  /\ UNCHANGED <<now, bronzeVars, buildVars, restated, audits, faults>>

(* Faulty variant: EXCEPT in one direction only.                            *)
ClocksAgreeOneWay(run) ==
  Columns(InMonth(AtSnapshot(bronze, run.snapshot)))
    \subseteq Columns(RestatedInput(run))

(* CLOCKS.  No two rows of bronze have the same columns (BronzeLedger), so  *)
(* the counts add nothing to the two EXCEPTs.                               *)
ClocksAgree(run) ==
  Columns(InMonth(AtSnapshot(bronze, run.snapshot)))
    = Columns(RestatedInput(run))

CheckClocks ==
  /\ audit.pc = "clocks"
  /\ IF audit.planned.snapshot \notin expired /\ ClocksAgree(audit.planned)
     THEN audit' = [audit EXCEPT !.pc = "restate"]
     ELSE audit' = Failed
  /\ UNCHANGED <<now, bronzeVars, buildVars, restated, audits, faults, rebuilt>>

Restate ==
  /\ audit.pc = "restate"
  /\ restated' = Rebuild(RestatedInput(audit.planned))
  /\ audit' = [audit EXCEPT !.pc = "compare"]
  /\ UNCHANGED <<now, bronzeVars, buildVars, audits, faults, rebuilt>>

(* Faulty variant: one table too many.                                      *)
AllComparedPastTheEnd(n) == n > Len(Order)

AllCompared(n) == n = Len(Order)

(* Each table is compared by a query of its own.                            *)
Compare ==
  LET table == Order[audit.compared + 1]
      differ == audit.differ \cup
        {t \in {table} : restated[t] # Confined(t, production[t])}
      last == AllCompared(audit.compared + 1)
  IN  /\ audit.pc = "compare"
      /\ audit' = [audit EXCEPT
           !.compared = @ + 1,
           !.differ = differ,
           !.pc = IF last THEN "teardown" ELSE @,
           !.outcome = IF last /\ differ # {} THEN "red" ELSE @]
      /\ UNCHANGED <<now, bronzeVars, buildVars, restated, audits, faults,
                     rebuilt>>

(* teardown runs whatever failed; verdict needs teardown and compare.       *)
Teardown ==
  /\ audit.pc = "teardown"
  /\ restated' = [t \in {} |-> {}]
  /\ audit' = [audit EXCEPT
       !.pc = IF audit.outcome = "red" THEN "idle" ELSE "verdict"]
  /\ UNCHANGED <<now, bronzeVars, buildVars, audits, faults, rebuilt>>

Verdict ==
  /\ audit.pc = "verdict"
  /\ audit' = [audit EXCEPT !.pc = "idle", !.outcome = "green"]
  /\ UNCHANGED <<now, bronzeVars, buildVars, restated, audits, faults, rebuilt>>

(* Some of the restated tables, over whatever an earlier run left there.    *)
PartlyRestated(n) ==
  LET built == {Order[i] : i \in 1 .. n}
  IN  [t \in built \cup DOMAIN restated |->
         IF t \in built THEN Rebuild(RestatedInput(audit.planned))[t]
         ELSE restated[t]]

(* A task raises.  A restate that fails has built some or all of its tables,*)
(* and a teardown that fails has dropped some.                              *)
TaskFails ==
  /\ audit.pc # "idle"
  /\ faults < MaxFaults /\ builds + faults < MaxEvents
  /\ faults' = faults + 1
  /\ audit' = [Failed EXCEPT
       !.raised = @ \cup {audit.pc},
       !.pc = IF audit.pc \in {"teardown", "verdict"} THEN "idle" ELSE @]
  /\ CASE audit.pc = "restate" ->
            \E n \in 0 .. 3 : restated' = PartlyRestated(n)
       [] audit.pc = "teardown" ->
            \E left \in SUBSET DOMAIN restated :
              restated' = [t \in left |-> restated[t]]
       [] OTHER -> UNCHANGED restated
  /\ UNCHANGED <<now, bronzeVars, buildVars, audits, rebuilt>>

-----------------------------------------------------------------------------
Bronze ==
  \/ Tick
  \/ \E batch \in Batches : \E stamp \in 1 .. now : Land(batch, stamp)
  \/ Compact
  \/ Vacuum

Dbt ==
  \/ StartBuild
  \/ RecordManifest
  \/ BuildVersions
  \/ TestVersions
  \/ BuildPeriod
  \/ BuildDaily
  \/ BuildFails

Audit ==
  \/ StartAudit
  \/ Plan
  \/ CheckClocks
  \/ Restate
  \/ Compare
  \/ Teardown
  \/ Verdict
  \/ TaskFails

Next == Bronze \/ Dbt \/ Audit

Spec == Init /\ [][Next]_vars

-----------------------------------------------------------------------------
Row == [key : Keys, known_at : Nat, value : Values, snap : Nat]
AuditRun ==
  [pc : {"idle", "plan", "clocks", "restate", "compare", "teardown", "verdict"},
   planned : Run, compared : 0 .. Len(Order), differ : SUBSET Tables,
   outcome : {"none", "green", "red"},
   raised : SUBSET {"plan", "clocks", "restate", "compare", "teardown",
                    "verdict"}]

BronzeOK ==
  /\ now \in Nat
  /\ bronze \subseteq Row
  /\ committed \in Seq(Nat)
  /\ expired \subseteq DOMAIN committed
DbtOK ==
  /\ manifest \in Seq(Run)
  /\ DOMAIN production = Tables
  /\ build \in [node : {"versions", "tests", "period", "daily", "end"},
                recorded : BOOLEAN]
  /\ builds \in Nat
  /\ readBy \in 0 .. Len(committed)
AuditOK ==
  /\ audit \in AuditRun
  /\ audit.pc \in {"plan", "clocks", "restate"} => audit.compared = 0
  /\ audit.pc = "compare" => audit.compared < Len(Order)
  /\ DOMAIN restated \subseteq Tables
  /\ audits \in Nat
  /\ faults \in Nat
  /\ rebuilt \in BOOLEAN

(* Every variable stays in its domain, and compare always has a table left. *)
TypeOK == BronzeOK /\ DbtOK /\ AuditOK

Ended == audit.pc = "idle"

(* The month as the planned run's snapshot holds it.                        *)
Promised(run) == Rebuild(InMonth(AtSnapshot(bronze, run.snapshot)))

(* A green verdict proves what the dag's docstring says: unless production  *)
(* was written meanwhile, its month is what the snapshot its manifest names *)
(* gives, in all three tables, although the rebuild never reads a snapshot, *)
(* bronze kept growing, and the manifest may name another than was read.    *)
GreenIsReproducible ==
  (Ended /\ audit.outcome = "green" /\ ~rebuilt) =>
    \A t \in Tables : Confined(t, production[t]) = Promised(audit.planned)[t]

(* What can turn an audit red without anything being irreproducible.        *)
Late(run) ==      \* stamped before the bound, committed after the snapshot
  \E r \in InMonth(bronze) :
    r.snap > run.snapshot /\ r.known_at <= run.learned_up_to
Skewed(run) ==    \* production read another snapshot than it recorded
  InMonth(AtSnapshot(bronze, readBy)) # InMonth(AtSnapshot(bronze, run.snapshot))
Partial ==        \* a build stopped between silver and gold
  \/ production["period"] # PeriodNet(production["versions"])
  \/ production["daily"] # DailyMix(production["period"])

(* No false alarm: when every task ran and production stood still, a red    *)
(* audit has one of the causes the code knows of (check_clocks' docstring)  *)
(* or the README lists; otherwise the comparison finds identical tables.    *)
AlarmHasACause ==
  (Ended /\ audit.outcome = "red" /\ audit.raised = {} /\ ~rebuilt) =>
    LET run == audit.planned
    IN  \/ run = NoRun
        \/ run.snapshot \in expired
        \/ Late(run)
        \/ Skewed(run)
        \/ Partial

(* Two routes to one past agree: reading the versions table as of a moment  *)
(* (the known_at macro) gives the current rows of bronze restated at it.    *)
AsOfAgrees ==
  \A t \in 0 .. now :
    {[key |-> v.key, known_at |-> v.known_from, value |-> v.value] :
       v \in ReadAsOf(production["versions"], t)}
    = Columns(Current(KnownBy(AtSnapshot(bronze, readBy), t)))

(* Whatever failed, the audit schema is gone when the run ends, unless      *)
(* teardown itself raised (its trigger rule is all_done).                   *)
NothingLeftBehind ==
  (Ended /\ "teardown" \notin audit.raised) => DOMAIN restated = {}

-----------------------------------------------------------------------------
(* What the documentation says, and the code does not do: see README.       *)

(* "The iceberg snapshot of bronze this run read" (gold/_models.yml): once  *)
(* a build has ended and gold follows from silver, the snapshot its manifest*)
(* row names holds the rows silver was built from.                          *)
ManifestNamesWhatWasRead ==
  (~Building /\ manifest # <<>> /\ ~Partial) =>
    LET last == manifest[Len(manifest)]
    IN  last # NoRun =>
          AtSnapshot(bronze, last.snapshot) = AtSnapshot(bronze, readBy)
=============================================================================
