------------------------- MODULE BronzeIngestProofs -------------------------
(* Theorems about BronzeIngest, for any number of runs, attempts, days,     *)
(* periods, values and faults.                                              *)
EXTENDS BronzeIngest, TLAPS

LEMMA AttemptShape ==
  ASSUME NEW a \in Attempts
  PROVE  /\ a[1] \in Runs
         /\ EventOf(a) \in EventType
  BY ConstantsOK DEF Attempts, EventOf

LEMMA StampIsNat ==
  ASSUME TypeOK, NEW r \in Runs
  PROVE  StampOf(r) \in Nat
  BY ConstantsOK DEF TypeOK, StampOf, EventType

LEMMA DayDoneType ==
  ASSUME TypeOK, NEW a \in Attempts
  PROVE  DayDone(a) \in Attempt
<1>1. attempt[a] \in Attempt /\ EventOf(a).last \in Days
  BY AttemptShape DEF TypeOK, EventType
<1>2. attempt[a].day < EventOf(a).last => attempt[a].day + 1 \in Days
  BY <1>1, ConstantsOK DEF Attempt, Days
<1> QED
  BY <1>1, <1>2 DEF DayDone, Attempt

(* The merge stages and inserts rows of the declared shape.                 *)
LEMMA StagedRowsType ==
  ASSUME TypeOK, NEW a \in Attempts
  PROVE  StagedRows(a) \subseteq StagedRow
<1>1. attempt[a].known_at \in Nat /\ attempt[a].doc.obs \subseteq Observation
  BY DEF TypeOK, Attempt, Document
<1> QED
  BY <1>1 DEF StagedRows, Accepted, Observation, StagedRow

LEMMA InsertsAreStaged ==
  ASSUME NEW a \in Attempts
  PROVE  Inserts(a) \subseteq query[a].staged
  BY DEF Inserts, MergeInserts

(* Every variable stays in its domain.                                      *)
THEOREM TypeCorrect == Spec => []TypeOK
<1>1. Init => TypeOK
  <2> SUFFICES ASSUME Init PROVE TypeOK
    OBVIOUS
  <2>1. 1 \in Days
    BY ConstantsOK DEF Days
  <2>2. NoData \in Document
    BY DEF NoData, Document
  <2>3. NoAttempt \in Attempt
    BY <2>1, <2>2 DEF NoAttempt, Attempt
  <2>4. NoQuery \in Query
    BY <2>1 DEF NoQuery, Query
  <2> QED
    BY <2>2, <2>3, <2>4 DEF Init, TypeOK
<1>2. TypeOK /\ [Next]_vars => TypeOK'
  <2> SUFFICES ASSUME TypeOK, [Next]_vars PROVE TypeOK'
    OBVIOUS
  <2>1. CASE Tick
    BY <2>1 DEF Tick, TypeOK
  <2>2. ASSUME NEW d \in Days, NEW doc \in Documents[d], Publish(d, doc)
        PROVE  TypeOK'
    <3>1. doc \in Document
      BY ConstantsOK
    <3> QED
      BY <2>2, <3>1 DEF Publish, TypeOK
  <2>3. ASSUME NEW r \in Runs, Fire(r)
        PROVE  TypeOK'
    BY <2>3 DEF Fire, TypeOK
  <2>4. ASSUME NEW r \in Runs, NEW n \in Deliveries(r), Start(r, n)
        PROVE  TypeOK'
    <3>1. Event[r] \in EventType /\ StampOf(r) \in Nat /\ NoData \in Document
      BY ConstantsOK, StampIsNat DEF NoData, Document
    <3> DEFINE new == [pc |-> "fetch", day |-> Event[r].first, doc |-> NoData,
             known_at |-> IF Event[r].kind = "backfill" THEN StampOf(r) ELSE 0]
    <3>2. new \in Attempt
      BY <3>1 DEF EventType, Attempt
    <3>3. attempt' = [attempt EXCEPT ![<<r, n>>] = new]
      BY <2>4 DEF Start
    <3> HIDE DEF new
    <3>4. attempt' \in [Attempts -> Attempt]
      BY <3>2, <3>3 DEF TypeOK
    <3> QED
      BY <2>4, <3>4 DEF Start, TypeOK
  <2>5. ASSUME NEW a \in Attempts, FetchNoData(a)
        PROVE  TypeOK'
    BY <2>5, DayDoneType DEF FetchNoData, TypeOK
  <2>6. ASSUME NEW a \in Attempts, Fetch(a)
        PROVE  TypeOK'
    <3>1. attempt[a] \in Attempt /\ published[attempt[a].day] \in Document
      BY DEF TypeOK, Attempt
    <3>2. StampOf(a[1]) \in Nat
      BY AttemptShape, StampIsNat
    <3>3. attempt' \in [Attempts -> Attempt]
      BY <2>6, <3>1, <3>2 DEF Fetch, TypeOK, Attempt
    <3> QED
      BY <2>6, <3>3 DEF Fetch, TypeOK
  <2>7. ASSUME NEW a \in Attempts, PutRaw(a)
        PROVE  TypeOK'
    <3>1. attempt[a] \in Attempt
      BY DEF TypeOK
    <3>2. attempt' \in [Attempts -> Attempt]
      BY <2>7, <3>1 DEF PutRaw, TypeOK, Attempt
    <3>3. raw' \subseteq [day : Days, known_at : Nat, doc : Document]
      BY <2>7, <3>1 DEF PutRaw, TypeOK, Attempt
    <3> QED
      BY <2>7, <3>2, <3>3 DEF PutRaw, TypeOK
  <2>8. ASSUME NEW a \in Attempts, Quarantine(a)
        PROVE  TypeOK'
    <3>1. /\ attempt[a] \in Attempt
          /\ Violations(attempt[a].doc) \subseteq Observation
      BY DEF TypeOK, Attempt, Document, Violations
    <3>2. /\ [attempt[a] EXCEPT !.pc = "stage"] \in Attempt
          /\ [attempt[a] EXCEPT !.pc = "dead"] \in Attempt
      BY <3>1 DEF Attempt
    <3>4. attempt' \in [Attempts -> Attempt]
      BY <2>8, <3>2 DEF Quarantine, TypeOK
    <3>3. quarantine' \subseteq [obs : Observation, known_at : Nat]
      BY <2>8, <3>1 DEF Quarantine, TypeOK, Attempt
    <3> QED
      BY <2>8, <3>3, <3>4 DEF Quarantine, TypeOK
  <2>9. ASSUME NEW a \in Attempts, Stage(a)
        PROVE  TypeOK'
    <3>1. /\ attempt[a] \in Attempt
          /\ DayDone(a) \in Attempt
          /\ [attempt[a] EXCEPT !.pc = "dead"] \in Attempt
          /\ [attempt[a] EXCEPT !.pc = "poll"] \in Attempt
      BY DayDoneType DEF TypeOK, Attempt
    <3>2. [state |-> "queued", day |-> attempt[a].day, staged |-> StagedRows(a),
           base |-> 0] \in Query
      BY <3>1, StagedRowsType DEF Attempt, Query
    <3>3. attempt' \in [Attempts -> Attempt]
      BY <2>9, <3>1 DEF Stage, TypeOK
    <3>4. query' \in [Attempts -> Query]
      BY <2>9, <3>2 DEF Stage, TypeOK
    <3> QED
      BY <2>9, <3>3, <3>4 DEF Stage, TypeOK
  <2>10. ASSUME NEW a \in Attempts, Poll(a)
         PROVE  TypeOK'
    <3>1. DayDone(a) \in Attempt /\ [attempt[a] EXCEPT !.pc = "dead"] \in Attempt
      BY DayDoneType DEF TypeOK, Attempt
    <3>2. attempt' \in [Attempts -> Attempt]
      BY <2>10, <3>1 DEF Poll, TypeOK
    <3> QED
      BY <2>10, <3>2 DEF Poll, TypeOK
  <2>11. ASSUME NEW a \in Attempts, Die(a)
         PROVE  TypeOK'
    <3>1. attempt[a] \in Attempt /\ [attempt[a] EXCEPT !.pc = "dead"] \in Attempt
      BY DEF TypeOK, Attempt
    <3>2. attempt' \in [Attempts -> Attempt]
      BY <2>11, <3>1 DEF Die, TypeOK
    <3>3. faults' \in Nat
      BY <2>11 DEF Die, TypeOK
    <3> QED
      BY <2>11, <3>2, <3>3 DEF Die, TypeOK
  <2>12. ASSUME NEW a \in Attempts, Plan(a)
         PROVE  TypeOK'
    <3>1. Len(snapshots) \in Nat
      BY DEF TypeOK
    <3>2. query' \in [Attempts -> Query]
      BY <2>12, <3>1 DEF Plan, TypeOK, Query
    <3> QED
      BY <2>12, <3>2 DEF Plan, TypeOK
  <2>13. ASSUME NEW a \in Attempts, Commit(a)
         PROVE  TypeOK'
    <3>1. query' \in [Attempts -> Query] /\ query[a] \in Query
      BY <2>13 DEF Commit, TypeOK, Query
    <3>2. Len(snapshots) + 1 \in Nat
      BY DEF TypeOK
    <3>3. \A s \in Inserts(a) :
            [key |-> s.key, known_at |-> s.known_at, value |-> s.value,
             snap |-> Len(snapshots) + 1] \in Row
      BY <3>1, <3>2, InsertsAreStaged DEF Query, StagedRow, Row
    <3>4. bronze' \subseteq Row
      BY <2>13, <3>3 DEF Commit, TypeOK
    <3> DEFINE Cut == [attempt : Attempts, day : Days]
               entry == [attempt |-> a, day |-> query[a].day]
    <3>5. entry \in Cut /\ snapshots \in Seq(Cut)
      BY <3>1 DEF Query, TypeOK
    <3>6. snapshots' \in Seq(Cut)
      <4>1. snapshots' = snapshots \/ snapshots' = Append(snapshots, entry)
        BY <2>13 DEF Commit
      <4> HIDE DEF Cut, entry
      <4> QED
        BY <3>5, <4>1
    <3>7. UNCHANGED <<now, published, publications, fired, attempt, raw,
                      quarantine, faults>>
      BY <2>13 DEF Commit
    <3> QED
      BY <3>1, <3>4, <3>6, <3>7 DEF TypeOK
  <2>14. ASSUME NEW a \in Attempts, Conflict(a)
         PROVE  TypeOK'
    BY <2>14 DEF Conflict, TypeOK, Query
  <2>15. ASSUME NEW a \in Attempts, EngineFails(a)
         PROVE  TypeOK'
    <3>1. query' \in [Attempts -> Query]
      BY <2>15 DEF EngineFails, TypeOK, Query
    <3> QED
      BY <2>15, <3>1 DEF EngineFails, TypeOK
  <2>16. CASE UNCHANGED vars
    BY <2>16 DEF vars, TypeOK
  <2> QED
    BY <2>1, <2>2, <2>3, <2>4, <2>5, <2>6, <2>7, <2>8, <2>9, <2>10, <2>11,
       <2>12, <2>13, <2>14, <2>15, <2>16 DEF Next, Lambda, Athena
<1> QED
  BY <1>1, <1>2, PTL DEF Spec

-----------------------------------------------------------------------------
(* Why concurrent merges serialise.  A batch in flight holds one row per    *)
(* key, all of one stamp and all inside its window, because the document it *)
(* came from does; and every stored row belongs to a snapshot in the log.   *)
WellBehavedInput ==
  /\ \A d \in Days : WellBehaved(d, published[d])
  /\ \A a \in Attempts : attempt[a].pc \in {"raw", "gate", "stage"} =>
       WellBehaved(attempt[a].day, attempt[a].doc)

OneStampPerBatch ==
  \A a \in Attempts : query[a].state \in {"queued", "running"} =>
    \A s, t \in query[a].staged :
      /\ s.known_at = t.known_at
      /\ s.key = t.key => s = t
      /\ s.key \in Window(query[a].day)

SnapshotsLogged ==
  \A r \in bronze : r.snap \in 1 .. Len(snapshots)

SerialInv == TypeOK /\ WellBehavedInput /\ OneStampPerBatch /\ SnapshotsLogged

(* Only a fetch brings in a document, and it brings in the published one.   *)
LEMMA WellBehavedStep ==
  ASSUME WellBehavedPlatform, TypeOK, WellBehavedInput, [Next]_vars
  PROVE  WellBehavedInput'
<1>1. CASE UNCHANGED <<published, attempt>>
  BY <1>1 DEF WellBehavedInput
<1>2. ASSUME NEW d \in Days, NEW doc \in Documents[d], Publish(d, doc)
      PROVE  WellBehavedInput'
  BY <1>2 DEF Publish, WellBehavedInput, WellBehavedPlatform, TypeOK
<1>3. ASSUME NEW a \in Attempts, UNCHANGED published,
             NEW x, attempt' = [attempt EXCEPT ![a] = x],
             x.pc \in {"raw", "gate", "stage"} => WellBehaved(x.day, x.doc)
      PROVE  WellBehavedInput'
  BY <1>3 DEF WellBehavedInput, TypeOK
<1>4. ASSUME NEW r \in Runs, NEW n \in Deliveries(r), Start(r, n)
      PROVE  WellBehavedInput'
  <2>1. <<r, n>> \in Attempts
    BY DEF Attempts
  <2> QED
    BY <1>3, <1>4, <2>1 DEF Start
<1>5. ASSUME NEW a \in Attempts
      PROVE  /\ DayDone(a).pc \in {"fetch", "done"}
             /\ [attempt[a] EXCEPT !.pc = "dead"].pc = "dead"
             /\ [attempt[a] EXCEPT !.pc = "poll"].pc = "poll"
  BY DEF DayDone, TypeOK, Attempt
<1>6. ASSUME NEW a \in Attempts, FetchNoData(a)
      PROVE  WellBehavedInput'
  BY <1>3, <1>5, <1>6 DEF FetchNoData
<1>7. ASSUME NEW a \in Attempts, Fetch(a)
      PROVE  WellBehavedInput'
  <2>1. attempt[a] \in Attempt /\ attempt[a].day \in Days
    BY DEF TypeOK, Attempt
  <2>2. WellBehaved(attempt[a].day, published[attempt[a].day])
    BY <2>1 DEF WellBehavedInput
  <2>3. CASE EventOf(a).kind = "ingest"
    BY <1>3, <1>7, <2>2, <2>3 DEF Fetch
  <2>4. CASE EventOf(a).kind # "ingest"
    <3> DEFINE x == [attempt[a] EXCEPT !.pc = "stage",
                                       !.doc = published[attempt[a].day]]
    <3>1. x.day = attempt[a].day /\ x.doc = published[attempt[a].day]
      BY <2>1 DEF Attempt
    <3>2. attempt' = [attempt EXCEPT ![a] = x] /\ UNCHANGED published
      BY <1>7, <2>4 DEF Fetch
    <3> HIDE DEF x
    <3> QED
      BY <1>3, <2>2, <3>1, <3>2
  <2> QED
    BY <2>3, <2>4
<1>8. ASSUME NEW a \in Attempts, NEW p, attempt[a].pc \in {"raw", "gate"},
             UNCHANGED published, attempt' = [attempt EXCEPT ![a].pc = p]
      PROVE  WellBehavedInput'
  BY <1>8 DEF WellBehavedInput, TypeOK, Attempt
<1>9. ASSUME NEW a \in Attempts, PutRaw(a) \/ Quarantine(a)
      PROVE  WellBehavedInput'
  BY <1>8, <1>9 DEF PutRaw, Quarantine
<1>10. ASSUME NEW a \in Attempts, Stage(a) \/ Poll(a) \/ Die(a)
       PROVE  WellBehavedInput'
  <2>1. /\ UNCHANGED published
        /\ \/ attempt' = [attempt EXCEPT ![a] = DayDone(a)]
           \/ attempt' = [attempt EXCEPT ![a] = [attempt[a] EXCEPT !.pc = "dead"]]
           \/ attempt' = [attempt EXCEPT ![a] = [attempt[a] EXCEPT !.pc = "poll"]]
    BY <1>10 DEF Stage, Poll, Die
  <2> QED
    BY <1>3, <1>5, <2>1
<1> QED
  BY <1>1, <1>2, <1>4, <1>6, <1>7, <1>9, <1>10
     DEF Next, vars, Lambda, Athena, Tick, Fire, Plan, Commit, Conflict,
         EngineFails

(* Only Stage builds a batch; Plan keeps it, and the rest end the query.    *)
LEMMA OneStampPerBatchStep ==
  ASSUME TypeOK, WellBehavedInput, OneStampPerBatch, [Next]_vars
  PROVE  OneStampPerBatch'
<1>1. CASE UNCHANGED query
  BY <1>1 DEF OneStampPerBatch
<1>2. ASSUME NEW a \in Attempts, NEW q, query' = [query EXCEPT ![a] = q],
             q.state \in {"queued", "running"} =>
               \A s, t \in q.staged : /\ s.known_at = t.known_at
                                      /\ s.key = t.key => s = t
                                      /\ s.key \in Window(q.day)
      PROVE  OneStampPerBatch'
  BY <1>2 DEF OneStampPerBatch, TypeOK
<1>3. ASSUME NEW a \in Attempts, Stage(a)
      PROVE  OneStampPerBatch'
  <2>1. CASE UNCHANGED query
    BY <1>1, <2>1
  <2>2. CASE ~ UNCHANGED query
    <3> DEFINE q == [state |-> "queued", day |-> attempt[a].day,
                     staged |-> StagedRows(a), base |-> 0]
    <3>1. query' = [query EXCEPT ![a] = q] /\ attempt[a].pc = "stage"
      BY <1>3, <2>2 DEF Stage
    <3>2. WellBehaved(attempt[a].day, attempt[a].doc)
      BY <3>1 DEF WellBehavedInput
    <3>3. ASSUME NEW s \in StagedRows(a), NEW t \in StagedRows(a)
          PROVE  /\ s.known_at = t.known_at
                 /\ s.key = t.key => s = t
                 /\ s.key \in Window(attempt[a].day)
      <4>1. PICK o \in Accepted(attempt[a].doc) :
              s = [key |-> o.key, known_at |-> attempt[a].known_at,
                   value |-> o.value]
        BY DEF StagedRows
      <4>2. PICK p \in Accepted(attempt[a].doc) :
              t = [key |-> p.key, known_at |-> attempt[a].known_at,
                   value |-> p.value]
        BY DEF StagedRows
      <4>3. o.key \in Keys /\ o \in attempt[a].doc.obs /\ p \in attempt[a].doc.obs
        BY DEF Accepted, TypeOK, Attempt, Document, Observation
      <4>4. o.key = p.key => o = p
        BY <3>2, <4>3 DEF WellBehaved
      <4>5. DayOf[o.key] = attempt[a].day
        BY <3>2, <4>3 DEF WellBehaved
      <4> QED
        BY <4>1, <4>2, <4>3, <4>4, <4>5 DEF Window
    <3>4. q.staged = StagedRows(a) /\ q.day = attempt[a].day
      OBVIOUS
    <3> HIDE DEF q
    <3>5. \A s, t \in q.staged : /\ s.known_at = t.known_at
                                 /\ s.key = t.key => s = t
                                 /\ s.key \in Window(q.day)
      BY <3>3, <3>4
    <3> QED
      BY <1>2, <3>1, <3>5
  <2> QED
    BY <2>1, <2>2
<1>4. ASSUME NEW a \in Attempts, Plan(a)
      PROVE  OneStampPerBatch'
  BY <1>4 DEF Plan, OneStampPerBatch, TypeOK, Query
<1>5. ASSUME NEW a \in Attempts, Commit(a) \/ Conflict(a) \/ EngineFails(a)
      PROVE  OneStampPerBatch'
  <2>1. \/ query' = [query EXCEPT ![a] = [query[a] EXCEPT !.state = "succeeded"]]
        \/ query' = [query EXCEPT ![a] = [query[a] EXCEPT !.state = "failed"]]
    BY <1>5 DEF Commit, Conflict, EngineFails
  <2>2. /\ [query[a] EXCEPT !.state = "succeeded"].state = "succeeded"
        /\ [query[a] EXCEPT !.state = "failed"].state = "failed"
    BY DEF TypeOK, Query
  <2> QED
    BY <1>2, <2>1, <2>2
<1> QED
  BY <1>1, <1>3, <1>4, <1>5
     DEF Next, vars, Lambda, Athena, Tick, Publish, Fire, Start, FetchNoData,
         Fetch, PutRaw, Quarantine, Poll, Die

(* The rows a commit adds, when it adds any.                                *)
NewRows(a) ==
  {[key |-> s.key, known_at |-> s.known_at, value |-> s.value,
    snap |-> Len(snapshots) + 1] : s \in Inserts(a)}

LEMMA CommitEffect ==
  ASSUME TypeOK, NEW a \in Attempts, Commit(a)
  PROVE  \/ UNCHANGED <<bronze, snapshots>>
         \/ /\ bronze' = bronze \cup NewRows(a)
            /\ Len(snapshots') = Len(snapshots) + 1
            /\ Len(snapshots) \in Nat
<1>1. snapshots \in Seq([attempt : Attempts, day : Days])
  BY DEF TypeOK
<1>2. CASE Inserts(a) = {}
  BY <1>2 DEF Commit
<1>3. CASE Inserts(a) # {}
  <2>1. /\ bronze' = bronze \cup NewRows(a)
        /\ snapshots' = Append(snapshots, [attempt |-> a, day |-> query[a].day])
    BY <1>3 DEF Commit, NewRows
  <2> QED
    BY <1>1, <2>1
<1> QED
  BY <1>2, <1>3

LEMMA SnapshotsLoggedStep ==
  ASSUME TypeOK, SnapshotsLogged, [Next]_vars
  PROVE  SnapshotsLogged'
<1>1. CASE UNCHANGED <<bronze, snapshots>>
  BY <1>1 DEF SnapshotsLogged
<1>2. ASSUME NEW a \in Attempts, Commit(a)
      PROVE  SnapshotsLogged'
  <2>1. CASE /\ bronze' = bronze \cup NewRows(a)
             /\ Len(snapshots') = Len(snapshots) + 1
             /\ Len(snapshots) \in Nat
    BY <2>1 DEF SnapshotsLogged, NewRows
  <2> QED
    BY <1>1, <1>2, <2>1, CommitEffect
<1> QED
  BY <1>1, <1>2
     DEF Next, vars, Lambda, Athena, Tick, Publish, Fire, Start, FetchNoData,
         Fetch, PutRaw, Quarantine, Stage, Poll, Die, Plan, Conflict,
         EngineFails

(* Rows the query did not read are outside its window, or it would have     *)
(* failed: so its filters, applied to what it read, answer as they would on *)
(* the whole current table.                                                 *)
LEMMA ReadIsCurrent ==
  ASSUME TypeOK, NEW a \in Attempts, ~Overtaken(a),
         NEW k \in Window(query[a].day)
  PROVE  Versions({r \in AtSnapshot(bronze, query[a].base) :
                     r.key \in Window(query[a].day)}, k)
           = Versions(bronze, k)
<1>1. \A r \in bronze : r.snap \in Nat
  BY DEF TypeOK, Row
<1>2. query[a].base \in Nat
  BY DEF TypeOK, Query
<1>3. \A r \in bronze : r.key = k => r.snap <= query[a].base
  BY <1>1, <1>2 DEF Overtaken
<1> QED
  BY <1>3 DEF Versions, AtSnapshot

LEMMA CommitLearns ==
  ASSUME SerialInv, NEW a \in Attempts, Commit(a)
  PROVE  [Ledger!Learn]_bronze
<1>1. CASE UNCHANGED bronze
  BY <1>1
<1>2. CASE /\ bronze' = bronze \cup NewRows(a)
           /\ Len(snapshots') = Len(snapshots) + 1
           /\ Len(snapshots) \in Nat
  <2> DEFINE target == {r \in AtSnapshot(bronze, query[a].base) :
                          r.key \in Window(query[a].day)}
  <2>1. bronze \subseteq Row /\ query[a] \in Query
    BY DEF SerialInv, TypeOK
  <2>2. query[a].state \in {"queued", "running"}
    BY DEF Commit
  <2>3. ASSUME NEW s \in Inserts(a)
        PROVE  /\ s \in StagedRow
               /\ s.key \in Window(query[a].day)
               /\ Changed(target, s)
               /\ ~Matched(target, s)
    BY <2>1, <2>2, <2>3 DEF Inserts, MergeInserts, SerialInv, OneStampPerBatch,
                            Query
  <2>4. ASSUME NEW s \in Inserts(a)
        PROVE  Changed(bronze, s) /\ ~Matched(bronze, s)
    <3>1. Versions(target, s.key) = Versions(bronze, s.key)
      BY <2>3, ReadIsCurrent DEF SerialInv, Commit
    <3> HIDE DEF target
    <3>2. Changed(bronze, s)
      BY <2>3, <3>1 DEF Changed, Newest
    <3>3. ~Matched(bronze, s)
      BY <2>3, <3>1 DEF Matched, Versions
    <3> QED
      BY <3>2, <3>3
  <2>5. ASSUME NEW s \in NewRows(a)
        PROVE  /\ s \in Row
               /\ s.snap = Len(snapshots) + 1
               /\ Changed(bronze, s)
               /\ ~Matched(bronze, s)
    <3>1. PICK i \in Inserts(a) :
            s = [key |-> i.key, known_at |-> i.known_at, value |-> i.value,
                 snap |-> Len(snapshots) + 1]
      BY DEF NewRows
    <3>2. s.key = i.key /\ s.known_at = i.known_at /\ s.value = i.value
      BY <3>1
    <3>3. i.key \in Keys /\ i.known_at \in Nat /\ i.value \in Values
      BY <2>3 DEF StagedRow
    <3>4. s \in Row /\ s.snap = Len(snapshots) + 1
      BY <1>2, <3>1, <3>3 DEF Row
    <3> QED
      BY <2>4, <3>2, <3>4 DEF Changed, Matched
  <2>6. ASSUME NEW s \in NewRows(a), NEW o \in NewRows(a)
        PROVE  s.known_at = o.known_at /\ (o.key = s.key => o = s)
    <3>1. PICK i \in Inserts(a) :
            s = [key |-> i.key, known_at |-> i.known_at, value |-> i.value,
                 snap |-> Len(snapshots) + 1]
      BY DEF NewRows
    <3>2. PICK j \in Inserts(a) :
            o = [key |-> j.key, known_at |-> j.known_at, value |-> j.value,
                 snap |-> Len(snapshots) + 1]
      BY DEF NewRows
    <3>3. i.known_at = j.known_at /\ (i.key = j.key => i = j)
      BY <2>2, InsertsAreStaged DEF SerialInv, OneStampPerBatch
    <3> QED
      BY <3>1, <3>2, <3>3
  <2>7. \A r \in bronze : r.snap < Len(snapshots) + 1
    BY <1>2 DEF SerialInv, SnapshotsLogged
  <2>8. Ledger!Added \subseteq NewRows(a) /\ bronze \subseteq bronze'
    BY <1>2 DEF Ledger!Added
  <2>9. Ledger!Row = Row
    BY DEF Ledger!Row, Row
  <2>10. ASSUME NEW s \in Ledger!Added
         PROVE  /\ Ledger!Changed(bronze, s)
                /\ ~Ledger!Matched(bronze, s)
                /\ \A r \in bronze : r.snap < s.snap
                /\ \A o \in Ledger!Added :
                     /\ o.snap = s.snap
                     /\ o.known_at = s.known_at
                     /\ o.key = s.key => o = s
    <3>1. Ledger!Changed(bronze, s) /\ ~Ledger!Matched(bronze, s)
      BY <2>5, <2>8 DEF Changed, Matched, Newest, Versions, Ledger!Changed,
                        Ledger!Matched, Ledger!Newest, Ledger!Versions
    <3> QED
      BY <2>5, <2>6, <2>7, <2>8, <3>1
  <2>11. Ledger!Added \subseteq Ledger!Row
    BY <2>5, <2>8, <2>9
  <2> QED
    BY <2>8, <2>10, <2>11 DEF Ledger!Learn
<1> QED
  BY <1>1, <1>2, CommitEffect DEF SerialInv

LEMMA Serial ==
  ASSUME WellBehavedPlatform
  PROVE  Spec => []SerialInv
<1>1. Init => WellBehavedInput /\ OneStampPerBatch /\ SnapshotsLogged
  BY DEF Init, NoData, NoAttempt, NoQuery, WellBehavedInput, WellBehaved,
         OneStampPerBatch, SnapshotsLogged
<1>2. /\ TypeOK /\ WellBehavedInput /\ OneStampPerBatch /\ SnapshotsLogged
      /\ [Next]_vars
      => WellBehavedInput' /\ OneStampPerBatch' /\ SnapshotsLogged'
  BY WellBehavedStep, OneStampPerBatchStep, SnapshotsLoggedStep
<1> QED
  BY <1>1, <1>2, TypeCorrect, PTL DEF Spec, SerialInv

(* Whatever overlaps, the table changes as if one merge ran at a time, each *)
(* on the table the previous one left.                                      *)
THEOREM ImplementsLedger ==
  ASSUME WellBehavedPlatform
  PROVE  Spec => LedgerSpec
<1>1. Init => Ledger!Init
  BY DEF Init, Ledger!Init
<1>2. SerialInv /\ [Next]_vars => [Ledger!Learn]_bronze
  <2> SUFFICES ASSUME SerialInv, [Next]_vars PROVE [Ledger!Learn]_bronze
    OBVIOUS
  <2>1. ASSUME NEW a \in Attempts, Commit(a) PROVE [Ledger!Learn]_bronze
    BY <2>1, CommitLearns
  <2>2. CASE UNCHANGED bronze
    BY <2>2
  <2> QED
    BY <2>1, <2>2
       DEF Next, vars, Lambda, Athena, Tick, Publish, Fire, Start,
           FetchNoData, Fetch, PutRaw, Quarantine, Stage, Poll, Die, Plan,
           Conflict, EngineFails
<1> QED
  BY <1>1, <1>2, Serial, PTL DEF Spec, LedgerSpec, Ledger!Spec

-----------------------------------------------------------------------------
(* The ledger's own guarantees follow from its abstract specification.      *)
LedgerRows == bronze \subseteq Ledger!Row

(* The ledger holds rows of the declared shape.                             *)
LEMMA LedgerRowsHold == Ledger!Spec => []LedgerRows
<1>1. Ledger!Init => LedgerRows
  BY DEF Ledger!Init, LedgerRows
<1>2. LedgerRows /\ [Ledger!Learn]_bronze => LedgerRows'
  BY DEF LedgerRows, Ledger!Learn, Ledger!Added
<1> QED
  BY <1>1, <1>2, PTL DEF Ledger!Spec

(* No two rows share key and known_at: a batch holds one row per key, and   *)
(* none whose identity is taken (quality/bronze.py, duplicate_keys).        *)
THEOREM LedgerUniqueIdentity == Ledger!Spec => []Ledger!UniqueIdentity
<1>1. Ledger!Init => Ledger!UniqueIdentity
  BY DEF Ledger!Init, Ledger!UniqueIdentity
<1>2. Ledger!UniqueIdentity /\ [Ledger!Learn]_bronze => Ledger!UniqueIdentity'
  <2> SUFFICES ASSUME Ledger!UniqueIdentity, [Ledger!Learn]_bronze,
                      NEW r \in bronze', NEW o \in bronze',
                      r.key = o.key, r.known_at = o.known_at
               PROVE  r = o
    BY DEF Ledger!UniqueIdentity
  <2>1. CASE UNCHANGED bronze
    BY <2>1 DEF Ledger!UniqueIdentity
  <2>2. CASE Ledger!Learn
    <3>1. CASE r \in bronze /\ o \in bronze
      BY <3>1 DEF Ledger!UniqueIdentity
    <3>2. CASE r \in Ledger!Added /\ o \in Ledger!Added
      BY <2>2, <3>2 DEF Ledger!Learn
    <3>3. CASE r \in Ledger!Added /\ o \in bronze
      BY <2>2, <3>3 DEF Ledger!Learn, Ledger!Matched
    <3>4. CASE r \in bronze /\ o \in Ledger!Added
      BY <2>2, <3>4 DEF Ledger!Learn, Ledger!Matched
    <3> QED
      BY <3>1, <3>2, <3>3, <3>4 DEF Ledger!Added
  <2> QED
    BY <2>1, <2>2
<1> QED
  BY <1>1, <1>2, PTL DEF Ledger!Spec

(* A later batch never enters the past of a row already there, and all of a *)
(* batch has the whole earlier table for its past.                          *)
LEMMA PastOfRow ==
  ASSUME LedgerRows, Ledger!Learn, NEW r \in bronze'
  PROVE  {o \in bronze' : o.snap < r.snap} =
           IF r \in bronze THEN {o \in bronze : o.snap < r.snap} ELSE bronze
<1>1. /\ \A s \in bronze : s.snap \in Nat
      /\ \A s \in Ledger!Added : s.snap \in Nat
  BY DEF LedgerRows, Ledger!Learn, Ledger!Row
<1>2. \A s \in bronze' : s \in bronze \/ s \in Ledger!Added
  BY DEF Ledger!Added
<1>3. CASE r \in bronze
  <2>1. \A s \in Ledger!Added : ~(s.snap < r.snap)
    BY <1>1, <1>3 DEF Ledger!Learn
  <2> QED
    BY <1>2, <1>3, <2>1 DEF Ledger!Learn
<1>4. CASE r \notin bronze
  <2>1. r \in Ledger!Added
    BY <1>4 DEF Ledger!Added
  <2>2. \A s \in Ledger!Added : ~(s.snap < r.snap)
    BY <1>1, <2>1 DEF Ledger!Learn
  <2>3. \A s \in bronze : s.snap < r.snap
    BY <2>1 DEF Ledger!Learn
  <2> QED
    BY <1>2, <1>4, <2>2, <2>3 DEF Ledger!Learn
<1> QED
  BY <1>3, <1>4

(* A row was added only because the newest version held then differed       *)
(* (lake/bronze.py, the comment above MERGE).                               *)
THEOREM LedgerNoPhantomRevision == Ledger!Spec => []Ledger!NoPhantomRevision
<1>1. Ledger!Init => Ledger!NoPhantomRevision
  BY DEF Ledger!Init, Ledger!NoPhantomRevision
<1>2. LedgerRows /\ Ledger!NoPhantomRevision /\ [Ledger!Learn]_bronze
      => Ledger!NoPhantomRevision'
  <2> SUFFICES ASSUME LedgerRows, Ledger!NoPhantomRevision, Ledger!Learn,
                      NEW r \in bronze',
                      NEW n \in Ledger!Newest({o \in bronze' : o.snap < r.snap}, r.key)
               PROVE  n.value # r.value
    BY DEF Ledger!NoPhantomRevision
  <2>1. CASE r \in bronze
    <3>1. n \in Ledger!Newest({o \in bronze : o.snap < r.snap}, r.key)
      BY <2>1, PastOfRow
    <3> QED
      BY <2>1, <3>1 DEF Ledger!NoPhantomRevision
  <2>2. CASE r \notin bronze
    <3>1. n \in Ledger!Newest(bronze, r.key)
      BY <2>2, PastOfRow
    <3>2. Ledger!Changed(bronze, r)
      BY <2>2 DEF Ledger!Learn, Ledger!Added
    <3> QED
      BY <3>1, <3>2 DEF Ledger!Changed
  <2> QED
    BY <2>1, <2>2
<1> QED
  BY <1>1, <1>2, LedgerRowsHold, PTL DEF Ledger!Spec

(* No two rows of bronze share key and known_at.                            *)
THEOREM UniqueIdentityHolds ==
  ASSUME WellBehavedPlatform
  PROVE  Spec => []UniqueIdentity
  BY ImplementsLedger, LedgerUniqueIdentity, PTL DEF LedgerSpec, UniqueIdentity

(* No row of bronze repeats the value that was newest when it was committed.*)
THEOREM NoPhantomRevisionHolds ==
  ASSUME WellBehavedPlatform
  PROVE  Spec => []NoPhantomRevision
  BY ImplementsLedger, LedgerNoPhantomRevision, PTL
     DEF LedgerSpec, NoPhantomRevision

-----------------------------------------------------------------------------
(* Nothing a successful merge staged is lost: at its commit every row was   *)
(* inserted, or equalled a newest version, or had its identity taken, and   *)
(* the table only grows.                                                    *)
LEMMA CommitStores ==
  ASSUME TypeOK, NEW a \in Attempts, Commit(a), NEW s \in query[a].staged
  PROVE  \E r \in bronze' :
           r.key = s.key /\ (r.value = s.value \/ r.known_at = s.known_at)
<1>1. bronze \subseteq bronze'
  BY CommitEffect
<1> DEFINE target == {r \in AtSnapshot(bronze, query[a].base) :
                        r.key \in Window(query[a].day)}
<1>2. target \subseteq bronze
  BY DEF AtSnapshot
<1>3. CASE s \in Inserts(a)
  <2> DEFINE new == [key |-> s.key, known_at |-> s.known_at, value |-> s.value,
                     snap |-> Len(snapshots) + 1]
  <2>1. new \in bronze'
    BY <1>3 DEF Commit
  <2> QED
    BY <2>1
<1>4. CASE s \notin Inserts(a)
  <2>1. ~Changed(target, s) \/ Matched(target, s)
    BY <1>4 DEF Inserts, MergeInserts
  <2>2. CASE ~Changed(target, s)
    <3>1. PICK n \in Newest(target, s.key) : n.value = s.value
      BY <2>2 DEF Changed
    <3>2. n \in target /\ n.key = s.key
      BY <3>1 DEF Newest, Versions
    <3> QED
      BY <1>1, <1>2, <3>1, <3>2
  <2>3. CASE Matched(target, s)
    <3>1. PICK t \in target : t.key = s.key /\ t.known_at = s.known_at
      BY <2>3 DEF Matched
    <3> QED
      BY <1>1, <1>2, <3>1
  <2> QED
    BY <2>1, <2>2, <2>3
<1> QED
  BY <1>3, <1>4

LEMMA BronzeGrows ==
  ASSUME TypeOK, [Next]_vars
  PROVE  bronze \subseteq bronze'
<1>1. ASSUME NEW a \in Attempts, Commit(a) PROVE bronze \subseteq bronze'
  BY <1>1, CommitEffect
<1> QED
  BY <1>1 DEF Next, vars, Lambda, Athena, Tick, Publish, Fire, Start,
              FetchNoData, Fetch, PutRaw, Quarantine, Stage, Poll, Die, Plan,
              Conflict, EngineFails

(* A succeeded merge has stored what it staged, as AcknowledgedIsStored     *)
(* says; no assumption on the documents is needed.                          *)
THEOREM AcknowledgedIsStoredHolds == Spec => []AcknowledgedIsStored
<1>1. Init => AcknowledgedIsStored
  BY DEF Init, NoQuery, AcknowledgedIsStored
<1>2. TypeOK /\ AcknowledgedIsStored /\ [Next]_vars => AcknowledgedIsStored'
  <2> SUFFICES ASSUME TypeOK, AcknowledgedIsStored, [Next]_vars
               PROVE  AcknowledgedIsStored'
    OBVIOUS
  <2> DEFINE Stored(s, t) ==
        \E r \in t : r.key = s.key /\ (r.value = s.value \/ r.known_at = s.known_at)
  <2>1. \A s : Stored(s, bronze) => Stored(s, bronze')
    BY BronzeGrows
  <2>2. CASE UNCHANGED query
    BY <2>1, <2>2 DEF AcknowledgedIsStored
  <2>3. ASSUME NEW a \in Attempts, NEW q, query' = [query EXCEPT ![a] = q],
               q.state = "succeeded" => \A s \in q.staged : Stored(s, bronze')
        PROVE  AcknowledgedIsStored'
    BY <2>1, <2>3 DEF AcknowledgedIsStored, TypeOK
  <2>4. ASSUME NEW a \in Attempts, Stage(a)
        PROVE  AcknowledgedIsStored'
    <3>1. CASE ~ UNCHANGED query
      BY <2>3, <2>4, <3>1 DEF Stage
    <3> QED
      BY <2>2, <3>1
  <2>5. ASSUME NEW a \in Attempts, Commit(a)
        PROVE  AcknowledgedIsStored'
    <3> DEFINE q == [query[a] EXCEPT !.state = "succeeded"]
    <3>1. q.staged = query[a].staged
      BY DEF TypeOK, Query
    <3>2. \A s \in q.staged : Stored(s, bronze')
      BY <2>5, <3>1, CommitStores
    <3>3. query' = [query EXCEPT ![a] = q]
      BY <2>5 DEF Commit
    <3> HIDE DEF q
    <3> QED
      BY <2>3, <3>2, <3>3
  <2>6. ASSUME NEW a \in Attempts, Plan(a) \/ Conflict(a) \/ EngineFails(a)
        PROVE  AcknowledgedIsStored'
    <3>1. \/ query' = [query EXCEPT ![a] = [query[a] EXCEPT !.state = "failed"]]
          \/ query' = [query EXCEPT ![a] = [query[a] EXCEPT !.state = "running",
                                                            !.base = Len(snapshots)]]
      BY <2>6 DEF Plan, Conflict, EngineFails
    <3>2. /\ [query[a] EXCEPT !.state = "failed"].state = "failed"
          /\ [query[a] EXCEPT !.state = "running",
                              !.base = Len(snapshots)].state = "running"
      BY DEF TypeOK, Query
    <3> QED
      BY <2>3, <3>1, <3>2
  <2> QED
    BY <2>2, <2>4, <2>5, <2>6
       DEF Next, vars, Lambda, Athena, Tick, Publish, Fire, Start,
           FetchNoData, Fetch, PutRaw, Quarantine, Poll, Die
<1> QED
  BY <1>1, <1>2, TypeCorrect, PTL DEF Spec

(* What a commit staged is the newest of its key afterwards, or was passed  *)
(* over for a newest version that says the same.                            *)
LEMMA CommitIsCurrent ==
  ASSUME SerialInv, NEW a \in Attempts, Commit(a), NEW s \in query[a].staged,
         \A r \in bronze : r.key = s.key => r.known_at < s.known_at
  PROVE  \E x \in Current(bronze') : x.key = s.key /\ x.value = s.value
<1> DEFINE snap == Len(snapshots) + 1
           Added(i) == [key |-> i.key, known_at |-> i.known_at, value |-> i.value,
                        snap |-> snap]
<1>1. /\ query[a].state = "running" /\ ~Overtaken(a)
      /\ TypeOK /\ query[a] \in Query
  BY DEF Commit, SerialInv, TypeOK
<1>2. /\ s \in StagedRow /\ s.known_at \in Nat /\ s.key \in Window(query[a].day)
      /\ \A t \in query[a].staged :
           s.known_at = t.known_at /\ (s.key = t.key => s = t)
  BY <1>1 DEF SerialInv, OneStampPerBatch, Query, StagedRow
<1>3. \A r \in bronze : r.known_at \in Nat
  BY <1>1 DEF TypeOK, Row
<1>4. \A x \in bronze' : x \in bronze \/ \E i \in Inserts(a) : x = Added(i)
  BY <1>1, CommitEffect DEF NewRows
<1>5. CASE s \in Inserts(a)
  <2>1. Added(s) \in bronze'
    BY <1>5 DEF Commit
  <2>2. ASSUME NEW o \in bronze', o.key = s.key PROVE o.known_at <= s.known_at
    <3>1. CASE o \in bronze
      BY <1>2, <1>3, <2>2, <3>1
    <3>2. CASE \E i \in Inserts(a) : o = Added(i)
      <4>1. PICK i \in Inserts(a) : o = Added(i)
        BY <3>2
      <4>2. o.known_at = s.known_at
        BY <1>2, <4>1, InsertsAreStaged
      <4> QED
        BY <1>2, <4>2
    <3> QED
      BY <1>4, <3>1, <3>2
  <2>3. Added(s) \in Current(bronze')
    BY <2>1, <2>2 DEF Current, IsCurrent, Versions
  <2> QED
    BY <2>3
<1>6. CASE s \notin Inserts(a)
  <2> DEFINE target == {r \in AtSnapshot(bronze, query[a].base) :
                          r.key \in Window(query[a].day)}
  <2>1. Versions(target, s.key) = Versions(bronze, s.key)
    BY <1>1, <1>2, ReadIsCurrent
  <2>2. ~Matched(bronze, s)
    BY <1>2, <1>3 DEF Matched
  <2> HIDE DEF target
  <2>3. ~Matched(target, s)
    BY <2>1, <2>2 DEF Matched, Versions
  <2>4. ~Changed(target, s)
    BY <1>6, <2>3 DEF Inserts, MergeInserts, target
  <2>5. PICK n \in Newest(target, s.key) : n.value = s.value
    BY <2>4 DEF Changed
  <2>6. /\ n \in bronze /\ n.key = s.key
        /\ \A o \in bronze : o.key = s.key => o.known_at <= n.known_at
    BY <2>1, <2>5 DEF Newest, Versions
  <2>7. \A x \in bronze' : x.key = s.key => x \in bronze
    <3>1. ASSUME NEW i \in Inserts(a), Added(i).key = s.key PROVE FALSE
      BY <1>2, <1>6, <3>1, InsertsAreStaged
    <3> QED
      BY <1>4, <3>1
  <2>8. n \in bronze'
    BY <1>1, <2>6, CommitEffect
  <2>9. n \in Current(bronze')
    BY <2>6, <2>7, <2>8 DEF Current, IsCurrent, Versions
  <2> QED
    BY <2>5, <2>6, <2>9
<1> QED
  BY <1>5, <1>6

(* A merge that succeeds leaves what it staged current, unless it was late: *)
(* through overlapping queries and stale reads, for documents that say one  *)
(* thing about each period (merge_batch).                                   *)
THEOREM AcknowledgedIsCurrentHolds ==
  ASSUME WellBehavedPlatform
  PROVE  Spec => AcknowledgedIsCurrent
<1> DEFINE Step == \A a \in Attempts :
       (query[a].state = "running" /\ query'[a].state = "succeeded") =>
         \A s \in query[a].staged :
           \/ \E r \in bronze : r.key = s.key /\ r.known_at >= s.known_at
           \/ \E x \in Current(bronze') : x.key = s.key /\ x.value = s.value
<1>1. SerialInv /\ [Next]_vars => [Step]_vars
  <2> SUFFICES ASSUME SerialInv, Next, NEW a \in Attempts,
                      query[a].state = "running", query'[a].state = "succeeded",
                      NEW s \in query[a].staged,
                      ~\E r \in bronze : r.key = s.key /\ r.known_at >= s.known_at
               PROVE  \E x \in Current(bronze') : x.key = s.key /\ x.value = s.value
    BY DEF vars
  <2>1. TypeOK
    BY DEF SerialInv
  <2>2. ASSUME NEW b \in Attempts, NEW q, query' = [query EXCEPT ![b] = q],
               q.state # "succeeded"
        PROVE  FALSE
    BY <2>1, <2>2 DEF TypeOK
  <2>3. ASSUME NEW b \in Attempts, Stage(b) PROVE FALSE
    <3>1. query' # query
      OBVIOUS
    <3> QED
      BY <2>2, <2>3, <3>1 DEF Stage
  <2>4. ASSUME NEW b \in Attempts, Plan(b) \/ Conflict(b) \/ EngineFails(b)
        PROVE  FALSE
    <3>1. \/ query' = [query EXCEPT ![b] = [query[b] EXCEPT !.state = "failed"]]
          \/ query' = [query EXCEPT ![b] = [query[b] EXCEPT !.state = "running",
                                                            !.base = Len(snapshots)]]
      BY <2>4 DEF Plan, Conflict, EngineFails
    <3>2. /\ [query[b] EXCEPT !.state = "failed"].state = "failed"
          /\ [query[b] EXCEPT !.state = "running",
                              !.base = Len(snapshots)].state = "running"
      BY <2>1 DEF TypeOK, Query
    <3> QED
      BY <2>2, <3>1, <3>2
  <2>5. query' # query
    OBVIOUS
  <2>6. PICK b \in Attempts : Commit(b)
    BY <2>3, <2>4, <2>5
       DEF Next, Lambda, Athena, Tick, Publish, Fire, Start, FetchNoData, Fetch,
           PutRaw, Quarantine, Poll, Die
  <2>7. a = b
    BY <2>1, <2>6 DEF Commit, TypeOK
  <2>8. \A r \in bronze : r.key = s.key => r.known_at < s.known_at
    <3>1. s.known_at \in Nat /\ \A r \in bronze : r.known_at \in Nat
      BY <2>1 DEF TypeOK, Query, StagedRow, Row
    <3> QED
      BY <3>1
  <2> QED
    BY <2>6, <2>7, <2>8, CommitIsCurrent
<1> QED
  BY <1>1, Serial, PTL DEF Spec, AcknowledgedIsCurrent

-----------------------------------------------------------------------------
(* Where a row of the ingest came from.  Kept(x) says a raw object's        *)
(* violations are in quarantine; an attempt past the gate has kept its      *)
(* document, and a query in flight carries rows of a kept document.         *)
Kept(x) ==
  \A o \in Violations(x.doc) : [obs |-> o, known_at |-> x.known_at] \in quarantine

FromDoc(s, x) ==
  s.known_at = x.known_at /\ [key |-> s.key, value |-> s.value] \in Accepted(x.doc)

RawOf(a) == [day |-> attempt[a].day, known_at |-> attempt[a].known_at,
             doc |-> attempt[a].doc]

IsIngest(a) == EventOf(a).kind = "ingest"

AttemptKept ==
  \A a \in Attempts : IsIngest(a) =>
    /\ attempt[a].pc \in {"gate", "stage"} => RawOf(a) \in raw
    /\ attempt[a].pc = "stage" => Kept(RawOf(a))

QueryKept ==
  \A a \in Attempts : (IsIngest(a) /\ query[a].state \in {"queued", "running"}) =>
    \E x \in raw : Kept(x) /\ \A s \in query[a].staged : FromDoc(s, x)

LEMMA BucketsGrow ==
  ASSUME [Next]_vars
  PROVE  raw \subseteq raw' /\ quarantine \subseteq quarantine'
  BY DEF Next, vars, Lambda, Athena, Tick, Publish, Fire, Start, FetchNoData,
         Fetch, PutRaw, Quarantine, Stage, Poll, Die, Plan, Commit, Conflict,
         EngineFails

LEMMA KeptStaysKept ==
  ASSUME [Next]_vars, NEW x, Kept(x)
  PROVE  Kept(x)'
  BY BucketsGrow DEF Kept, Violations

LEMMA AttemptKeptStep ==
  ASSUME TypeOK, AttemptKept, [Next]_vars
  PROVE  AttemptKept'
<1>1. CASE UNCHANGED attempt
  <2>1. \A a \in Attempts : RawOf(a)' = RawOf(a)
    BY <1>1 DEF RawOf
  <2>2. \A a \in Attempts : Kept(RawOf(a)) => Kept(RawOf(a))'
    BY <2>1, KeptStaysKept, BucketsGrow DEF Kept, Violations
  <2> QED
    BY <1>1, <2>1, <2>2, BucketsGrow DEF AttemptKept, IsIngest, EventOf
<1>2. ASSUME NEW a \in Attempts, NEW x, attempt' = [attempt EXCEPT ![a] = x],
             IsIngest(a) =>
               /\ x.pc \in {"gate", "stage"} =>
                    [day |-> x.day, known_at |-> x.known_at, doc |-> x.doc] \in raw'
               /\ x.pc = "stage" =>
                    \A o \in Violations(x.doc) :
                      [obs |-> o, known_at |-> x.known_at] \in quarantine'
      PROVE  AttemptKept'
  <2> SUFFICES ASSUME NEW b \in Attempts, IsIngest(b)
               PROVE  /\ attempt'[b].pc \in {"gate", "stage"} => RawOf(b)' \in raw'
                      /\ attempt'[b].pc = "stage" => Kept(RawOf(b))'
    BY DEF AttemptKept, IsIngest, EventOf
  <2>1. CASE b = a
    <3>1. attempt'[b] = x
      BY <1>2, <2>1 DEF TypeOK
    <3> QED
      BY <1>2, <2>1, <3>1 DEF RawOf, Kept
  <2>2. CASE b # a
    <3>1. attempt'[b] = attempt[b] /\ RawOf(b)' = RawOf(b)
      BY <1>2, <2>2 DEF TypeOK, RawOf
    <3>2. Kept(RawOf(b)) => Kept(RawOf(b))'
      BY <3>1, BucketsGrow DEF Kept, Violations
    <3> QED
      BY <3>1, <3>2, BucketsGrow DEF AttemptKept
  <2> QED
    BY <2>1, <2>2
<1>3. ASSUME NEW r \in Runs, NEW n \in Deliveries(r), Start(r, n)
      PROVE  AttemptKept'
  <2>1. <<r, n>> \in Attempts
    BY DEF Attempts
  <2> QED
    BY <1>2, <1>3, <2>1 DEF Start
<1>4. ASSUME NEW a \in Attempts
      PROVE  /\ DayDone(a).pc \in {"fetch", "done"}
             /\ [attempt[a] EXCEPT !.pc = "dead"].pc = "dead"
             /\ [attempt[a] EXCEPT !.pc = "poll"].pc = "poll"
  BY DEF DayDone, TypeOK, Attempt
<1>5. ASSUME NEW a \in Attempts,
             FetchNoData(a) \/ Stage(a) \/ Poll(a) \/ Die(a)
      PROVE  AttemptKept'
  <2>1. \/ attempt' = [attempt EXCEPT ![a] = DayDone(a)]
        \/ attempt' = [attempt EXCEPT ![a] = [attempt[a] EXCEPT !.pc = "dead"]]
        \/ attempt' = [attempt EXCEPT ![a] = [attempt[a] EXCEPT !.pc = "poll"]]
    BY <1>5 DEF FetchNoData, Stage, Poll, Die
  <2> QED
    BY <1>2, <1>4, <2>1
<1>6. ASSUME NEW a \in Attempts, Fetch(a)
      PROVE  AttemptKept'
  <2>1. CASE IsIngest(a)
    BY <1>2, <1>6, <2>1 DEF Fetch, IsIngest
  <2>2. CASE ~IsIngest(a)
    <3>1. attempt' = [attempt EXCEPT ![a] =
            [attempt[a] EXCEPT !.pc = "stage", !.doc = published[attempt[a].day]]]
      BY <1>6, <2>2 DEF Fetch, IsIngest
    <3> QED
      BY <1>2, <2>2, <3>1
  <2> QED
    BY <2>1, <2>2
<1>7. ASSUME NEW a \in Attempts, PutRaw(a)
      PROVE  AttemptKept'
  <2> DEFINE x == [attempt[a] EXCEPT !.pc = "gate"]
  <2>1. /\ x.pc = "gate" /\ x.day = attempt[a].day
        /\ x.known_at = attempt[a].known_at /\ x.doc = attempt[a].doc
    BY DEF TypeOK, Attempt
  <2>2. attempt' = [attempt EXCEPT ![a] = x]
    BY <1>7 DEF PutRaw
  <2>3. [day |-> attempt[a].day, known_at |-> attempt[a].known_at,
         doc |-> attempt[a].doc] \in raw'
    BY <1>7 DEF PutRaw
  <2> HIDE DEF x
  <2> QED
    BY <1>2, <2>1, <2>2, <2>3
<1>8. ASSUME NEW a \in Attempts, Quarantine(a)
      PROVE  AttemptKept'
  <2>1. CASE attempt[a].doc.parses
    <3> DEFINE x == [attempt[a] EXCEPT !.pc = "stage"]
    <3>1. /\ x.pc = "stage" /\ x.day = attempt[a].day
          /\ x.known_at = attempt[a].known_at /\ x.doc = attempt[a].doc
      BY DEF TypeOK, Attempt
    <3>2. attempt' = [attempt EXCEPT ![a] = x]
      BY <1>8, <2>1 DEF Quarantine
    <3>3. \A o \in Violations(attempt[a].doc) :
            [obs |-> o, known_at |-> attempt[a].known_at] \in quarantine'
      BY <1>8, <2>1 DEF Quarantine
    <3>4. IsIngest(a) => RawOf(a) \in raw'
      BY <1>8, BucketsGrow DEF Quarantine, AttemptKept
    <3> HIDE DEF x
    <3> QED
      BY <1>2, <3>1, <3>2, <3>3, <3>4 DEF RawOf
  <2>2. CASE ~attempt[a].doc.parses
    <3>1. attempt' = [attempt EXCEPT ![a] = [attempt[a] EXCEPT !.pc = "dead"]]
      BY <1>8, <2>2 DEF Quarantine
    <3> QED
      BY <1>2, <1>4, <3>1
  <2> QED
    BY <2>1, <2>2
<1> QED
  BY <1>1, <1>3, <1>5, <1>6, <1>7, <1>8
     DEF Next, vars, Lambda, Athena, Tick, Publish, Fire, Plan, Commit,
         Conflict, EngineFails

LEMMA QueryKeptStep ==
  ASSUME TypeOK, AttemptKept, QueryKept, [Next]_vars
  PROVE  QueryKept'
<1> DEFINE From(q) == \E x \in raw : Kept(x) /\ \A s \in q.staged : FromDoc(s, x)
<1>1. \A q : From(q) => From(q)'
  <2> SUFFICES ASSUME NEW q, NEW x \in raw, Kept(x),
                      \A s \in q.staged : FromDoc(s, x)
               PROVE  From(q)'
    OBVIOUS
  <2>1. x \in raw' /\ Kept(x)'
    BY BucketsGrow, KeptStaysKept
  <2>2. \A s \in q.staged : FromDoc(s, x)'
    BY DEF FromDoc, Accepted
  <2> QED
    BY <2>1, <2>2 DEF FromDoc, Accepted
<1>2. CASE UNCHANGED query
  BY <1>1, <1>2 DEF QueryKept, IsIngest, EventOf
<1>3. ASSUME NEW a \in Attempts, NEW q, query' = [query EXCEPT ![a] = q],
             (IsIngest(a) /\ q.state \in {"queued", "running"}) => From(q)'
      PROVE  QueryKept'
  <2> SUFFICES ASSUME NEW b \in Attempts, IsIngest(b),
                      query'[b].state \in {"queued", "running"}
               PROVE  From(query[b])'
    BY DEF QueryKept, IsIngest, EventOf
  <2>1. CASE b = a
    <3>1. query'[b] = q
      BY <1>3, <2>1 DEF TypeOK
    <3> QED
      BY <1>3, <2>1, <3>1
  <2>2. CASE b # a
    <3>1. query'[b] = query[b]
      BY <1>3, <2>2 DEF TypeOK
    <3>2. From(query[b])
      BY <3>1 DEF QueryKept
    <3> QED
      BY <1>1, <3>1, <3>2
  <2> QED
    BY <2>1, <2>2
<1>4. ASSUME NEW a \in Attempts, Stage(a)
      PROVE  QueryKept'
  <2> DEFINE q == [state |-> "queued", day |-> attempt[a].day,
                   staged |-> StagedRows(a), base |-> 0]
  <2>1. CASE ~ UNCHANGED query
    <3>1. query' = [query EXCEPT ![a] = q] /\ attempt[a].pc = "stage"
      BY <1>4, <2>1 DEF Stage
    <3>2. CASE IsIngest(a)
      <4>1. RawOf(a) \in raw /\ Kept(RawOf(a))
        BY <3>1, <3>2 DEF AttemptKept
      <4>2. \A s \in StagedRows(a) : FromDoc(s, RawOf(a))
        <5>1. Accepted(attempt[a].doc) \subseteq Observation
          BY DEF TypeOK, Attempt, Document, Accepted
        <5> QED
          BY <5>1 DEF StagedRows, FromDoc, RawOf, Observation
      <4>3. From(q)
        BY <4>1, <4>2
      <4> HIDE DEF q, From
      <4> QED
        BY <1>1, <1>3, <3>1, <4>3
    <3>3. CASE ~IsIngest(a)
      BY <1>3, <3>1, <3>3
    <3> QED
      BY <3>2, <3>3
  <2> QED
    BY <1>2, <2>1
<1>5. ASSUME NEW a \in Attempts, Plan(a)
      PROVE  QueryKept'
  <2> DEFINE q == [query[a] EXCEPT !.state = "running", !.base = Len(snapshots)]
  <2>1. query' = [query EXCEPT ![a] = q] /\ q.staged = query[a].staged
    BY <1>5 DEF Plan, TypeOK, Query
  <2>2. IsIngest(a) => From(query[a])
    BY <1>5 DEF Plan, QueryKept
  <2>3. IsIngest(a) => From(q)
    BY <2>1, <2>2
  <2> HIDE DEF q, From
  <2> QED
    BY <1>1, <1>3, <2>1, <2>3
<1>6. ASSUME NEW a \in Attempts, Commit(a) \/ Conflict(a) \/ EngineFails(a)
      PROVE  QueryKept'
  <2>1. \/ query' = [query EXCEPT ![a] = [query[a] EXCEPT !.state = "succeeded"]]
        \/ query' = [query EXCEPT ![a] = [query[a] EXCEPT !.state = "failed"]]
    BY <1>6 DEF Commit, Conflict, EngineFails
  <2>2. /\ [query[a] EXCEPT !.state = "succeeded"].state = "succeeded"
        /\ [query[a] EXCEPT !.state = "failed"].state = "failed"
    BY DEF TypeOK, Query
  <2> QED
    BY <1>3, <2>1, <2>2
<1> QED
  BY <1>2, <1>4, <1>5, <1>6
     DEF Next, vars, Lambda, Athena, Tick, Publish, Fire, Start, FetchNoData,
         Fetch, PutRaw, Quarantine, Poll, Die

(* The rows already there keep their snapshot, and so their writer; the new *)
(* ones were written by the committing query's attempt.                     *)
Traced(r) == \E x \in raw : FromDoc(r, x) /\ Kept(x)

LEMMA TracedStep ==
  ASSUME TypeOK, SnapshotsLogged, QueryKept, IngestTraceable, [Next]_vars
  PROVE  IngestTraceable'
<1>1. \A r \in bronze : IsIngest(snapshots[r.snap].attempt) => Traced(r)
  BY DEF IngestTraceable, IsIngest, Traced, FromDoc, Kept
<1>2. \A r : Traced(r) => Traced(r)'
  <2> SUFFICES ASSUME NEW r, NEW x \in raw, FromDoc(r, x), Kept(x)
               PROVE  Traced(r)'
    BY DEF Traced
  <2>1. x \in raw' /\ Kept(x)' /\ FromDoc(r, x)'
    BY BucketsGrow, KeptStaysKept DEF FromDoc, Accepted
  <2> QED
    BY <2>1 DEF Traced
<1>3. SUFFICES \A r \in bronze' : IsIngest(snapshots'[r.snap].attempt) => Traced(r)'
  BY DEF IngestTraceable, IsIngest, EventOf, Traced, FromDoc, Kept
<1>4. CASE UNCHANGED <<bronze, snapshots>>
  BY <1>1, <1>2, <1>4
<1>5. ASSUME NEW a \in Attempts, Commit(a), ~ UNCHANGED <<bronze, snapshots>>
      PROVE  \A r \in bronze' : IsIngest(snapshots'[r.snap].attempt) => Traced(r)'
  <2>1. /\ bronze' = bronze \cup NewRows(a)
        /\ snapshots' = Append(snapshots, [attempt |-> a, day |-> query[a].day])
    BY <1>5 DEF Commit, NewRows
  <2> SUFFICES ASSUME NEW r \in bronze', IsIngest(snapshots'[r.snap].attempt)
               PROVE  Traced(r)'
    OBVIOUS
  <2>2. snapshots \in Seq([attempt : Attempts, day : Days])
    BY DEF TypeOK
  <2>3. CASE r \in bronze
    <3>1. r.snap \in 1 .. Len(snapshots)
      BY <2>3 DEF SnapshotsLogged
    <3>2. snapshots'[r.snap] = snapshots[r.snap]
      BY <2>1, <2>2, <3>1
    <3> QED
      BY <1>1, <1>2, <2>3, <3>2
  <2>4. CASE r \in NewRows(a)
    <3>1. PICK s \in Inserts(a) :
            r = [key |-> s.key, known_at |-> s.known_at, value |-> s.value,
                 snap |-> Len(snapshots) + 1]
      BY <2>4 DEF NewRows
    <3>2. snapshots'[r.snap] = [attempt |-> a, day |-> query[a].day]
      BY <2>1, <2>2, <3>1
    <3>3. IsIngest(a)
      BY <3>2
    <3>4. PICK x \in raw : Kept(x) /\ \A t \in query[a].staged : FromDoc(t, x)
      BY <1>5, <3>3 DEF QueryKept, Commit
    <3>5. FromDoc(r, x)
      BY <3>1, <3>4, InsertsAreStaged DEF FromDoc
    <3> QED
      BY <1>2, <3>4, <3>5 DEF Traced
  <2> QED
    BY <2>1, <2>3, <2>4
<1> QED
  BY <1>4, <1>5
     DEF Next, vars, Lambda, Athena, Tick, Publish, Fire, Start, FetchNoData,
         Fetch, PutRaw, Quarantine, Stage, Poll, Die, Plan, Conflict,
         EngineFails

(* Every row the ingest loaded can be rebuilt from the raw bucket, and its  *)
(* document's violations are in quarantine; again for any documents.        *)
THEOREM IngestTraceableHolds == Spec => []IngestTraceable
<1>1. Init => SnapshotsLogged /\ AttemptKept /\ QueryKept /\ IngestTraceable
  BY DEF Init, NoAttempt, NoQuery, SnapshotsLogged, AttemptKept, QueryKept,
         IngestTraceable
<1>2. /\ TypeOK /\ SnapshotsLogged /\ AttemptKept /\ QueryKept
      /\ IngestTraceable /\ [Next]_vars
      => SnapshotsLogged' /\ AttemptKept' /\ QueryKept' /\ IngestTraceable'
  BY SnapshotsLoggedStep, AttemptKeptStep, QueryKeptStep, TracedStep
<1> QED
  BY <1>1, <1>2, TypeCorrect, PTL DEF Spec

-----------------------------------------------------------------------------
(* Why a retry of the ingest adds nothing.  An ingest loads one day, so its *)
(* stamp, its document and its query stay as they were once the query was   *)
(* started; and what a commit staged remains settled, that is stored under  *)
(* its identity or equal to the newest version, for as long as only commits *)
(* of the same run and stamp follow.                                        *)
OneLoad ==
  \A a \in Attempts : IsIngest(a) =>
    /\ attempt[a].pc # "idle" => attempt[a].day = EventOf(a).first
    /\ query[a].state # "none" =>
         /\ attempt[a].pc \in {"poll", "done", "dead"}
         /\ query[a].staged = StagedRows(a)

Writer(i) == snapshots[i].attempt

WritersSucceeded ==
  \A i \in DOMAIN snapshots :
    IsIngest(Writer(i)) => query[Writer(i)].state = "succeeded"

SameLoad(a, c) == c[1] = a[1] /\ attempt[c].known_at = attempt[a].known_at

Settled(s) == Matched(bronze, s) \/ ~Changed(bronze, s)

LoadsSettled ==
  \A i \in DOMAIN snapshots :
    (/\ IsIngest(Writer(i))
     /\ \A k \in DOMAIN snapshots : k > i => SameLoad(Writer(i), Writer(k)))
    => \A s \in query[Writer(i)].staged : Settled(s)

LEMMA OneLoadStep ==
  ASSUME TypeOK, OneLoad, [Next]_vars
  PROVE  OneLoad'
<1>1. CASE UNCHANGED <<attempt, query>>
  BY <1>1 DEF OneLoad, IsIngest, EventOf, StagedRows, Accepted
<1>2. ASSUME NEW a \in Attempts, NEW x, UNCHANGED query,
             attempt' = [attempt EXCEPT ![a] = x],
             IsIngest(a) =>
               /\ x.pc # "idle" => x.day = EventOf(a).first
               /\ query[a].state # "none" =>
                    /\ x.pc \in {"poll", "done", "dead"}
                    /\ x.known_at = attempt[a].known_at
                    /\ x.doc = attempt[a].doc
      PROVE  OneLoad'
  <2> SUFFICES ASSUME NEW b \in Attempts, IsIngest(b)
               PROVE  /\ attempt'[b].pc # "idle" =>
                           attempt'[b].day = EventOf(b).first
                      /\ query[b].state # "none" =>
                           /\ attempt'[b].pc \in {"poll", "done", "dead"}
                           /\ query[b].staged = StagedRows(b)'
    BY <1>2 DEF OneLoad, IsIngest, EventOf
  <2>1. CASE b = a
    <3>1. attempt'[b] = x
      BY <1>2, <2>1 DEF TypeOK
    <3> QED
      BY <1>2, <2>1, <3>1 DEF OneLoad, StagedRows, Accepted
  <2>2. CASE b # a
    <3>1. attempt'[b] = attempt[b]
      BY <1>2, <2>2 DEF TypeOK
    <3> QED
      BY <3>1 DEF OneLoad, StagedRows, Accepted
  <2> QED
    BY <2>1, <2>2
<1>3. ASSUME NEW a \in Attempts, NEW q, UNCHANGED attempt,
             query' = [query EXCEPT ![a] = q],
             query[a].state # "none", q.staged = query[a].staged
      PROVE  OneLoad'
  BY <1>3 DEF OneLoad, IsIngest, EventOf, StagedRows, Accepted, TypeOK
<1>4. ASSUME NEW r \in Runs, NEW n \in Deliveries(r), Start(r, n)
      PROVE  OneLoad'
  <2> DEFINE a == <<r, n>>
             x == [pc |-> "fetch", day |-> Event[r].first, doc |-> NoData,
                   known_at |-> IF Event[r].kind = "backfill" THEN StampOf(r) ELSE 0]
  <2>1. a \in Attempts /\ EventOf(a) = Event[r] /\ attempt[a].pc = "idle"
    BY <1>4 DEF Attempts, EventOf, Start
  <2>2. IsIngest(a) => query[a].state = "none"
    BY <2>1 DEF OneLoad
  <2>3. attempt' = [attempt EXCEPT ![a] = x] /\ UNCHANGED query
    BY <1>4 DEF Start
  <2>4. x.day = Event[r].first
    OBVIOUS
  <2> HIDE DEF a, x
  <2> QED
    BY <1>2, <2>1, <2>2, <2>3, <2>4
<1>5. ASSUME NEW a \in Attempts, IsIngest(a), attempt[a].pc # "idle"
      PROVE  /\ DayDone(a) = [attempt[a] EXCEPT !.pc = "done"]
             /\ attempt[a].day = EventOf(a).first
  <2>1. EventOf(a).first = EventOf(a).last /\ EventOf(a).last \in Days
    BY <1>5, AttemptShape, ConstantsOK DEF IsIngest, EventOf, EventType
  <2>2. attempt[a].day = EventOf(a).first
    BY <1>5 DEF OneLoad
  <2> QED
    BY <2>1, <2>2 DEF DayDone, Days
<1>6. ASSUME NEW a \in Attempts, NEW p, UNCHANGED query,
             attempt' = [attempt EXCEPT ![a] = [attempt[a] EXCEPT !.pc = p]],
             IsIngest(a) => /\ attempt[a].pc # "idle"
                            /\ query[a].state # "none" => p \in {"done", "dead"}
      PROVE  OneLoad'
  <2> DEFINE x == [attempt[a] EXCEPT !.pc = p]
  <2>1. /\ x.pc = p /\ x.day = attempt[a].day
        /\ x.known_at = attempt[a].known_at /\ x.doc = attempt[a].doc
    BY DEF TypeOK, Attempt
  <2>2. attempt' = [attempt EXCEPT ![a] = x]
    BY <1>6
  <2>3. IsIngest(a) =>
          /\ x.day = EventOf(a).first
          /\ query[a].state # "none" => x.pc \in {"poll", "done", "dead"}
    BY <1>5, <1>6, <2>1
  <2> HIDE DEF x
  <2>4. UNCHANGED query
    BY <1>6
  <2> QED
    BY <1>2, <2>1, <2>2, <2>3, <2>4
<1>7. ASSUME NEW a \in Attempts, UNCHANGED query, attempt[a].pc # "idle",
             attempt' = [attempt EXCEPT ![a] = DayDone(a)]
      PROVE  OneLoad'
  <2>1. CASE IsIngest(a)
    BY <1>5, <1>6, <1>7, <2>1
  <2>2. CASE ~IsIngest(a)
    BY <1>2, <1>7, <2>2
  <2> QED
    BY <2>1, <2>2
<1>8. ASSUME NEW a \in Attempts, Fetch(a)
      PROVE  OneLoad'
  <2>1. IsIngest(a) => query[a].state = "none" /\ attempt[a].day = EventOf(a).first
    BY <1>5, <1>8 DEF Fetch, OneLoad
  <2>2. CASE IsIngest(a)
    <3> DEFINE x == [pc |-> "raw", day |-> attempt[a].day,
                     doc |-> published[attempt[a].day], known_at |-> StampOf(a[1])]
    <3>1. attempt' = [attempt EXCEPT ![a] = x] /\ UNCHANGED query
      BY <1>8, <2>2 DEF Fetch, IsIngest
    <3>2. x.day = attempt[a].day
      OBVIOUS
    <3> HIDE DEF x
    <3> QED
      BY <1>2, <2>1, <2>2, <3>1, <3>2
  <2>3. CASE ~IsIngest(a)
    BY <1>2, <1>8, <2>3 DEF Fetch, IsIngest
  <2> QED
    BY <2>2, <2>3
<1>9. ASSUME NEW a \in Attempts,
             FetchNoData(a) \/ PutRaw(a) \/ Quarantine(a) \/ Poll(a) \/ Die(a)
      PROVE  OneLoad'
  <2>1. UNCHANGED query /\ attempt[a].pc # "idle"
    BY <1>9 DEF FetchNoData, PutRaw, Quarantine, Poll, Die, Active
  <2>2. CASE FetchNoData(a)
    BY <1>7, <2>1, <2>2 DEF FetchNoData
  <2>3. CASE PutRaw(a) \/ Quarantine(a)
    <3>1. IsIngest(a) => query[a].state = "none"
      BY <2>3 DEF PutRaw, Quarantine, OneLoad
    <3> QED
      BY <1>6, <2>1, <2>3, <3>1 DEF PutRaw, Quarantine
  <2>4. CASE Poll(a)
    BY <1>6, <1>7, <2>1, <2>4 DEF Poll
  <2>5. CASE Die(a)
    BY <1>6, <2>1, <2>5 DEF Die
  <2> QED
    BY <1>9, <2>2, <2>3, <2>4, <2>5
<1>10. ASSUME NEW a \in Attempts, Stage(a)
       PROVE  OneLoad'
  <2>1. attempt[a].pc = "stage" /\ (IsIngest(a) => query[a].state = "none")
    BY <1>10 DEF Stage, OneLoad
  <2>2. CASE UNCHANGED query
    <3>1. \/ attempt' = [attempt EXCEPT ![a] = DayDone(a)]
          \/ attempt' = [attempt EXCEPT ![a] = [attempt[a] EXCEPT !.pc = "dead"]]
          \/ attempt' = [attempt EXCEPT ![a] = [attempt[a] EXCEPT !.pc = "poll"]]
      BY <1>10 DEF Stage
    <3> QED
      BY <1>6, <1>7, <2>1, <2>2, <3>1
  <2>3. CASE ~ UNCHANGED query
    <3> DEFINE q == [state |-> "queued", day |-> attempt[a].day,
                     staged |-> StagedRows(a), base |-> 0]
               x == [attempt[a] EXCEPT !.pc = "poll"]
    <3>1. /\ query' = [query EXCEPT ![a] = q]
          /\ attempt' = [attempt EXCEPT ![a] = x]
      BY <1>10, <2>3 DEF Stage
    <3>2. /\ x.pc = "poll" /\ x.day = attempt[a].day
          /\ x.known_at = attempt[a].known_at /\ x.doc = attempt[a].doc
          /\ q.staged = StagedRows(a)
      BY DEF TypeOK, Attempt
    <3> HIDE DEF q, x
    <3> SUFFICES ASSUME NEW b \in Attempts, IsIngest(b)
                 PROVE  /\ attempt'[b].pc # "idle" =>
                             attempt'[b].day = EventOf(b).first
                        /\ query'[b].state # "none" =>
                             /\ attempt'[b].pc \in {"poll", "done", "dead"}
                             /\ query'[b].staged = StagedRows(b)'
      BY DEF OneLoad, IsIngest, EventOf
    <3>3. CASE b = a
      <4>1. attempt'[b] = x /\ query'[b] = q
        BY <3>1, <3>3 DEF TypeOK
      <4>2. StagedRows(b)' = StagedRows(a)
        BY <3>2, <3>3, <4>1 DEF StagedRows, Accepted
      <4> QED
        BY <1>5, <2>1, <3>2, <3>3, <4>1, <4>2
    <3>4. CASE b # a
      <4>1. attempt'[b] = attempt[b] /\ query'[b] = query[b]
        BY <3>1, <3>4 DEF TypeOK
      <4> QED
        BY <4>1 DEF OneLoad, StagedRows, Accepted
    <3> QED
      BY <3>3, <3>4
  <2> QED
    BY <2>2, <2>3
<1>11. ASSUME NEW a \in Attempts,
              Plan(a) \/ Commit(a) \/ Conflict(a) \/ EngineFails(a)
       PROVE  OneLoad'
  <2>1. UNCHANGED attempt /\ query[a].state # "none"
    BY <1>11 DEF Plan, Commit, Conflict, EngineFails
  <2>2. \/ query' = [query EXCEPT ![a] = [query[a] EXCEPT !.state = "succeeded"]]
        \/ query' = [query EXCEPT ![a] = [query[a] EXCEPT !.state = "failed"]]
        \/ query' = [query EXCEPT ![a] = [query[a] EXCEPT !.state = "running",
                                                          !.base = Len(snapshots)]]
    BY <1>11 DEF Plan, Commit, Conflict, EngineFails
  <2>3. /\ [query[a] EXCEPT !.state = "succeeded"].staged = query[a].staged
        /\ [query[a] EXCEPT !.state = "failed"].staged = query[a].staged
        /\ [query[a] EXCEPT !.state = "running",
                            !.base = Len(snapshots)].staged = query[a].staged
    BY DEF TypeOK, Query
  <2> QED
    BY <1>3, <2>1, <2>2, <2>3
<1> QED
  BY <1>1, <1>4, <1>8, <1>9, <1>10, <1>11
     DEF Next, vars, Lambda, Athena, Tick, Publish, Fire

(* A load that ended well is never touched again.                           *)
LEMMA SucceededStays ==
  ASSUME TypeOK, OneLoad, [Next]_vars,
         NEW a \in Attempts, IsIngest(a), query[a].state = "succeeded"
  PROVE  /\ query'[a] = query[a]
         /\ attempt'[a].known_at = attempt[a].known_at
         /\ attempt'[a].doc = attempt[a].doc
<1>1. attempt[a].pc \in {"poll", "done", "dead"}
  BY DEF OneLoad
<1>2. query'[a] = query[a]
  <2>1. ASSUME NEW b \in Attempts, Stage(b)
        PROVE  query'[a] = query[a]
    BY <1>1, <2>1 DEF Stage, TypeOK
  <2>2. ASSUME NEW b \in Attempts,
               Plan(b) \/ Commit(b) \/ Conflict(b) \/ EngineFails(b)
        PROVE  query'[a] = query[a]
    <3>1. query[b].state \in {"queued", "running"}
      BY <2>2 DEF Plan, Commit, Conflict, EngineFails
    <3>2. a # b
      BY <3>1
    <3> QED
      BY <2>2, <3>2 DEF Plan, Commit, Conflict, EngineFails, TypeOK
  <2> QED
    BY <2>1, <2>2
       DEF Next, vars, Lambda, Athena, Tick, Publish, Fire, Start,
           FetchNoData, Fetch, PutRaw, Quarantine, Poll, Die
<1>3. \/ attempt'[a] = attempt[a]
      \/ \E p : attempt'[a] = [attempt[a] EXCEPT !.pc = p]
  <2>1. ASSUME NEW r \in Runs, NEW n \in Deliveries(r), Start(r, n)
        PROVE  attempt'[a] = attempt[a]
    <3>1. a # <<r, n>>
      BY <1>1, <2>1 DEF Start
    <3> QED
      BY <2>1, <3>1 DEF Start, TypeOK
  <2>2. ASSUME NEW b \in Attempts,
               FetchNoData(b) \/ Fetch(b) \/ PutRaw(b) \/ Quarantine(b) \/ Stage(b)
        PROVE  attempt'[a] = attempt[a]
    <3>1. a # b
      BY <1>1, <2>2 DEF FetchNoData, Fetch, PutRaw, Quarantine, Stage
    <3> QED
      BY <2>2, <3>1 DEF FetchNoData, Fetch, PutRaw, Quarantine, Stage, TypeOK
  <2>3. ASSUME NEW b \in Attempts, Poll(b) \/ Die(b), a # b
        PROVE  attempt'[a] = attempt[a]
    BY <2>3 DEF Poll, Die, TypeOK
  <2>4. ASSUME Poll(a) \/ Die(a)
        PROVE  \E p : attempt'[a] = [attempt[a] EXCEPT !.pc = p]
    <3>1. DayDone(a) = [attempt[a] EXCEPT !.pc = "done"]
      <4>1. EventOf(a).first = EventOf(a).last /\ EventOf(a).last \in Days
        BY AttemptShape, ConstantsOK DEF IsIngest, EventOf, EventType
      <4>2. attempt[a].day = EventOf(a).first
        BY <1>1 DEF OneLoad
      <4> QED
        BY <4>1, <4>2 DEF DayDone, Days
    <3>2. \/ attempt' = [attempt EXCEPT ![a] = [attempt[a] EXCEPT !.pc = "done"]]
          \/ attempt' = [attempt EXCEPT ![a] = [attempt[a] EXCEPT !.pc = "dead"]]
      BY <2>4, <3>1 DEF Poll, Die
    <3> QED
      BY <3>2 DEF TypeOK
  <2> QED
    BY <2>1, <2>2, <2>3, <2>4
       DEF Next, vars, Lambda, Athena, Tick, Publish, Fire, Plan, Commit,
           Conflict, EngineFails
<1> QED
  BY <1>2, <1>3 DEF TypeOK, Attempt


(* The snapshot log records the commits that added something, in order.     *)
LEMMA CommitLogged ==
  ASSUME TypeOK, NEW a \in Attempts, Commit(a), ~ UNCHANGED <<bronze, snapshots>>
  PROVE  /\ Inserts(a) # {}
         /\ bronze' = bronze \cup NewRows(a)
         /\ Len(snapshots) \in Nat
         /\ DOMAIN snapshots = 1 .. Len(snapshots)
         /\ DOMAIN snapshots' = 1 .. Len(snapshots) + 1
         /\ snapshots'[Len(snapshots) + 1].attempt = a
         /\ \A i \in DOMAIN snapshots : snapshots'[i] = snapshots[i]
<1>1. /\ Inserts(a) # {}
      /\ bronze' = bronze \cup NewRows(a)
      /\ snapshots' = Append(snapshots, [attempt |-> a, day |-> query[a].day])
  BY DEF Commit, NewRows
<1> DEFINE entry == [attempt |-> a, day |-> query[a].day]
<1>2. snapshots \in Seq([attempt : Attempts, day : Days])
  BY DEF TypeOK
<1>3. entry.attempt = a
  OBVIOUS
<1>4. snapshots' = Append(snapshots, entry)
  BY <1>1
<1> HIDE DEF entry
<1>5. /\ Len(snapshots) \in Nat
      /\ DOMAIN snapshots = 1 .. Len(snapshots)
      /\ DOMAIN snapshots' = 1 .. Len(snapshots) + 1
      /\ snapshots'[Len(snapshots) + 1] = entry
      /\ \A i \in DOMAIN snapshots : snapshots'[i] = snapshots[i]
  BY <1>2, <1>4
<1> QED
  BY <1>1, <1>3, <1>5

LEMMA WriterType ==
  ASSUME TypeOK, NEW i \in DOMAIN snapshots
  PROVE  Writer(i) \in Attempts
<1> DEFINE Cut == [attempt : Attempts, day : Days]
<1>1. snapshots \in Seq(Cut)
  BY DEF TypeOK
<1>2. \A c \in Cut : c.attempt \in Attempts
  OBVIOUS
<1> HIDE DEF Cut
<1>3. snapshots[i] \in Cut
  BY <1>1
<1> QED
  BY <1>2, <1>3 DEF Writer

LEMMA OnlyCommitLogs ==
  ASSUME [Next]_vars
  PROVE  \/ UNCHANGED <<bronze, snapshots>>
         \/ \E a \in Attempts : Commit(a) /\ ~ UNCHANGED <<bronze, snapshots>>
BY DEF Next, vars, Lambda, Athena, Tick, Publish, Fire, Start, FetchNoData,
       Fetch, PutRaw, Quarantine, Stage, Poll, Die, Plan, Conflict, EngineFails

LEMMA WritersSucceededStep ==
  ASSUME TypeOK, OneLoad, WritersSucceeded, [Next]_vars
  PROVE  WritersSucceeded'
<1>1. ASSUME NEW i \in DOMAIN snapshots, IsIngest(Writer(i))
      PROVE  query'[Writer(i)].state = "succeeded"
  BY <1>1, WriterType, SucceededStays DEF WritersSucceeded
<1>2. CASE UNCHANGED <<bronze, snapshots>>
  BY <1>1, <1>2 DEF WritersSucceeded, Writer, IsIngest, EventOf
<1>3. ASSUME NEW a \in Attempts, Commit(a), ~ UNCHANGED <<bronze, snapshots>>
      PROVE  WritersSucceeded'
  <2>1. query'[a].state = "succeeded"
    BY <1>3 DEF Commit, TypeOK, Query
  <2> SUFFICES ASSUME NEW i \in DOMAIN snapshots',
                      IsIngest(snapshots'[i].attempt)
               PROVE  query'[snapshots'[i].attempt].state = "succeeded"
    BY DEF WritersSucceeded, Writer, IsIngest, EventOf
  <2> QED
    BY <1>1, <1>3, <2>1, CommitLogged DEF Writer
<1> QED
  BY <1>2, <1>3, OnlyCommitLogs

(* The rows of a batch in flight are judged against the newest versions in  *)
(* the table; those the merge leaves out are settled already, those it adds *)
(* are settled by it.                                                       *)
LEMMA LeftOutIsSettled ==
  ASSUME TypeOK, OneStampPerBatch, NEW a \in Attempts, Commit(a),
         NEW s \in query[a].staged
  PROVE  s \notin Inserts(a) <=> Settled(s)
<1> DEFINE target == {r \in AtSnapshot(bronze, query[a].base) :
                        r.key \in Window(query[a].day)}
<1>1. s.key \in Window(query[a].day)
  BY DEF OneStampPerBatch, Commit
<1>2. Versions(target, s.key) = Versions(bronze, s.key)
  BY <1>1, ReadIsCurrent DEF Commit
<1>3. s \in Inserts(a) <=> Changed(target, s) /\ ~Matched(target, s)
  BY DEF Inserts, MergeInserts
<1> HIDE DEF target
<1>4. Changed(target, s) <=> Changed(bronze, s)
  BY <1>2 DEF Changed, Newest
<1>5. Matched(target, s) <=> Matched(bronze, s)
  BY <1>2 DEF Matched, Versions
<1> QED
  BY <1>3, <1>4, <1>5 DEF Settled

LEMMA CommitSettles ==
  ASSUME TypeOK, OneStampPerBatch, NEW a \in Attempts, Commit(a),
         ~ UNCHANGED <<bronze, snapshots>>, NEW s \in query[a].staged
  PROVE  Settled(s)'
<1>1. bronze' = bronze \cup NewRows(a)
  BY CommitLogged
<1>2. CASE s \in Inserts(a)
  <2> DEFINE new == [key |-> s.key, known_at |-> s.known_at, value |-> s.value,
                     snap |-> Len(snapshots) + 1]
  <2>1. new \in bronze' /\ new.key = s.key /\ new.known_at = s.known_at
    BY <1>1, <1>2 DEF NewRows
  <2> QED
    BY <2>1 DEF Settled, Matched
<1>3. CASE Matched(bronze, s)
  BY <1>1, <1>3 DEF Settled, Matched
<1>4. CASE s \notin Inserts(a) /\ ~Matched(bronze, s)
  <2>1. ~Changed(bronze, s)
    BY <1>4, LeftOutIsSettled DEF Settled
  <2>2. CASE \E i \in Inserts(a) : i.key = s.key
    <3>1. PICK i \in Inserts(a) : i.key = s.key
      BY <2>2
    <3>2. i = s
      BY <3>1, InsertsAreStaged DEF OneStampPerBatch, Commit
    <3> QED
      BY <1>4, <3>1, <3>2
  <2>3. CASE \A i \in Inserts(a) : i.key # s.key
    <3>1. Versions(bronze', s.key) = Versions(bronze, s.key)
      BY <1>1, <2>3 DEF Versions, NewRows
    <3>2. ~Changed(bronze', s)
      BY <2>1, <3>1 DEF Changed, Newest
    <3> QED
      BY <3>2 DEF Settled, Changed, Newest, Versions
  <2> QED
    BY <2>2, <2>3
<1> QED
  BY <1>2, <1>3, <1>4

(* A commit with the stamp of a settled row leaves it settled: it adds a    *)
(* version with the row's identity, or none of its key.                     *)
LEMMA StaysSettled ==
  ASSUME TypeOK, NEW a \in Attempts, Commit(a),
         ~ UNCHANGED <<bronze, snapshots>>, NEW s, Settled(s),
         \A i \in Inserts(a) : i.known_at = s.known_at
  PROVE  Settled(s)'
<1>1. bronze' = bronze \cup NewRows(a)
  BY CommitLogged
<1>2. CASE Matched(bronze, s)
  BY <1>1, <1>2 DEF Settled, Matched
<1>3. CASE \E i \in Inserts(a) : i.key = s.key
  <2>1. PICK i \in Inserts(a) : i.key = s.key
    BY <1>3
  <2> DEFINE new == [key |-> i.key, known_at |-> i.known_at, value |-> i.value,
                     snap |-> Len(snapshots) + 1]
  <2>2. new \in bronze' /\ new.key = s.key /\ new.known_at = s.known_at
    BY <1>1, <2>1 DEF NewRows
  <2> QED
    BY <2>2 DEF Settled, Matched
<1>4. CASE ~Matched(bronze, s) /\ \A i \in Inserts(a) : i.key # s.key
  <2>1. Versions(bronze', s.key) = Versions(bronze, s.key)
    BY <1>1, <1>4 DEF Versions, NewRows
  <2>2. ~Changed(bronze', s)
    BY <1>4, <2>1 DEF Settled, Changed, Newest
  <2> QED
    BY <2>2 DEF Settled, Changed, Newest, Versions
<1> QED
  BY <1>2, <1>3, <1>4

LEMMA LoggedRunStays ==
  ASSUME TypeOK, OneLoad, WritersSucceeded, [Next]_vars,
         NEW i \in DOMAIN snapshots, NEW k \in DOMAIN snapshots,
         IsIngest(Writer(i)), Writer(k)[1] = Writer(i)[1]
  PROVE  /\ query'[Writer(k)] = query[Writer(k)]
         /\ attempt'[Writer(k)].known_at = attempt[Writer(k)].known_at
         /\ attempt'[Writer(k)].doc = attempt[Writer(k)].doc
<1>1. Writer(k) \in Attempts /\ IsIngest(Writer(k))
  BY WriterType DEF IsIngest, EventOf
<1>2. query[Writer(k)].state = "succeeded"
  BY <1>1 DEF WritersSucceeded
<1> QED
  BY <1>1, <1>2, SucceededStays

LEMMA IngestStagesItsDocument ==
  ASSUME OneLoad, NEW a \in Attempts, IsIngest(a), query[a].state # "none"
  PROVE  /\ query[a].staged = StagedRows(a)
         /\ \A s \in query[a].staged : s.known_at = attempt[a].known_at
<1>1. query[a].staged = StagedRows(a)
  BY DEF OneLoad
<1> QED
  BY <1>1 DEF StagedRows

LEMMA LoadsSettledStep ==
  ASSUME TypeOK, OneLoad, WritersSucceeded, OneStampPerBatch, LoadsSettled,
         [Next]_vars
  PROVE  LoadsSettled'
<1> DEFINE Same(i, k) ==
             /\ snapshots'[k].attempt[1] = snapshots'[i].attempt[1]
             /\ attempt'[snapshots'[k].attempt].known_at
                  = attempt'[snapshots'[i].attempt].known_at
<1> SUFFICES ASSUME NEW i \in DOMAIN snapshots', IsIngest(snapshots'[i].attempt),
                    \A k \in DOMAIN snapshots' : k > i => Same(i, k),
                    NEW s \in query'[snapshots'[i].attempt].staged
             PROVE  Settled(s)'
  BY DEF LoadsSettled, SameLoad, Writer, IsIngest, EventOf
<1>1. ASSUME i \in DOMAIN snapshots,
             \A k \in DOMAIN snapshots :
               k \in DOMAIN snapshots' /\ snapshots'[k] = snapshots[k]
      PROVE  /\ s \in query[Writer(i)].staged
             /\ Settled(s)
             /\ s.known_at = attempt'[Writer(i)].known_at
  <2>1. Writer(i) = snapshots'[i].attempt /\ IsIngest(Writer(i))
    BY <1>1 DEF Writer
  <2>2. /\ query'[Writer(i)] = query[Writer(i)]
        /\ attempt'[Writer(i)].known_at = attempt[Writer(i)].known_at
    BY <1>1, <2>1, LoggedRunStays
  <2>3. ASSUME NEW k \in DOMAIN snapshots, k > i
        PROVE  SameLoad(Writer(i), Writer(k))
    <3>1. Same(i, k) /\ Writer(k) = snapshots'[k].attempt
      BY <1>1, <2>3 DEF Writer
    <3>2. Writer(k)[1] = Writer(i)[1]
      BY <2>1, <3>1
    <3>3. attempt'[Writer(k)].known_at = attempt[Writer(k)].known_at
      BY <1>1, <2>1, <3>2, LoggedRunStays
    <3> QED
      BY <2>1, <2>2, <3>1, <3>2, <3>3 DEF SameLoad
  <2>4. s \in query[Writer(i)].staged
    BY <2>1, <2>2
  <2>5. Settled(s)
    BY <1>1, <2>1, <2>3, <2>4 DEF LoadsSettled
  <2>6. Writer(i) \in Attempts /\ query[Writer(i)].state # "none"
    BY <1>1, <2>1, WriterType DEF WritersSucceeded
  <2> QED
    BY <2>1, <2>2, <2>4, <2>5, <2>6, IngestStagesItsDocument
<1>2. CASE UNCHANGED <<bronze, snapshots>>
  <2>1. Settled(s)
    BY <1>1, <1>2
  <2> QED
    BY <1>2, <2>1 DEF Settled, Matched, Changed, Newest, Versions
<1>3. ASSUME NEW a \in Attempts, Commit(a), ~ UNCHANGED <<bronze, snapshots>>
      PROVE  Settled(s)'
  <2> DEFINE last == Len(snapshots) + 1
  <2>1. /\ last \in Nat \ {0}
        /\ DOMAIN snapshots = 1 .. last - 1
        /\ DOMAIN snapshots' = 1 .. last
        /\ snapshots'[last].attempt = a
        /\ \A k \in DOMAIN snapshots : snapshots'[k] = snapshots[k]
    BY <1>3, CommitLogged
  <2>2. UNCHANGED attempt /\ query'[a].staged = query[a].staged
    BY <1>3 DEF Commit, TypeOK, Query
  <2> HIDE DEF last
  <2>3. CASE i = last
    BY <1>3, <2>1, <2>2, <2>3, CommitSettles
  <2>4. CASE i # last
    <3>1. i \in DOMAIN snapshots /\ last \in DOMAIN snapshots' /\ last > i
      BY <2>1, <2>4
    <3>2. Settled(s) /\ s.known_at = attempt[Writer(i)].known_at
      BY <1>1, <2>1, <2>2, <3>1
    <3>3. Same(i, last) /\ Writer(i) = snapshots'[i].attempt
      BY <2>1, <3>1 DEF Writer
    <3>4. attempt[a].known_at = s.known_at /\ IsIngest(a)
      BY <2>1, <2>2, <3>2, <3>3 DEF IsIngest, EventOf
    <3>5. query[a].state # "none"
      BY <1>3 DEF Commit
    <3>6. \A t \in Inserts(a) : t.known_at = s.known_at
      BY <3>4, <3>5, InsertsAreStaged, IngestStagesItsDocument
    <3> QED
      BY <1>3, <3>2, <3>6, StaysSettled
  <2> QED
    BY <2>3, <2>4
<1> QED
  BY <1>2, <1>3, OnlyCommitLogs

(* Same document, same stamp, nothing else in between: every row the later  *)
(* attempt staged is settled, so a commit of it would add nothing and cut   *)
(* no snapshot.                                                             *)
LEMMA RetryIsNoOpStep ==
  ASSUME TypeOK, OneLoad, WritersSucceeded, OneStampPerBatch, LoadsSettled,
         RetryIsNoOp, [Next]_vars
  PROVE  RetryIsNoOp'
<1> DEFINE W(k) == snapshots'[k].attempt
           Differs(i, k) == \/ W(k)[1] # W(i)[1]
                            \/ attempt'[W(k)].known_at # attempt'[W(i)].known_at
<1> SUFFICES ASSUME NEW i \in DOMAIN snapshots', NEW j \in DOMAIN snapshots',
                    i < j, W(i)[1] = W(j)[1], IsIngest(W(i)),
                    attempt'[W(i)].doc = attempt'[W(j)].doc,
                    attempt'[W(i)].known_at = attempt'[W(j)].known_at
             PROVE  \E k \in i + 1 .. j - 1 : Differs(i, k)
  BY DEF RetryIsNoOp, IsIngest, EventOf
<1>1. ASSUME i \in DOMAIN snapshots, j \in DOMAIN snapshots,
             \A k \in DOMAIN snapshots : snapshots'[k] = snapshots[k]
      PROVE  \E k \in i + 1 .. j - 1 : Differs(i, k)
  <2>1. W(i) = Writer(i) /\ W(j) = Writer(j)
    BY <1>1 DEF Writer
  <2>2. /\ attempt'[Writer(i)].known_at = attempt[Writer(i)].known_at
        /\ attempt'[Writer(i)].doc = attempt[Writer(i)].doc
        /\ attempt'[Writer(j)].known_at = attempt[Writer(j)].known_at
        /\ attempt'[Writer(j)].doc = attempt[Writer(j)].doc
    BY <1>1, <2>1, LoggedRunStays
  <2>3. PICK k \in i + 1 .. j - 1 :
          \/ Writer(k)[1] # Writer(i)[1]
          \/ attempt[Writer(k)].known_at # attempt[Writer(i)].known_at
    BY <1>1, <2>1, <2>2 DEF RetryIsNoOp, Writer, IsIngest
  <2>4. k \in DOMAIN snapshots
    <3>1. snapshots \in Seq([attempt : Attempts, day : Days])
      BY DEF TypeOK
    <3> QED
      BY <1>1, <2>3, <3>1
  <2>5. W(k) = Writer(k)
    BY <1>1, <2>4 DEF Writer
  <2>6. Writer(k)[1] = Writer(i)[1] =>
          attempt'[Writer(k)].known_at = attempt[Writer(k)].known_at
    BY <1>1, <2>1, <2>4, LoggedRunStays
  <2> QED
    BY <2>1, <2>2, <2>3, <2>5, <2>6
<1>2. CASE UNCHANGED <<bronze, snapshots>>
  BY <1>1, <1>2
<1>3. ASSUME NEW a \in Attempts, Commit(a), ~ UNCHANGED <<bronze, snapshots>>
      PROVE  \E k \in i + 1 .. j - 1 : Differs(i, k)
  <2> DEFINE last == Len(snapshots) + 1
  <2>1. /\ last \in Nat \ {0}
        /\ DOMAIN snapshots = 1 .. last - 1
        /\ DOMAIN snapshots' = 1 .. last
        /\ snapshots'[last].attempt = a
        /\ \A k \in DOMAIN snapshots : snapshots'[k] = snapshots[k]
    BY <1>3, CommitLogged
  <2>2. UNCHANGED attempt
    BY <1>3 DEF Commit
  <2> HIDE DEF last
  <2>3. CASE j # last
    <3>1. i \in DOMAIN snapshots /\ j \in DOMAIN snapshots
      BY <2>1, <2>3
    <3> QED
      BY <1>1, <2>1, <3>1
  <2>4. CASE j = last
    <3> SUFFICES ASSUME \A k \in i + 1 .. last - 1 : ~Differs(i, k)
                 PROVE  FALSE
      BY <2>4
    <3>1. i \in DOMAIN snapshots
      BY <2>1, <2>4
    <3>2. W(i) = Writer(i) /\ W(j) = a
      BY <2>1, <2>4, <3>1 DEF Writer
    <3>3. ASSUME NEW k \in DOMAIN snapshots, k > i
          PROVE  SameLoad(Writer(i), Writer(k))
      <4>1. k \in i + 1 .. last - 1 /\ W(k) = Writer(k)
        BY <2>1, <3>1, <3>3 DEF Writer
      <4> QED
        BY <2>2, <3>2, <4>1 DEF SameLoad
    <3>4. \A s \in query[Writer(i)].staged : Settled(s)
      BY <3>1, <3>2, <3>3 DEF LoadsSettled
    <3>5. Writer(i) \in Attempts /\ query[Writer(i)].state # "none"
      BY <3>1, <3>2, WriterType DEF WritersSucceeded
    <3>6. query[Writer(i)].staged = StagedRows(Writer(i))
      BY <3>2, <3>5, IngestStagesItsDocument
    <3>7. IsIngest(a) /\ query[a].state # "none"
      BY <1>3, <3>2 DEF IsIngest, EventOf, Commit
    <3>8. query[a].staged = StagedRows(a)
      BY <3>7, IngestStagesItsDocument
    <3>9. StagedRows(a) = StagedRows(Writer(i))
      BY <2>2, <3>2 DEF StagedRows, Accepted
    <3>10. \A s \in query[a].staged : s \notin Inserts(a)
      BY <1>3, <3>4, <3>6, <3>8, <3>9, LeftOutIsSettled
    <3> QED
      BY <1>3, <3>10, InsertsAreStaged, CommitLogged
  <2> QED
    BY <2>3, <2>4
<1> QED
  BY <1>2, <1>3, OnlyCommitLogs

(* A later attempt at a run of the ingest with the same document and stamp  *)
(* adds nothing unless a commit of another run or stamp came in between.    *)
THEOREM RetryIsNoOpHolds ==
  ASSUME WellBehavedPlatform
  PROVE  Spec => []RetryIsNoOp
<1>1. Init => OneLoad /\ WritersSucceeded /\ LoadsSettled /\ RetryIsNoOp
  <2> SUFFICES ASSUME Init
               PROVE  OneLoad /\ WritersSucceeded /\ LoadsSettled /\ RetryIsNoOp
    OBVIOUS
  <2>1. DOMAIN snapshots = {}
    BY DEF Init
  <2>2. OneLoad
    BY DEF Init, NoAttempt, NoQuery, OneLoad
  <2> QED
    BY <2>1, <2>2 DEF WritersSucceeded, LoadsSettled, RetryIsNoOp
<1>2. /\ SerialInv /\ OneLoad /\ WritersSucceeded /\ LoadsSettled
      /\ RetryIsNoOp /\ [Next]_vars
      => OneLoad' /\ WritersSucceeded' /\ LoadsSettled' /\ RetryIsNoOp'
  BY OneLoadStep, WritersSucceededStep, LoadsSettledStep, RetryIsNoOpStep
     DEF SerialInv
<1> QED
  BY <1>1, <1>2, Serial, PTL DEF Spec
=============================================================================
