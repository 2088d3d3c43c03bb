---------------------------- MODULE BronzeIngest ----------------------------
(* How ENTSO-E documents become rows of bronze.generation.                  *)
(*                                                                          *)
(* A run is one firing of a schedule, of the gap dag or of an operator: an  *)
(* event that names the settlement days to load and, usually, the known_at  *)
(* to stamp them with.  Delivery is at least once, so a run is executed by  *)
(* several Lambda invocations, which may overlap.  Each follows   *)
(* handlers/ingest_entsoe.py (one day, raw and quarantine kept) or          *)
(* lake/backfill.py (a range of days, neither kept), and hands each day to  *)
(* Athena as one MERGE.  The query runs on when the invocation dies.        *)
(*                                                                          *)
(* External, modelled from how the code uses it: the platform (Publish),    *)
(* event delivery (Fire, Start), and Athena over Iceberg (Plan,     *)
(* Commit, Conflict, EngineFails): a query reads one snapshot and commits   *)
(* against the newest one, refused if rows of its window arrived in between.*)
EXTENDS Bitemporal, Sequences

CONSTANTS
  LastDay,          \* settlement days are 1 .. LastDay
  Keys,             \* series-and-period keys
  DayOf,            \* the settlement day each key falls in
  Values,           \* what a period can be said to be
  Refused,          \* the values the contract gate refuses
  Documents,        \* what the platform can answer for each day
  Runs,
  Event,            \* what each run is asked to do
  MaxTime,          \* bound on the clock
  MaxPublications,  \* bound on what the platform publishes
  MaxFaults         \* bound on faults injected

Days == 1 .. LastDay
Deliveries(r) == 1 .. Event[r].deliveries
Attempts == UNION {{r} \X Deliveries(r) : r \in Runs}
Observation == [key : Keys, value : Values]
Document == [parses : BOOLEAN, obs : SUBSET Observation]
NoData == [parses |-> TRUE, obs |-> {}]

(* An event names its days and its stamp (known_at = 0 when it has none),   *)
(* and is delivered a few times at most: the first and its retries.  Days   *)
(* that the handlers count back themselves, window from the stamp and       *)
(* _target_day from the clock of each attempt, are taken as named: an event *)
(* that a retry would carry past midnight is not modelled.                  *)
EventType == [kind : {"ingest", "backfill"}, first : Days, last : Days,
              known_at : Nat, deliveries : Nat \ {0}]

ASSUME ConstantsOK ==
  /\ LastDay \in Nat \ {0}
  /\ DayOf \in [Keys -> Days]
  /\ Refused \subseteq Values
  /\ Documents \in [Days -> SUBSET Document]
  /\ Event \in [Runs -> EventType]
  /\ \A r \in Runs : Event[r].first <= Event[r].last
  /\ \A r \in Runs : Event[r].kind = "ingest" => Event[r].first = Event[r].last
  /\ MaxTime \in Nat \ {0}
  /\ MaxPublications \in Nat
  /\ MaxFaults \in Nat

VARIABLES
  now,           \* the clock, in ticks
  published,     \* what the platform answers for each day
  publications,
  fired,         \* the runs whose event was sent
  attempt,       \* the Lambda invocations
  query,         \* the Athena query each invocation started last
  raw,           \* the raw bucket
  quarantine,    \* the quarantine bucket
  bronze,        \* bronze.generation
  snapshots,     \* its snapshot log: who added what, oldest first
  faults

vars == <<now, published, publications, fired, attempt, query, raw, quarantine,
          bronze, snapshots, faults>>

NoAttempt == [pc |-> "idle", day |-> 1, known_at |-> 0, doc |-> NoData]
NoQuery == [state |-> "none", day |-> 1, staged |-> {}, base |-> 0]

Attempt == [pc : {"idle", "fetch", "raw", "gate", "stage", "poll", "done",
                  "dead"},
            day : Days, known_at : Nat, doc : Document]
StagedRow == [key : Keys, known_at : Nat, value : Values]
Row == [key : Keys, known_at : Nat, value : Values, snap : Nat]
Query == [state : {"none", "queued", "running", "succeeded", "failed"},
          day : Days, staged : SUBSET StagedRow, base : Nat]

Init ==
  /\ now = 1
  /\ published = [d \in Days |-> NoData]
  /\ publications = 0
  /\ fired = {}
  /\ attempt = [a \in Attempts |-> NoAttempt]
  /\ query = [a \in Attempts |-> NoQuery]
  /\ raw = {}
  /\ quarantine = {}
  /\ bronze = {}
  /\ snapshots = <<>>
  /\ faults = 0

-----------------------------------------------------------------------------
(* The environment: the clock, the platform, the schedules.                 *)
Tick ==
  /\ now < MaxTime
  /\ now' = now + 1
  /\ UNCHANGED <<published, publications, fired, attempt, query, raw,
                 quarantine, bronze, snapshots, faults>>

(* The platform publishes or revises a day.                                 *)
Publish(d, doc) ==
  /\ publications < MaxPublications
  /\ doc # published[d]
  /\ published' = [published EXCEPT ![d] = doc]
  /\ publications' = publications + 1
  /\ UNCHANGED <<now, fired, attempt, query, raw, quarantine, bronze, snapshots,
                 faults>>

(* An event is sent.  The schedules stamp it with the scheduled time; one   *)
(* sent by hand may carry any known_at up to now, or none.                  *)
Fire(r) ==
  /\ r \notin fired
  /\ Event[r].known_at <= now
  /\ fired' = fired \cup {r}
  /\ UNCHANGED <<now, published, publications, attempt, query, raw,
                 quarantine, bronze, snapshots, faults>>

-----------------------------------------------------------------------------
(* One Lambda invocation.                                                   *)
EventOf(a) == Event[a[1]]
Active(a) == attempt[a].pc \notin {"idle", "done", "dead"}

Accepted(doc) == {o \in doc.obs : o.value \notin Refused}
Violations(doc) == {o \in doc.obs : o.value \in Refused}

(* parse_known_at: the event's stamp, or the clock when it has none.        *)
StampOf(r) == IF Event[r].known_at # 0 THEN Event[r].known_at ELSE now

(* Delivery n of the event.  The backfill handler settles known_at here,    *)
(* before its first fetch.                                                  *)
Start(r, n) ==
  /\ r \in fired
  /\ attempt[<<r, n>>].pc = "idle"
  /\ \A m \in 1 .. n - 1 : attempt[<<r, m>>].pc # "idle"
  /\ attempt' = [attempt EXCEPT ![<<r, n>>] =
       [pc |-> "fetch", day |-> Event[r].first, doc |-> NoData,
        known_at |-> IF Event[r].kind = "backfill" THEN StampOf(r) ELSE 0]]
  /\ UNCHANGED <<now, published, publications, fired, query, raw, quarantine,
                 bronze, snapshots, faults>>

(* Faulty variant: one day too many.                                        *)
DayDonePastTheEnd(a) ==
  IF attempt[a].day <= EventOf(a).last
  THEN [attempt[a] EXCEPT !.pc = "fetch", !.day = @ + 1]
  ELSE [attempt[a] EXCEPT !.pc = "done"]

(* The attempt record once a day is dealt with: the next day, or the end.   *)
DayDone(a) ==
  IF attempt[a].day < EventOf(a).last
  THEN [attempt[a] EXCEPT !.pc = "fetch", !.day = @ + 1]
  ELSE [attempt[a] EXCEPT !.pc = "done"]

(* Faulty variant: the backfill stops at a day without data.                *)
FetchNoDataStops(a) ==
  /\ attempt[a].pc = "fetch"
  /\ published[attempt[a].day] = NoData
  /\ attempt' = [attempt EXCEPT ![a].pc = "done"]
  /\ UNCHANGED <<now, published, publications, fired, query, raw, quarantine,
                 bronze, snapshots, faults>>

(* A day without data ends the ingest and is skipped by the backfill.       *)
FetchNoData(a) ==
  /\ attempt[a].pc = "fetch"
  /\ published[attempt[a].day] = NoData
  /\ attempt' = [attempt EXCEPT ![a] = DayDone(a)]
  /\ UNCHANGED <<now, published, publications, fired, query, raw, quarantine,
                 bronze, snapshots, faults>>

(* The ingest stamps after the fetch, so without a stamp in the event its   *)
(* known_at is the fetch time of this attempt.                              *)
Fetch(a) ==
  LET day == attempt[a].day
  IN  /\ attempt[a].pc = "fetch"
      /\ published[day] # NoData
      /\ attempt' = [attempt EXCEPT ![a] =
           IF EventOf(a).kind = "ingest"
           THEN [pc |-> "raw", day |-> day, doc |-> published[day],
                 known_at |-> StampOf(a[1])]
           ELSE [@ EXCEPT !.pc = "stage", !.doc = published[day]]]
      /\ UNCHANGED <<now, published, publications, fired, query, raw,
                     quarantine, bronze, snapshots, faults>>

(* Ingest only: the document is kept as it came, under a fresh name.        *)
PutRaw(a) ==
  /\ attempt[a].pc = "raw"
  /\ raw' = raw \cup {[day |-> attempt[a].day, known_at |-> attempt[a].known_at,
                       doc |-> attempt[a].doc]}
  /\ attempt' = [attempt EXCEPT ![a].pc = "gate"]
  /\ UNCHANGED <<now, published, publications, fired, query, quarantine, bronze,
                 snapshots, faults>>

(* Faulty variant: the violations are only counted.                         *)
QuarantineForgets(a) ==
  /\ attempt[a].pc = "gate"
  /\ attempt' = [attempt EXCEPT ![a].pc =
       IF attempt[a].doc.parses THEN "stage" ELSE "dead"]
  /\ UNCHANGED <<now, published, publications, fired, query, raw, quarantine,
                 bronze, snapshots, faults>>

(* Ingest only: parse, apply the gate, keep the violations.  A document     *)
(* that does not parse ends the invocation with an exception.               *)
Quarantine(a) ==
  LET doc == attempt[a].doc
  IN  /\ attempt[a].pc = "gate"
      /\ IF doc.parses
         THEN /\ quarantine' = quarantine \cup
                   {[obs |-> o, known_at |-> attempt[a].known_at] :
                      o \in Violations(doc)}
              /\ attempt' = [attempt EXCEPT ![a].pc = "stage"]
         ELSE /\ attempt' = [attempt EXCEPT ![a].pc = "dead"]
              /\ UNCHANGED quarantine
      /\ UNCHANGED <<now, published, publications, fired, query, raw, bronze,
                     snapshots, faults>>

StagedRows(a) ==
  {[key |-> o.key, known_at |-> attempt[a].known_at, value |-> o.value] :
     o \in Accepted(attempt[a].doc)}

(* The accepted rows are staged under a fresh batch id and the merge of     *)
(* that batch is started; nothing else ever reads the batch, so the two     *)
(* calls are one step.  The backfill parses and applies the gate here, and  *)
(* drops what the gate refuses.  An empty batch starts no query.            *)
Stage(a) ==
  /\ attempt[a].pc = "stage"
  /\ IF ~attempt[a].doc.parses
     THEN /\ attempt' = [attempt EXCEPT ![a].pc = "dead"]
          /\ UNCHANGED query
     ELSE IF StagedRows(a) = {}
     THEN /\ attempt' = [attempt EXCEPT ![a] = DayDone(a)]
          /\ UNCHANGED query
     ELSE /\ attempt' = [attempt EXCEPT ![a].pc = "poll"]
          /\ query' = [query EXCEPT ![a] =
               [state |-> "queued", day |-> attempt[a].day,
                staged |-> StagedRows(a), base |-> 0]]
  /\ UNCHANGED <<now, published, publications, fired, raw, quarantine, bronze,
                 snapshots, faults>>

(* The poll loop of merge_batch sees the query end.                         *)
Poll(a) ==
  /\ attempt[a].pc = "poll"
  /\ query[a].state \in {"succeeded", "failed"}
  /\ attempt' = [attempt EXCEPT ![a] =
       IF query[a].state = "succeeded" THEN DayDone(a)
       ELSE [@ EXCEPT !.pc = "dead"]]
  /\ UNCHANGED <<now, published, publications, fired, query, raw, quarantine,
                 bronze, snapshots, faults>>

(* The invocation is killed, times out, or a call it makes raises.          *)
Die(a) ==
  /\ Active(a)
  /\ faults < MaxFaults
  /\ attempt' = [attempt EXCEPT ![a].pc = "dead"]
  /\ faults' = faults + 1
  /\ UNCHANGED <<now, published, publications, fired, query, raw, quarantine,
                 bronze, snapshots>>

-----------------------------------------------------------------------------
(* Athena and Iceberg.                                                      *)
Window(d) == {k \in Keys : DayOf[k] = d}

(* The query starts: it reads the newest snapshot.                          *)
Plan(a) ==
  /\ query[a].state = "queued"
  /\ query' = [query EXCEPT ![a].state = "running",
                            ![a].base = Len(snapshots)]
  /\ UNCHANGED <<now, published, publications, fired, attempt, raw, quarantine,
                 bronze, snapshots, faults>>

(* Rows of the query's window were committed after the snapshot it read.    *)
Overtaken(a) ==
  \E r \in bronze : r.snap > query[a].base /\ r.key \in Window(query[a].day)

(* Faulty variant: the window of the merge misses the batch's day.          *)
InsertsPastTheWindow(a) ==
  MergeInserts(AtSnapshot(bronze, query[a].base), query[a].staged,
               Window(query[a].day + 1))

Inserts(a) ==
  MergeInserts(AtSnapshot(bronze, query[a].base), query[a].staged,
               Window(query[a].day))

(* A merge that inserts nothing cuts no snapshot.                           *)
Commit(a) ==
  LET snap == Len(snapshots) + 1
  IN  /\ query[a].state = "running"
      /\ ~Overtaken(a)
      /\ query' = [query EXCEPT ![a].state = "succeeded"]
      /\ IF Inserts(a) = {}
         THEN UNCHANGED <<bronze, snapshots>>
         ELSE /\ bronze' = bronze \cup
                   {[key |-> s.key, known_at |-> s.known_at,
                     value |-> s.value, snap |-> snap] : s \in Inserts(a)}
              /\ snapshots' = Append(snapshots,
                   [attempt |-> a, day |-> query[a].day])
      /\ UNCHANGED <<now, published, publications, fired, attempt, raw,
                     quarantine, faults>>

Conflict(a) ==
  /\ query[a].state = "running"
  /\ Overtaken(a)
  /\ query' = [query EXCEPT ![a].state = "failed"]
  /\ UNCHANGED <<now, published, publications, fired, attempt, raw, quarantine,
                 bronze, snapshots, faults>>

EngineFails(a) ==
  /\ query[a].state \in {"queued", "running"}
  /\ faults < MaxFaults
  /\ query' = [query EXCEPT ![a].state = "failed"]
  /\ faults' = faults + 1
  /\ UNCHANGED <<now, published, publications, fired, attempt, raw, quarantine,
                 bronze, snapshots>>

-----------------------------------------------------------------------------
Lambda(a) ==
  \/ FetchNoData(a)
  \/ Fetch(a)
  \/ PutRaw(a)
  \/ Quarantine(a)
  \/ Stage(a)
  \/ Poll(a)

Athena(a) ==
  \/ Plan(a)
  \/ Commit(a)
  \/ Conflict(a)

Next ==
  \/ Tick
  \/ \E d \in Days : \E doc \in Documents[d] : Publish(d, doc)
  \/ \E r \in Runs : Fire(r)
  \/ \E r \in Runs : \E n \in Deliveries(r) : Start(r, n)
  \/ \E a \in Attempts : Lambda(a)
  \/ \E a \in Attempts : Die(a)
  \/ \E a \in Attempts : Athena(a)
  \/ \E a \in Attempts : EngineFails(a)

Spec == Init /\ [][Next]_vars

(* Lambda and Athena keep going, and an event is delivered again once an    *)
(* attempt at it died.  Nothing else is promised.                           *)
Redeliver(r, n) ==
  /\ \A m \in 1 .. n - 1 : attempt[<<r, m>>].pc = "dead"
  /\ Start(r, n)

Fairness ==
  /\ \A a \in Attempts : WF_vars(Lambda(a)) /\ WF_vars(Athena(a))
  /\ \A r \in Runs : \A n \in Deliveries(r) : WF_vars(Redeliver(r, n))

FairSpec == Spec /\ Fairness

-----------------------------------------------------------------------------
(* Every variable stays in its domain.                                      *)
TypeOK ==
  /\ now \in Nat
  /\ published \in [Days -> Document]
  /\ publications \in Nat
  /\ fired \subseteq Runs
  /\ attempt \in [Attempts -> Attempt]
  /\ query \in [Attempts -> Query]
  /\ raw \subseteq [day : Days, known_at : Nat, doc : Document]
  /\ quarantine \subseteq [obs : Observation, known_at : Nat]
  /\ bronze \subseteq Row
  /\ snapshots \in Seq([attempt : Attempts, day : Days])
  /\ faults \in Nat

(* A document says one thing about each period, and only about the day it   *)
(* was asked for.  The parser does not check either: see README.            *)
WellBehaved(d, doc) ==
  /\ \A o, p \in doc.obs : o.key = p.key => o = p
  /\ \A o \in doc.obs : DayOf[o.key] = d

WellBehavedPlatform == \A d \in Days : \A doc \in Documents[d] : WellBehaved(d, doc)

Ledger == INSTANCE BronzeLedger WITH table <- bronze

(* Concurrent merges are as good as one at a time: each commit adds what a  *)
(* merge on the current table would have added.                             *)
LedgerSpec == Ledger!Spec

(* No two rows with one bitemporal identity, whatever overlaps (the MERGE   *)
(* of lake/bronze.py and its two filters).                                  *)
UniqueIdentity == Ledger!UniqueIdentity

(* No row repeats the value that was newest when it was committed.          *)
NoPhantomRevision == Ledger!NoPhantomRevision

(* Once a merge has succeeded, each row it staged is in bronze, or the      *)
(* value it carries is, or its identity was taken by an earlier attempt at  *)
(* the same stamp.  Nothing accepted is lost between staging and the end of *)
(* the poll loop (merge_batch).                                             *)
AcknowledgedIsStored ==
  \A a \in Attempts : query[a].state = "succeeded" =>
    \A s \in query[a].staged :
      \E r \in bronze :
        r.key = s.key /\ (r.value = s.value \/ r.known_at = s.known_at)

(* The step in which a merge succeeds leaves each value it staged current,  *)
(* unless a version with that stamp or a later one was there already: it is *)
(* newer than the rest, or what is newest says the same, although the query *)
(* compared with an older snapshot than the one it commits on (merge_batch).*)
AcknowledgedIsCurrent ==
  [][\A a \in Attempts :
       (query[a].state = "running" /\ query'[a].state = "succeeded") =>
         \A s \in query[a].staged :
           \/ \E r \in bronze : r.key = s.key /\ r.known_at >= s.known_at
           \/ \E x \in Current(bronze') : x.key = s.key /\ x.value = s.value]_vars

(* A row loaded by the ingest can be rebuilt from the raw bucket, and what  *)
(* the gate refused beside it is in quarantine (ingest_entsoe.handler writes*)
(* both before it stages anything).                                         *)
IngestTraceable ==
  \A r \in bronze :
    EventOf(snapshots[r.snap].attempt).kind = "ingest" =>
      \E x \in raw :
        /\ x.known_at = r.known_at
        /\ [key |-> r.key, value |-> r.value] \in Accepted(x.doc)
        /\ \A o \in Violations(x.doc) :
             [obs |-> o, known_at |-> x.known_at] \in quarantine

(* A later attempt at a run that fetched the same document and has the same *)
(* stamp adds nothing, unless something else changed the day in between: a  *)
(* different run, or an attempt of this one with another stamp (ADR-0004,   *)
(* its update, and the two filters of the MERGE).                           *)
RetryIsNoOp ==
  \A i, j \in DOMAIN snapshots :
    LET a == snapshots[i].attempt
        b == snapshots[j].attempt
    IN  (/\ i < j
         /\ a[1] = b[1]
         /\ EventOf(a).kind = "ingest"
         /\ attempt[a].doc = attempt[b].doc
         /\ attempt[a].known_at = attempt[b].known_at)
        => \E k \in i + 1 .. j - 1 :
             LET c == snapshots[k].attempt
             IN  \/ c[1] # a[1]
                 \/ attempt[c].known_at # attempt[a].known_at

-----------------------------------------------------------------------------
(* A run has fired, its stamp is later than anything stored, nothing else   *)
(* is in flight or can still be delivered, and the platform is quiet.       *)
LoadsAlone(r) ==
  /\ publications = MaxPublications
  /\ r \in fired
  /\ \A n \in Deliveries(r) : attempt[<<r, n>>].pc = "idle"
  /\ \A a \in Attempts :
       /\ attempt[a].pc \in {"done", "dead"} \/ a[1] = r
       /\ query[a].state \notin {"queued", "running"}
  /\ \A x \in bronze : x.known_at < StampOf(r)

CaughtUp(d) ==
  \A o \in Accepted(published[d]) :
    \E x \in Current(bronze) : x.key = o.key /\ x.value = o.value

GaveUp(r) == \A n \in Deliveries(r) : attempt[<<r, n>>].pc = "dead"

(* The daily run is what keeps bronze current: once the platform is quiet,  *)
(* a run that loads alone ends with the current versions of each of its     *)
(* days saying what the platform says, for good, or every attempt died.     *)
CatchesUp ==
  \A r \in Runs :
    LoadsAlone(r) ~>
      (GaveUp(r) \/ [](\A d \in Event[r].first .. Event[r].last : CaughtUp(d)))
=============================================================================
