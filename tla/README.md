# GridLens in TLA+

GridLens learns French electricity generation from the ENTSO-E transparency
platform, keeps every version of every settlement period in an append-only
Iceberg table (bronze), builds silver and gold marts from it with dbt, and once
a day proves that last month's gold can be rebuilt from what was known then.
This directory models that in TLA+, checks it with TLC on small instances, and
proves what matters most with TLAPS for every value of the constants.

Paths below are relative to the repository root; `PROJECT.json` maps every
definition to the lines it models.

## 1. The system

| component | state | operations | hard because |
|---|---|---|---|
| ingest Lambda (`handlers/ingest_entsoe.py`) | raw and quarantine objects | fetch one day, keep it, gate it, stage, merge | at-least-once delivery, timeouts while Athena goes on |
| backfill Lambda (`handlers/backfill_entsoe.py`, `lake/backfill.py`) | none of its own | the same over a range of days, keeping neither | one day fails and the others stay; the stamp is an input |
| merge (`lake/bronze.py`, `lake/staging.py`) | `bronze.generation`, its snapshots | one Athena `MERGE` per day | two filters that must make retries no-ops, concurrent commits |
| gate and parser (`contracts/`, `ingest/entsoe_parse.py`) | none | document to records, violations, gaps | one bad row must not lose the others |
| schedules (`infra/terraform/core/lambda.tf`) | events in flight | fire with a scheduled time, retry twice | retries overlap their first attempt |
| gap dag (`dags/bronze_backfill.py`, `lake/gaps.py`) | XCom | find missing days, invoke the backfill | retries, partial days, two calendars |
| dbt models (`transform/models`) | silver, gold, `run_manifest` | `make dbt` | nodes run in parallel, fail singly, read bronze at different moments |
| restatement audit (`quality/restatement.py`, `dags/restatement_audit.py`) | the audit schema | plan, check clocks, restate, compare, teardown, verdict | two clocks (`known_at`, snapshots), production moving meanwhile, cleanup after any failure |
| maintenance (`sql/maintenance`) | snapshots | compact, expire | removes what the audit reads |
| ENTSO-E client (`ingest/entsoe.py`, `ratelimit.py`) | attempts, token balance | fetch with backoff | 429 against 5xx, negative balances, Lambda's own timeout |
| RTE client (`ingest/rte.py`, `rte_parse.py`) | bearer token and its expiry | fetch, renew, normalise | a 401 in the middle of the attempts, two attributes no lock guards, entries refused as a whole |
| stream producer (`stream/`) | local queue, callbacks | poll, publish, flush | a failed poll leaves messages behind |
| quality checks (`quality/bronze.py`) | none | count duplicates, gaps, completeness | DST day lengths |

How they interact: the schedules, the gap dag and people send events to the
Lambdas; the Lambdas share nothing but bronze, through Athena; dbt and the audit
read bronze while the Lambdas write it, and share the production tables and the
manifest; maintenance rewrites and expires snapshots under all of them.

What makes each correct: bronze never holds two rows with one bitemporal
identity and never a version that repeats its predecessor, whatever overlaps;
nothing the merge acknowledged is lost; what was ingested can be rebuilt and
what was refused is kept; the current version catches up with the platform; a
green audit means production is reproducible, a red one means something known;
as-of reads of silver and of bronze agree.

## 2. The modules

| module | what it is |
|---|---|
| `Bitemporal` | the SQL of the merge and of silver's intervals, as operators on a table |
| `BronzeLedger` | abstract specification: a table that only grows, one batch at a time, each judged against the whole table as it stands |
| `BronzeIngest` | events, Lambda invocations, Athena queries, buckets and bronze; implements `BronzeLedger` |
| `Marts` | silver and gold as operators |
| `RestatementAudit` | merges (as single commits), maintenance, `make dbt`, and the audit dag |
| `TokenBucket` | the rate limiter, for any threads that share it |
| `EntsoeClient` | threads in `fetch`: attempts, backoff and outcomes, on an instance of `TokenBucket` |
| `SeriesLog` | abstract specification: what the topics promise their readers, a log per series with the summaries of polls as barriers |
| `StreamProducer` | the polling process, the Kafka client's queue and callbacks, the topics; implements `SeriesLog` |
| `GapBackfill` | the gap dag and the invocations it makes |
| `TimeAxis` | local settlement days on the UTC axis, with one spring and one autumn transition |
| `Documents` | what the two parsers and the gate make of a document, as operators |
| `DayCoverage` | days published in pieces, fetched, and what the gap query and completeness see of them |
| `RteClient` | threads in the RTE client's `fetch`, and the bearer token they share |
| `BronzeIngestProofs`, `RestatementAuditProofs`, `TokenBucketProofs`, `EntsoeClientProofs`, `RteClientProofs`, `GapBackfillProofs`, `DayCoverageProofs`, `StreamProducerProofs` | the theorems |
| `MCBronzeIngest`, `MCRestatementAudit`, `MCEntsoeClient`, `MCStreamProducer`, `MCGapBackfill`, `MCDayCoverage`, `MCRteClient` | the small instances TLC checks |

### 2.1 Rows and values

A row of bronze is `[key, known_at, value, snap]`. `key` is the five columns
every window function partitions by; `value` the two columns the merge compares
(`quantity_mw` and `source_updated_at`; `<>` and `IS DISTINCT FROM` agree with
inequality because `quantity_mw` is never null); `snap` the Iceberg snapshot
that added the row. `unit`, `resolution_minutes` and the document id are in no
filter and are left out.

`MergeInserts` is the `MERGE`: a staged row is inserted when no newest version
exists or that version says something else, and when no row of the target has
its key and stamp. Both look only inside the window of the day, and neither at
the rest of the batch, which is what run `repeats` is about.

### 2.2 `BronzeIngest`

A *run* is one event: days, a stamp (`known_at`, 0 when the event has none) and
how often it may be delivered. An *attempt* is one Lambda invocation for it, and
attempts of one run may overlap: Lambda retries asynchronous invocations,
EventBridge retries twice, Airflow once after its client gave up, and none
stops the invocation or the query before it. Each attempt has a program counter:

    fetch -> raw -> gate -> stage -> poll -> done        (ingest, one day)
    fetch -> stage -> poll -> fetch -> ... -> done       (backfill, each day)

- `Start`: the backfill settles `known_at` here; the ingest after its fetch, so an
  unstamped ingest is stamped with its own fetch time (`StampOf`, the clock).
- `FetchNoData`, `Fetch`: the platform's answer for the day is read once.
- `PutRaw`, `Quarantine`: ingest only. A document that does not parse raises,
  after the document was kept.
- `Stage`: writes the batch and starts the query. The two calls are one step:
  a batch has a fresh id and nothing but its own merge reads it, so a crash in
  between leaves an object nobody reads. The backfill parses and gates here,
  and drops the violations. An empty batch starts no query.
- `Poll`: the loop sees the query end; a failed query raises.
- `Die`: the invocation times out, is killed, or any of its calls raises
  (`RateLimited`, `EntsoeUnavailable`, S3 and Athena errors).

A query outlives its invocation. `Plan` binds it to the newest snapshot;
`Commit` inserts what a merge on *that* snapshot computes, unless rows of its
window arrived since (`Overtaken`), when `Conflict` fails it; `EngineFails`
covers every other `FAILED` or `CANCELLED`. A merge that inserts nothing cuts
no snapshot (ADR-0004 and ADR-0007 rely on both; ADR-0007 names the conflict).
This is modelled from how the code uses Athena and Iceberg, with serializable
validation of the merge's own predicate: the only isolation under which the
docstrings of `lake/bronze.py` hold (with `Overtaken` always false TLC refutes
`LedgerSpec`).

Inputs are those the program can be given: `ConstantsOK` encodes what the
`ValueError`s of `backfill` reject. `Refused` stands for the gate: a value the
contract refuses. The rule `known_at < valid_time`, which depends on the stamp,
is abstracted into it here and spelled out in `DayCoverage`. The days are part of the
event: `_target_day` and `window()` take them from `known_at`, which the
schedules send. An event without one, sent again after midnight, would be about
other days; that is not modelled.

### 2.3 `Marts` and `RestatementAudit`

Silver is a set of versions with half-open intervals; net and daily energy are
sums over it with consumption negated. `Values` are integers because the sums
must be.

Merges appear as `Land`: one atomic commit with any stamp up to now. That is
justified by `ImplementsLedger`: concurrent merges are as good as one at a
time. Any stamp, because `known_at` is an input (a retry, a manual backfill, a
query committing hours after its event). Commit times are distinct.

`make dbt` runs one build at a time: `versions`, its test, `period`, `daily` in
dependency order, and `run_manifest` at any moment of it, since it refs no other
model and dbt has four threads. The test `versions_preserve_every_bronze_row`
counts bronze *again*, so a commit in between fails it and skips gold.
`BuildFails` lets any node error, which skips what is downstream.

The audit takes its tasks in the dag's order. `Restate` is one step because only
its first model reads bronze. `Compare` reads production table by table, one
query each. `Failed` sends the run to `teardown` (trigger rule `all_done`);
`Verdict` runs only if teardown and compare succeeded. `TaskFails` may strike
any task, with a restate that built none, some or all of its tables and a
teardown that dropped some. Counts in `CLOCKS` and `DIFF` are left out, since two rows of bronze never
share all columns (`UniqueIdentity`).

`readBy` (the snapshot silver was built from) and `rebuilt` (production was
written since `plan`) are history variables: no action reads them.

### 2.4 `TokenBucket` and `EntsoeClient`

Time is in ticks and the balance is counted in the ticks it takes to refill it,
so that `rate_per_second` becomes `Unit` and nothing is divided; the rounding of
floats is abstracted. `acquire` is two actions, because its sleep is outside the
lock: `Acquire` is everything under the lock and settles when the caller may go
on (`wake`), `Return` is the end of the sleep, at that time or any later one.
`slots` remembers the times handed out.

`EntsoeClient` runs the attempts of `fetch` for several threads on one client
and one bucket: `Take` and `Send` are the bucket's two actions, `Answer` ends an
attempt with a transport error or a 5xx (`transient`), a 429, or anything
`_interpret` turns into a result or an exception (`interpreted`), after any
delay. `Resume` ends the jittered backoff. `requests` remembers what was sent
and what came back. What the exceptions carry is left out.

### 2.5 `StreamProducer`

One process: `BeginPoll`, then per day `Fetch`, one `Produce` per record and
`StartFlush`, `Flush` at the end; `Raise` is any exception before it. In a loop a
failed poll is logged and the next begins; with `--once` it ends the process
without the last flush. `Signal` sets a flag that is looked at between polls.

The Kafka client is external. A message it holds is in `queue`; its thread
reports on it at any time, in the order of each partition, as stored or as given
up, and a message given up may have been stored all the same. The report of an
error waits in `reports` until `producer.poll(0)` or `flush` runs its callback,
which knows the poll that produced the message (`failures`, one list per poll);
the callback of a success does nothing and is left out. Retries of the
client are idempotent (`enable.idempotence`), so nothing is stored twice. `Kill`
and `Restart` are the container's. What a dead process had sent may still land, in
order, until the next one starts; `End`, the orderly way out, runs the callbacks of
its last flush. Creating topics and registering the schema precede the first poll
and are left out, as is the local queue's limit: a `BufferError` is one of the
exceptions of `Raise`.

The topics are taken to keep what the broker acknowledged. `docker-compose.yaml:134-137`
does not promise that of a crash of the broker: it runs without fsync and accepts
losing the last second. `PollIsWhole`, `YesterdayCompleted` and `LogSpec` rest on it
and do not hold across such a crash.

The platform shows each series of a day one value, may change it, and completes a
day `Lag` hours after midnight. `polls` remembers when each poll began, what it
fetched and how it ended.

`SeriesLog` is the same seen from a topic: records arrive in the log of their
series or in quarantine, in the order of the polls, and a poll is announced once
all it fetched is there. After that nothing of it, or of an earlier poll, arrives:
`flush` waits for the whole queue, not for the poll's own messages. `announced` is
mapped to the polls that returned a summary (`Announced`), with what they fetched.

### 2.6 `GapBackfill`

Bronze is the set of days it has rows of, which is what `MISSING_DAYS` asks; what
loading a day twice, or twice at once, does to rows is `BronzeIngest`'s subject.
A dag run has a date, however late it gets to work: `StartRun` (one at a time,
dates may be passed over), `FindGaps`, `Invoke`, `ReadAnswer`. `TaskFails` is
Airflow's retry, of the task that failed: a retried `Invoke` sends the gaps found
before. `GiveUp` is the client's timeout and leaves the invocation running;
`LoadDay` walks its range oldest first, passes over days without rows and raises
at a document that does not parse; `Die` is any other failure of it. `Load` is
every other loader, the daily ingest and the refetches, whose steps are
`BronzeIngest`'s. The two calendars (the UTC date of `run_after`, the Paris
settlement day) are one here: at 08:00 Paris they agree. What the query sees
of rows, bounds and days of 23 and 25 hours is in `DayCoverage`.

### 2.7 `TimeAxis`, `Documents` and `DayCoverage`

`TimeAxis` is `timeaxis.py`. Instants are counted in quarter hours from midnight
UTC of day 0, a *reading* is what the local clock shows. `utcoffset` is the zone's
rule with Python's `fold`; `settlement_day` converts two readings of midnight, so a
day is 23, 24 or 25 hours long because of the offsets and not by decree. Its two
`assert_unambiguous` are left out: `MidnightIsUnambiguous` proves that they never raise.

`Documents` has the pure part of the two sources. An ENTSO-E document is a set of
Periods with points `[position, figure]`; `Readable` says that `_parse_period`
does not raise, `Observations` puts a point at the offset of its position, and
`apply_gate` splits what it yields into records, violations and gaps. Resolutions
are whole quarter hours, so the gate's `sub_minute_resolution` has no case. An RTE
entry has values with a start, an end and a sign. `NormaliseEntry` refuses an entry of
an unknown type, or whose values do not span the same, by one violation that names the
type and none of the values (`entries`); an entry without values yields nothing at all.
Of any other the last value of each start counts (`Present`), the starts are compared
with the grid of expected instants, a value off the grid is not looked at, and the sign
is turned into a direction. The
contract's checks of single columns are one flag, `fit`, of a figure; those that
relate two columns (alignment with the resolution, not known before it begins) are
spelled out. A figure is named by the instant it is about, so that one filed
elsewhere shows.

`DayCoverage` puts them to work. `Publish` fills part of a day in one series;
`Fetch` is answered with the day as whole Periods with positions missing or split
around the holes, soundly or with a point too many, parses and gates it and adds
the records to bronze (that the merge stores what it is given is `BronzeIngest`'s
subject; `bronze` is what it accepted). `FetchRte` normalises an entry that is
whole, lacks October's repeated hour, is empty, has a start off the grid, a first hour
that is sent twice, a value of another span, or a type nobody knows; nothing in the code
loads it. `last` holds the last fetch until `Return`: the periods that were expected,
those that were sent, and the result.
`missing_settlement_days` and `Complete` are the two queries and the arithmetic
around them, by Paris date as the SQL computes it.

### 2.8 `RteClient`

Threads that share a client share `_token` and `_expires_at`, and no lock guards
either. Nothing in the repository shares one between threads yet; the bucket it takes is
locked, so that one may. Every read and write that another thread can come between is an
action:

- `Look`, `Check`: `_bearer` reads the token, then the expiry, which may be of another by
  then. Without a good one it asks the endpoint (`Grant`, or `Refuse`, which is a transport
  error, a refusal of the credentials, or any other status).
- `Keep` writes the token and `Date` the expiry, in two steps. `Unreadable` is a payload
  without a token, or one whose `expires_in` is no number: by then the token is stored and
  keeps the expiry of its predecessor.
- `Send`: `_bearer` returns `_token`, whatever it is by now, and the request leaves.
- `Answer` is transient, definite or a 401. The first 401 of a call drops the token and
  costs an attempt, also when it was the last; the second is believed.

The endpoint may give the same token again and the resource may take any back, or answer
any with a 403, a 429 or another 4xx: a token is known by when it was given, for how long,
and when it was stored. Tokens, expiries and requests may be long under way; `pause` is
the longest any thread has taken between its two writes, a history variable. The bucket
and the backoff are one wait of any length here; `TokenBucket` and `EntsoeClient` say how
long.

## 3. Properties and runs

Every property of a passing run has a mutant: a plausible bug in a definition,
written beside it as "Faulty variant", under which TLC finds it violated.

| run | expected | what it shows |
|---|---|---|
| `concurrent` | pass | an ingest and a backfill of one day, two deliveries each, overlapping, one fault, two publications: `LedgerSpec` (refinement), `UniqueIdentity`, `NoPhantomRevision`, `AcknowledgedIsStored`, `AcknowledgedIsCurrent`, `IngestTraceable`, `RetryIsNoOp`, `TypeOK` |
| `loads` | pass | a two-day backfill and an unstamped ingest, with documents that do not parse, under fairness: `CatchesUp` |
| `repeats` | violation | overlapping Periods in one document break `UniqueIdentity` |
| `audit` | pass | two builds, or a build and a failure, and an audit beside merges, compaction and expiry: `GreenIsReproducible`, `AlarmHasACause`, `AsOfAgrees`, `NothingLeftBehind`, `TypeOK` |
| `client` | pass | two threads on one client, two attempts a call, transient failures, bans, late wake-ups: `RateHolds`, `Queued`, `BoundedWait`, `RequestsBounded`, `OutcomeIsEarned`, `TypeOK` |
| `stream` | pass | two polls over a change of day, in a loop or once, refused and late deliveries, a kill at any point: `PollIsWhole`, `YesterdayCompleted`, `SeriesInOrder`, `NoLateFailure`, `LogSpec`, `StopIsHeeded`, `TypeOK` |
| `gaps` | pass | five days, a lookback of two, one retry, one lost call: `SuccessLeavesNoGap`, `HasItsTurn`, `TypeOK` |
| `manifest` | violation | the manifest can name a snapshot silver was not built from (`ManifestNamesWhatWasRead`) |
| `days` | pass | three settlement days with both clock changes, published in pieces and fetched early and late, and RTE entries of every kind: `RightTime`, `EachPeriodOnce`, `GreenMeansCovered`, `MissingMeansEmpty`, `TypeOK` |
| `absent` | violation | an RTE entry without values, of mixed spans or of an unknown type leaves nothing of its periods (`NothingIsDropped`) |
| `rte` | pass | two threads on one RTE client, two attempts a call, two lifetimes, 401s, a token endpoint that refuses, fails or answers nonsense: `OutcomeIsEarned`, `RefreshIsForced`, `FreshOnArrival`, `CallEnds`, `TypeOK` |
| `midflight` | violation | two renewals interleave and a dead token is sent (`NeverExpiresMidFlight`) |

The properties:

- `LedgerSpec`: each commit adds what a merge on the *current* table would have
  added, though its query read an older snapshot. Everything about bronze that
  does not mention attempts follows from the ledger.
- `NoPhantomRevision`: a row differs from the version that was newest when it was
  committed. It needs the past to be immutable and reads to be current.
- `AcknowledgedIsStored`: the invocation may die, the query may be overtaken,
  another attempt may have taken the identity: a succeeded query still means that
  each value or each identity it staged is there.
- `AcknowledgedIsCurrent`: in the step a merge succeeds, each value it staged becomes
  the newest of its key or is what the newest already says, unless its stamp came
  late. (Not for good: a merge with an older stamp may still follow one that found
  nothing to change, which is why `CatchesUp` needs a run to be alone.)
- `IngestTraceable`: across crashes, retries and documents that differ between
  attempts with the same stamp, a row from the ingest has a kept document that
  yields it, and that document's refusals are in quarantine.
- `RetryIsNoOp`: a later attempt with the same document and stamp inserts
  nothing unless a commit of another run, or of an attempt with another stamp,
  came in between. (An ingest sent without a stamp is stamped anew by each
  attempt; with three deliveries, the one in between may be the other load.)
- `CatchesUp`: once the platform is quiet, a run that loads alone with the latest
  stamp ends with its days current for good, or with every attempt dead. "Alone"
  is needed and is what the terraform comment arranges ("so the two never merge
  into bronze at the same time"): an older-stamped run still in flight can
  commit a stale value after a newer run found nothing to change.
- `GreenIsReproducible`: the rebuild never reads a snapshot, the manifest may
  name another than silver read, bronze grew; green still means production's
  month is what the manifest's snapshot gives, in all three tables.
- `AlarmHasACause`: red, with every task run and production still, means: no
  manifest, an expired snapshot, a row stamped before the bound and committed
  after the snapshot, a manifest that names what was not read, or a half-built
  production. There is no other false alarm.
- `AsOfAgrees`: the `known_at` macro on silver equals the current rows of bronze
  restated at that moment, for every moment.
- `RateHolds`, `RequestsBounded`: the limiter's promise is about any window of
  time, across idle spells, the cap and debts. For the times handed out it is
  burst plus refill; for the requests one more per thread, since a thread may wake
  late while others go on.
- `Queued`, `BoundedWait`: waiting callers are a token apart, and wait at most one
  token per caller still asleep. Clamping the balance at zero breaks the first,
  not paying off a debt the second.
- `OutcomeIsEarned`: a 429 ends a call from any attempt, a definite answer is never
  retried, and `unavailable` means every attempt was made and failed.
- `PollIsWhole`: a poll that returns a summary has everything it fetched in the
  topics, whatever earlier polls left in the queue and whenever callbacks ran.
- `YesterdayCompleted`: one successful poll between the platform's lag and the
  cut-off has the whole of yesterday; it needs `Lag < YesterdayUntilHour`.
- `SeriesInOrder`: leftovers of a failed poll never overtake a later poll's records.
- `NoLateFailure`: a summary is never taken back: no callback of a poll that returned
  one is, or will be, told of an error. Callbacks run late and of earlier polls, so it
  rests on `flush` and on the order in which it and the failures are looked at.
- `LogSpec` (refinement of `SeriesLog`): a summary is a barrier. A poll that asked
  only after its own messages would still be whole, and each series in order, but
  leftovers of an earlier poll would turn up behind its summary.
- `StopIsHeeded`: a signal ends the process, whatever the broker does.
- `SuccessLeavesNoGap`: across retries, two invocations at once and other loaders, a
  run that succeeds left none of the gaps it found, unless there was nothing to load.
- `HasItsTurn`: an unreadable day blocks all later days of a range, in every run that
  sees it; still each day begins the last run that can see it. A window one day
  longer would break this.
- `RightTime`: positions may be missing, Periods split, days 23 or 25 hours long and
  documents spoiled; every row is still a published figure at its own instant.
- `EachPeriodOnce`: no period is told twice, none is a record that was not sent or a gap
  that was; and where the parser does not refuse and finds values, what was sent is a
  record or a violation and what was not is a gap. For RTE that takes the last value of a
  start, the sign, and the hour October repeats. What is refused as a whole, and an entry
  without values, are outside its second half: there the code loses periods (`absent`).
- `GreenMeansCovered`: completeness counts distinct times by Paris date; that finds
  exactly the holes of the settlement day, with no false alarm at a transition.
- `MissingMeansEmpty`: the gap query filters on UTC bounds a day wider than it needs
  and then groups by Paris date; it asks for exactly the days without a row.
- `OutcomeIsEarned` (`rte`): whatever the threads do to the token, a call is rejected
  only at its second 401 or by the endpoint; it is unavailable only when each of its
  attempts failed or the token endpoint was down; and nothing is sent after a definite
  answer.
- `RefreshIsForced`: after a 401 no request of the call leaves before a token was stored
  anew, by it or by another thread, though `_token` is read twice and others check, fetch
  and drop it in between. The endpoint may well give the rejected token again, as the
  tests have it do: what is promised is the question, not the answer.
- `FreshOnArrival`: the skew covers, together, the token's delivery (the expiry is
  counted from arrival), the longest pause between two writes, the request's own delay
  (the check precedes it) and what the token lives less than the longest-lived one, beside
  whose expiry it may stand.
- `CallEnds`: each call ends, with a refresh always paid for by an attempt.

**Bounds.** `concurrent`: one day, two keys, two values and a refused one, two
runs of two deliveries (so two queries of one run, and of two runs, overlap), two
stamps, two publications (a first answer and a revision), one fault. Two queries
are enough for every read/commit interleaving of a pair; the proofs cover any
number (1 696 792 states). `loads`: two days so that one can fail or be empty and the
other not; documents that do not parse are here, for both loaders (311 040 states).
`audit`: one storage type published both ways in the month, one period outside
it, a full answer and a revision, three ticks, one audit, and two events besides:
two builds, so that the second can move production under the audit or be read half
way, or one build and one failure (`MaxEvents` bounds them together; two builds and
a failure are left to the proofs). `MaxAge = 1` and `MinKept = 1` let expiry bite
within three ticks. With these every cause in `AlarmHasACause` occurs and both
verdicts are reached (805 024 states).
`client`: two threads, `Burst = 1` so that the bucket is empty, capped and in debt
within six ticks, four tokens: one more than burst plus threads, so that
`RequestsBounded` can fail (2 439 410 states). `stream`: one series (partitions do not interact), an
accepted and a refused value, three hours that cross midnight and reach the last
hour before the cut-off, two publications, two polls: one to fail and one to
follow (1 163 010 states). `gaps`: two days of lookback, so that one can block the other, and five
days, so that both leave the window; two changes of the platform (a day that does
not parse and one with rows), one fault. `days`: a clock that goes forward on day 0
and back on day 1, and days of four hours of two quarters, the shortest that hold a
transition and hours on both sides of it (a real day only adds hours alike); a
series by the quarter and two by the hour; whole days, first halves and the rest;
three publications and two fetches, so that a day can be fetched short and fetched
again, or two days be held and one of them be judged (193 444 states). `rte`: two
threads, since a token changes hands between two; two attempts, so that a 401 can come
first and last, and twice; lifetimes that outlive a skew of one tick by one tick and by
two, so that one may stand beside the other's expiry; three ticks, until the longest-lived
token is dead; one call each (813 074 states). The runs `absent`, `midflight` and the
other violations use the bounds of the passing run of their module or smaller ones.

**Deadlock** is not checked: all runs are finite histories that end when the
bounds are used up.

**Symmetry** is used for the two threads of `client` only, whose properties treat
them alike: keys play different roles in the documents.

**Fairness** (`loads`): weak fairness of each invocation's steps and each query's,
since a running Lambda and a running query go on or fail (a failure is a fault,
never forced), and of `Redeliver`: an event is sent again after an attempt that
died, as the retry policies promise until they are used up. The platform, the
clock and `Fire` get none.
`stream` has weak fairness of the process (`Run`): it is one thread, and fetch,
flush and sleep all time out. Broker, platform and clock get none.
`rte` has weak fairness of each caller's `Step`: the bucket lets every caller
through (`BoundedWait`) and httpx's timeout ends a request that is not answered.
Which answer comes, and the clock, are left open.

## 4. Where code and documentation disagree

The four violation runs; `findings` in `PROJECT.json` quotes each sentence.

1. `repeats`. `quality/bronze.py:105` says the merge makes duplicate identities
   impossible. It does between batches; within a batch nothing removes them, and
   the parser refuses a repeated position only within one Period.
2. `manifest`. The manifest's snapshot is read beside silver, not by it.
3. `absent`. ADR-0003 has every absent period recorded and nothing refused dropped.
   An RTE entry without values returns before its periods are looked for
   (`rte_parse.py:105-107`, against the comment at 134-136), and one refused as a whole
   is a violation that carries none of its values (93-103, 114-122).
4. `midflight`. `TOKEN_SKEW_SECONDS` is there "so a call never starts with a token that
   expires mid-flight" (`rte.py:28-29`). With two threads, a token stored at `rte.py:185`
   may be checked against an expiry stored at 187 for another, longer-lived one, and leave
   dead without any delay.

Three more disagreements can be read off one line and have no run:

- "violations, never dropped" (`docs/architecture.md:43-44`) is true of the ingest only:
  `lake/backfill.py:81` never looks at them, and keeps no document. (`Stage` of a backfill
  writes no quarantine; `IngestTraceable` is about the ingest.)
- The bound on early values is meant to refuse a value of a period that is not over
  (`records.py:77-79`); it compares with the start of the period. (`Acceptable`.)
- `RteUnavailable` says "Transient failures did not clear within the attempt budget"
  (`rte.py:51`). A token endpoint that answers anything but 200, 400 or 401 raises it at
  the first attempt (`rte.py:181-182`), and a first 401 at the last attempt, which is no
  transient failure, ends in it too (141-143, 165). (`OutcomeIsEarned` says what is true of it.)

Three sentences are looser than the code without being wrong of it:
a retry inserts nothing only when it fetched the same
(`RetryIsNoOp`); stamps arrive out of order, so a revision may be stamped before
what it revises (`Land` in `audit`, `StampOf` in `concurrent`); and `plan` pins the
production run but not the tables `compare` reads later (`AlarmHasACause` assumes
that production stood still).

## 5. What is proved

For every number of days, keys, values, runs, deliveries and faults, with the
constants' assumptions (`ConstantsOK`, `ParametersOK`, `SignOK` and those named below) only:

- `BronzeIngestProofs`, first of the ledger (`LedgerUniqueIdentity`,
  `LedgerNoPhantomRevision`: the second needs that a row's past is fixed, since
  snapshots only grow), then of `BronzeIngest!Spec`:
  - `TypeCorrect`;
  - `ImplementsLedger`, assuming `WellBehavedPlatform` (each document says one
    thing per period, about its own day: what run `repeats` shows to be needed).
    The invariant `SerialInv` adds to the types that documents in hand are well
    behaved, that a staged batch has one stamp, one value per key and stays in
    its window, and that every row's snapshot is in the log. The crux is
    `ReadIsCurrent`: a query that was not overtaken sees in its window what the
    table holds now;
  - `UniqueIdentityHolds`, `NoPhantomRevisionHolds`: the ledger's theorems,
    instantiated through the refinement;
  - `AcknowledgedIsStoredHolds`: bronze only grows, and the step that makes a
    query succeed stores each row or finds its value or identity (`CommitStores`);
  - `AcknowledgedIsCurrentHolds`, of a well-behaved platform: that step leaves what it staged current unless
    it was late (`CommitIsCurrent`: a row that was inserted is newer than the rest,
    one that was left out equals the newest, which by `ReadIsCurrent` is the newest
    of the current table and by `SerialInv` not outdone by the rest of its batch).
    It is the safety half of `CatchesUp`, which stays with TLC;
  - `IngestTraceableHolds`: an invariant that follows one document from the
    attempt (kept before gated, gated before staged) to the query it started and
    to the rows that query commits, which holds although the attempt may be gone;
  - `RetryIsNoOpHolds`: `OneLoad` says an ingest's stamp, document and query stay as
    they were once the query is started; `LoadsSettled` that what a commit staged is
    stored under its identity, or equals the newest version, for as long as only
    commits of the same run and stamp follow. A commit of the same document would
    then insert nothing (`LeftOutIsSettled`, from `ReadIsCurrent`).
- `RestatementAuditProofs`: `TypeCorrect` and `GreenIsReproducibleHolds`. The audit
  establishes by two comparisons at different moments something about a third:
  `ClocksHeld` says what the clock check proved survives bronze growing,
  `RestatedInside` that the rebuilt tables come from rows between the planned
  snapshot and the bound, `ComparedEqual` what the comparison has found so far.
  `EqualVersionsPinRows` closes it: if silver from those rows equals production's
  silver then no row beyond the snapshot took part.
  - `AsOfAgreesHolds`: the interval of a version holds a moment exactly when the
    version is the newest of those known then; a least later stamp exists because
    stamps are naturals.
  - `NothingLeftBehindHolds`: through every failure, tables remain only until a
    teardown that did not raise (`Swept`).
  - `AlarmHasACauseHolds`: commits are in order and nothing is stamped after its
    commit (`Clocked`), and every failed check so far is explained (`Explained`). The
    core is that silver and gold of a month are the month of silver and gold, so a
    restatement from the same rows gives the same three tables.
- `TokenBucketProofs`: `RateHolds` and `Queued` for every rate, burst and number of
  callers, under `BucketOK`. `RateHolds` alone is not inductive: `NextKeepsRate`
  says that the next slot (`NextSlot`, computed from the balance) keeps the rate
  with every slot handed out, and `NextIsLast` that whoever waits does so at least
  a token before it. `AcquireEffect` is the arithmetic of one `acquire`.
  `BoundedWait` follows from `QueueInv` by the waiter that wakes first among those
  still asleep.
- `EntsoeClientProofs`: `ClientUsesBucket`, the client's steps are the bucket's or
  leave it alone, so the bucket's theorems hold of it (`ClientKeepsRate`,
  `ClientQueues`, `ClientWaitsAreBounded`). `OutcomeIsEarnedHolds` needs `CallsInv`, which
  counts a call's requests by attempt. `RequestsBoundedAlways` needs
  `RequestsInv`: each request has its slot, the j-th to leave leaves no earlier
  than the j-th slot, and each caller has at most one slot it has not used.
  `Callers` must be finite.
- `RteClientProofs`, for any threads, attempts, lifetimes and skew: `OutcomeIsEarnedHolds`
  (`CallsOK`: the failures of a call are its attempts so far), `RefreshIsForcedHolds`
  (`Forced`: a call that dropped the token finds none, or one stored since, at whichever
  read it stands) and `FreshOnArrivalHolds`. The last rests on `Timely`: an expiry is never
  further off than the token at hand, which may not be its own, was stored plus the longest
  pause plus the longest lifetime less the skew, because a thread that is about to write an
  expiry has stored its token before, and whatever is there now was stored later.
- `GapBackfillProofs`: `SuccessLeavesNoGapHolds` and `HasItsTurnHolds`, from an invariant
  with a part per dag run (`RunOK`: the gaps it found hold the oldest day it can see
  unless bronze had it) and one per invocation (`CallOK`: which days of its range it
  is past and what it left of them).
- `DayCoverageProofs`: `RightTimeHolds`, `EachPeriodOnceHolds`,
  `MissingMeansEmptyHolds` and `GreenMeansCoveredHolds` for every day length,
  transition days and resolutions, as long as a resolution divides the hour
  (`CoverageOK`; the platform's are 15, 30 and 60 minutes). They rest on the
  settlement days tiling the axis and on `LocalDay` agreeing with them, transitions
  included. `EachPeriodOnceHolds` identifies the instants a Period spans with its
  positions (`GridOfPositions`) and its points with what was published at them
  (`PointsAreFigures`): what the gate takes, refuses and misses then divides the
  span (`GateTakesOnce`, `FetchOnce`). For RTE, an entry is read only if its values
  all span the same (`SpansOf`), so any that is read is of whole hours, of which the
  absent ones, October's repeated hour among them, are the gaps (`HourLongOnce`,
  `ValuesAreHourLong`); one with another span is refused (`MixedIsRefused`). `RteOnce`
  puts the kinds of entry together. `MidnightIsUnambiguous`: no local midnight is read
  twice, or never, for transitions on two different days at an hour past midnight.
- `StreamProducerProofs`: `ImplementsLog` and the four safety invariants of the run,
  for any series, values, refusals, cut-off, lag and number of polls (`ProducerOK`;
  that the cut-off is not past the horizon `MaxTime` only says `Init` is within the
  bounds). None is inductive alone; `IInv` adds:
  - `NobodyAhead` and `QueueInOrder`: the queue is in the order of the polls, and no
    message still in it has one of a later poll ahead of it in its series;
  - `Accounted`: each record a poll under way has fetched is still to be produced,
    in the queue, in its topic, or known to have failed. With an empty queue and no
    failure of its own only the topic is left, which is `PollIsWhole`;
  - `EveFirst`, `EveFetched`: the day before is fetched first, and once a poll is
    between the lag and the cut-off that day no longer changes (`EveFrozen`);
  - `Barrier`: what waits in the queue is younger than every poll that returned a
    summary. An error is news of a message that waited (`NewsFrom`), so none comes for such
    a poll: `NoLateFailure`. With `NobodyAhead` it is the guard of the abstract `Arrive`; with
    `PollIsWhole` after the step, a successful `Flush` is the abstract `Announce`
    and every other step leaves `Announced` alone (`AnnouncedSame`).

Each component's type invariant is proved with it (`TypeCorrect`). Every safety
property of a passing run, the two refinements included, is a theorem.

Left to TLC: liveness (`CatchesUp`, `StopIsHeeded`, `CallEnds`), which the provers do
not reach, and the violations.

## 6. Not modelled, and the plan

- Partly modelled: the RTE client and parser (not `total_matches_components`, a sum
  over a payload that only tests call, nor the check of the requested window); the
  quality checks (completeness is; the counts of the other query are the ledger's
  properties and the contract's); the audit schema's teardown (one task of the
  audit, not the sweep of leftovers from earlier runs by name and age).
- Left out of what is modelled: a crash of the broker (it may lose the last second of what
  it acknowledged); an event without a stamp that is retried on another day; resolutions
  that are no whole quarter hours; and whether four attempts of up to 60 s fit the ingest
  Lambda's 120 s (no model has both clocks; an invocation may die anywhere instead).
- Not modelled because there is nothing to check: token redaction (text), the
  stream's serialization (Avro encoding), packaging, style and table statistics
  scripts, terraform beyond schedules and retries, containers, CI, the smoke dag.

Planned, in this order:

1. The sweep of the audit schema beside an audit that is running.
2. The columns no filter reads (unit, resolution): a correction of one of them
   alone never reaches bronze.
