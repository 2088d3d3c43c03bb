--------------------------- MODULE StreamProducer ---------------------------
(* stream/producer.py: one process that polls the platform and publishes    *)
(* every record and every refusal of the day, or days, in play.  Time is in *)
(* hours.  A record's key in the topic is its series; topics.py gives each  *)
(* series one partition.                                                    *)
(*                                                                          *)
(* External: the platform (Publish), the client library's background thread *)
(* and the broker (Deliver, Refuse), the container runtime (Kill, Restart). *)
EXTENDS Integers, Sequences, FiniteSets

CONSTANTS
  Series, Values,
  Refused,              \* values the contract refuses
  HoursPerDay,
  YesterdayUntilHour,   \* YESTERDAY_UNTIL_HOUR
  Lag,                  \* hours after midnight until a day is all published
  MaxTime, MaxPublications, MaxPolls,
  None                  \* nothing published yet

ASSUME ProducerOK ==
  /\ HoursPerDay \in Nat \ {0} /\ YesterdayUntilHour \in 0 .. HoursPerDay - 1
  /\ Lag \in Nat /\ MaxTime \in Nat /\ YesterdayUntilHour <= MaxTime
  /\ MaxPublications \in Nat /\ MaxPolls \in Nat
  /\ None \notin Values /\ Refused \subseteq Values

VARIABLES
  now,
  shown,        \* what the platform says of each day
  publications,
  once,         \* --once
  stopping,     \* a SIGTERM or SIGINT was received
  pc,           \* where run is
  days,         \* days this poll has still to fetch
  left,         \* records of the fetched day still to be produced
  queue,        \* produced, not reported on by the client library
  reports,      \* messages given up on whose callback has not run
  failures,     \* messages whose callback was told of an error
  observations, \* the topics
  quarantine,
  polls         \* history of the polls begun

platform == <<now, shown, publications>>
broker == <<observations, quarantine>>
process == <<once, stopping, pc, days, left, queue, reports, failures, polls>>
vars == <<platform, broker, process>>

Days == 0 .. MaxTime \div HoursPerDay
DayAt(hour) == hour \div HoursPerDay
Record == [day : Days, series : Series, value : Values]
Message == [poll : 1 .. MaxPolls, rec : Record]
Outcomes == {"none", "ok", "unsent", "refused", "raised"}
Steps == {"ready", "fetch", "produce", "flush", "closing", "ended"}

(* The process starts on a day whose eve is out of play.                    *)
Init ==
  /\ now = YesterdayUntilHour
  /\ shown = [d \in Days |-> [s \in Series |-> None]]
  /\ publications = 0
  /\ once \in BOOLEAN
  /\ stopping = FALSE
  /\ pc = "ready"
  /\ days = <<>> /\ left = {}
  /\ queue = <<>> /\ reports = {} /\ failures = {}
  /\ observations = [s \in Series |-> <<>>]
  /\ quarantine = {}
  /\ polls = <<>>

-----------------------------------------------------------------------------
(* The platform.                                                            *)
Tick ==
  /\ now < MaxTime
  /\ now' = now + 1
  /\ UNCHANGED <<shown, publications, broker, process>>

(* A value appears or changes, up to Lag hours into the next day.           *)
Publish(d, s, v) ==
  /\ d <= DayAt(now)
  /\ now < (d + 1) * HoursPerDay + Lag
  /\ publications < MaxPublications
  /\ shown[d][s] # v
  /\ shown' = [shown EXCEPT ![d][s] = v]
  /\ publications' = publications + 1
  /\ UNCHANGED <<now, broker, process>>

-----------------------------------------------------------------------------
(* run and poll_once.                                                       *)
Current == Len(polls)

(* Faulty variant: the loop does not look at the flag.                      *)
GoesOnForever == TRUE

GoesOn == ~stopping

(* Faulty variants: only today is in play; tomorrow is, not yesterday.      *)
DaysToPollToday(hour) == <<DayAt(hour)>>
DaysToPollAhead(hour) == <<DayAt(hour), DayAt(hour) + 1>>

DaysToPoll(hour) ==
  IF hour % HoursPerDay < YesterdayUntilHour
  THEN <<DayAt(hour) - 1, DayAt(hour)>>
  ELSE <<DayAt(hour)>>

BeginPoll ==
  /\ pc = "ready" /\ GoesOn
  /\ Current < MaxPolls
  /\ pc' = "fetch"
  /\ days' = DaysToPoll(now)
  /\ left' = {}
  /\ polls' = Append(polls, [at |-> now, fetched |-> {}, outcome |-> "none"])
  /\ UNCHANGED <<platform, broker, once, stopping, queue, reports, failures>>

RecordsOf(d) ==
  {r \in Record : r.day = d /\ shown[d][r.series] = r.value}

(* A day the platform has nothing for is noted and passed over.             *)
Fetch ==
  /\ pc = "fetch" /\ days # <<>>
  /\ days' = Tail(days)
  /\ left' = RecordsOf(Head(days))
  /\ pc' = IF left' = {} THEN "fetch" ELSE "produce"
  /\ polls' = [polls EXCEPT ![Current].fetched = @ \cup left']
  /\ UNCHANGED <<platform, broker, once, stopping, queue, reports, failures>>

(* The callbacks of all reports run: each closes over the failures of the   *)
(* poll that produced its message, and does nothing without an error.       *)
Served ==
  /\ reports' = {}
  /\ failures' = failures \cup reports

(* One record, then producer.poll(0); the refusals follow the records and   *)
(* are not followed by a poll(0).                                           *)
Produce(r) ==
  /\ pc = "produce" /\ r \in left
  /\ queue' = Append(queue, [poll |-> Current, rec |-> r])
  /\ left' = left \ {r}
  /\ pc' = IF left' = {} THEN "fetch" ELSE "produce"
  /\ IF r.value \in Refused
     THEN /\ \A o \in left : o.value \in Refused
          /\ UNCHANGED <<reports, failures>>
     ELSE Served
  /\ UNCHANGED <<platform, broker, once, stopping, days, polls>>

StartFlush ==
  /\ pc = "fetch" /\ days = <<>>
  /\ pc' = "flush"
  /\ UNCHANGED <<platform, broker, once, stopping, days, left, queue, reports,
                 failures, polls>>

(* Where run goes after a poll: an exception of --once leaves at once.      *)
After(outcome) ==
  /\ polls' = [polls EXCEPT ![Current].outcome = outcome]
  /\ pc' = IF ~once THEN "ready" ELSE IF outcome = "ok" THEN "closing" ELSE "ended"
  /\ days' = <<>> /\ left' = {}

(* Faulty variants: what is unsent does not count, or only this poll's own  *)
(* does.                                                                    *)
VerdictOfCallbacks(unsent, failed) ==
  IF \E f \in failed : f.poll = Current THEN "refused" ELSE "ok"
VerdictOfOwn(unsent, failed) ==
  IF \E i \in DOMAIN queue : queue[i].poll = Current THEN "unsent"
  ELSE IF \E f \in failed : f.poll = Current THEN "refused" ELSE "ok"
Verdict(unsent, failed) ==
  IF unsent > 0 THEN "unsent"
  ELSE IF \E f \in failed : f.poll = Current THEN "refused" ELSE "ok"

(* flush serves reports until nothing is left or its time is up; a report   *)
(* it comes too late for is one that arrives after it.                      *)
Flush ==
  /\ pc = "flush"
  /\ Served
  /\ After(Verdict(Len(queue), failures'))
  /\ UNCHANGED <<platform, broker, once, stopping, queue>>

(* The client, the parser, encode or produce raises.                        *)
Raise ==
  /\ pc \in {"fetch", "produce"}
  /\ After("raised")
  /\ UNCHANGED <<platform, broker, once, stopping, queue, reports, failures>>

Leave ==
  /\ pc = "ready" /\ ~GoesOn
  /\ pc' = "closing"
  /\ UNCHANGED <<platform, broker, once, stopping, days, left, queue, reports,
                 failures, polls>>

(* The last flush; what it returns is not looked at.                        *)
End ==
  /\ pc = "closing"
  /\ Served
  /\ pc' = "ended"
  /\ UNCHANGED <<platform, broker, once, stopping, days, left, queue, polls>>

Signal ==
  /\ pc # "ended" /\ ~stopping
  /\ stopping' = TRUE
  /\ UNCHANGED <<platform, broker, once, pc, days, left, queue, reports,
                 failures, polls>>

-----------------------------------------------------------------------------
(* The broker, the library's thread and the container runtime.  Retries are *)
(* idempotent, so nothing arrives twice; a message given up on may have     *)
(* arrived all the same.  What the broker acknowledged it keeps: the compose*)
(* file starts it without fsync, so a crash of its machine, which may cost  *)
(* the last second, is left out.                                            *)
SamePartitionNever(m, o) == FALSE   \* faulty: no key

(* The key of a record is its series; refusals have a topic of their own.   *)
SamePartition(m, o) ==
  /\ m.rec.series = o.rec.series
  /\ {m.rec.value, o.rec.value} \cap Refused = {}

(* No earlier message of its partition is still waiting.                    *)
Sendable(i) ==
  \A j \in 1 .. i - 1 : ~SamePartition(queue[i], queue[j])

Stored(m) ==
  IF m.rec.value \in Refused
  THEN /\ quarantine' = quarantine \cup {m}
       /\ UNCHANGED observations
  ELSE /\ observations' = [observations EXCEPT ![m.rec.series] = Append(@, m)]
       /\ UNCHANGED quarantine

Reported(i, errors) ==
  /\ Sendable(i)
  /\ queue' = SubSeq(queue, 1, i - 1) \o SubSeq(queue, i + 1, Len(queue))
  /\ reports' = reports \cup errors
  /\ UNCHANGED <<platform, once, stopping, pc, days, left, failures, polls>>

(* What a process that is no more had sent may still land.                  *)
Deliver(i) ==
  /\ Reported(i, {})
  /\ Stored(queue[i])

Refuse(i) ==
  /\ pc # "ended"
  /\ Reported(i, {queue[i]})
  /\ Stored(queue[i]) \/ UNCHANGED broker

Kill ==
  /\ pc # "ended"
  /\ pc' = "ended"
  /\ days' = <<>> /\ left' = {} /\ reports' = {}
  /\ UNCHANGED <<platform, broker, once, stopping, queue, failures, polls>>

(* "restart: unless-stopped", of a process that nobody stopped.  It starts  *)
(* after the last request of the old one: what did not land by then is gone.*)
Restart ==
  /\ pc = "ended" /\ ~stopping /\ ~once
  /\ pc' = "ready"
  /\ queue' = <<>>
  /\ UNCHANGED <<platform, broker, once, stopping, days, left, reports, failures,
                 polls>>

-----------------------------------------------------------------------------
Run ==
  \/ BeginPoll
  \/ Fetch
  \/ \E r \in left : Produce(r)
  \/ StartFlush
  \/ Flush
  \/ Raise
  \/ Leave
  \/ End

Next ==
  \/ Tick
  \/ \E d \in Days, s \in Series, v \in Values : Publish(d, s, v)
  \/ Run
  \/ Signal
  \/ \E i \in DOMAIN queue : Deliver(i) \/ Refuse(i)
  \/ Kill
  \/ Restart

(* The process is one thread that nothing blocks: fetch, flush and sleep    *)
(* all time out.                                                            *)
Spec == Init /\ [][Next]_vars /\ WF_vars(Run)

-----------------------------------------------------------------------------
TypeOK ==
  /\ now \in 0 .. MaxTime
  /\ shown \in [Days -> [Series -> Values \cup {None}]]
  /\ publications \in 0 .. MaxPublications
  /\ once \in BOOLEAN /\ stopping \in BOOLEAN
  /\ pc \in Steps
  /\ days \in Seq(Days) /\ left \subseteq Record
  /\ queue \in Seq(Message)
  /\ reports \subseteq Message /\ failures \subseteq Message
  /\ quarantine \subseteq Message
  /\ observations \in [Series -> Seq(Message)]
  /\ polls \in Seq([at : Nat, fetched : SUBSET Record, outcome : Outcomes])

(* The message is in the topic it was meant for.                            *)
IsIn(m) ==
  IF m.rec.value \in Refused THEN m \in quarantine
  ELSE \E i \in DOMAIN observations[m.rec.series] :
         observations[m.rec.series][i] = m

(* A poll that returns a summary left everything it fetched in the topics,  *)
(* refusals included, whatever earlier polls left in the queue (poll_once). *)
PollIsWhole ==
  \A n \in DOMAIN polls : polls[n].outcome = "ok" =>
    \A r \in polls[n].fetched : IsIn([poll |-> n, rec |-> r])

(* "The last periods of a day are published after midnight, so the previous *)
(* day stays in the poll" (YESTERDAY_UNTIL_HOUR): one poll that succeeds    *)
(* once a day is all published, before the cut-off, has all of it.          *)
YesterdayCompleted ==
  \A n \in DOMAIN polls :
    LET hour == polls[n].at % HoursPerDay
        yesterday == DayAt(polls[n].at) - 1
    IN  (polls[n].outcome = "ok" /\ Lag <= hour /\ hour < YesterdayUntilHour) =>
          \A r \in RecordsOf(yesterday) : IsIn([poll |-> n, rec |-> r])

(* "Each series stays in one partition, so its order holds" (topics.py):    *)
(* leftovers of a failed poll never overtake, or fall behind, a later poll. *)
SeriesInOrder ==
  \A s \in Series : \A i, j \in DOMAIN observations[s] :
    i < j => observations[s][i].poll <= observations[s][j].poll

(* A summary is never taken back: no callback of an announced poll is told, *)
(* or will be told, of an error, for flush has reported on every message    *)
(* the poll produced before poll_once looks at its failures.                *)
NoLateFailure ==
  \A n \in DOMAIN polls : polls[n].outcome = "ok" =>
    \A m \in failures \cup reports : m.poll # n

(* What a reader of the topics may rely on: a summary is a barrier.  flush  *)
(* empties the queue, an earlier poll's leftovers included, before a poll   *)
(* is announced, so nothing old appears behind it (poll_once).              *)
Announced ==
  {[poll |-> n, records |-> polls[n].fetched] :
     n \in {k \in DOMAIN polls : polls[k].outcome = "ok"}}

Log == INSTANCE SeriesLog
         WITH Polls <- 1 .. MaxPolls, log <- observations,
              refusals <- quarantine, announced <- Announced

LogSpec == Log!Spec

(* A signal stops the process, whatever the poll is waiting for (run).      *)
StopIsHeeded == []<>(stopping => pc = "ended")
=============================================================================
