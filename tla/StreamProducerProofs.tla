------------------------ MODULE StreamProducerProofs ------------------------
(* Theorems about StreamProducer, for any series, values, hours of a day,   *)
(* cut-off, number of polls and interleaving with the broker.               *)
EXTENDS StreamProducer, SequenceTheorems, TLAPS

-----------------------------------------------------------------------------
(* Hours and days.                                                          *)
LEMMA Constants ==
  /\ HoursPerDay \in Nat \ {0} /\ YesterdayUntilHour \in Nat
  /\ YesterdayUntilHour < HoursPerDay /\ YesterdayUntilHour <= MaxTime
  /\ Lag \in Nat /\ MaxTime \in Nat /\ MaxPolls \in Nat
  /\ MaxPublications \in Nat /\ None \notin Values
  BY ProducerOK

LEMMA Division ==
  ASSUME NEW x \in Nat, NEW L \in Nat \ {0}
  PROVE  /\ x \div L \in Nat /\ x % L \in Nat /\ x % L < L
         /\ (x \div L) * L \in Nat
         /\ x = (x \div L) * L + (x % L)
         /\ (x \div L) * L <= x
         /\ x < (x \div L) * L + L
         /\ x \div L = 0 => x = x % L
<1>1. PICK q \in Int : q = x \div L
  OBVIOUS
<1>2. PICK r \in Int : r = x % L
  OBVIOUS
<1>3. q * L <= x /\ x < (q + 1) * L
  BY <1>1
<1>4. r \in Nat /\ r < L /\ x = q * L + r
  BY <1>1, <1>2
<1>5. q \in Nat
  BY <1>1
<1>6. q * L \in Nat /\ (q + 1) * L = q * L + L
  BY <1>5
<1>7. x < q * L + L
  BY <1>3, <1>6
<1>8. q = 0 => x = r
  BY <1>4
<1>9. (x \div L) * L = q * L /\ x % L = r /\ x \div L = q
  BY <1>1, <1>2
<1>10. (x \div L) * L \in Nat /\ x \div L \in Nat
  BY <1>5, <1>6, <1>9, Zenon
<1>11. x % L \in Nat /\ x % L < L
  BY <1>4, <1>9, Zenon
<1>12. x = (x \div L) * L + (x % L)
  <2>1. \A a, b \in Int : (a = q /\ b = r) => x = a * L + b
    BY <1>4
  <2>2. x \div L \in Int /\ x % L \in Int
    OBVIOUS
  <2> QED
    BY <1>9, <2>1, <2>2, Zenon
<1>13. (x \div L) * L <= x
  BY <1>3, <1>9, Zenon
<1>14. x < (x \div L) * L + L
  BY <1>7, <1>9, Zenon
<1>15. x \div L = 0 => x = x % L
  BY <1>8, <1>9, Zenon
<1> QED
  BY <1>10, <1>11, <1>12, <1>13, <1>14, <1>15, Zenon

LEMMA DayOfHour ==
  ASSUME NEW x \in Nat
  PROVE  /\ DayAt(x) \in Nat /\ x % HoursPerDay \in Nat
         /\ DayAt(x) * HoursPerDay \in Nat
         /\ x = DayAt(x) * HoursPerDay + (x % HoursPerDay)
         /\ x % HoursPerDay < HoursPerDay
         /\ DayAt(x) * HoursPerDay <= x
         /\ x < DayAt(x) * HoursPerDay + HoursPerDay
         /\ DayAt(x) = 0 => x = x % HoursPerDay
  BY Division, Constants DEF DayAt

LEMMA DayInRange ==
  ASSUME NEW x \in Nat, x <= MaxTime
  PROVE  DayAt(x) \in Days
<1> DEFINE a == DayAt(x)
           b == DayAt(MaxTime)
<1>1. /\ a \in Nat /\ b \in Nat
      /\ a * HoursPerDay <= x /\ MaxTime < b * HoursPerDay + HoursPerDay
      /\ a * HoursPerDay \in Nat /\ b * HoursPerDay \in Nat
  BY DayOfHour, Constants
<1> HIDE DEF a, b
<1>2. ASSUME b < a PROVE FALSE
  <2>1. PICK k \in Nat : a = b + 1 + k
    <3>1. a - b - 1 \in Nat /\ a = b + 1 + (a - b - 1)
      BY <1>1, <1>2
    <3> QED
      BY <3>1
  <2>2. k * HoursPerDay \in Nat
    BY Constants
  <2>3. a * HoursPerDay = b * HoursPerDay + HoursPerDay + k * HoursPerDay
    BY <1>1, <2>1, Constants
  <2> QED
    BY <1>1, <2>2, <2>3, Constants
<1>3. a \in 0 .. b
  BY <1>1, <1>2
<1> QED
  BY <1>3 DEF a, b, Days, DayAt

(* The days of a poll are days of the model, its eve included.              *)
LEMMA PolledDays ==
  ASSUME NEW x \in Nat, x <= MaxTime, YesterdayUntilHour <= x
  PROVE  /\ DaysToPoll(x) \in Seq(Days)
         /\ x % HoursPerDay < YesterdayUntilHour =>
              /\ DayAt(x) - 1 \in Days
              /\ DaysToPoll(x) # <<>> /\ Head(DaysToPoll(x)) = DayAt(x) - 1
<1>1. DayAt(x) \in Days /\ DayAt(x) \in Nat
  BY DayInRange, DayOfHour
<1>2. ASSUME x % HoursPerDay < YesterdayUntilHour
      PROVE  DayAt(x) - 1 \in Days
  <2>1. DayAt(x) # 0
    BY <1>2, DayOfHour, Constants
  <2>2. PICK last \in Int : last = MaxTime \div HoursPerDay
    BY Constants
  <2>3. DayAt(x) \in 0 .. last
    BY <1>1, <2>2 DEF Days
  <2>4. DayAt(x) - 1 \in 0 .. last
    BY <1>1, <2>1, <2>3
  <2> QED
    BY <2>2, <2>4 DEF Days
<1>3. CASE x % HoursPerDay < YesterdayUntilHour
  <2> DEFINE eve == DayAt(x) - 1
             day == DayAt(x)
  <2>1. eve \in Days /\ day \in Days /\ DaysToPoll(x) = <<eve, day>>
    BY <1>1, <1>2, <1>3 DEF DaysToPoll
  <2> HIDE DEF eve, day
  <2>2. /\ <<eve, day>> \in Seq(Days) /\ Len(<<eve, day>>) = 2
        /\ <<eve, day>> # <<>> /\ Head(<<eve, day>>) = eve
    BY <2>1
  <2> QED
    BY <2>1, <2>2 DEF eve
<1>4. CASE ~(x % HoursPerDay < YesterdayUntilHour)
  BY <1>1, <1>4 DEF DaysToPoll
<1> QED
  BY <1>3, <1>4

-----------------------------------------------------------------------------
(* The inductive invariant.  Where a poll under way stands.                 *)
Polling == pc \in {"fetch", "produce", "flush"}

StepsOK ==
  /\ YesterdayUntilHour <= now
  /\ Len(polls) <= MaxPolls
  /\ Polling => (polls # <<>> /\ polls[Current].outcome = "none")
  /\ pc # "produce" => left = {}
  /\ pc = "flush" => days = <<>>
  /\ \A n \in DOMAIN polls : polls[n].at \in YesterdayUntilHour .. now

(* The queue is in the order of the polls, and no message of a poll is in a *)
(* topic before one of an earlier poll that still waits in the queue.       *)
QueueInOrder ==
  \A i, j \in DOMAIN queue : i < j => queue[i].poll <= queue[j].poll

NobodyAhead ==
  \A i \in DOMAIN queue : queue[i].rec.value \notin Refused =>
    \A k \in DOMAIN observations[queue[i].rec.series] :
      observations[queue[i].rec.series][k].poll <= queue[i].poll

NothingFromLater ==
  /\ \A i \in DOMAIN queue : queue[i].poll <= Current
  /\ \A s \in Series : \A k \in DOMAIN observations[s] :
       observations[s][k].poll <= Current

Ordered == QueueInOrder /\ NobodyAhead /\ NothingFromLater /\ SeriesInOrder

(* Where a record of the poll under way may be: nothing fetched is lost     *)
(* sight of before the verdict.                                             *)
Waiting(m) == \E i \in DOMAIN queue : queue[i] = m

Traced(r) ==
  LET m == [poll |-> Current, rec |-> r]
  IN  \/ r \in left \/ Waiting(m) \/ IsIn(m)
      \/ m \in reports \/ m \in failures

Accounted == Polling => \A r \in polls[Current].fetched : Traced(r)

(* A poll made between Lag and the cut-off fetches the finished eve first.  *)
Yesterday(n) == DayAt(polls[n].at) - 1

Watched(n) ==
  /\ Lag <= polls[n].at % HoursPerDay
  /\ polls[n].at % HoursPerDay < YesterdayUntilHour

HasYesterday(n) == RecordsOf(Yesterday(n)) \subseteq polls[n].fetched

EveFirst ==
  (Polling /\ Watched(Current)) =>
    (days # <<>> /\ Head(days) = Yesterday(Current)) \/ HasYesterday(Current)

EveFetched ==
  \A n \in DOMAIN polls :
    (polls[n].outcome = "ok" /\ Watched(n)) => HasYesterday(n)

(* A summary is a barrier: nothing of its poll, or of one before it, waits. *)
Barrier ==
  \A n \in DOMAIN polls : polls[n].outcome = "ok" =>
    \A i \in DOMAIN queue : n < queue[i].poll

IInv ==
  TypeOK /\ StepsOK /\ Ordered /\ Accounted /\ PollIsWhole /\ EveFirst
  /\ EveFetched /\ NoLateFailure /\ Barrier

-----------------------------------------------------------------------------
(* A sequence without its i-th element.                                     *)
Without(q, i) == SubSeq(q, 1, i - 1) \o SubSeq(q, i + 1, Len(q))

LEMMA WithoutOne ==
  ASSUME NEW S, NEW q \in Seq(S), NEW i \in DOMAIN q
  PROVE  /\ Without(q, i) \in Seq(S)
         /\ Len(Without(q, i)) = Len(q) - 1
         /\ \A k \in 1 .. Len(q) - 1 :
              Without(q, i)[k] = IF k < i THEN q[k] ELSE q[k + 1]
<1> DEFINE n == Len(q)
           s == SubSeq(q, 1, i - 1)
           t == SubSeq(q, i + 1, n)
<1>1. n \in Nat /\ i \in 1 .. n /\ \A k \in 1 .. n : q[k] \in S
  BY LenProperties, ElementOfSeq
<1>2. /\ s \in Seq(S) /\ Len(s) = i - 1
      /\ \A k \in 1 .. i - 1 : s[k] = q[k]
  <2>1. /\ 1 \in Int /\ i - 1 \in Int
        /\ \A k \in 1 .. i - 1 : q[k] \in S
    BY <1>1
  <2>2. /\ s \in Seq(S) /\ Len(s) = IF 1 <= i - 1 THEN (i - 1) - 1 + 1 ELSE 0
        /\ \A k \in 1 .. (i - 1) - 1 + 1 : s[k] = q[1 + k - 1]
    BY <2>1, SubSeqProperties
  <2> QED
    BY <1>1, <2>2
<1>3. /\ t \in Seq(S) /\ Len(t) = n - i
      /\ \A k \in 1 .. n - i : t[k] = q[i + k]
  <2>1. /\ i + 1 \in Int /\ n \in Int
        /\ \A k \in i + 1 .. n : q[k] \in S
    BY <1>1
  <2>2. /\ t \in Seq(S) /\ Len(t) = IF i + 1 <= n THEN n - (i + 1) + 1 ELSE 0
        /\ \A k \in 1 .. n - (i + 1) + 1 : t[k] = q[i + 1 + k - 1]
    BY <2>1, SubSeqProperties
  <2> QED
    BY <1>1, <2>2
<1> HIDE DEF s, t, n
<1>4. /\ s \o t \in Seq(S) /\ Len(s \o t) = Len(s) + Len(t)
      /\ \A k \in 1 .. Len(s) + Len(t) :
           (s \o t)[k] = IF k <= Len(s) THEN s[k] ELSE t[k - Len(s)]
  BY <1>2, <1>3, ConcatProperties
<1>5. ASSUME NEW k \in 1 .. n - 1
      PROVE  (s \o t)[k] = IF k < i THEN q[k] ELSE q[k + 1]
  <2>1. k \in 1 .. Len(s) + Len(t) /\ Len(s) = i - 1
    BY <1>1, <1>2, <1>3
  <2>2. CASE k < i
    <3>1. k <= Len(s) /\ k \in 1 .. i - 1
      BY <1>1, <2>1, <2>2
    <3>2. (s \o t)[k] = s[k]
      BY <1>4, <2>1, <3>1
    <3> QED
      BY <1>2, <2>2, <3>1, <3>2
  <2>3. CASE ~(k < i)
    <3>1. /\ ~(k <= Len(s)) /\ k - Len(s) \in 1 .. n - i
          /\ i + (k - Len(s)) = k + 1
      BY <1>1, <2>1, <2>3
    <3>2. (s \o t)[k] = t[k - Len(s)]
      BY <1>4, <2>1, <3>1
    <3>3. t[k - Len(s)] = q[i + (k - Len(s))]
      BY <1>3, <3>1
    <3> QED
      BY <2>3, <3>1, <3>2, <3>3
  <2> QED
    BY <2>2, <2>3
<1>6. Without(q, i) = s \o t
  BY DEF Without, s, t, n
<1>7. Len(s) + Len(t) = n - 1
  BY <1>1, <1>2, <1>3
<1> QED
  BY <1>4, <1>5, <1>6, <1>7 DEF n

-----------------------------------------------------------------------------
(* The types.                                                               *)
Poll == [at : Nat, fetched : SUBSET Record, outcome : Outcomes]

LEMMA InitHolds == Init => IInv
<1> SUFFICES ASSUME Init PROVE IInv
  OBVIOUS
<1>1. TypeOK
  <2>1. polls \in Seq(Poll) /\ queue \in Seq(Message) /\ days \in Seq(Days)
    BY DEF Init
  <2>2. shown \in [Days -> [Series -> Values \cup {None}]]
    BY DEF Init
  <2>3. observations \in [Series -> Seq(Message)]
    BY DEF Init
  <2>4. now \in 0 .. MaxTime /\ publications \in 0 .. MaxPublications
    BY Constants DEF Init
  <2>5. /\ once \in BOOLEAN /\ stopping \in BOOLEAN /\ pc \in Steps
        /\ left \subseteq Record /\ failures \subseteq Message
        /\ reports \subseteq Message /\ quarantine \subseteq Message
    BY DEF Init, Steps
  <2> QED
    BY <2>1, <2>2, <2>3, <2>4, <2>5, Zenon DEF TypeOK, Poll
<1>2. polls = <<>> /\ DOMAIN polls = {} /\ ~Polling
  BY DEF Init, Polling
<1>3. StepsOK
  BY <1>2, Constants DEF Init, StepsOK
<1>4. Ordered
  <2>1. DOMAIN queue = {} /\ \A s \in Series : DOMAIN observations[s] = {}
    BY DEF Init
  <2> QED
    BY <2>1 DEF Ordered, QueueInOrder, NobodyAhead, NothingFromLater,
                SeriesInOrder
<1>5. /\ Accounted /\ PollIsWhole /\ EveFirst /\ EveFetched /\ NoLateFailure
      /\ Barrier
  BY <1>2 DEF Accounted, PollIsWhole, EveFirst, EveFetched, NoLateFailure,
             Barrier
<1> QED
  BY <1>1, <1>3, <1>4, <1>5 DEF IInv

LEMMA PollTypes ==
  ASSUME TypeOK
  PROVE  /\ polls \in Seq(Poll) /\ Current \in Nat
         /\ DOMAIN polls = 1 .. Current
         /\ \A n \in DOMAIN polls : polls[n] \in Poll
<1>1. polls \in Seq(Poll)
  BY Zenon DEF TypeOK, Poll
<1> HIDE DEF Poll
<1> QED
  BY <1>1, LenProperties, ElementOfSeq DEF Current

LEMMA CurrentPoll ==
  ASSUME TypeOK, polls # <<>>
  PROVE  /\ Current \in DOMAIN polls /\ Current \in Nat
         /\ DOMAIN polls = 1 .. Current
         /\ polls[Current] \in Poll
<1>1. Current \in Nat \ {0}
  BY PollTypes, EmptySeq DEF Current
<1>2. Current \in DOMAIN polls
  BY <1>1, PollTypes
<1> QED
  BY <1>1, <1>2, PollTypes

(* A change of the poll under way leaves the earlier ones alone.            *)
LEMMA ChangedPoll ==
  ASSUME TypeOK, polls # <<>>, NEW p \in Poll,
         polls' = [polls EXCEPT ![Current] = p]
  PROVE  /\ polls' \in Seq(Poll) /\ Current' = Current
         /\ DOMAIN polls' = DOMAIN polls
         /\ \A n \in DOMAIN polls : polls'[n] = IF n = Current THEN p ELSE polls[n]
<1>1. polls \in Seq(Poll) /\ Current \in 1 .. Len(polls)
  BY CurrentPoll, PollTypes DEF Current
<1>2. /\ polls' \in Seq(Poll) /\ Len(polls') = Len(polls)
      /\ \A n \in 1 .. Len(polls) : polls'[n] = IF n = Current THEN p ELSE polls[n]
  BY <1>1, ExceptSeq
<1> QED
  BY <1>1, <1>2, LenProperties DEF Current

LEMMA SetOutcome ==
  ASSUME TypeOK, polls # <<>>, NEW o \in Outcomes,
         polls' = [polls EXCEPT ![Current].outcome = o]
  PROVE  /\ polls' \in Seq(Poll) /\ Current' = Current
         /\ DOMAIN polls' = DOMAIN polls
         /\ \A n \in DOMAIN polls :
              /\ polls'[n].at = polls[n].at
              /\ polls'[n].fetched = polls[n].fetched
              /\ polls'[n].outcome = IF n = Current THEN o ELSE polls[n].outcome
<1> DEFINE p == [polls[Current] EXCEPT !.outcome = o]
<1>1. polls[Current] \in Poll
  BY CurrentPoll
<1>2. /\ p \in Poll /\ p.at = polls[Current].at
      /\ p.fetched = polls[Current].fetched /\ p.outcome = o
  BY <1>1 DEF Poll
<1>3. polls' = [polls EXCEPT ![Current] = p]
  OBVIOUS
<1> HIDE DEF p
<1> QED
  BY <1>2, <1>3, ChangedPoll

LEMMA AddFetched ==
  ASSUME TypeOK, polls # <<>>, NEW R \in SUBSET Record,
         polls' = [polls EXCEPT ![Current].fetched = @ \cup R]
  PROVE  /\ polls' \in Seq(Poll) /\ Current' = Current
         /\ DOMAIN polls' = DOMAIN polls
         /\ \A n \in DOMAIN polls :
              /\ polls'[n].at = polls[n].at
              /\ polls'[n].outcome = polls[n].outcome
              /\ polls'[n].fetched =
                   IF n = Current THEN polls[n].fetched \cup R ELSE polls[n].fetched
<1> DEFINE p == [polls[Current] EXCEPT !.fetched = polls[Current].fetched \cup R]
<1>1. polls[Current] \in Poll
  BY CurrentPoll
<1>2. /\ p \in Poll /\ p.at = polls[Current].at
      /\ p.fetched = polls[Current].fetched \cup R
      /\ p.outcome = polls[Current].outcome
  BY <1>1 DEF Poll
<1>3. polls' = [polls EXCEPT ![Current] = p]
  OBVIOUS
<1> HIDE DEF p
<1> QED
  BY <1>2, <1>3, ChangedPoll

LEMMA PollBegun ==
  ASSUME TypeOK, StepsOK, BeginPoll
  PROVE  /\ polls' \in Seq(Poll) /\ Current' = Current + 1 /\ Current \in Nat
         /\ DOMAIN polls = 1 .. Current /\ DOMAIN polls' = 1 .. Current + 1
         /\ Current + 1 <= MaxPolls
         /\ \A n \in DOMAIN polls : polls'[n] = polls[n]
         /\ polls'[Current + 1] = [at |-> now, fetched |-> {}, outcome |-> "none"]
<1> DEFINE p == [at |-> now, fetched |-> {}, outcome |-> "none"]
<1>1. now \in Nat
  BY Constants DEF TypeOK
<1>2. p \in Poll
  BY <1>1 DEF Poll, Outcomes
<1>3. polls' = Append(polls, p)
  BY DEF BeginPoll
<1> HIDE DEF p
<1>4. /\ polls' \in Seq(Poll) /\ Len(polls') = Len(polls) + 1
      /\ \A n \in 1 .. Len(polls) : polls'[n] = polls[n]
      /\ polls'[Len(polls) + 1] = p
  BY <1>2, <1>3, PollTypes, AppendProperties
<1>5. Current \in Nat /\ Current < MaxPolls /\ DOMAIN polls = 1 .. Current
  BY PollTypes DEF BeginPoll
<1>6. Current' = Current + 1 /\ DOMAIN polls' = 1 .. Current + 1
  BY <1>4, LenProperties DEF Current
<1> QED
  BY <1>4, <1>5, <1>6, Constants DEF Current, p

-----------------------------------------------------------------------------
(* What the client library's thread does to the queue and the topics.       *)
LEMMA Queued ==
  ASSUME TypeOK
  PROVE  /\ queue \in Seq(Message) /\ DOMAIN queue = 1 .. Len(queue)
         /\ Len(queue) \in Nat
         /\ \A i \in DOMAIN queue :
              /\ queue[i] \in Message
              /\ queue[i].poll \in 1 .. MaxPolls /\ queue[i].rec \in Record
              /\ queue[i].rec.series \in Series
<1>1. queue \in Seq(Message)
  BY DEF TypeOK
<1>2. \A i \in DOMAIN queue : queue[i] \in Message
  BY <1>1, LenProperties, ElementOfSeq
<1> QED
  BY <1>1, <1>2, LenProperties DEF Message, Record

LEMMA InTopics ==
  ASSUME TypeOK, NEW s \in Series
  PROVE  /\ observations[s] \in Seq(Message)
         /\ DOMAIN observations[s] = 1 .. Len(observations[s])
         /\ Len(observations[s]) \in Nat
         /\ \A k \in DOMAIN observations[s] :
              observations[s][k] \in Message /\ observations[s][k].poll \in Nat
<1>1. observations[s] \in Seq(Message)
  BY DEF TypeOK
<1>2. \A k \in DOMAIN observations[s] : observations[s][k] \in Message
  BY <1>1, LenProperties, ElementOfSeq
<1> QED
  BY <1>1, <1>2, LenProperties, Constants DEF Message

LEMMA Dequeued ==
  ASSUME TypeOK, NEW i \in DOMAIN queue, NEW e \in SUBSET {queue[i]}, Reported(i, e)
  PROVE  /\ queue' \in Seq(Message)
         /\ DOMAIN queue' = 1 .. Len(queue) - 1
         /\ \A k \in 1 .. Len(queue) - 1 :
              queue'[k] = IF k < i THEN queue[k] ELSE queue[k + 1]
         /\ e \subseteq reports'
         /\ reports \subseteq reports'
         /\ reports' \subseteq Message
<1>1. queue' = Without(queue, i)
  BY DEF Reported, Without
<1>2. /\ queue' \in Seq(Message) /\ Len(queue') = Len(queue) - 1
      /\ \A k \in 1 .. Len(queue) - 1 :
           queue'[k] = IF k < i THEN queue[k] ELSE queue[k + 1]
  BY <1>1, Queued, WithoutOne
<1>3. DOMAIN queue' = 1 .. Len(queue) - 1
  BY <1>2, LenProperties
<1>4. queue[i] \in Message
  BY Queued
<1>5. e \subseteq Message
  BY <1>4
<1>6. reports' = reports \cup e
  BY DEF Reported
<1> QED
  BY <1>2, <1>3, <1>5, <1>6 DEF TypeOK

LEMMA StoredTypes ==
  ASSUME TypeOK, NEW m \in Message, Stored(m) \/ UNCHANGED broker
  PROVE  /\ observations' \in [Series -> Seq(Message)] /\ quarantine' \subseteq Message
         /\ \A o \in Message : IsIn(o) => IsIn(o)'
         /\ Stored(m) => IsIn(m)'
<1>1. CASE Stored(m) /\ m.rec.value \in Refused
  <2>1. quarantine' = quarantine \cup {m} /\ observations' = observations
    BY <1>1 DEF Stored
  <2> QED
    BY <1>1, <2>1 DEF TypeOK, IsIn
<1>2. CASE Stored(m) /\ m.rec.value \notin Refused
  <2> DEFINE s == m.rec.series
             q == observations[s]
  <2>1. quarantine' = quarantine /\ s \in Series
    BY <1>2 DEF Stored, Message, Record
  <2>2. observations' = [observations EXCEPT ![s] = Append(q, m)]
    BY <1>2 DEF Stored
  <2>3. observations \in [Series -> Seq(Message)] /\ q \in Seq(Message)
    BY <2>1 DEF TypeOK
  <2>4. /\ Append(q, m) \in Seq(Message) /\ Len(Append(q, m)) = Len(q) + 1
        /\ \A k \in 1 .. Len(q) : Append(q, m)[k] = q[k]
        /\ Append(q, m)[Len(q) + 1] = m
    BY <2>3, AppendProperties
  <2>5. /\ observations' \in [Series -> Seq(Message)]
        /\ observations'[s] = Append(q, m)
        /\ \A t \in Series \ {s} : observations'[t] = observations[t]
    BY <2>1, <2>2, <2>3, <2>4
  <2>6. DOMAIN q = 1 .. Len(q) /\ DOMAIN Append(q, m) = 1 .. Len(q) + 1
        /\ Len(q) \in Nat
    BY <2>3, <2>4, LenProperties
  <2>7. ASSUME NEW o \in Message, IsIn(o) PROVE IsIn(o)'
    <3>1. o.rec.series \in Series
      BY DEF Message, Record
    <3>2. CASE o.rec.value \in Refused
      BY <2>1, <2>7, <3>2 DEF IsIn
    <3>3. CASE o.rec.value \notin Refused
      <4> HIDE DEF s, q
      <4>1. PICK k \in DOMAIN observations[o.rec.series] :
              observations[o.rec.series][k] = o
        BY <2>7, <3>3 DEF IsIn
      <4>2. CASE o.rec.series = s
        <5>1. observations[s] = q
          BY DEF q
        <5>2. k \in 1 .. Len(q) /\ q[k] = o
          BY <2>6, <4>1, <4>2, <5>1
        <5>3. k \in DOMAIN observations'[s] /\ observations'[s][k] = o
          BY <2>4, <2>5, <2>6, <5>2
        <5> QED
          BY <3>3, <4>2, <5>3 DEF IsIn
      <4>3. CASE o.rec.series # s
        BY <2>5, <3>1, <3>3, <4>1, <4>3 DEF IsIn
      <4> QED
        BY <4>2, <4>3
    <3> QED
      BY <3>2, <3>3
  <2>8. IsIn(m)'
    BY <1>2, <2>4, <2>5, <2>6 DEF IsIn
  <2> QED
    BY <2>1, <2>5, <2>7, <2>8 DEF TypeOK
<1>3. CASE ~Stored(m) /\ UNCHANGED broker
  BY <1>3 DEF TypeOK, IsIn, broker
<1> QED
  BY <1>1, <1>2, <1>3

-----------------------------------------------------------------------------
(* Every step keeps the types.                                              *)
LEMMA TypeStep ==
  ASSUME TypeOK, StepsOK, [Next]_vars
  PROVE  TypeOK'
<1> USE DEF platform, broker, process
<1>1. CASE Tick
  <2>1. now' \in 0 .. MaxTime
    BY <1>1, Constants DEF TypeOK, Tick
  <2> QED
    BY <1>1, <2>1 DEF TypeOK, Tick
<1>2. ASSUME NEW d \in Days, NEW s \in Series, NEW v \in Values, Publish(d, s, v)
      PROVE  TypeOK'
  <2>1. publications' \in 0 .. MaxPublications
    BY <1>2, Constants DEF TypeOK, Publish
  <2>2. shown' \in [Days -> [Series -> Values \cup {None}]]
    BY <1>2 DEF TypeOK, Publish
  <2> QED
    BY <1>2, <2>1, <2>2 DEF TypeOK, Publish
<1>3. CASE BeginPoll
  <2>1. polls' \in Seq(Poll)
    BY <1>3, PollBegun
  <2>2. days' \in Seq(Days)
    BY <1>3, PolledDays, Constants DEF BeginPoll, TypeOK, StepsOK
  <2> QED
    BY <1>3, <2>1, <2>2 DEF TypeOK, BeginPoll, Steps, Poll
<1>4. CASE Fetch
  <2>1. polls # <<>>
    BY <1>4 DEF StepsOK, Polling, Fetch
  <2>2. left' \in SUBSET Record
    BY <1>4 DEF Fetch, RecordsOf
  <2>3. polls' \in Seq(Poll)
    BY <1>4, <2>1, <2>2, AddFetched DEF Fetch
  <2>4. days' \in Seq(Days)
    BY <1>4, HeadTailProperties DEF Fetch, TypeOK
  <2> QED
    BY <1>4, <2>2, <2>3, <2>4 DEF TypeOK, Fetch, Steps, Poll
<1>5. ASSUME Served
      PROVE  reports' \subseteq Message
             /\ failures' \subseteq Message
  BY <1>5 DEF TypeOK, Served
<1>6. ASSUME NEW r \in left, Produce(r) PROVE TypeOK'
  <2>1. Current \in 1 .. MaxPolls
    <3>1. polls # <<>>
      BY <1>6 DEF StepsOK, Polling, Produce
    <3> QED
      BY <3>1, CurrentPoll, Constants DEF StepsOK, Current
  <2>2. [poll |-> Current, rec |-> r] \in Message
    BY <2>1 DEF TypeOK, Message
  <2>3. queue' \in Seq(Message)
    BY <1>6, <2>2, AppendProperties DEF Produce, TypeOK
  <2>4. /\ reports' \subseteq Message
        /\ failures' \subseteq Message
    BY <1>5, <1>6 DEF Produce, TypeOK
  <2> QED
    BY <1>6, <2>3, <2>4 DEF TypeOK, Produce, Steps, Poll
<1>7. CASE StartFlush
  BY <1>7 DEF TypeOK, StartFlush, Steps
<1>8. ASSUME NEW o \in Outcomes, After(o), pc \in {"fetch", "produce", "flush"}
      PROVE  /\ polls' \in Seq(Poll) /\ pc' \in Steps
             /\ days' \in Seq(Days) /\ left' \subseteq Record
  <2>1. polls # <<>>
    BY <1>8 DEF StepsOK, Polling
  <2>2. polls' \in Seq(Poll)
    BY <1>8, <2>1, SetOutcome DEF After
  <2> QED
    BY <1>8, <2>2 DEF After, Steps
<1>9. CASE Flush
  <2>1. Verdict(Len(queue), failures') \in Outcomes
    BY DEF Verdict, Outcomes
  <2>2. /\ polls' \in Seq(Poll) /\ pc' \in Steps
        /\ days' \in Seq(Days) /\ left' \subseteq Record
    BY <1>8, <1>9, <2>1 DEF Flush
  <2>3. /\ reports' \subseteq Message
        /\ failures' \subseteq Message
    BY <1>5, <1>9 DEF Flush
  <2> QED
    BY <1>9, <2>2, <2>3 DEF TypeOK, Flush, Poll
<1>10. CASE Raise
  <2>1. "raised" \in Outcomes
    BY DEF Outcomes
  <2>2. /\ polls' \in Seq(Poll) /\ pc' \in Steps
        /\ days' \in Seq(Days) /\ left' \subseteq Record
    BY <1>8, <1>10, <2>1 DEF Raise
  <2> QED
    BY <1>10, <2>2 DEF TypeOK, Raise, Poll
<1>11. CASE Leave \/ Signal
  <2>1. pc' \in Steps /\ stopping' \in BOOLEAN
    BY <1>11 DEF TypeOK, Leave, Signal, Steps
  <2>2. /\ now' = now /\ shown' = shown /\ publications' = publications
        /\ once' = once /\ days' = days /\ left' = left /\ queue' = queue
        /\ reports' = reports /\ failures' = failures /\ polls' = polls
        /\ observations' = observations /\ quarantine' = quarantine
    BY <1>11 DEF Leave, Signal
  <2> QED
    BY <2>1, <2>2, Zenon DEF TypeOK
<1>12. CASE End \/ Kill \/ Restart
  <2>1. /\ pc' \in Steps /\ (queue' = queue \/ queue' = <<>>)
        /\ (days' = days /\ left' = left) \/ (days' = <<>> /\ left' = {})
        /\ now' = now /\ shown' = shown /\ publications' = publications
        /\ once' = once /\ stopping' = stopping /\ polls' = polls
        /\ observations' = observations /\ quarantine' = quarantine
    BY <1>12 DEF End, Kill, Restart, Steps
  <2>2. reports' \subseteq Message /\ failures' \subseteq Message
    BY <1>5, <1>12 DEF TypeOK, End, Kill, Restart
  <2>3. /\ days \in Seq(Days) /\ left \subseteq Record /\ <<>> \in Seq(Days)
        /\ queue \in Seq(Message) /\ <<>> \in Seq(Message)
    BY DEF TypeOK
  <2>4. days' \in Seq(Days) /\ left' \subseteq Record /\ queue' \in Seq(Message)
    BY <2>1, <2>3
  <2> QED
    BY <2>1, <2>2, <2>4, Zenon DEF TypeOK
<1>13. ASSUME NEW i \in DOMAIN queue, Deliver(i) \/ Refuse(i) PROVE TypeOK'
  <2>1. PICK e \in SUBSET {queue[i]} : Reported(i, e)
    BY <1>13 DEF Deliver, Refuse
  <2>2. queue[i] \in Message
    BY Queued
  <2>3. Stored(queue[i]) \/ UNCHANGED broker
    BY <1>13 DEF Deliver, Refuse
  <2>4. /\ observations' \in [Series -> Seq(Message)]
        /\ quarantine' \subseteq Message
    BY <2>2, <2>3, StoredTypes
  <2>5. /\ queue' \in Seq(Message)
        /\ reports' \subseteq Message
    BY <2>1, Dequeued
  <2> QED
    BY <2>1, <2>4, <2>5 DEF TypeOK, Reported
<1>14. CASE UNCHANGED vars
  BY <1>14 DEF TypeOK, vars
<1> QED
  BY <1>1, <1>2, <1>3, <1>4, <1>6, <1>7, <1>9, <1>10, <1>11, <1>12, <1>13,
     <1>14 DEF Next, Run

(* Where a poll stands.                                                     *)
LEMMA StepsStep ==
  ASSUME TypeOK, StepsOK, [Next]_vars
  PROVE  StepsOK'
<1> USE DEF platform, broker, process
<1>1. CASE Tick
  <2>1. now \in Int /\ now' = now + 1
    BY <1>1 DEF TypeOK, Tick
  <2>2. \A n \in DOMAIN polls : polls[n].at \in YesterdayUntilHour .. now'
    BY <2>1, Constants DEF StepsOK
  <2> QED
    BY <1>1, <2>1, <2>2, Constants DEF StepsOK, Tick, Polling, Current
<1>2. CASE BeginPoll
  <2>1. /\ polls' # <<>> /\ polls'[Current'].outcome = "none"
        /\ Len(polls') <= MaxPolls
    BY <1>2, PollBegun, CurrentPoll DEF Current
  <2>2. \A n \in DOMAIN polls' : polls'[n].at \in YesterdayUntilHour .. now'
    <3>1. now' = now /\ now \in YesterdayUntilHour .. now
      BY <1>2, Constants DEF BeginPoll, StepsOK, TypeOK
    <3>2. \A n \in DOMAIN polls' : n \in DOMAIN polls \/ n = Current + 1
      BY <1>2, PollBegun
    <3> QED
      BY <1>2, <3>1, <3>2, PollBegun DEF StepsOK
  <2> QED
    BY <1>2, <2>1, <2>2 DEF StepsOK, BeginPoll
<1>3. ASSUME /\ Current' = Current /\ DOMAIN polls' = DOMAIN polls
             /\ \A n \in DOMAIN polls : polls'[n].at = polls[n].at
             /\ now' = now
      PROVE  /\ YesterdayUntilHour <= now' /\ Len(polls') <= MaxPolls
             /\ \A n \in DOMAIN polls' : polls'[n].at \in YesterdayUntilHour .. now'
  BY <1>3 DEF StepsOK, Current
<1>4. CASE Fetch
  <2>1. polls # <<>> /\ polls[Current].outcome = "none"
    BY <1>4 DEF StepsOK, Polling, Fetch
  <2>2. left' \in SUBSET Record
    BY <1>4 DEF Fetch, RecordsOf
  <2>3. /\ Current' = Current /\ DOMAIN polls' = DOMAIN polls
        /\ \A n \in DOMAIN polls :
             polls'[n].at = polls[n].at /\ polls'[n].outcome = polls[n].outcome
    BY <1>4, <2>1, <2>2, AddFetched DEF Fetch
  <2>4. polls' # <<>> /\ polls'[Current'].outcome = "none"
    BY <2>1, <2>3, CurrentPoll DEF Current
  <2> QED
    BY <1>3, <1>4, <2>3, <2>4 DEF StepsOK, Fetch
<1>5. ASSUME NEW r \in left, Produce(r) PROVE StepsOK'
  BY <1>5 DEF StepsOK, Produce, Polling, Current
<1>6. CASE StartFlush
  BY <1>6 DEF StepsOK, StartFlush, Polling, Current
<1>7. ASSUME NEW o \in Outcomes, After(o), pc \in {"fetch", "produce", "flush"},
             now' = now
      PROVE  StepsOK'
  <2>1. polls # <<>>
    BY <1>7 DEF StepsOK, Polling
  <2>2. /\ Current' = Current /\ DOMAIN polls' = DOMAIN polls
        /\ \A n \in DOMAIN polls : polls'[n].at = polls[n].at
    BY <1>7, <2>1, SetOutcome DEF After
  <2>3. pc' \in {"ready", "closing", "ended"} /\ left' = {} /\ days' = <<>>
    BY <1>7 DEF After
  <2> QED
    BY <1>3, <1>7, <2>2, <2>3 DEF StepsOK, Polling
<1>8. CASE Flush
  <2>1. Verdict(Len(queue), failures') \in Outcomes
    BY DEF Verdict, Outcomes
  <2> QED
    BY <1>7, <1>8, <2>1 DEF Flush
<1>9. CASE Raise
  BY <1>7, <1>9 DEF Raise, Outcomes
<1>10. CASE Leave \/ End \/ Kill \/ Restart
  BY <1>10 DEF StepsOK, Leave, End, Kill, Restart, Polling, Current
<1>11. ASSUME NEW d \in Days, NEW s \in Series, NEW v \in Values, Publish(d, s, v)
       PROVE  StepsOK'
  BY <1>11 DEF StepsOK, Publish, Polling, Current
<1>12. CASE Signal
  BY <1>12 DEF StepsOK, Signal, Polling, Current
<1>13. ASSUME NEW i \in DOMAIN queue, Deliver(i) \/ Refuse(i) PROVE StepsOK'
  BY <1>13 DEF StepsOK, Deliver, Refuse, Reported, Polling, Current
<1>14. CASE UNCHANGED vars
  BY <1>14 DEF StepsOK, Polling, Current, vars
<1> QED
  BY <1>1, <1>2, <1>4, <1>5, <1>6, <1>8, <1>9, <1>10, <1>11, <1>12, <1>13,
     <1>14 DEF Next, Run

-----------------------------------------------------------------------------
(* The order of a series: the queue stays in the order of the polls, and a  *)
(* message leaves it for its topic only when nothing of its partition is    *)
(* before it.                                                               *)
LEMMA OrderKept ==
  ASSUME TypeOK, Ordered, queue' = queue \/ queue' = <<>>,
         observations' = observations, Current' \in Nat, Current <= Current'
  PROVE  Ordered'
<1>1. Current \in Nat
  BY PollTypes
<1>2. \A i \in DOMAIN queue' : i \in DOMAIN queue /\ queue' = queue
  OBVIOUS
<1>3. QueueInOrder' /\ NobodyAhead'
  BY <1>2 DEF Ordered, QueueInOrder, NobodyAhead
<1>4. NothingFromLater'
  <2>1. ASSUME NEW i \in DOMAIN queue' PROVE queue'[i].poll <= Current'
    <3>1. queue[i].poll \in Int /\ queue[i].poll <= Current /\ queue' = queue
      BY <1>2, <2>1, Queued, Constants DEF Ordered, NothingFromLater
    <3> QED
      BY <1>1, <3>1
  <2>2. ASSUME NEW s \in Series, NEW k \in DOMAIN observations[s]
        PROVE  observations[s][k].poll <= Current'
    <3>1. observations[s][k].poll \in Nat /\ observations[s][k].poll <= Current
      BY InTopics DEF Ordered, NothingFromLater
    <3> QED
      BY <1>1, <3>1
  <2> QED
    BY <2>1, <2>2 DEF NothingFromLater
<1>5. SeriesInOrder'
  BY DEF Ordered, SeriesInOrder
<1> QED
  BY <1>3, <1>4, <1>5 DEF Ordered

LEMMA OrderOfProduced ==
  ASSUME TypeOK, StepsOK, Ordered, NEW r \in left, Produce(r)
  PROVE  Ordered'
<1> DEFINE m == [poll |-> Current, rec |-> r]
<1>1. polls # <<>> /\ Current' = Current /\ observations' = observations
  BY DEF StepsOK, Polling, Produce, Current, broker
<1>2. Current \in 1 .. MaxPolls /\ Current \in Nat
  BY <1>1, CurrentPoll, Constants DEF StepsOK, Current
<1>3. m \in Message /\ m.poll = Current
  BY <1>2 DEF TypeOK, Message
<1> HIDE DEF m
<1>4. /\ Len(queue') = Len(queue) + 1 /\ queue' \in Seq(Message)
      /\ \A k \in 1 .. Len(queue) : queue'[k] = queue[k]
      /\ queue'[Len(queue) + 1] = m
  <2>1. queue' = Append(queue, m)
    BY DEF Produce, m
  <2> QED
    BY <1>3, <2>1, Queued, AppendProperties
<1>5. DOMAIN queue' = 1 .. Len(queue) + 1 /\ DOMAIN queue = 1 .. Len(queue)
      /\ Len(queue) \in Nat
  BY <1>4, Queued, LenProperties
<1>6. ASSUME NEW k \in DOMAIN queue'
      PROVE  (k \in DOMAIN queue /\ queue'[k] = queue[k])
             \/ (k = Len(queue) + 1 /\ queue'[k] = m)
  BY <1>4, <1>5
<1>7. \A k \in DOMAIN queue : queue[k].poll \in Nat /\ queue[k].poll <= Current
  BY Queued, Constants DEF Ordered, NothingFromLater
<1>8. QueueInOrder'
  <2> SUFFICES ASSUME NEW a \in DOMAIN queue', NEW b \in DOMAIN queue', a < b
               PROVE  queue'[a].poll <= queue'[b].poll
    BY DEF QueueInOrder
  <2>1. a \in DOMAIN queue /\ queue'[a] = queue[a]
    BY <1>4, <1>5
  <2>2. CASE b \in DOMAIN queue /\ queue'[b] = queue[b]
    BY <2>1, <2>2 DEF Ordered, QueueInOrder
  <2>3. CASE queue'[b] = m
    BY <1>3, <1>7, <2>1, <2>3
  <2> QED
    BY <1>6, <2>2, <2>3
<1>9. NobodyAhead'
  <2> SUFFICES ASSUME NEW a \in DOMAIN queue', queue'[a].rec.value \notin Refused,
                      NEW k \in DOMAIN observations[queue'[a].rec.series]
               PROVE  observations[queue'[a].rec.series][k].poll <= queue'[a].poll
    BY <1>1 DEF NobodyAhead
  <2>1. CASE a \in DOMAIN queue /\ queue'[a] = queue[a]
    BY <2>1 DEF Ordered, NobodyAhead
  <2>2. CASE queue'[a] = m
    <3>1. m.rec.series \in Series
      BY <1>3 DEF Message, Record
    <3> QED
      BY <1>3, <2>2, <3>1 DEF Ordered, NothingFromLater
  <2> QED
    BY <1>6, <2>1, <2>2
<1>10. NothingFromLater'
  <2>1. ASSUME NEW a \in DOMAIN queue' PROVE queue'[a].poll <= Current
    BY <1>2, <1>3, <1>6, <1>7
  <2> QED
    BY <1>1, <2>1 DEF Ordered, NothingFromLater
<1>11. SeriesInOrder'
  BY <1>1 DEF Ordered, SeriesInOrder
<1> QED
  BY <1>8, <1>9, <1>10, <1>11 DEF Ordered

LEMMA OrderOfReported ==
  ASSUME TypeOK, Ordered, NEW i \in DOMAIN queue, NEW e \in SUBSET {queue[i]},
         Reported(i, e), Stored(queue[i]) \/ UNCHANGED broker
  PROVE  Ordered'
<1> DEFINE m == queue[i]
           n == Len(queue)
<1>1. /\ DOMAIN queue = 1 .. n /\ n \in Nat
      /\ \A k \in DOMAIN queue :
           /\ queue[k] \in Message /\ queue[k].poll \in Nat
           /\ queue[k].rec.series \in Series
  BY Queued, Constants
<1>2. Current' = Current /\ Sendable(i)
  BY DEF Reported, Current
<1>3. /\ DOMAIN queue' = 1 .. n - 1
      /\ \A k \in 1 .. n - 1 : queue'[k] = IF k < i THEN queue[k] ELSE queue[k + 1]
  BY Dequeued
<1>4. m \in Message /\ m.poll \in Nat /\ m.rec.series \in Series
  BY <1>1
<1> DEFINE From(k) == IF k < i THEN k ELSE k + 1
<1>5. \A k \in DOMAIN queue' :
        /\ From(k) \in DOMAIN queue /\ From(k) # i /\ queue'[k] = queue[From(k)]
        /\ From(k) \in Nat
  BY <1>1, <1>3
<1>6. \A a, b \in DOMAIN queue' : a < b => From(a) < From(b)
  BY <1>1, <1>3
<1> HIDE DEF From, n
<1>7. QueueInOrder'
  BY <1>5, <1>6 DEF Ordered, QueueInOrder
<1>8. \A k \in DOMAIN queue' : queue'[k].poll <= Current'
  BY <1>2, <1>5 DEF Ordered, NothingFromLater
<1>9. CASE observations' = observations
  <2>1. NobodyAhead'
    BY <1>5, <1>9 DEF Ordered, NobodyAhead
  <2>2. NothingFromLater' /\ SeriesInOrder'
    BY <1>2, <1>8, <1>9 DEF Ordered, NothingFromLater, SeriesInOrder
  <2> QED
    BY <1>7, <2>1, <2>2 DEF Ordered
<1>10. CASE observations' # observations
  <2> DEFINE s == m.rec.series
             q == observations[s]
  <2>1. /\ m.rec.value \notin Refused
        /\ observations' = [observations EXCEPT ![s] = Append(q, m)]
    BY <1>10 DEF Stored, broker
  <2>2. q \in Seq(Message) /\ s \in Series /\ observations \in [Series -> Seq(Message)]
    BY <1>4 DEF TypeOK
  <2> HIDE DEF m
  <2>3. /\ Append(q, m) \in Seq(Message) /\ Len(Append(q, m)) = Len(q) + 1
        /\ \A k \in 1 .. Len(q) : Append(q, m)[k] = q[k]
        /\ Append(q, m)[Len(q) + 1] = m
    BY <1>4, <2>2, AppendProperties
  <2>4. DOMAIN q = 1 .. Len(q) /\ Len(q) \in Nat
        /\ DOMAIN Append(q, m) = 1 .. Len(q) + 1
    BY <2>2, <2>3, LenProperties
  <2>5. /\ observations'[s] = Append(q, m)
        /\ \A t \in Series \ {s} : observations'[t] = observations[t]
    BY <2>1, <2>2
  <2>6. \A k \in DOMAIN observations'[s] :
          (k \in DOMAIN q /\ observations'[s][k] = q[k])
          \/ (k = Len(q) + 1 /\ observations'[s][k] = m)
    BY <2>3, <2>4, <2>5
  <2>7. \A k \in DOMAIN q : q[k].poll \in Nat /\ q[k].poll <= m.poll
    BY <2>1, <2>2, InTopics DEF Ordered, NobodyAhead, m
  <2>8. m.poll <= Current
    BY DEF Ordered, NothingFromLater, m
  <2>9. NobodyAhead'
    <3> SUFFICES ASSUME NEW a \in DOMAIN queue', queue'[a].rec.value \notin Refused,
                        NEW k \in DOMAIN observations'[queue'[a].rec.series]
                 PROVE  observations'[queue'[a].rec.series][k].poll <= queue'[a].poll
      BY DEF NobodyAhead
    <3>1. PICK j \in DOMAIN queue : queue'[a] = queue[j] /\ j # i /\ j \in Nat
      BY <1>5
    <3>2. CASE queue'[a].rec.series # s
      BY <1>1, <2>5, <3>1, <3>2 DEF Ordered, NobodyAhead
    <3>3. CASE queue'[a].rec.series = s
      <4>1. CASE k \in DOMAIN q /\ observations'[s][k] = q[k]
        BY <3>1, <3>3, <4>1 DEF Ordered, NobodyAhead
      <4>2. CASE observations'[s][k] = m
        <5>1. ASSUME j < i PROVE FALSE
          <6>1. j \in 1 .. i - 1
            BY <1>1, <3>1, <5>1
          <6>2. SamePartition(queue[i], queue[j])
            BY <2>1, <3>1, <3>3 DEF SamePartition, m
          <6> QED
            BY <1>2, <6>1, <6>2 DEF Sendable
        <5>2. i < j
          BY <1>1, <3>1, <5>1
        <5> QED
          BY <3>1, <3>3, <4>2, <5>2 DEF Ordered, QueueInOrder, m
      <4> QED
        BY <2>6, <3>3, <4>1, <4>2
    <3> QED
      BY <3>2, <3>3
  <2>10. NothingFromLater'
    <3> SUFFICES ASSUME NEW t \in Series, NEW k \in DOMAIN observations'[t]
                 PROVE  observations'[t][k].poll <= Current
      BY <1>2, <1>8 DEF NothingFromLater
    <3>1. CASE t = s
      BY <2>2, <2>6, <2>8, <3>1 DEF Ordered, NothingFromLater
    <3>2. CASE t # s
      BY <2>5, <3>2 DEF Ordered, NothingFromLater
    <3> QED
      BY <3>1, <3>2
  <2>11. SeriesInOrder'
    <3> SUFFICES ASSUME NEW t \in Series, NEW a \in DOMAIN observations'[t],
                        NEW b \in DOMAIN observations'[t], a < b
                 PROVE  observations'[t][a].poll <= observations'[t][b].poll
      BY DEF SeriesInOrder
    <3>1. CASE t # s
      BY <2>5, <3>1 DEF Ordered, SeriesInOrder
    <3>2. CASE t = s
      <4>1. a \in DOMAIN q /\ observations'[s][a] = q[a]
        BY <2>3, <2>4, <2>5, <3>2
      <4>2. CASE b \in DOMAIN q /\ observations'[s][b] = q[b]
        BY <2>2, <3>2, <4>1, <4>2 DEF Ordered, SeriesInOrder
      <4>3. CASE observations'[s][b] = m
        BY <2>7, <3>2, <4>1, <4>3
      <4> QED
        BY <2>6, <3>2, <4>2, <4>3
    <3> QED
      BY <3>1, <3>2
  <2> QED
    BY <1>7, <2>9, <2>10, <2>11 DEF Ordered
<1> QED
  BY <1>9, <1>10

LEMMA OrderStep ==
  ASSUME TypeOK, StepsOK, Ordered, [Next]_vars
  PROVE  Ordered'
<1>1. CASE \E r \in left : Produce(r)
  BY <1>1, OrderOfProduced
<1>2. CASE \E i \in DOMAIN queue : Deliver(i) \/ Refuse(i)
  <2>1. PICK i \in DOMAIN queue : Deliver(i) \/ Refuse(i)
    BY <1>2
  <2>2. PICK e \in SUBSET {queue[i]} : Reported(i, e)
    BY <2>1 DEF Deliver, Refuse
  <2>3. Stored(queue[i]) \/ UNCHANGED broker
    BY <2>1 DEF Deliver, Refuse
  <2> QED
    BY <2>2, <2>3, OrderOfReported
<1>3. CASE BeginPoll
  <2>1. Current' \in Nat /\ Current <= Current'
    BY <1>3, PollBegun
  <2> QED
    BY <1>3, <2>1, OrderKept DEF BeginPoll, broker
<1>4. CASE Fetch \/ Flush \/ Raise
  <2>1. polls # <<>>
    BY <1>4 DEF StepsOK, Polling, Fetch, Flush, Raise
  <2>2. Current' = Current
    <3>1. ASSUME Fetch PROVE Current' = Current
      <4>1. left' \in SUBSET Record
        BY <3>1 DEF Fetch, RecordsOf
      <4> QED
        BY <2>1, <3>1, <4>1, AddFetched DEF Fetch
    <3>2. ASSUME NEW o \in Outcomes, After(o) PROVE Current' = Current
      BY <2>1, <3>2, SetOutcome DEF After
    <3>3. \A f : Verdict(Len(queue), f) \in Outcomes
      BY DEF Verdict, Outcomes
    <3>4. "raised" \in Outcomes
      BY DEF Outcomes
    <3> QED
      BY <1>4, <3>1, <3>2, <3>3, <3>4 DEF Flush, Raise
  <2>3. queue' = queue /\ observations' = observations
    BY <1>4 DEF Fetch, Flush, Raise, broker
  <2> QED
    BY <2>2, <2>3, PollTypes, OrderKept
<1>5. ASSUME \/ Tick \/ StartFlush \/ Leave \/ End \/ Signal \/ Kill \/ Restart
             \/ \E d \in Days, s \in Series, v \in Values : Publish(d, s, v)
             \/ UNCHANGED vars
      PROVE  Ordered'
  <2>1. /\ (queue' = queue \/ queue' = <<>>)
        /\ observations' = observations /\ polls' = polls
    BY <1>5 DEF Tick, StartFlush, Leave, End, Signal, Kill, Restart, Publish,
                vars, broker, process
  <2>2. Current' = Current
    BY <2>1 DEF Current
  <2> QED
    BY <2>1, <2>2, PollTypes, OrderKept
<1> QED
  BY <1>1, <1>2, <1>3, <1>4, <1>5 DEF Next, Run

-----------------------------------------------------------------------------
(* Nothing fetched is lost sight of.                                        *)
LEMMA Own ==
  ASSUME TypeOK, StepsOK, NEW n \in DOMAIN polls, NEW r \in polls[n].fetched
  PROVE  r \in Record /\ [poll |-> n, rec |-> r] \in Message
<1>1. n \in 1 .. MaxPolls
  BY PollTypes, Constants DEF StepsOK, Current
<1>2. r \in Record
  BY PollTypes DEF Poll
<1> QED
  BY <1>1, <1>2 DEF Message

(* A message that a topic holds stays there.                                *)
LEMMA TopicsGrow ==
  ASSUME TypeOK, [Next]_vars, NEW m \in Message, IsIn(m)
  PROVE  IsIn(m)'
<1>1. CASE \E i \in DOMAIN queue : Deliver(i) \/ Refuse(i)
  <2>1. PICK i \in DOMAIN queue : Deliver(i) \/ Refuse(i)
    BY <1>1
  <2>2. queue[i] \in Message /\ (Stored(queue[i]) \/ UNCHANGED broker)
    BY <2>1, Queued DEF Deliver, Refuse
  <2> QED
    BY <2>2, StoredTypes
<1>2. CASE ~(\E i \in DOMAIN queue : Deliver(i) \/ Refuse(i))
  <2>1. observations' = observations /\ quarantine' = quarantine
    BY <1>2 DEF Next, Run, Tick, Publish, BeginPoll, Fetch, Produce, StartFlush,
         Flush, Raise, Leave, End, Signal, Kill, Restart, vars, broker
  <2> QED
    BY <2>1 DEF IsIn
<1> QED
  BY <1>1, <1>2

LEMMA FailuresGrow ==
  ASSUME [Next]_vars
  PROVE  failures \subseteq failures'
  BY DEF Next, Run, Tick, Publish, BeginPoll, Fetch, Produce, StartFlush, Flush,
     Raise, Leave, End, Signal, Kill, Restart, Deliver, Refuse, Reported, Served,
     vars, process

(* A record traced before a step that drops no report unserved, nothing of  *)
(* the queue and nothing of what is left is traced after it.                *)
LEMMA TracedStill ==
  ASSUME TypeOK, StepsOK, [Next]_vars, Current' = Current, polls # <<>>,
         NEW r \in polls[Current].fetched, Traced(r),
         r \in left => r \in left' \/ Waiting([poll |-> Current, rec |-> r])',
         Waiting([poll |-> Current, rec |-> r])
           => Waiting([poll |-> Current, rec |-> r])',
         reports' = reports \/ Served
  PROVE  Traced(r)'
<1> DEFINE m == [poll |-> Current, rec |-> r]
<1>1. m \in Message
  BY CurrentPoll, Own
<1>2. CASE r \in left \/ Waiting(m)
  BY <1>2 DEF Traced
<1>3. CASE IsIn(m)
  BY <1>1, <1>3, TopicsGrow DEF Traced
<1>4. CASE m \in reports
  <2>1. CASE reports' = reports
    BY <1>4, <2>1 DEF Traced
  <2>2. CASE Served
    <3>1. m \in failures'
      BY <1>4, <2>2 DEF Served
    <3> QED
      BY <3>1 DEF Traced
  <2> QED
    BY <2>1, <2>2
<1>5. CASE m \in failures
  BY <1>5, FailuresGrow DEF Traced
<1> QED
  BY <1>2, <1>3, <1>4, <1>5 DEF Traced

LEMMA AccountedStep ==
  ASSUME TypeOK, StepsOK, Accounted, [Next]_vars
  PROVE  Accounted'
<1> USE DEF platform, broker, process
<1> SUFFICES ASSUME Polling' PROVE (\A r \in polls[Current].fetched : Traced(r))'
  BY DEF Accounted
<1>1. CASE BeginPoll
  <2>1. polls'[Current'].fetched = {}
    BY <1>1, PollBegun
  <2> QED
    BY <2>1
<1>2. CASE Fetch
  <2>1. Polling /\ polls # <<>> /\ left = {}
    BY <1>2 DEF StepsOK, Polling, Fetch
  <2>2. left' \in SUBSET Record
    BY <1>2 DEF Fetch, RecordsOf
  <2>3. Current' = Current /\ polls'[Current].fetched = polls[Current].fetched \cup left'
    BY <1>2, <2>1, <2>2, AddFetched, CurrentPoll DEF Fetch
  <2>4. queue' = queue /\ reports' = reports
    BY <1>2 DEF Fetch
  <2>5. ASSUME NEW r \in polls[Current].fetched PROVE Traced(r)'
    <3>1. Traced(r)
      BY <2>1 DEF Accounted
    <3> QED
      BY <2>1, <2>3, <2>4, <3>1, TracedStill DEF Waiting
  <2>6. ASSUME NEW r \in left' PROVE Traced(r)'
    BY DEF Traced
  <2> QED
    BY <2>3, <2>5, <2>6
<1>3. ASSUME NEW o \in left, Produce(o)
      PROVE  (\A r \in polls[Current].fetched : Traced(r))'
  <2>0. PICK m : m = [poll |-> Current, rec |-> o]
    OBVIOUS
  <2>1. Polling /\ polls # <<>> /\ Current' = Current /\ polls' = polls
    BY <1>3 DEF StepsOK, Polling, Produce, Current
  <2>2. Current \in 1 .. MaxPolls
    BY <2>1, CurrentPoll, Constants DEF StepsOK, Current
  <2>3. m \in Message
    BY <2>0, <2>2 DEF TypeOK, Message
  <2>4. queue' = Append(queue, m) /\ left' = left \ {o}
        /\ (reports' = reports \/ Served)
    BY <1>3, <2>0 DEF Produce
  <2>5. /\ Len(queue') = Len(queue) + 1 /\ queue' \in Seq(Message)
        /\ \A k \in 1 .. Len(queue) : queue'[k] = queue[k]
        /\ queue'[Len(queue) + 1] = m
    BY <2>3, <2>4, Queued, AppendProperties
  <2>6. DOMAIN queue' = 1 .. Len(queue) + 1 /\ DOMAIN queue = 1 .. Len(queue)
        /\ Len(queue) \in Nat
    BY <2>5, Queued, LenProperties
  <2>7. (\A x : Waiting(x) => Waiting(x)') /\ Waiting(m)'
    BY <2>5, <2>6 DEF Waiting
  <2>8. ASSUME NEW r \in polls[Current].fetched PROVE Traced(r)'
    <3>1. Traced(r)
      BY <2>1 DEF Accounted
    <3>2. r \in left => r \in left' \/ Waiting([poll |-> Current, rec |-> r])'
      BY <2>0, <2>1, <2>4, <2>7
    <3> QED
      BY <2>1, <2>4, <2>7, <3>1, <3>2, TracedStill
  <2> QED
    BY <2>1, <2>8
<1>4. ASSUME NEW i \in DOMAIN queue, Deliver(i) \/ Refuse(i)
      PROVE  (\A r \in polls[Current].fetched : Traced(r))'
  <2>1. PICK e \in SUBSET {queue[i]} :
          /\ Reported(i, e)
          /\ queue[i] \in e \/ Stored(queue[i])
          /\ Stored(queue[i]) \/ UNCHANGED broker
    BY <1>4 DEF Deliver, Refuse
  <2>2. /\ pc' = pc /\ polls' = polls /\ left' = left /\ failures' = failures
        /\ Current' = Current
    BY <2>1 DEF Reported, Current
  <2>3. Polling /\ polls # <<>>
    BY <2>2 DEF StepsOK, Polling
  <2>4. /\ e \subseteq reports'
        /\ reports \subseteq reports'
    BY <2>1, Dequeued
  <2>5. queue[i] \in Message /\ DOMAIN queue = 1 .. Len(queue) /\ Len(queue) \in Nat
    BY Queued
  <2>0. PICK sent : sent = queue[i]
    OBVIOUS
  <2>6. Stored(queue[i]) => IsIn(sent)'
    BY <2>0, <2>1, <2>5, StoredTypes
  <2>7. ASSUME NEW x, Waiting(x), x # queue[i] PROVE Waiting(x)'
    <3>1. PICK k \in 1 .. Len(queue) : queue[k] = x /\ k # i
      BY <2>5, <2>7 DEF Waiting
    <3>2. /\ DOMAIN queue' = 1 .. Len(queue) - 1
          /\ \A j \in 1 .. Len(queue) - 1 :
               queue'[j] = IF j < i THEN queue[j] ELSE queue[j + 1]
      BY <2>1, Dequeued
    <3>3. CASE k < i
      <4>1. k \in DOMAIN queue' /\ queue'[k] = x
        BY <2>5, <3>1, <3>2, <3>3
      <4> QED
        BY <4>1 DEF Waiting
    <3>4. CASE ~(k < i)
      <4>1. k - 1 \in DOMAIN queue' /\ ~(k - 1 < i) /\ k - 1 + 1 = k
        BY <2>5, <3>1, <3>2, <3>4
      <4>2. queue'[k - 1] = x
        BY <3>1, <3>2, <4>1
      <4> QED
        BY <4>1, <4>2 DEF Waiting
    <3> QED
      BY <3>3, <3>4
  <2>8. ASSUME NEW r \in polls[Current].fetched PROVE Traced(r)'
    <3> DEFINE m == [poll |-> Current, rec |-> r]
    <3>1. Traced(r) /\ m \in Message
      BY <2>3, CurrentPoll, Own DEF Accounted
    <3>2. CASE r \in left
      BY <2>2, <3>2 DEF Traced
    <3>3. CASE Waiting(m) /\ m # queue[i]
      BY <2>2, <2>7, <3>3 DEF Traced
    <3>4. CASE m = queue[i]
      <4>1. IsIn(sent)' \/ sent \in reports'
        BY <2>0, <2>1, <2>4, <2>6
      <4>2. m' = m /\ m = sent
        BY <2>0, <2>2, <3>4
      <4> QED
        BY <4>1, <4>2 DEF Traced
    <3>5. CASE IsIn(m)
      BY <2>2, <3>1, <3>5, TopicsGrow DEF Traced
    <3>6. CASE m \in reports \/ m \in failures
      BY <2>2, <2>4, <3>6 DEF Traced
    <3> QED
      BY <3>1, <3>2, <3>3, <3>4, <3>5, <3>6 DEF Traced
  <2> QED
    BY <2>2, <2>8
<1>5. ASSUME \/ Tick \/ StartFlush \/ Signal
             \/ \E d \in Days, s \in Series, v \in Values : Publish(d, s, v)
             \/ UNCHANGED vars
      PROVE  (\A r \in polls[Current].fetched : Traced(r))'
  <2>1. /\ polls' = polls /\ left' = left /\ queue' = queue /\ reports' = reports
        /\ (pc' = pc \/ pc = "fetch") /\ Current' = Current
    BY <1>5 DEF Tick, StartFlush, Signal, Publish, vars, Current
  <2>2. Polling /\ polls # <<>>
    BY <2>1 DEF Polling, StepsOK
  <2>3. ASSUME NEW r \in polls[Current].fetched PROVE Traced(r)'
    BY <2>1, <2>2, TracedStill DEF Accounted, Waiting
  <2> QED
    BY <2>1, <2>3
<1>6. CASE Flush \/ Raise \/ Leave \/ End \/ Kill \/ Restart
  BY <1>6 DEF Polling, Flush, Raise, After, Leave, End, Kill, Restart
<1> QED
  BY <1>1, <1>2, <1>3, <1>4, <1>5, <1>6 DEF Next, Run

-----------------------------------------------------------------------------
(* A verdict is given once, by Flush, and what it judged does not change.   *)
LEMMA Verdicts ==
  ASSUME TypeOK, StepsOK, [Next]_vars, NEW n \in DOMAIN polls',
         polls'[n].outcome \in {"ok", "refused"}
  PROVE  /\ n \in DOMAIN polls /\ polls'[n].at = polls[n].at
         /\ polls'[n].fetched = polls[n].fetched
         /\ \/ polls[n].outcome = polls'[n].outcome
            \/ /\ Flush /\ n = Current /\ polls # <<>>
               /\ polls'[n].outcome = Verdict(Len(queue), failures')
<1>1. CASE BeginPoll
  BY <1>1, PollBegun
<1>2. CASE Fetch
  <2>1. polls # <<>> /\ polls[Current].outcome = "none"
    BY <1>2 DEF StepsOK, Polling, Fetch
  <2>2. left' \in SUBSET Record
    BY <1>2 DEF Fetch, RecordsOf
  <2>3. /\ DOMAIN polls' = DOMAIN polls
        /\ \A k \in DOMAIN polls :
             /\ polls'[k].at = polls[k].at
             /\ polls'[k].outcome = polls[k].outcome
             /\ polls'[k].fetched =
                  IF k = Current THEN polls[k].fetched \cup left' ELSE polls[k].fetched
    BY <1>2, <2>1, <2>2, AddFetched DEF Fetch
  <2> QED
    BY <2>1, <2>3
<1>3. ASSUME NEW o \in Outcomes, After(o), pc \in {"fetch", "produce", "flush"}
      PROVE  /\ n \in DOMAIN polls /\ polls # <<>> /\ polls'[n].at = polls[n].at
             /\ polls'[n].fetched = polls[n].fetched
             /\ polls'[n].outcome = IF n = Current THEN o ELSE polls[n].outcome
  <2>1. polls # <<>>
    BY <1>3 DEF StepsOK, Polling
  <2> QED
    BY <1>3, <2>1, SetOutcome DEF After
<1>4. CASE Flush
  <2>1. Verdict(Len(queue), failures') \in Outcomes
    BY DEF Verdict, Outcomes
  <2> QED
    BY <1>3, <1>4, <2>1 DEF Flush
<1>5. CASE Raise
  BY <1>3, <1>5 DEF Raise, Outcomes
<1>6. CASE ~(BeginPoll \/ Fetch \/ Flush \/ Raise)
  <2>1. polls' = polls
    BY <1>6 DEF Next, Run, Tick, Publish, Produce, StartFlush, Leave, End, Signal,
       Kill, Restart, Deliver, Refuse, Reported, vars, process
  <2> QED
    BY <2>1
<1> QED
  BY <1>1, <1>2, <1>4, <1>5, <1>6

LEMMA WholeStep ==
  ASSUME TypeOK, StepsOK, Accounted, PollIsWhole, [Next]_vars
  PROVE  PollIsWhole'
<1> SUFFICES ASSUME NEW n \in DOMAIN polls', polls'[n].outcome = "ok",
                    NEW r \in polls'[n].fetched
             PROVE  IsIn([poll |-> n, rec |-> r])'
  BY DEF PollIsWhole
<1> DEFINE m == [poll |-> n, rec |-> r]
<1>1. n \in DOMAIN polls /\ r \in polls[n].fetched
  BY Verdicts
<1>2. m \in Message
  BY <1>1, Own
<1>3. CASE polls[n].outcome = "ok"
  BY <1>1, <1>2, <1>3, TopicsGrow DEF PollIsWhole
<1>4. CASE /\ Flush /\ n = Current
           /\ polls'[n].outcome = Verdict(Len(queue), failures')
  <2>1. Traced(r) /\ left = {}
    BY <1>1, <1>4 DEF Flush, Accounted, Polling, StepsOK
  <2>2. ~(Len(queue) > 0) /\ ~\E f \in failures' : f.poll = Current
    BY <1>4 DEF Verdict
  <2>3. ~Waiting(m)
    BY <2>2, Queued DEF Waiting
  <2>4. m \notin reports /\ m \notin failures
    <3>1. m \notin failures'
      BY <1>4, <2>2
    <3> QED
      BY <1>4, <3>1 DEF Flush, Served
  <2>5. IsIn(m)
    BY <1>4, <2>1, <2>3, <2>4 DEF Traced
  <2> QED
    BY <1>2, <2>5, TopicsGrow
<1> QED
  BY <1>3, <1>4, Verdicts

-----------------------------------------------------------------------------
(* The eve.  It is all published by the time a poll watches it.             *)
LEMMA EveFrozen ==
  ASSUME TypeOK, StepsOK, [Next]_vars, NEW n \in DOMAIN polls, Watched(n),
         NEW eve, eve = Yesterday(n)
  PROVE  RecordsOf(eve)' = RecordsOf(eve)
<1>1. polls[n].at \in Nat /\ polls[n].at \in YesterdayUntilHour .. now
  BY PollTypes DEF Poll, StepsOK
<1>2. ASSUME NEW d \in Days, NEW s \in Series, NEW v \in Values, Publish(d, s, v)
      PROVE  RecordsOf(eve)' = RecordsOf(eve)
  <2>1. d # eve
    <3> SUFFICES ASSUME d = eve PROVE FALSE
      OBVIOUS
    <3> DEFINE at == polls[n].at
               first == DayAt(at) * HoursPerDay
    <3>1. /\ first \in Nat /\ at % HoursPerDay \in Nat /\ DayAt(at) \in Nat
          /\ at = first + (at % HoursPerDay)
      BY <1>1, DayOfHour
    <3>2. Lag <= at % HoursPerDay /\ at \in Nat /\ at <= now /\ now \in Nat
      BY <1>1, Constants DEF Watched, TypeOK
    <3>3. d = DayAt(at) - 1
      BY <1>2 DEF Yesterday
    <3>4. d + 1 = DayAt(at)
      BY <3>1, <3>3
    <3>5. now < first + Lag
      BY <1>2, <3>4 DEF Publish
    <3> HIDE DEF first, at
    <3> QED
      BY <3>1, <3>2, <3>5, Constants
  <2>2. \A r \in Record : r.day = eve => shown'[eve] = shown[eve]
    BY <1>2, <2>1 DEF Publish, TypeOK, Record
  <2> QED
    BY <2>2 DEF RecordsOf
<1>3. CASE ~\E d \in Days, s \in Series, v \in Values : Publish(d, s, v)
  <2>1. shown' = shown
    BY <1>3 DEF Next, Run, Tick, BeginPoll, Fetch, Produce, StartFlush, Flush,
       Raise, Leave, End, Signal, Kill, Restart, Deliver, Refuse, Reported, vars,
       platform
  <2> QED
    BY <2>1 DEF RecordsOf
<1> QED
  BY <1>2, <1>3

LEMMA EveFirstStep ==
  ASSUME TypeOK, StepsOK, EveFirst, [Next]_vars
  PROVE  EveFirst'
<1> USE DEF platform, broker, process
<1> SUFFICES ASSUME Polling', Watched(Current)'
             PROVE  (days # <<>> /\ Head(days) = Yesterday(Current))'
                    \/ HasYesterday(Current)'
  BY DEF EveFirst
<1>1. CASE BeginPoll
  <2>1. polls'[Current'].at = now /\ days' = DaysToPoll(now)
    BY <1>1, PollBegun DEF BeginPoll
  <2>2. now \in Nat /\ now <= MaxTime /\ YesterdayUntilHour <= now
    BY Constants DEF TypeOK, StepsOK
  <2>3. now % HoursPerDay < YesterdayUntilHour
    BY <2>1 DEF Watched
  <2>4. days' # <<>> /\ Head(days') = DayAt(now) - 1
    BY <2>1, <2>2, <2>3, PolledDays
  <2> QED
    BY <2>1, <2>4 DEF Yesterday
<1>2. CASE Fetch
  <2>1. Polling /\ polls # <<>>
    BY <1>2 DEF StepsOK, Polling, Fetch
  <2>2. left' \in SUBSET Record
    BY <1>2 DEF Fetch, RecordsOf
  <2>3. /\ Current' = Current /\ Current \in DOMAIN polls
        /\ polls'[Current].fetched = polls[Current].fetched \cup left'
        /\ polls'[Current].at = polls[Current].at
    BY <1>2, <2>1, <2>2, AddFetched, CurrentPoll DEF Fetch
  <2>4. Watched(Current)
    BY <2>3 DEF Watched
  <2>5. PICK eve : eve = Yesterday(Current)
    OBVIOUS
  <2>6. Yesterday(Current)' = eve /\ RecordsOf(eve)' = RecordsOf(eve)
    BY <2>3, <2>4, <2>5, EveFrozen DEF Yesterday
  <2>7. CASE Head(days) = eve
    <3>1. left' = RecordsOf(eve)
      BY <1>2, <2>7 DEF Fetch
    <3> QED
      BY <2>3, <2>6, <3>1 DEF HasYesterday
  <2>8. CASE HasYesterday(Current)
    BY <2>3, <2>5, <2>6, <2>8 DEF HasYesterday
  <2> QED
    BY <2>1, <2>4, <2>5, <2>7, <2>8 DEF EveFirst
<1>3. CASE ~(BeginPoll \/ Fetch)
  <2>1. pc' \in {"fetch", "produce", "flush"} /\ pc' # "ready"
    BY DEF Polling
  <2>2. polls' = polls /\ days' = days /\ Polling
    BY <1>3, <2>1 DEF Next, Run, Tick, Publish, Produce, StartFlush, Flush, Raise,
       After, Leave, End, Signal, Kill, Restart, Deliver, Refuse, Reported, vars,
       Polling
  <2>3. Current' = Current /\ polls # <<>> /\ Current \in DOMAIN polls
    BY <2>2, CurrentPoll DEF Current, StepsOK
  <2>4. Watched(Current) /\ Yesterday(Current)' = Yesterday(Current)
    BY <2>2, <2>3 DEF Watched, Yesterday
  <2>5. PICK eve : eve = Yesterday(Current)
    OBVIOUS
  <2>6. RecordsOf(eve)' = RecordsOf(eve)
    BY <2>3, <2>4, <2>5, EveFrozen
  <2>7. CASE days # <<>> /\ Head(days) = eve
    BY <2>2, <2>4, <2>5, <2>7
  <2>8. CASE HasYesterday(Current)
    BY <2>2, <2>3, <2>4, <2>5, <2>6, <2>8 DEF HasYesterday
  <2> QED
    BY <2>2, <2>4, <2>5, <2>7, <2>8 DEF EveFirst
<1> QED
  BY <1>1, <1>2, <1>3

LEMMA EveFetchedStep ==
  ASSUME TypeOK, StepsOK, EveFirst, EveFetched, [Next]_vars
  PROVE  EveFetched'
<1> SUFFICES ASSUME NEW n \in DOMAIN polls', polls'[n].outcome = "ok", Watched(n)'
             PROVE  HasYesterday(n)'
  BY DEF EveFetched
<1>1. /\ n \in DOMAIN polls /\ Watched(n) /\ Yesterday(n)' = Yesterday(n)
      /\ polls'[n].fetched = polls[n].fetched
  BY Verdicts DEF Watched, Yesterday
<1>2. PICK eve : eve = Yesterday(n)
  OBVIOUS
<1>3. RecordsOf(eve)' = RecordsOf(eve)
  BY <1>1, <1>2, EveFrozen
<1>4. CASE polls[n].outcome = "ok"
  BY <1>1, <1>2, <1>3, <1>4 DEF EveFetched, HasYesterday
<1>5. CASE Flush /\ n = Current
  <2>1. Polling /\ days = <<>>
    BY <1>5 DEF Flush, Polling, StepsOK
  <2>2. HasYesterday(n)
    BY <1>1, <1>5, <2>1 DEF EveFirst
  <2> QED
    BY <1>1, <1>2, <1>3, <2>2 DEF HasYesterday
<1> QED
  BY <1>4, <1>5, Verdicts

-----------------------------------------------------------------------------
(* What is announced, and what may still arrive.                            *)
LEMMA OkKept ==
  ASSUME TypeOK, StepsOK, [Next]_vars, NEW n \in DOMAIN polls,
         polls[n].outcome = "ok"
  PROVE  /\ n \in DOMAIN polls' /\ polls'[n].outcome = "ok"
         /\ polls'[n].fetched = polls[n].fetched
<1>1. CASE BeginPoll
  BY <1>1, PollBegun
<1>2. CASE Fetch
  <2>1. polls # <<>> /\ polls[Current].outcome = "none"
    BY <1>2 DEF StepsOK, Polling, Fetch
  <2>2. left' \in SUBSET Record
    BY <1>2 DEF Fetch, RecordsOf
  <2>3. /\ DOMAIN polls' = DOMAIN polls
        /\ \A k \in DOMAIN polls :
             /\ polls'[k].outcome = polls[k].outcome
             /\ polls'[k].fetched =
                  IF k = Current THEN polls[k].fetched \cup left' ELSE polls[k].fetched
    BY <1>2, <2>1, <2>2, AddFetched DEF Fetch
  <2> QED
    BY <2>1, <2>3
<1>3. ASSUME NEW o \in Outcomes, After(o), pc \in {"fetch", "produce", "flush"}
      PROVE  /\ n \in DOMAIN polls' /\ polls'[n].outcome = "ok"
             /\ polls'[n].fetched = polls[n].fetched
  <2>1. polls # <<>> /\ polls[Current].outcome = "none"
    BY <1>3 DEF StepsOK, Polling
  <2> QED
    BY <1>3, <2>1, SetOutcome DEF After
<1>4. CASE Flush
  <2>1. Verdict(Len(queue), failures') \in Outcomes
    BY DEF Verdict, Outcomes
  <2> QED
    BY <1>3, <1>4, <2>1 DEF Flush
<1>5. CASE Raise
  BY <1>3, <1>5 DEF Raise, Outcomes
<1>6. CASE ~(BeginPoll \/ Fetch \/ Flush \/ Raise)
  <2>1. polls' = polls
    BY <1>6 DEF Next, Run, Tick, Publish, Produce, StartFlush, Leave, End, Signal,
       Kill, Restart, Deliver, Refuse, Reported, vars, process
  <2> QED
    BY <2>1
<1> QED
  BY <1>1, <1>2, <1>4, <1>5, <1>6

LEMMA QueueFrom ==
  ASSUME TypeOK, StepsOK, [Next]_vars, NEW i \in DOMAIN queue'
  PROVE  \/ \E k \in DOMAIN queue : queue'[i] = queue[k]
         \/ Polling /\ queue'[i].poll = Current
<1>1. ASSUME NEW r \in left, Produce(r)
      PROVE  \/ \E k \in DOMAIN queue : queue'[i] = queue[k]
             \/ Polling /\ queue'[i].poll = Current
  <2> DEFINE m == [poll |-> Current, rec |-> r]
  <2>1. polls # <<>> /\ Polling
    BY <1>1 DEF StepsOK, Polling, Produce
  <2>2. Current \in 1 .. MaxPolls
    BY <2>1, CurrentPoll, Constants DEF StepsOK, Current
  <2>3. m \in Message /\ m.poll = Current
    BY <2>2 DEF TypeOK, Message
  <2>4. queue' = Append(queue, m)
    BY <1>1 DEF Produce
  <2> HIDE DEF m
  <2>5. /\ Len(queue') = Len(queue) + 1 /\ queue' \in Seq(Message)
        /\ \A k \in 1 .. Len(queue) : queue'[k] = queue[k]
        /\ queue'[Len(queue) + 1] = m
    BY <2>3, <2>4, Queued, AppendProperties
  <2>6. DOMAIN queue' = 1 .. Len(queue) + 1 /\ DOMAIN queue = 1 .. Len(queue)
        /\ Len(queue) \in Nat
    BY <2>5, Queued, LenProperties
  <2>7. i \in DOMAIN queue \/ i = Len(queue) + 1
    BY <2>6
  <2> QED
    BY <2>1, <2>3, <2>5, <2>6, <2>7
<1>2. ASSUME NEW k \in DOMAIN queue, Deliver(k) \/ Refuse(k)
      PROVE  \E j \in DOMAIN queue : queue'[i] = queue[j]
  <2>1. PICK e \in SUBSET {queue[k]} : Reported(k, e)
    BY <1>2 DEF Deliver, Refuse
  <2>2. /\ i \in 1 .. Len(queue) - 1
        /\ queue'[i] = IF i < k THEN queue[i] ELSE queue[i + 1]
    BY <2>1, Dequeued
  <2>3. i \in DOMAIN queue /\ i + 1 \in DOMAIN queue
    BY <2>2, Queued
  <2> QED
    BY <2>2, <2>3
<1>3. CASE queue' = queue \/ queue' = <<>>
  BY <1>3
<1> QED
  BY <1>1, <1>2, <1>3 DEF Next, Run, Tick, Publish, BeginPoll, Fetch, StartFlush,
     Flush, Raise, Leave, End, Signal, Kill, Restart, vars, process

LEMMA BarrierStep ==
  ASSUME TypeOK, StepsOK, Barrier, [Next]_vars
  PROVE  Barrier'
<1> SUFFICES ASSUME NEW n \in DOMAIN polls', polls'[n].outcome = "ok",
                    NEW i \in DOMAIN queue'
             PROVE  n < queue'[i].poll
  BY DEF Barrier
<1>1. CASE n \in DOMAIN polls /\ polls[n].outcome = "ok"
  <2>1. CASE \E k \in DOMAIN queue : queue'[i] = queue[k]
    BY <1>1, <2>1 DEF Barrier
  <2>2. CASE Polling /\ queue'[i].poll = Current
    <3>1. n # Current
      BY <1>1, <2>2 DEF StepsOK
    <3> QED
      BY <1>1, <2>2, <3>1, PollTypes
  <2> QED
    BY <2>1, <2>2, QueueFrom
<1>2. CASE Flush /\ polls'[n].outcome = Verdict(Len(queue), failures')
  <2>1. ~(Len(queue) > 0) /\ queue' = queue
    BY <1>2 DEF Verdict, Flush
  <2> QED
    BY <2>1, Queued
<1> QED
  BY <1>1, <1>2, Verdicts

(* An error is news of a message that waited, or is known already.          *)
LEMMA NewsFrom ==
  ASSUME TypeOK, [Next]_vars, NEW m \in failures' \cup reports'
  PROVE  m \in failures \cup reports \/ Waiting(m)
<1>1. ASSUME NEW i \in DOMAIN queue, Deliver(i) \/ Refuse(i)
      PROVE  m \in failures \cup reports \/ Waiting(m)
  BY <1>1 DEF Deliver, Refuse, Reported, Waiting
<1>2. CASE Served
  BY <1>2 DEF Served
<1>3. CASE failures' = failures /\ reports' \subseteq reports
  BY <1>3
<1> QED
  BY <1>1, <1>2, <1>3 DEF Next, Run, Tick, Publish, BeginPoll, Fetch, Produce,
     StartFlush, Flush, Raise, Leave, End, Signal, Kill, Restart, vars, process

LEMMA LateFailureStep ==
  ASSUME TypeOK, StepsOK, Barrier, NoLateFailure, [Next]_vars
  PROVE  NoLateFailure'
<1> SUFFICES ASSUME NEW n \in DOMAIN polls', polls'[n].outcome = "ok",
                    NEW m \in failures' \cup reports'
             PROVE  m.poll # n
  BY DEF NoLateFailure
<1>1. CASE n \in DOMAIN polls /\ polls[n].outcome = "ok"
  <2>1. CASE m \in failures \cup reports
    BY <1>1, <2>1 DEF NoLateFailure
  <2>2. CASE Waiting(m)
    <3>1. PICK i \in DOMAIN queue : queue[i] = m
      BY <2>2 DEF Waiting
    <3>2. n < m.poll /\ n \in Nat /\ m.poll \in Nat
      BY <1>1, <3>1, PollTypes, Queued, Constants DEF Barrier
    <3> QED
      BY <3>2
  <2> QED
    BY <2>1, <2>2, NewsFrom
<1>2. CASE Flush /\ n = Current /\ polls'[n].outcome = Verdict(Len(queue), failures')
  <2>1. ~\E f \in failures' : f.poll = n
    BY <1>2 DEF Verdict
  <2>2. reports' = {}
    BY <1>2 DEF Flush, Served
  <2> QED
    BY <2>1, <2>2
<1> QED
  BY <1>1, <1>2, Verdicts

-----------------------------------------------------------------------------
(* The invariant holds, and with it what the runs check.                    *)
LEMMA InvariantHolds == Spec => []IInv
<1>1. Init => IInv
  BY InitHolds
<1>2. IInv /\ [Next]_vars => IInv'
  <2> SUFFICES ASSUME IInv, [Next]_vars PROVE IInv'
    OBVIOUS
  <2>1. TypeOK' /\ StepsOK'
    BY TypeStep, StepsStep DEF IInv
  <2>2. Ordered'
    BY OrderStep DEF IInv
  <2>3. Accounted' /\ PollIsWhole'
    BY AccountedStep, WholeStep DEF IInv
  <2>4. EveFirst' /\ EveFetched'
    BY EveFirstStep, EveFetchedStep DEF IInv
  <2>5. NoLateFailure' /\ Barrier'
    BY LateFailureStep, BarrierStep DEF IInv
  <2> QED
    BY <2>1, <2>2, <2>3, <2>4, <2>5 DEF IInv
<1> QED
  BY <1>1, <1>2, PTL DEF Spec

(* The producer's variables keep their types: run and poll_once.            *)
THEOREM TypeCorrect == Spec => []TypeOK
<1>1. IInv => TypeOK
  BY DEF IInv
<1> QED
  BY <1>1, InvariantHolds, PTL

(* A poll that returns a summary left all it fetched in the topics, though  *)
(* the queue, the reports and the lists of failures outlive the polls.      *)
THEOREM PollIsWholeHolds == Spec => []PollIsWhole
<1>1. IInv => PollIsWhole
  BY DEF IInv
<1> QED
  BY <1>1, InvariantHolds, PTL

(* One successful poll between Lag and the cut-off completes the eve, for   *)
(* every cut-off and Lag: the eve is fetched first and no longer changes.   *)
THEOREM YesterdayCompletedHolds == Spec => []YesterdayCompleted
<1>1. IInv => YesterdayCompleted
  <2> SUFFICES ASSUME IInv, NEW n \in DOMAIN polls, polls[n].outcome = "ok",
                      Watched(n), NEW r \in RecordsOf(Yesterday(n))
               PROVE  IsIn([poll |-> n, rec |-> r])
    BY DEF YesterdayCompleted, Watched, Yesterday
  <2>1. r \in polls[n].fetched
    BY DEF IInv, EveFetched, HasYesterday
  <2> QED
    BY <2>1 DEF IInv, PollIsWhole
<1> QED
  BY <1>1, InvariantHolds, PTL

(* A series is in its topic in the order of the polls, however the library  *)
(* interleaves, retries and gives up, and whatever a failed poll left.      *)
THEOREM SeriesInOrderHolds == Spec => []SeriesInOrder
<1>1. IInv => SeriesInOrder
  BY DEF IInv, Ordered
<1> QED
  BY <1>1, InvariantHolds, PTL

(* No callback of an announced poll is told of an error after its summary,  *)
(* for any number of polls whose leftovers share the queue.                 *)
THEOREM NoLateFailureHolds == Spec => []NoLateFailure
<1>1. IInv => NoLateFailure
  BY DEF IInv
<1> QED
  BY <1>1, InvariantHolds, PTL

-----------------------------------------------------------------------------
(* The producer implements the log its readers rely on.                     *)
LEMMA AnnouncedSame ==
  ASSUME TypeOK, StepsOK, [Next]_vars,
         \A n \in DOMAIN polls' : polls'[n].outcome = "ok" =>
           n \in DOMAIN polls /\ polls[n].outcome = "ok"
  PROVE  Announced' = Announced
<1>1. ASSUME NEW a \in Announced' PROVE a \in Announced
  <2>1. PICK n \in DOMAIN polls' :
          polls'[n].outcome = "ok" /\ a = [poll |-> n, records |-> polls'[n].fetched]
    BY DEF Announced
  <2>2. n \in DOMAIN polls /\ polls[n].outcome = "ok"
    BY <2>1
  <2>3. a = [poll |-> n, records |-> polls[n].fetched]
    BY <2>1, <2>2, OkKept
  <2> QED
    BY <2>2, <2>3 DEF Announced
<1>2. ASSUME NEW a \in Announced PROVE a \in Announced'
  <2>1. PICK n \in DOMAIN polls :
          polls[n].outcome = "ok" /\ a = [poll |-> n, records |-> polls[n].fetched]
    BY DEF Announced
  <2>2. /\ n \in DOMAIN polls' /\ polls'[n].outcome = "ok"
        /\ a = [poll |-> n, records |-> polls'[n].fetched]
    BY <2>1, OkKept
  <2> QED
    BY <2>2 DEF Announced
<1> QED
  BY <1>1, <1>2

LEMMA Arrives ==
  ASSUME IInv, NEW i \in DOMAIN queue, Deliver(i) \/ Refuse(i)
  PROVE  Log!Next \/ UNCHANGED Log!vars
<1>1. Announced' = Announced
  BY DEF Deliver, Refuse, Reported, Announced
<1>2. TypeOK /\ Ordered /\ Barrier
  BY DEF IInv
<1>3. PICK m \in Message : m = queue[i]
  BY <1>2, Queued
<1>4. /\ m.poll \in 1 .. MaxPolls /\ m.rec \in Record
      /\ m = [poll |-> m.poll, rec |-> m.rec]
  BY DEF Message
<1>5. CASE Stored(m)
  <2>1. ASSUME m.rec.value \notin Refused PROVE Log!Logged(m)
    <3>1. \A k \in DOMAIN observations[m.rec.series] :
            observations[m.rec.series][k].poll <= m.poll
      BY <1>2, <1>3, <2>1 DEF Ordered, NobodyAhead
    <3> QED
      BY <1>5, <2>1, <3>1 DEF Log!Logged, Stored
  <2>2. ASSUME m.rec.value \in Refused PROVE Log!Quarantined(m)
    BY <1>5, <2>2 DEF Log!Quarantined, Stored
  <2>3. \A a \in Announced : a.poll < m.poll
    BY <1>2, <1>3 DEF Barrier, Announced
  <2>4. Log!Arrive(m)
    BY <1>1, <2>1, <2>2, <2>3 DEF Log!Arrive
  <2>5. Log!Arrive([poll |-> m.poll, rec |-> m.rec])
    BY <1>4, <2>4, Zenon
  <2> QED
    BY <1>4, <2>5 DEF Log!Next
<1>6. CASE UNCHANGED broker
  BY <1>1, <1>6 DEF broker, Log!vars
<1> QED
  BY <1>3, <1>5, <1>6 DEF Deliver, Refuse

LEMMA Announces ==
  ASSUME IInv, [Next]_vars, Flush, Verdict(Len(queue), failures') = "ok"
  PROVE  Log!Next
<1>1. TypeOK /\ StepsOK /\ Polling /\ polls # <<>>
  BY DEF IInv, Flush, Polling, StepsOK
<1>2. /\ Current \in DOMAIN polls /\ DOMAIN polls = 1 .. Current
      /\ Current \in Nat /\ polls[Current].outcome = "none"
  BY <1>1, CurrentPoll DEF StepsOK
<1>3. /\ DOMAIN polls' = DOMAIN polls
      /\ \A n \in DOMAIN polls :
           /\ polls'[n].fetched = polls[n].fetched
           /\ polls'[n].outcome = IF n = Current THEN "ok" ELSE polls[n].outcome
  <2>1. "ok" \in Outcomes
    BY DEF Outcomes
  <2> QED
    BY <1>1, <2>1, SetOutcome DEF Flush, After
<1>4. observations' = observations /\ quarantine' = quarantine
  BY DEF Flush, broker
<1>5. PICK c \in DOMAIN polls : c = Current
  BY <1>2
<1>6. PICK a : a = [poll |-> c, records |-> polls[c].fetched]
  OBVIOUS
<1>7. Announced' = Announced \cup {a}
  <2>1. ASSUME NEW b \in Announced' PROVE b \in Announced \cup {a}
    <3>1. PICK n \in DOMAIN polls' :
            polls'[n].outcome = "ok" /\ b = [poll |-> n, records |-> polls'[n].fetched]
      BY DEF Announced
    <3>2. n \in DOMAIN polls /\ b = [poll |-> n, records |-> polls[n].fetched]
      BY <1>3, <3>1
    <3>3. n = c \/ polls[n].outcome = "ok"
      BY <1>3, <1>5, <3>1, <3>2
    <3> QED
      BY <1>6, <3>2, <3>3 DEF Announced
  <2>2. ASSUME NEW b \in Announced PROVE b \in Announced'
    <3>1. PICK n \in DOMAIN polls :
            polls[n].outcome = "ok" /\ b = [poll |-> n, records |-> polls[n].fetched]
      BY DEF Announced
    <3>2. /\ n \in DOMAIN polls' /\ polls'[n].outcome = "ok"
          /\ b = [poll |-> n, records |-> polls'[n].fetched]
      BY <1>3, <3>1
    <3> QED
      BY <3>2 DEF Announced
  <2>3. a \in Announced'
    <3>1. /\ c \in DOMAIN polls' /\ polls'[c].outcome = "ok"
          /\ a = [poll |-> c, records |-> polls'[c].fetched]
      BY <1>3, <1>5, <1>6
    <3> QED
      BY <3>1 DEF Announced
  <2> QED
    BY <2>1, <2>2, <2>3
<1>8. \A o \in Announced : o.poll < a.poll /\ o # a
  <2>1. ASSUME NEW o \in Announced PROVE o.poll < c
    <3>1. PICK n \in DOMAIN polls :
            polls[n].outcome = "ok" /\ o = [poll |-> n, records |-> polls[n].fetched]
      BY DEF Announced
    <3>2. n # c
      BY <1>2, <1>5, <3>1
    <3> QED
      BY <1>2, <1>5, <3>1, <3>2
  <2>2. a.poll = c /\ c \in Nat
    BY <1>2, <1>5, <1>6
  <2> QED
    BY <2>1, <2>2
<1>9. \A r \in a.records : Log!Holds([poll |-> a.poll, rec |-> r])
  <2>1. PollIsWhole'
    BY WholeStep DEF IInv
  <2>2. \A r \in polls'[c].fetched : IsIn([poll |-> c, rec |-> r])'
    BY <1>3, <1>5, <2>1 DEF PollIsWhole
  <2>3. \A r \in polls[c].fetched : IsIn([poll |-> c, rec |-> r])
    BY <1>3, <1>4, <2>2 DEF IsIn
  <2> QED
    BY <1>6, <2>3 DEF IsIn, Log!Holds
<1>10. Log!Announce(a)
  BY <1>4, <1>7, <1>8, <1>9 DEF Log!Announce
<1> QED
  BY <1>7, <1>8, <1>10 DEF Log!Next

LEMMA LogStep == IInv /\ [Next]_vars => [Log!Next]_(Log!vars)
<1> SUFFICES ASSUME IInv, [Next]_vars PROVE Log!Next \/ UNCHANGED Log!vars
  OBVIOUS
<1>1. TypeOK /\ StepsOK
  BY DEF IInv
<1>2. CASE \E i \in DOMAIN queue : Deliver(i) \/ Refuse(i)
  BY <1>2, Arrives
<1>3. CASE Flush /\ Verdict(Len(queue), failures') = "ok"
  BY <1>3, Announces
<1>4. CASE /\ ~\E i \in DOMAIN queue : Deliver(i) \/ Refuse(i)
           /\ ~(Flush /\ Verdict(Len(queue), failures') = "ok")
  <2>1. Announced' = Announced
    BY <1>1, <1>4, Verdicts, AnnouncedSame
  <2>2. observations' = observations /\ quarantine' = quarantine
    BY <1>4 DEF Next, Run, Tick, Publish, BeginPoll, Fetch, Produce, StartFlush,
       Flush, Raise, Leave, End, Signal, Kill, Restart, vars, broker
  <2> QED
    BY <2>1, <2>2 DEF Log!vars
<1> QED
  BY <1>2, <1>3, <1>4

(* What a reader of the topics relies on (poll_once, flush): every series   *)
(* only grows, in the order of the polls, and a summary is a barrier, with  *)
(* all of its poll before it and nothing of an earlier one behind it.       *)
THEOREM ImplementsLog == Spec => LogSpec
<1>1. Init => Log!Init
  <2> SUFFICES ASSUME Init PROVE Log!Init
    OBVIOUS
  <2>1. Announced = {}
    BY DEF Init, Announced
  <2> QED
    BY <2>1 DEF Init, Log!Init
<1> QED
  BY <1>1, LogStep, InvariantHolds, PTL DEF Spec, LogSpec, Log!Spec
=============================================================================
