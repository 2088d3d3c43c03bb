----------------------------- MODULE SeriesLog ------------------------------
(* What the topics promise whoever reads them, however the client library   *)
(* batches, retries and gives up: each series is a log that only grows, in  *)
(* the order of the polls; and once a poll is announced, all of it is there *)
(* and nothing of it, or of a poll before it, is still to come.             *)
EXTENDS Integers, Sequences

CONSTANTS
  Series, Record, Polls,
  Refused        \* values of records that go to the quarantine topic

VARIABLES
  log,           \* the partition of each series
  refusals,      \* the quarantine topic
  announced      \* the polls whose summary was returned, with their records

vars == <<log, refusals, announced>>

Init ==
  /\ log = [s \in Series |-> <<>>]
  /\ refusals = {}
  /\ announced = {}

Holds(m) ==
  IF m.rec.value \in Refused THEN m \in refusals
  ELSE \E i \in DOMAIN log[m.rec.series] : log[m.rec.series][i] = m

Logged(m) ==
  /\ m.rec.value \notin Refused
  /\ \A i \in DOMAIN log[m.rec.series] : log[m.rec.series][i].poll <= m.poll
  /\ log' = [log EXCEPT ![m.rec.series] = Append(@, m)]
  /\ UNCHANGED refusals

Quarantined(m) ==
  /\ m.rec.value \in Refused
  /\ refusals' = refusals \cup {m}
  /\ UNCHANGED log

Arrive(m) ==
  /\ Logged(m) \/ Quarantined(m)
  /\ \A a \in announced : a.poll < m.poll
  /\ UNCHANGED announced

Announce(a) ==
  /\ announced' = announced \cup {a}
  /\ \A o \in announced : o.poll < a.poll
  /\ \A r \in a.records : Holds([poll |-> a.poll, rec |-> r])
  /\ UNCHANGED <<log, refusals>>

Next ==
  \/ \E n \in Polls, r \in Record : Arrive([poll |-> n, rec |-> r])
  \/ \E a \in announced' \ announced : Announce(a)

Spec == Init /\ [][Next]_vars
=============================================================================
