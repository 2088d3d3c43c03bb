---------------------------- MODULE DayCoverage ----------------------------
(* Settlement days in bronze: what the platform publishes of a day, in      *)
(* pieces and late, what a fetch of the day makes of it, and what the       *)
(* queries that look for holes see, lake/gaps.py and quality/bronze.py.     *)
(* That a merge stores what it is given is what BronzeIngest is about.      *)
(*                                                                          *)
(* External: the platform (Publish, and the documents it answers with).     *)
EXTENDS Documents

CONSTANTS
  Resolution,    \* of each series
  MinSeries,     \* MIN_SERIES_PER_DAY
  LastDay,
  Parts,         \* the parts of a day it publishes at once: <<from, to>>, in hours
  Unfit,         \* instants whose figures no record may carry
  Foreign,       \* production types RTE names and ENTSO-E does not
  Step,          \* how far the clock moves at a time
  MaxPublished,  \* bound on what the platform publishes
  MaxFetches     \* bound on the fetches

ASSUME CoverageOK ==
  /\ Resolution \in [Series -> Nat \ {0}]
  /\ \A s \in Series : Hour % Resolution[s] = 0 /\ DayLength % Resolution[s] = 0
  /\ Parts \subseteq Nat \X Nat /\ Foreign \cap Types = {}
  /\ MinSeries \in Nat /\ LastDay \in Nat /\ Step \in Nat \ {0}
  /\ MaxPublished \in Nat /\ MaxFetches \in Nat

VARIABLES
  now,
  published,   \* the figures the platform holds: [series, figure]
  bronze,      \* rows [series, resolution, valid_time, figure]
  last,        \* the fetch just made: what was sent, and what became of it
  publishes, fetches

vars == <<now, published, bronze, last, publishes, fetches>>

Days == 0 .. LastDay
Window(day) == settlement_day(day).start .. settlement_day(day).end - 1
Figure(t) == [at |-> t, fit |-> t \notin Unfit]
Stray == [at |-> settlement_day(0).start - 1, fit |-> TRUE]   \* of no period

Nothing == [expected |-> {}, sent |-> {},
            result |-> [records |-> {}, violations |-> {}, gaps |-> {}, entries |-> {}]]

Init ==
  /\ now = settlement_day(0).start
  /\ published = {}
  /\ bronze = {}
  /\ last = Nothing
  /\ publishes = 0
  /\ fetches = 0

-----------------------------------------------------------------------------
Tick ==
  /\ now < settlement_day(LastDay).end
  /\ last = Nothing
  /\ now' = now + Step
  /\ UNCHANGED <<published, bronze, last, publishes, fetches>>

Held(series, from, to) ==
  {t \in from .. to - 1 :
     \E p \in published : p.series = series /\ p.figure.at = t}

(* The platform fills part of a day in one series, hours yet to come        *)
(* included.                                                                *)
Publish(day, series, part) ==
  LET window == settlement_day(day)
      times  == {t \in window.start + part[1] * Hour .. window.start + part[2] * Hour - 1 :
                   /\ t < window.end
                   /\ (t - window.start) % Resolution[series] = 0}
  IN  /\ last = Nothing
      /\ publishes < MaxPublished
      /\ window.start <= now
      /\ times # {} /\ Held(series, window.start, window.end) \cap times = {}
      /\ published' = published \cup
           {[series |-> series, figure |-> Figure(t)] : t \in times}
      /\ publishes' = publishes + 1
      /\ UNCHANGED <<now, bronze, last, fetches>>

-----------------------------------------------------------------------------
Period(series, from, to) ==
  [series |-> series, start |-> from, end |-> to, resolution |-> Resolution[series],
   points |-> {[position |-> (p.figure.at - from) \div Resolution[series] + 1,
                figure |-> p.figure] :
                 p \in {q \in published : /\ q.series = series
                                          /\ from <= q.figure.at /\ q.figure.at < to}}]

(* One Period over the whole window, with positions missing.                *)
WholePeriods(window) ==
  {Period(s, window.start, window.end) :
     s \in {r \in Series : Held(r, window.start, window.end) # {}}}

FirstHole(held, from, step) ==
  CHOOSE t \in from .. settlement_day(LastDay).end :
    /\ t \notin held /\ (t - from) % step = 0
    /\ \A u \in from .. t - 1 : (u - from) % step = 0 => u \in held

(* A Period for each stretch without a hole.                                *)
SplitPeriods(window) ==
  UNION {LET held == Held(s, window.start, window.end)
             step == Resolution[s]
         IN  {Period(s, from, FirstHole(held, from, step)) :
                from \in {t \in held : t - step \notin held}} : s \in Series}

(* A point too many: one past the end, or a position a second time.         *)
Spoiled(period) ==
  {[period EXCEPT !.points = @ \cup {[position |-> n, figure |-> Stray]}] :
     n \in {p.position : p \in period.points} \cup
           {period_count(period.start, period.end, period.resolution) + 1}}

Sent(window) ==
  LET sound == {WholePeriods(window), SplitPeriods(window)}
  IN  sound \cup
      UNION {UNION {{(d \ {p}) \cup {q} : q \in Spoiled(p)} : p \in d} : d \in sound}

(* Which period of which series an observation is of.                       *)
Key(observation) == Gap(observation.series, observation.valid_time)

Grids(document) ==
  UNION {{Gap(p.series, t) : t \in Grid(p.start, p.end, p.resolution)} :
           p \in document}

(* The day is fetched and loaded.  A document that does not parse raises,   *)
(* and nothing is.                                                          *)
Fetch(day) ==
  LET window == settlement_day(day)
  IN  /\ last = Nothing
      /\ window.start <= now
      /\ fetches < MaxFetches
      /\ \E document \in Sent(window) :
           LET result == apply_gate(document, now)
           IN  /\ document # {}
               /\ \A period \in document : Readable(period)
               /\ bronze' = bronze \cup result.records
               /\ last' = [expected |-> Grids(document),
                           sent |-> {Gap(p.series, p.figure.at) : p \in published}
                                      \cap Grids(document),
                           result |-> result]
      /\ fetches' = fetches + 1
      /\ UNCHANGED <<now, published, publishes>>

(* The hours RTE sends: all of them, or without the one October repeats, or *)
(* none, and one that is of no hour of the grid besides; the first of them  *)
(* corrected further down; or only half of the first.                       *)
RteValues(window) ==
  LET Value(t, end) == [n |-> 1, start |-> t, end |-> end,
                        negative |-> t = window.start, figure |-> Figure(t)]
      Overruled == [n |-> 0, start |-> window.start, end |-> window.start + Hour,
                    negative |-> FALSE, figure |-> Figure(window.start)]
      HourLong(starts) == {Value(t, t + Hour) : t \in starts}
      hours == Grid(window.start, window.end, Hour)
  IN  {HourLong((hours \ absent) \cup off) :
         absent \in {{}, {Autumn}, hours}, off \in {{}, {window.start + Hour \div 2}}}
      \cup {HourLong(hours) \cup {Overruled}}
      \cup {{Value(t, t + IF t = window.start THEN Hour \div 2 ELSE Hour) : t \in hours}}

(* An entry for all the days, which has them by the hour, is normalised.    *)
(* Nothing loads it, nor is anything else read: bound to before the loads.  *)
FetchRte(type) ==
  LET window == [start |-> settlement_day(0).start, end |-> settlement_day(LastDay).end]
  IN  /\ last = Nothing
      /\ fetches = 0
      /\ \E values \in RteValues(window) :
           LET starts == {v.start : v \in values}
               At(t)  == Gap([type |-> type,
                              direction |-> IF t \in starts /\ t = window.start
                                            THEN "consumption" ELSE "generation"], t)
           IN  last' =
                 [expected |-> {At(t) : t \in Grid(window.start, window.end, Hour)},
                  sent |-> {At(t) : t \in starts},
                  result |-> NormaliseEntry([type |-> type, start |-> window.start,
                               end |-> window.end, values |-> values], now)]
      /\ UNCHANGED <<now, published, bronze, publishes, fetches>>

(* The caller is done with what it got.                                     *)
Return ==
  /\ last # Nothing
  /\ last' = Nothing
  /\ UNCHANGED <<now, published, bronze, publishes, fetches>>

-----------------------------------------------------------------------------
Next ==
  \/ Tick
  \/ \E day \in Days :
       \/ \E series \in Series, part \in Parts : Publish(day, series, part)
       \/ Fetch(day)
  \/ \E type \in Types \cup Foreign : FetchRte(type)
  \/ Return

Spec == Init /\ [][Next]_vars

-----------------------------------------------------------------------------
(* lake/gaps.py: the days from one to another without any row, looked for   *)
(* among the rows of a day more on either side.                             *)
RowsBetween(lower, upper) ==
  {r \in bronze : lower * DayLength <= r.valid_time /\ r.valid_time < upper * DayLength}

(* Faulty variant: the bounds are not widened.                              *)
missing_settlement_days_tight(start, end) ==
  (start .. end) \ {LocalDay(r.valid_time) : r \in RowsBetween(start, end + 1)}

missing_settlement_days(start, end) ==
  (start .. end) \ {LocalDay(r.valid_time) : r \in RowsBetween(start - 1, end + 2)}

(* quality/bronze.py and queries.py, completeness.                          *)
DaysHeld == {LocalDay(r.valid_time) : r \in bronze}
RowsOf(day) == {r \in bronze : LocalDay(r.valid_time) = day}
PeriodsOf(rows) == Cardinality({r.valid_time : r \in rows})
SeriesOf(rows) == Cardinality({r.series : r \in rows})

expected_periods_24h(day) == DayLength   \* faulty

expected_periods(day) ==
  period_count(settlement_day(day).start, settlement_day(day).end, 1)

Complete(day) ==
  /\ PeriodsOf(RowsOf(day)) = expected_periods(day)
  /\ \A s \in Series :
       PeriodsOf({r \in RowsOf(day) : r.series = s}) <= expected_periods(day)
  /\ SeriesOf(RowsOf(day)) >= MinSeries

(* The days completeness fails for; the newest is not looked at.            *)
Flagged ==
  {d \in DaysHeld : (\E later \in DaysHeld : d < later) /\ ~Complete(d)}

-----------------------------------------------------------------------------
Axis == settlement_day(0).start .. settlement_day(LastDay).end - 1

TypeOK ==
  /\ now \in Int
  /\ published \subseteq [series : Series, figure : [at : Int, fit : BOOLEAN]]
  /\ bronze \subseteq [series : Series, resolution : Nat \ {0}, valid_time : Axis,
                       figure : [at : Int, fit : BOOLEAN]]
  /\ publishes \in 0 .. MaxPublished /\ fetches \in 0 .. MaxFetches

(* Through missing positions, Periods split around an outage, days of 23    *)
(* and 25 hours and points that should not be there, every row is a figure  *)
(* the platform holds, in its series and at its instant ("Positions are     *)
(* 1-based and are an offset, never an index into a list").                 *)
RightTime ==
  \A row \in bronze :
    /\ row.valid_time = row.figure.at
    /\ row.figure.fit
    /\ [series |-> row.series, figure |-> row.figure] \in published

(* What the last fetch says of the periods it asked for.                    *)
Recorded == {Key(o) : o \in last.result.records}
Violated == {Key(o) : o \in last.result.violations}

(* No period is told twice, none is a record that was not sent or a gap that *)
(* was; and in what the parser does not refuse and finds values in, what was *)
(* sent is a record or a violation and what was not is a gap: a value off   *)
(* the grid is of no period, the last value of an hour counts, October's    *)
(* repeated hour is a gap, and RTE's sign is the direction (apply_gate,     *)
(* parse_actual_generation).                                                *)
EachPeriodOnce ==
  LET told == Recorded \cup Violated
      sent == last.sent \cap last.expected
  IN  /\ Recorded \cap Violated = {}
      /\ told \subseteq sent /\ last.result.gaps \subseteq last.expected \ sent
      /\ (last.result.entries = {} /\ last.sent # {}) =>
           told = sent /\ last.result.gaps = last.expected \ sent

(* "an absent period is only visible by building the grid the window implies *)
(* and diffing" (rte_parse.py), "A position the source did not publish is   *)
(* absence, and it gets recorded" (ADR-0003), and of violations "Nothing is *)
(* dropped" (ADR-0003): every period is a record, a violation or a gap.     *)
NothingIsDropped ==
  last.expected \subseteq Recorded \cup Violated \cup last.result.gaps

(* A day before the newest passes completeness exactly when every quarter   *)
(* hour of its settlement day is held by some series, and enough series are *)
(* there: counting by Paris date misses no hole, and raises no false alarm  *)
(* when the clock changes (completeness).                                   *)
GreenMeansCovered ==
  LET flagged == Flagged
  IN  \A day \in DaysHeld :
        (\E later \in DaysHeld : day < later) =>
          (day \notin flagged <=>
             /\ \A t \in Window(day) : \E r \in bronze : r.valid_time = t
             /\ Cardinality({r.series : r \in {q \in bronze : q.valid_time \in Window(day)}})
                  >= MinSeries)

(* A day is asked for exactly when bronze has no row of its settlement day, *)
(* wherever the day lies in the range and however its bounds lie in UTC     *)
(* (missing_settlement_days).                                               *)
MissingMeansEmpty ==
  \A start, end \in Days :
    missing_settlement_days(start, end) =
      {day \in start .. end : ~\E r \in bronze : r.valid_time \in Window(day)}
=============================================================================
