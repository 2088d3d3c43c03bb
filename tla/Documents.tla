----------------------------- MODULE Documents -----------------------------
(* What the sources send and what becomes of it: ingest/entsoe_parse.py and *)
(* contracts/gate.py for an ENTSO-E document, ingest/rte_parse.py for an    *)
(* RTE payload.                                                             *)
(*                                                                          *)
(* A figure stands for a published quantity.  It is named by the instant it *)
(* is about, so that a figure filed under another instant shows; fit says   *)
(* whether the record's own checks (unit, codes, range, scale) pass.        *)
EXTENDS TimeAxis, FiniteSets

CONSTANTS
  Types,    \* production types both sources name
  Series    \* the series the platform publishes: a type in a direction

ASSUME SeriesOK ==
  Series \subseteq [type : Types, direction : {"generation", "consumption"}]

-----------------------------------------------------------------------------
(* One Period of a TimeSeries: its series, its interval and resolution, and *)
(* points [position, figure].                                               *)

(* Faulty variant: the position is not compared with the interval.          *)
ReadableBeyond(period) ==
  /\ Divides(period.start, period.end, period.resolution)
  /\ \A p, q \in period.points : p.position = q.position => p = q

(* _parse_period does not raise.                                            *)
Readable(period) ==
  /\ Divides(period.start, period.end, period.resolution)
  /\ \A p, q \in period.points : p.position = q.position => p = q
  /\ \A p \in period.points :
       p.position \in 1 .. period_count(period.start, period.end, period.resolution)

(* Faulty variant: the n-th point is the n-th period.                       *)
ObservationsByIndex(period) ==
  {[series |-> period.series, resolution |-> period.resolution,
    valid_time |-> position_time(period.start, period.resolution,
      Cardinality({q \in period.points : q.position <= p.position})),
    figure |-> p.figure] : p \in period.points}

Observations(period) ==
  {[series |-> period.series, resolution |-> period.resolution,
    valid_time |-> position_time(period.start, period.resolution, p.position),
    figure |-> p.figure] : p \in period.points}

MissingPositions(period) ==
  (1 .. period_count(period.start, period.end, period.resolution))
    \ {p.position : p \in period.points}

(* GenerationRecord accepts it.                                             *)
Acceptable(observation, known_at) ==
  /\ observation.figure.fit
  /\ (observation.valid_time % DayLength) % observation.resolution = 0
  /\ observation.valid_time <= known_at

Gap(series, t) == [series |-> series, valid_time |-> t]

(* Resolutions are whole quarter hours: the platform has none of a minute   *)
(* and a part, which _gate_series refuses.                                  *)
apply_gate(document, known_at) ==
  LET observed == UNION {Observations(period) : period \in document}
      records  == {o \in observed : Acceptable(o, known_at)}
  IN  [records    |-> records,
       violations |-> observed \ records,
       gaps       |-> UNION {{Gap(period.series,
                                  position_time(period.start, period.resolution, n)) :
                                n \in MissingPositions(period)} :
                             period \in document},
       entries    |-> {}]

-----------------------------------------------------------------------------
(* One entry of an RTE payload: a type, a window and values [n, start, end, *)
(* figure, negative], negative when the figure is one of consumption; n     *)
(* tells the values of one start in the order they were sent.               *)
Spans(entry) == {v.end - v.start : v \in entry.values}

(* Faulty variant: every value of a start is read.                          *)
PresentAll(entry) == entry.values

(* present: the last value of each start.                                   *)
Present(entry) ==
  {v \in entry.values : \A w \in entry.values : w.start = v.start => w.n <= v.n}

(* _expected                                                                *)
Grid(start, end, resolution) ==
  {t \in start .. end - 1 : (t - start) % resolution = 0}

DirectionOf(value) == IF value.negative THEN "consumption" ELSE "generation"

(* An entry refused as a whole is one violation that names its type only.   *)
Refused(reason) ==
  [records |-> {}, violations |-> {}, gaps |-> {}, entries |-> {reason}]

(* An entry without values yields nothing, and a value off the grid is not  *)
(* looked at.                                                               *)
NormaliseEntry(entry, known_at) ==
  LET resolution == CHOOSE span \in Spans(entry) : TRUE
      grid == Grid(entry.start, entry.end, resolution)
      observed ==
        {[series |-> [type |-> entry.type, direction |-> DirectionOf(v)],
          resolution |-> resolution, valid_time |-> v.start,
          figure |-> v.figure] : v \in {w \in Present(entry) : w.start \in grid}}
      records == {o \in observed : Acceptable(o, known_at)}
  IN  CASE entry.type \notin Types -> Refused("unknown_production_type")
        [] entry.type \in Types /\ entry.values = {} ->
             [records |-> {}, violations |-> {}, gaps |-> {}, entries |-> {}]
        [] entry.type \in Types /\ entry.values # {} /\ Cardinality(Spans(entry)) # 1 ->
             Refused("mixed_resolution")
        [] entry.type \in Types /\ entry.values # {} /\ Cardinality(Spans(entry)) = 1 ->
             [records    |-> records,
              violations |-> observed \ records,
              gaps       |-> {Gap([type |-> entry.type, direction |-> "generation"], t) :
                                t \in grid \ {v.start : v \in entry.values}},
              entries    |-> {}]
=============================================================================
