------------------------------ MODULE TimeAxis ------------------------------
(* timeaxis.py: local settlement days on the UTC axis.  Instants and        *)
(* durations are counted in quarter hours from 00:00 UTC of day 0; a        *)
(* reading is what the local clock shows, counted from its own midnight of  *)
(* day 0.  The axis holds one spring and one autumn transition.             *)
EXTENDS Integers

CONSTANTS
  Hour,        \* quarter hours in an hour
  DayLength,   \* in a day without a transition
  SpringDay,   \* the clock goes forward on this day
  AutumnDay    \* and back on this one

ASSUME AxisOK ==
  /\ Hour \in Nat \ {0}
  /\ DayLength \in Nat /\ DayLength >= 3 * Hour
  /\ SpringDay \in Nat /\ AutumnDay \in Nat /\ SpringDay < AutumnDay

(* "european bidding zones all switch at 01:00 utc"                         *)
Spring == SpringDay * DayLength + Hour
Autumn == AutumnDay * DayLength + Hour

(* astimezone, from UTC: the reading at an instant.                         *)
Local(t) == t + (IF Spring <= t /\ t < Autumn THEN 2 * Hour ELSE Hour)

(* The offset of a reading.  Where the two readings of a transition differ, *)
(* fold 0 is the offset before it and fold 1 the one after.                 *)
utcoffset(reading, fold) ==
  LET late == IF fold = 0 THEN 2 * Hour ELSE Hour
  IN  IF Spring + late <= reading /\ reading < Autumn + late
      THEN 2 * Hour
      ELSE Hour

ToUtc(reading, fold) == reading - utcoffset(reading, fold)

(* Skipped by the spring transition, or repeated by the autumn one.         *)
assert_unambiguous(reading) ==
  /\ Local(ToUtc(reading, 0)) = reading
  /\ utcoffset(reading, 0) = utcoffset(reading, 1)

(* A local calendar day, half open.  Its bounds are midnights, which pass   *)
(* assert_unambiguous (MidnightIsUnambiguous in DayCoverageProofs).         *)
settlement_day(day) ==
  [start |-> ToUtc(day * DayLength, 0),
   end   |-> ToUtc((day + 1) * DayLength, 0)]

(* The Paris date of an instant, as the queries compute it.                 *)
LocalDay(t) == Local(t) \div DayLength

Divides(start, end, resolution) ==
  end > start /\ (end - start) % resolution = 0

period_count(start, end, resolution) == (end - start) \div resolution

position_time(start, resolution, position) ==
  start + (position - 1) * resolution
=============================================================================
