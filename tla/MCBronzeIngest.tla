--------------------------- MODULE MCBronzeIngest ---------------------------
(* Small instances of BronzeIngest for TLC.                                 *)
EXTENDS BronzeIngest, TLC

CONSTANTS k1, k2, v1, v2, bad, r1, r2

Obs(k, v) == [key |-> k, value |-> v]
Says(os) == [parses |-> TRUE, obs |-> os]
Unreadable == [parses |-> FALSE, obs |-> {}]

Ingest(day, stamp, n) ==
  [kind |-> "ingest", first |-> day, last |-> day, known_at |-> stamp,
   deliveries |-> n]
Backfill(first, last, stamp, n) ==
  [kind |-> "backfill", first |-> first, last |-> last, known_at |-> stamp,
   deliveries |-> n]

(* One settlement day with two periods, and two runs at it.                 *)
OneDay == [k \in Keys |-> 1]
OneDayDocuments ==
  [d \in 1 .. 1 |->
     {Says({Obs(k1, v1), Obs(k2, bad)}),
      Says({Obs(k1, v2), Obs(k2, v1)})}]
OverlappingRuns == r1 :> Ingest(1, 1, 2) @@ r2 :> Backfill(1, 1, 2, 2)

(* Two days with a period each: a backfill of both, and an ingest of the    *)
(* second that was sent without a known_at.                                 *)
TwoDays == k1 :> 1 @@ k2 :> 2
TwoDayDocuments ==
  <<{Says({Obs(k1, v1)}), Unreadable},
    {Says({Obs(k2, v1)}), Says({Obs(k2, v2)}), Unreadable}>>
RangeRuns == r1 :> Ingest(2, 0, 1) @@ r2 :> Backfill(1, 2, 2, 2)

(* A document whose periods overlap says two things about one of them.      *)
RepeatingDocuments ==
  [d \in 1 .. 1 |-> {Says({Obs(k1, v1)}),
                      Says({Obs(k1, v1), Obs(k1, v2), Obs(k2, v1)})}]
=============================================================================
