------------------------ MODULE MCRestatementAudit --------------------------
(* A small instance of RestatementAudit for TLC: one storage type published *)
(* both ways, in the audited month, and one period outside it.              *)
EXTENDS RestatementAudit, TLC

CONSTANTS out, in, other, p1, p2, battery, wind

Obs(k, v) == [key |-> k, value |-> v]

Types == out :> battery @@ in :> battery @@ other :> wind
Signs == out :> 1 @@ in :> -1 @@ other :> 1
Periods == out :> p1 @@ in :> p1 @@ other :> p2
DayOfPeriod == p1 :> 2 @@ p2 :> 1

(* A full answer, and a revision of one period of it.                       *)
SomeBatches == {{Obs(out, 2), Obs(in, 1), Obs(other, 1)}, {Obs(out, 1)}}
=============================================================================
