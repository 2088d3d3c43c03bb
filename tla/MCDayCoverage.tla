--------------------------- MODULE MCDayCoverage ---------------------------
(* Two types, one of them stored.  Days of four hours of two quarters; the  *)
(* clock goes forward on day 0 and back on day 1.                           *)
EXTENDS DayCoverage

MCTypes == {"nuclear", "storage"}

MCSeries == {[type |-> "nuclear", direction |-> "generation"],
             [type |-> "storage", direction |-> "generation"],
             [type |-> "storage", direction |-> "consumption"]}

MCForeign == {"exchange"}

(* Storage is published by the hour.                                        *)
MCResolution == [s \in MCSeries |-> IF s.type = "storage" THEN Hour ELSE 1]

(* A whole day, its first two hours, and the rest.                          *)
MCParts == {<<0, 5>>, <<0, 2>>, <<2, 5>>}

(* One in the second hour of day 1.                                         *)
MCUnfit == {6}
=============================================================================
