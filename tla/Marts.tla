------------------------------- MODULE Marts --------------------------------
(* The dbt models over bronze: silver's versions table and the two gold     *)
(* marts, as operators.  Rows of bronze are those of Bitemporal.            *)
EXTENDS Bitemporal, FiniteSetsExt

CONSTANTS
  Keys,       \* series-and-period keys
  TypeOf,     \* the production type of each key
  Sign,       \* 1 for generation, -1 for consumption
  PeriodOf,   \* the settlement period of each key
  DayOf       \* the Paris day of each period

ASSUME SignOK == Sign \in [Keys -> {1, -1}]

NoEnd == -1   \* the null known_to of the newest version

(* lead(known_at) over the versions of one key.                             *)
Ends(table, r) ==
  {to \in {o.known_at : o \in Versions(table, r.key)} : IsKnownTo(table, r, to)}

KnownTo(table, r) ==
  IF IsCurrent(table, r) THEN NoEnd ELSE CHOOSE to \in Ends(table, r) : TRUE

(* silver.generation_versions.                                              *)
SilverVersions(table) ==
  {[key |-> r.key, value |-> r.value, known_from |-> r.known_at,
    known_to |-> KnownTo(table, r)] : r \in table}

(* silver.generation_current.                                               *)
SilverCurrent(versions) == {v \in versions : v.known_to = NoEnd}

(* Faulty variant: closed intervals.                                        *)
ReadAsOfClosed(versions, t) ==
  {v \in versions :
     v.known_from <= t /\ (t <= v.known_to \/ v.known_to = NoEnd)}

(* The known_at(moment) macro on the versions table.                        *)
ReadAsOf(versions, t) ==
  {v \in versions :
     v.known_from <= t /\ (t < v.known_to \/ v.known_to = NoEnd)}

(* sum(signed quantity), sum(net) and sum(energy) over rows.                *)
Flow(versions) ==
  LET Signed(v) == Sign[v.key] * v.value IN MapThenSumSet(Signed, versions)
TotalNet(rows) == LET Net(n) == n.net IN MapThenSumSet(Net, rows)
TotalEnergy(rows) == LET Energy(e) == e.energy IN MapThenSumSet(Energy, rows)

(* gold.period_generation_net: storage flows out and in are one signed row. *)
PeriodNet(versions) ==
  LET Group(period, type) ==
        {v \in SilverCurrent(versions) :
           PeriodOf[v.key] = period /\ TypeOf[v.key] = type}
  IN  {[period |-> PeriodOf[v.key], type |-> TypeOf[v.key],
        net |-> Flow(Group(PeriodOf[v.key], TypeOf[v.key]))] :
         v \in SilverCurrent(versions)}

(* gold.daily_generation_mix.  Every period has one length, so energy is    *)
(* the sum of net; a row's share is energy over gross, when it is positive. *)
DailyMix(net) ==
  LET Totals == {[day |-> DayOf[n.period], type |-> n.type,
                  energy |-> TotalNet({m \in net : DayOf[m.period] = DayOf[n.period]
                                                    /\ m.type = n.type})] : n \in net}
  IN  {[day |-> e.day, type |-> e.type, energy |-> e.energy,
        gross |-> TotalEnergy({f \in Totals : f.day = e.day /\ f.energy > 0})] :
         e \in Totals}
=============================================================================
