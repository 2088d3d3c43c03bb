----------------------------- MODULE Bitemporal -----------------------------
(* What the SQL of the lake computes, as operators on a table.              *)
(*                                                                          *)
(* A table is a set of rows.  A row of bronze has four fields:              *)
(*   key       the series and settlement period: the five columns (source,  *)
(*             zone, production_type, direction, valid_time) that every     *)
(*             window function of the code partitions by                    *)
(*   known_at  when this version was learned                                *)
(*   value     the two compared columns, quantity_mw and source_updated_at  *)
(*   snap      the Iceberg snapshot that added the row                      *)
(* The columns no filter reads (unit, resolution, document id) are left out.*)
EXTENDS Integers

Versions(table, k) == {r \in table : r.key = k}

(* The rows with recency = 1 in the "latest" subquery of the merge.  Two    *)
(* rows tie only when the table already holds a duplicate key, and then     *)
(* row_number() picks either of them.                                       *)
Newest(table, k) ==
  {r \in Versions(table, k) :
     \A o \in Versions(table, k) : o.known_at <= r.known_at}

ChangedAlways(table, s) == TRUE     \* faulty: no comparison with the newest

(* The WHERE of the merge's USING query: no version yet, or another value.  *)
Changed(table, s) == \A n \in Newest(table, s.key) : n.value # s.value

(* Faulty variants: a plain INSERT; ON compares the key only.               *)
MatchedNever(table, s) == FALSE
MatchedByKey(table, s) == Versions(table, s.key) # {}

(* The ON clause of the merge: the bitemporal identity is already there.    *)
Matched(table, s) ==
  \E t \in table : t.key = s.key /\ t.known_at = s.known_at

(* Faulty variants: the filters see nothing of the target; a key that has a *)
(* version is never given another.                                          *)
MergeInsertsBlindly(table, staged, window) == staged
MergeInsertsOnlyNew(table, staged, window) ==
  {s \in staged : Versions(table, s.key) = {}}

(* The staged rows MERGE ... WHEN NOT MATCHED THEN INSERT adds.  Both       *)
(* filters look at the target inside the window only, and neither looks at  *)
(* the rest of the batch.                                                   *)
MergeInserts(table, staged, window) ==
  LET target == {r \in table : r.key \in window}
  IN  {s \in staged : Changed(target, s) /\ ~Matched(target, s)}

(* FOR VERSION AS OF snap, and the restated read known_at <= t.             *)
AtSnapshot(table, snap) == {r \in table : r.snap <= snap}
KnownBy(table, t) == {r \in table : r.known_at <= t}

-----------------------------------------------------------------------------
(* Silver.  known_to is lead(known_at) over the versions of one key; a row  *)
(* without a later version is current.                                      *)
IsCurrent(table, r) ==
  \A o \in Versions(table, r.key) : o.known_at <= r.known_at

IsKnownTo(table, r, to) ==
  /\ \E o \in Versions(table, r.key) : o.known_at = to /\ to > r.known_at
  /\ \A o \in Versions(table, r.key) :
       o.known_at > r.known_at => to <= o.known_at

Current(table) == {r \in table : IsCurrent(table, r)}

(* The known_at(moment) macro: the half-open interval [known_from, known_to)*)
(* of the version holds the moment.                                         *)
AsOf(table, t) ==
  {r \in table :
     /\ r.known_at <= t
     /\ \/ IsCurrent(table, r)
        \/ \E o \in table : IsKnownTo(table, r, o.known_at) /\ t < o.known_at}
=============================================================================
