---------------------------- MODULE BronzeLedger ----------------------------
(* What bronze promises its readers, whoever writes it and however many     *)
(* queries are in flight: a table that only grows, one batch at a time,     *)
(* where every batch is judged against the whole table as it stands.        *)
EXTENDS Bitemporal

CONSTANTS Keys, Values

VARIABLE table

Row == [key : Keys, known_at : Nat, value : Values, snap : Nat]

(* The rows one step adds, as a merge on the current table would.      *)
Added == table' \ table

Learn ==
  /\ table \subseteq table'
  /\ Added \subseteq Row
  /\ \A s \in Added :
       /\ Changed(table, s)
       /\ ~Matched(table, s)
       /\ \A r \in table : r.snap < s.snap
       /\ \A o \in Added :
            /\ o.snap = s.snap
            /\ o.known_at = s.known_at
            /\ o.key = s.key => o = s

Init == table = {}

Spec == Init /\ [][Learn]_table

-----------------------------------------------------------------------------
(* quality/bronze.py counts duplicate_keys and expects none: no two rows of *)
(* bronze share key and known_at, the bitemporal identity.                  *)
UniqueIdentity ==
  \A r, o \in table : (r.key = o.key /\ r.known_at = o.known_at) => r = o

(* known_at says when a value appeared, not when it was last looked at      *)
(* (lake/bronze.py, the comment above MERGE): a row was added only because  *)
(* the newest version held at that moment said something else.              *)
NoPhantomRevision ==
  \A r \in table :
    \A n \in Newest({o \in table : o.snap < r.snap}, r.key) :
      n.value # r.value
=============================================================================
