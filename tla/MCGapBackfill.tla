--------------------------- MODULE MCGapBackfill ---------------------------
(* A small instance of GapBackfill for TLC.                                 *)
EXTENDS GapBackfill
=============================================================================
