---------------------------- MODULE MCRteClient ----------------------------
EXTENDS RteClient

(* Both outlive the skew, by one tick and by two.                           *)
MCLifetimes == {2, 3}
=============================================================================
