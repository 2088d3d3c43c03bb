-------------------------- MODULE MCStreamProducer --------------------------
(* A small instance of StreamProducer for TLC.                              *)
EXTENDS StreamProducer

CONSTANTS s1, good, bad
=============================================================================
