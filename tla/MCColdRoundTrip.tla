-------------------------- MODULE MCColdRoundTrip --------------------------
(* Two payments received, two requested and three signed sets: enough for a
   set signed twice, two sets that share an input, change spent again, and
   stale replies of every kind. *)
EXTENDS ColdRoundTrip
=============================================================================
