--------------------------- MODULE MCSnapshotTxs ---------------------------
(***************************************************************************)
(* Two subaddresses: one with five outputs of which the smallest is less   *)
(* than the fee reserve, one with two of which none is more than it; a     *)
(* sixth of the first is immature.  Counts of two and one stand for the 16 *)
(* and 2 of the default.  There is enough for two runs that go through.    *)
(***************************************************************************)
EXTENDS SnapshotTxs, TLC

MCOutput == {"a1", "a2", "a3", "a4", "a5", "a6", "b1", "b2"}

MCSubOf == [o \in MCOutput |-> IF o \in {"b1", "b2"} THEN "b" ELSE "a"]

MCAmountOf ==
    "a1" :> 9 @@ "a2" :> 7 @@ "a3" :> 5 @@ "a4" :> 4 @@ "a5" :> 2 @@ "a6" :> 9 @@ "b1" :> 3 @@ "b2" :> 2

MCMature == MCOutput \ {"a6"}

MCCounts == <<2, 1>>

AllFaults == {"read", "freeze", "transfer", "thaw", "show", "sign", "submit"}
=============================================================================
