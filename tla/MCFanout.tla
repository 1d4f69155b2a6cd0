------------------------------ MODULE MCFanout ------------------------------
(* Two subaddresses with enough to spend, of which the first is asked for both
   of the two transactions that are missing, two outputs each. *)
EXTENDS Fanout

Coin(s, a) == [at |-> s, amount |-> a]

MCFunds == <<Coin(0, 4), Coin(0, 4), Coin(0, 4), Coin(0, 4), Coin(1, 6)>>

MCDestsAt == <<0>>
=============================================================================
