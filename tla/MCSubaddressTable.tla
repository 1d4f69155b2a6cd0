------------------------- MODULE MCSubaddressTable -------------------------
(***************************************************************************)
(* A window of two majors and two minors; one listed index inside it, two  *)
(* outside it, one index in neither, and two keys of other wallets.        *)
(***************************************************************************)
EXTENDS SubaddressTable

CONSTANTS k00, k01, k10, k11, k20, k12, k30, f1, f2

MCKey == {k00, k01, k10, k11, k20, k12, k30, f1, f2}

MCIndex == {<<0, 0>>, <<0, 1>>, <<1, 0>>, <<1, 1>>, <<2, 0>>, <<1, 2>>, <<3, 0>>}

MCPrimary == <<0, 0>>

MCSpendKeyOf ==
    [i \in MCIndex |->
        CASE i = <<0, 0>> -> k00
          [] i = <<0, 1>> -> k01
          [] i = <<1, 0>> -> k10
          [] i = <<1, 1>> -> k11
          [] i = <<2, 0>> -> k20
          [] i = <<1, 2>> -> k12
          [] i = <<3, 0>> -> k30]

MCListed == {<<1, 0>>, <<2, 0>>, <<1, 2>>}

MCLookahead == <<2, 2>>
=============================================================================
