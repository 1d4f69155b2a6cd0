----------------------------- MODULE MCColdSign -----------------------------
(***************************************************************************)
(* A window of two majors and two minors stands for the 5 by 200 one.  The *)
(* account "A" owns an output at its primary address, one at a subaddress  *)
(* inside the window and one at a subaddress of a third account, outside   *)
(* it, each received in another kind of transaction.                       *)
(***************************************************************************)
EXTENDS ColdSign, SequencesExt

A == "A"

MCLookahead == <<2, 2>>

Sub == <<0, 1>>
Far == <<2, 1>>

(* Where the outputs came from: the primary output in a plain transaction,
   the window one alone in a transaction to a subaddress, the far one next
   to other recipients. *)
FarKeys ==
    <<StandardKey(AdditionalSecret(103, 0)),
      SubaddressKey(AdditionalSecret(103, 1), SpendPublic(A, Far))>>

Output0 ==
    [pubkey |-> SentTo(TxSecret(101), ViewKey(A), 0, SpendPublic(A, Primary)),
     txKey |-> StandardKey(TxSecret(101)), additional |-> <<>>,
     position |-> 0, index |-> Primary]

Output1 ==
    [pubkey |-> SentTo(TxSecret(102), AddressView(A, Sub), 2, SpendPublic(A, Sub)),
     txKey |-> SubaddressKey(TxSecret(102), SpendPublic(A, Sub)), additional |-> <<>>,
     position |-> 2, index |-> Sub]

OutputFar ==
    [pubkey |-> SentTo(AdditionalSecret(103, 1), AddressView(A, Far), 1, SpendPublic(A, Far)),
     txKey |-> StandardKey(TxSecret(103)), additional |-> FarKeys,
     position |-> 1, index |-> Far]

Foreign ==
    [pubkey |-> SentTo(TxSecret(104), ViewKey("B"), 0, SpendPublic("B", Primary)),
     txKey |-> StandardKey(TxSecret(104)), additional |-> <<>>,
     position |-> 0, index |-> Primary]

(* Later outputs have the larger key image. *)
MCImageRank ==
    (Output0.pubkey :> 1) @@ (Output1.pubkey :> 2) @@ (OutputFar.pubkey :> 3)
    @@ (Foreign.pubkey :> 4)

Decoy(n) == OneTimePublic({<<"decoy", n>>}, n, {<<"decoy", n>>})

Member(global, key, mask, amount) ==
    [global |-> global, key |-> key, commitment |-> <<mask, amount>>]

(* A source whose real member is last, or first, of a ring of two. *)
Source(out, amount, real) ==
    [txKey |-> out.txKey, additional |-> out.additional, position |-> out.position,
     amount |-> amount, mask |-> out.position + 1, real |-> real,
     ring |-> IF real = 1
              THEN <<Member(3, Decoy(0), 0, 7), Member(8, out.pubkey, out.position + 1, amount)>>
              ELSE <<Member(4, out.pubkey, out.position + 1, amount), Member(9, Decoy(1), 0, 7)>>]

S0 == Source(Output0, 4, 1)
S1 == Source(Output1, 5, 0)
SFar == Source(OutputFar, 9, 1)

To(owner, index, amount) ==
    [owner |-> owner, index |-> index, amount |-> amount, sub |-> index # Primary]

(* A destination of which the set says the wrong thing. *)
Misnamed(d) == [d EXCEPT !.sub = ~d.sub]

(* Payees of two other wallets, one of them twice with different amounts,
   and the account itself, at the change address and elsewhere. *)
MCPayees ==
    {To("B", Primary, 1), To("B", <<0, 1>>, 1), To("B", <<0, 1>>, 2),
     To("C", <<0, 2>>, 1), To(A, <<1, 1>>, 1), To(A, Primary, 1)}

(* Change to the primary address or to the second account's; the unowned
   zero-amount output added when nothing is left over. *)
Changes == {To(A, Primary, 2), To(A, <<1, 0>>, 2), To("dummy", Primary, 0)}

Transaction(sources, change, payments, id) ==
    [supported |-> TRUE, sources |-> sources, change |-> change,
     dests |-> payments \o <<change>>, nonce |-> id]

Payments == {<<p>> : p \in MCPayees} \cup [1 .. 2 -> MCPayees]

SetOf(txes, transfers) ==
    [magic |-> "Monero unsigned tx set", wrapper |-> "whole", sealedBy |-> A,
     layout |-> "known", txes |-> txes, transfers |-> transfers]

Plain == Transaction(<<S0, S1>>, To(A, Primary, 2), <<To("B", Primary, 1)>>, "none")

(* One transaction, every mix of payees, change and payment id. *)
SingleSets ==
    {SetOf(<<Transaction(<<S0, S1>>, change, payments, id)>>, <<Output0>>) :
        change \in Changes, payments \in Payments, id \in {"none", "short"}}
    \cup {SetOf(<<Transaction(sources, change, <<To("B", <<0, 1>>, 1)>>, "long")>>, <<OutputFar>>) :
             sources \in {<<S0>>, <<S1, S0>>, <<SFar, S0, S1>>}, change \in Changes}
    \* nothing but change, and the same payment twice
    \cup {SetOf(<<[Plain EXCEPT !.dests = <<Plain.change>>]>>, <<>>),
          SetOf(<<[Plain EXCEPT !.dests = <<To("B", <<0, 1>>, 1), To("B", <<0, 1>>, 1)>>]>>, <<>>)}

(* Addresses taken for subaddresses and the other way round, alone, next to
   true ones, and named both ways in one transaction; change so too. *)
MisnamedSets ==
    {SetOf(<<Transaction(<<S0, S1>>, change, <<Misnamed(p), q>>, "none")>>, <<>>) :
        p \in MCPayees, q \in MCPayees, change \in {To(A, Primary, 2), Misnamed(To(A, Primary, 2))}}
    \cup {SetOf(<<Transaction(<<S0, S1>>, To(A, Primary, 2), <<Misnamed(p)>>, id)>>, <<>>) :
             p \in MCPayees, id \in {"none", "short"}}

(* Two transactions of one set, as when a payment is split. *)
SplitSets ==
    {SetOf(<<Transaction(<<S0>>, To(A, Primary, 2), <<p>>, "none"),
             Transaction(<<S1>>, To(A, Primary, 2), <<q>>, "none")>>, <<Output1>>) :
        p \in {To("B", Primary, 1), To("B", <<0, 1>>, 1)}, q \in MCPayees}

(* A ring one longer than a byte can count, whose real member's position is
   cut to that of a member with the same commitment. *)
LongRing ==
    [S0 EXCEPT !.real = 4,
               !.ring = <<Member(1, Decoy(2), 1, 4)>> \o
                        [i \in 1 .. 3 |-> Member(i + 1, Decoy(i), 0, 7)] \o <<Member(8, Output0.pubkey, 1, 4)>>]

(* Sums beyond the width of an amount: payments that wrap to less than the
   inputs are signed; inputs that wrap to less than the payments are not. *)
Rich == Source(Output0, 30, 1)

Wrapping ==
    {SetOf(<<[Plain EXCEPT !.dests = <<To("B", Primary, 20), To("B", <<0, 1>>, 14)>>]>>, <<>>),
     SetOf(<<[Plain EXCEPT !.dests = <<To("B", Primary, 3), To(A, Primary, 2), To(A, Primary, 31)>>]>>, <<>>),
     SetOf(<<[Plain EXCEPT !.sources = <<Rich, S1>>, !.dests = <<To("B", Primary, 2)>>]>>, <<>>)}

(* Everything that makes a transaction unfit to be signed, in a set of its
   own and behind a good transaction; a transfer that is not the account's. *)
Unfit ==
    {[Plain EXCEPT !.supported = FALSE],
     [Plain EXCEPT !.sources = <<>>],
     [Plain EXCEPT !.sources = <<S0, Source(Foreign, 3, 1)>>],
     [Plain EXCEPT !.sources = <<SFar>>],
     [Plain EXCEPT !.sources = <<[S1 EXCEPT !.amount = 6]>>],
     [Plain EXCEPT !.sources = <<[S0 EXCEPT !.ring = Reverse(S0.ring), !.real = 0]>>],
     [Plain EXCEPT !.sources = <<[S0 EXCEPT !.ring[2].key = InvalidKey]>>],
     [Plain EXCEPT !.nonce = "unreadable"],
     [Plain EXCEPT !.sources = <<[S0 EXCEPT !.ring[1].key = InvalidKey]>>],
     [Plain EXCEPT !.sources = <<[S0 EXCEPT !.ring[1].commitment = NoCommitment]>>],
     [Plain EXCEPT !.sources = <<[S0 EXCEPT !.mask = 4, !.ring[2].commitment = <<4, 4>>], S1>>],
     [Plain EXCEPT !.sources = <<[S0 EXCEPT !.real = 2]>>],
     [Plain EXCEPT !.dests = <<To(NoPoint, Primary, 1)>>],
     [Plain EXCEPT !.dests = <<To(NoPoint, Sub, 1)>>],
     [Plain EXCEPT !.dests = <<To(NoPoint, Primary, 1)>>, !.nonce = "short"],
     [Plain EXCEPT !.sources = <<LongRing>>],
     [Plain EXCEPT !.sources = <<Rich, S1>>],
     [Plain EXCEPT !.dests = <<>>],
     [Plain EXCEPT !.dests = <<To("B", Primary, 10)>>],
     [Plain EXCEPT !.dests = [i \in 1 .. 5 |-> To("B", Primary, 1)]],
     Transaction(<<S0>>, To(A, Primary, 1),
                 <<To("B", Primary, 1), To("C", <<0, 2>>, 1)>>, "short")}

UnfitSets ==
    {SetOf(txes, <<>>) : txes \in {<<u>> : u \in Unfit} \cup {<<Plain, u>> : u \in Unfit}}
    \cup {SetOf(<<Plain>>, <<Output0, Foreign>>), SetOf(<<>>, <<Output1>>)}
    \cup {[SetOf(<<Plain>>, <<>>) EXCEPT !.magic = "Monero output export"],
          [SetOf(<<Plain>>, <<>>) EXCEPT !.wrapper = "damaged"],
          [SetOf(<<Plain>>, <<>>) EXCEPT !.wrapper = "short"],
          [SetOf(<<Plain>>, <<>>) EXCEPT !.sealedBy = "B"],
          [SetOf(<<Plain>>, <<>>) EXCEPT !.layout = "other"]}

MCSets == SingleSets \cup MisnamedSets \cup SplitSets \cup UnfitSets \cup Wrapping

(* A wallet that spends from the third account, whose primary address has
   received nothing yet: the input is listed, the change address is not. *)
ThirdAccountSets ==
    {SetOf(<<Transaction(<<SFar>>, To(A, <<2, 0>>, 2), payments, "none")>>, <<OutputFar, Output0>>) :
        payments \in Payments}
=============================================================================
