---------------------------- MODULE MCKeyImages ----------------------------
(***************************************************************************)
(* Exports of up to three outputs out of every way an output can have been *)
(* sent to the account, mixed with outputs that are not the account's as   *)
(* declared, and every reason a blob is refused as a whole.                *)
(***************************************************************************)
EXTENDS KeyImages, FiniteSets, Signatures

A == "A"
B == "B"

Exported(pubkey, txKey, additional, position, index) ==
    [pubkey |-> pubkey, txKey |-> txKey, additional |-> additional,
     position |-> position, index |-> index]

Sub == <<0, 1>>
Account1 == <<1, 0>>

(* To the primary address. *)
Standard(account) ==
    Exported(SentTo(TxSecret(1), ViewKey(account), 0, SpendPublic(account, Primary)),
             StandardKey(TxSecret(1)), <<>>, 0, Primary)

(* To one subaddress alone: the transaction key is r*D. *)
SingleSubaddress ==
    Exported(SentTo(TxSecret(2), AddressView(A, Sub), 1, SpendPublic(A, Sub)),
             SubaddressKey(TxSecret(2), SpendPublic(A, Sub)), <<>>, 1, Sub)

(* A payment to several addresses, with additional keys: the primary address
   at position 0, subaddress <<1, 0>> at position 1. *)
ManyKeys ==
    <<StandardKey(AdditionalSecret(3, 0)),
      SubaddressKey(AdditionalSecret(3, 1), SpendPublic(A, Account1))>>

ManyPrimary ==
    Exported(SentTo(TxSecret(3), ViewKey(A), 0, SpendPublic(A, Primary)),
             StandardKey(TxSecret(3)), ManyKeys, 0, Primary)

ManySubaddress(txKey) ==
    Exported(SentTo(AdditionalSecret(3, 1), AddressView(A, Account1), 1,
                    SpendPublic(A, Account1)),
             txKey, ManyKeys, 1, Account1)

Own == {Standard(A), SingleSubaddress, ManyPrimary,
        ManySubaddress(StandardKey(TxSecret(3))), ManySubaddress(NotAPoint)}

(* Another account's output; an own output listed at a wrong index; an own
   output whose additional keys were left out; no output key at all. *)
NotOwn == {Standard(B),
           [SingleSubaddress EXCEPT !.index = Account1],
           [ManySubaddress(StandardKey(TxSecret(3))) EXCEPT !.additional = <<>>],
           [Standard(A) EXCEPT !.pubkey = InvalidKey]}

Outputs(max) == UNION {[1 .. n -> Own \cup NotOwn] : n \in 0 .. max}

Blob(offset, outputs) ==
    [magic |-> "Monero output export", wrapper |-> "whole", sealedBy |-> A,
     spendPublic |-> SpendPublic(A, Primary), viewPublic |-> ViewKey(A),
     layout |-> "known", offset |-> offset, outputs |-> outputs]

One == Blob(0, <<Standard(A)>>)

MCPayloads ==
    {Blob(offset, outputs) : offset \in {0, 3, 5}, outputs \in Outputs(2)}
    \cup {Blob(2, outputs) : outputs \in [1 .. 3 -> Own \cup {Standard(B)}]}
    \cup {[One EXCEPT !.magic = magic, !.wrapper = wrapper, !.sealedBy = account,
                      !.spendPublic = SpendPublic(account, Primary),
                      !.layout = layout] :
             magic \in {"Monero output export", "Monero unsigned tx set"},
             wrapper \in {"whole", "damaged", "short"},
             account \in {A, B}, layout \in {"known", "other"}}
    \cup {[One EXCEPT !.spendPublic = SpendPublic(B, Primary)]}

(* A group of seven elements, for the completeness of the signatures that
   SignKeyImage takes for granted: every one that is made is accepted. *)
ToyHash(buf) == IF Len(buf) = 2 THEN 2 * buf[1] + 3 * buf[2] + 1
                                ELSE buf[1] + 2 * buf[2] + 3 * buf[3] + 1

ToyHashPoint(key) == (3 * key + 2) % Order

ToyChaChaKey(secret) == (secret * secret + 1) % 4

ToyCipher(key, iv, bytes) == (key + iv - bytes) % 4

ASSUME ToySignatures ==
    \A secret \in Scalar, prefix \in 0 .. 4 :
        /\ LET made == Generated(prefix, Public(secret), secret, Scalar \ {0})
           IN  /\ prefix < 3 => made # {}
               /\ \A s \in made : CheckSignature(prefix, Public(secret), s)
        /\ \A s \in RingGenerated(prefix, Public(secret), secret, Scalar) :
               CheckRing(prefix, Public(secret), KeyImage(Public(secret), secret), s)
        /\ \A iv, plain \in 0 .. 3 :
           \A sealed \in Encrypted(secret, iv, plain, Scalar \ {0}) :
               Opens(secret, sealed) /\ Decrypted(secret, sealed) = plain
=============================================================================
