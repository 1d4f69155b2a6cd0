---------------------------- MODULE StealthKeys ----------------------------
(***************************************************************************)
(* The one-time-key algebra that libmonero-signer computes with, kept      *)
(* symbolic.                                                               *)
(*                                                                         *)
(* A curve point is the set of the secret scalars the base point was       *)
(* multiplied by, so multiplication commutes, as it does on the curve, and *)
(* two points are equal only when they are products of the same secrets.   *)
(* A point of the form  Hs(derivation || index) * G + spend  is a record   *)
(* of the three things it was made from.  Hashes to scalars and to points  *)
(* are injective: the cryptographic assumption under which everything in   *)
(* this project is stated.                                                 *)
(***************************************************************************)
EXTENDS Naturals, Sequences

-----------------------------------------------------------------------------
(* Points *)

BasePoint == {}

Mul(secret, point) == point \cup {secret}

(* Secrets.  A subaddress <<major, minor>> has the spend secret
   b + Hs("SubAddr" || a || major || minor); at <<0, 0>> the second term is
   zero and the spend secret is b itself. *)
ViewSecret(account) == <<"view", account>>

Primary == <<0, 0>>

SpendSecret(account, index) ==
    IF index = Primary THEN <<"spend", account>>
                       ELSE <<"spend", account, index>>

ViewKey(account) == Mul(ViewSecret(account), BasePoint)

SpendPublic(account, index) == Mul(SpendSecret(account, index), BasePoint)

(* The view key in an address: a*G for the primary address, a*D for a
   subaddress with spend key D. *)
AddressView(account, index) ==
    IF index = Primary THEN ViewKey(account)
                       ELSE Mul(ViewSecret(account), SpendPublic(account, index))

-----------------------------------------------------------------------------
(* One-time keys *)

Derivation(secret, public) == Mul(secret, public)

(* Thirty-two bytes that decompress to no point: a transaction key, and an
   output key. *)
NotAPoint == {<<"not a point">>}

OneTimePublic(derivation, position, spend) ==
    [derivation |-> derivation, position |-> position, spend |-> spend]

InvalidKey == OneTimePublic(NotAPoint, 0, NotAPoint)

(* A point nobody has an address for. *)
Stray == {<<"stray">>}

(* out_key - Hs(derivation || position) * G: the spend key the output was
   made for when the derivation is the sender's, some other point if not. *)
SpendCandidate(outKey, derivation, position) ==
    IF /\ outKey.derivation = derivation
       /\ outKey.position = position
    THEN outKey.spend
    ELSE Stray

(* The transaction public keys an output is tried with, in this order: the
   transaction's own, then the additional key at the output's position. *)
Candidates(txKey, additional, position) ==
    IF position < Len(additional) THEN <<txKey, additional[position + 1]>>
                                  ELSE <<txKey>>

(* s + b + sub: the scalar rebuilt by the owner, named by its public key. *)
OneTimeSecret(account, derivation, position, index) ==
    OneTimePublic(derivation, position, SpendPublic(account, index))

PublicOf(secret) == secret

(* x * Hp(P) *)
KeyImageOf(secret, outKey) == [secret |-> secret, base |-> outKey]

(* The only key image the chain accepts for an output. *)
TrueImage(outKey) == KeyImageOf(outKey, outKey)

-----------------------------------------------------------------------------
(* The sender's side.  The transaction key is r*G, or r*D when the only
   recipient is the subaddress with spend key D; an additional key is made
   the same way from a secret of its own. *)
TxSecret(tx) == <<"tx", tx>>

AdditionalSecret(tx, position) == <<"additional", tx, position>>

StandardKey(secret) == Mul(secret, BasePoint)

SubaddressKey(secret, spend) == Mul(secret, spend)

SentTo(secret, view, position, spend) ==
    OneTimePublic(Derivation(secret, view), position, spend)

-----------------------------------------------------------------------------
(* The one-member ring signature over a key image *)

RingSignature(prefix, public, secret) ==
    [prefix |-> prefix, public |-> public, secret |-> secret]

CheckRingSignature(prefix, public, image, signature) ==
    /\ signature.prefix = prefix
    /\ signature.public = public
    /\ PublicOf(signature.secret) = public
    /\ image = KeyImageOf(signature.secret, public)
=============================================================================
