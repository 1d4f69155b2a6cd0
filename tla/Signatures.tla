----------------------------- MODULE Signatures -----------------------------
(***************************************************************************)
(* The signatures of crypt.rs and keyimage.rs, and the payload wrapper     *)
(* that one of them authenticates, as the arithmetic they are.             *)
(*                                                                         *)
(* A scalar is an integer modulo the order of the group, a point the       *)
(* scalar the base point is multiplied by, hash functions and the cipher   *)
(* are whatever functions they are.  StealthKeys and OneTimeKeys take from *)
(* here, in symbols, that what was signed is accepted and opened.          *)
(***************************************************************************)
EXTENDS Integers

CONSTANTS
    Order,         \* of the group, a prime
    Hash(_),       \* keccak256, as a number
    HashPoint(_),  \* hash_to_point of a key, by its scalar
    ChaChaKey(_),  \* chacha_key_from_secret
    Cipher(_,_,_)  \* the keystream of a key and an iv, applied to bytes

ASSUME OrderAssumption == Order \in Nat \ {0, 1}

Scalar == 0 .. Order - 1

HashToScalar(buf) == Hash(buf) % Order

Public(secret) == secret % Order

-----------------------------------------------------------------------------

(* What a turn of the loop makes of a random k; it is drawn again unless both
   scalars are used. *)
Turn(c, k, secret) == [c |-> c, r |-> (k - c * secret) % Order]

Usable(signature) == signature.c # 0 /\ signature.r # 0

Generated(prefix, public, secret, nonces) ==
    {s \in {Turn(HashToScalar(<<prefix, public, k % Order>>), k, secret) : k \in nonces} : Usable(s)}

CheckSignature(prefix, public, signature) ==
    LET comm == (signature.c * public + signature.r) % Order
    IN  /\ signature.c # 0
        /\ comm # 0
        /\ HashToScalar(<<prefix, public, comm>>) = signature.c

-----------------------------------------------------------------------------
(* ring_signature_1 of an output with key image secret * hp. *)

KeyImage(public, secret) == (secret * HashPoint(public)) % Order

RingGenerated(prefix, public, secret, nonces) ==
    {s \in {Turn(HashToScalar(<<prefix, k % Order, (k * HashPoint(public)) % Order>>), k, secret) :
                k \in nonces} : Usable(s)}

CheckRing(prefix, public, image, signature) ==
    LET l == (signature.c * public + signature.r) % Order
        r == (signature.c * image + signature.r * HashPoint(public)) % Order
    IN  HashToScalar(<<prefix, l, r>>) = signature.c

-----------------------------------------------------------------------------
(* The wrapper *)

Encrypted(secret, iv, plain, nonces) ==
    LET body == Cipher(ChaChaKey(secret), iv, plain)
    IN  {[iv |-> iv, body |-> body, signature |-> s] :
            s \in Generated(Hash(<<iv, body>>), Public(secret), secret, nonces)}

Canonical(signature) == signature.c \in Scalar /\ signature.r \in Scalar

Opens(secret, sealed) ==
    /\ Canonical(sealed.signature)
    /\ CheckSignature(Hash(<<sealed.iv, sealed.body>>), Public(secret), sealed.signature)

Decrypted(secret, sealed) == Cipher(ChaChaKey(secret), sealed.iv, sealed.body)
=============================================================================
