---------------------------- MODULE OneTimeKeys ----------------------------
(***************************************************************************)
(* What the key image run and the signing run share: opening a payload     *)
(* (crypt::decrypt), and one_time_key of keyimage.rs: the secret key of an *)
(* exported output and its signed key image, or the reason there is none.  *)
(*                                                                         *)
(* An exported output is a record                                          *)
(*   [pubkey, txKey, additional, position, index]                          *)
(* where position is internal_output_index and index the declared          *)
(* subaddress.  A payload has at least                                     *)
(*   [magic, wrapper, sealedBy, layout]                                    *)
(* where wrapper says whether the sealed bytes arrived "whole", "damaged"  *)
(* or cut "short", sealedBy is the account whose view key sealed them and  *)
(* layout whether the plaintext has the "known" versions and lengths.      *)
(***************************************************************************)
EXTENDS StealthKeys

CONSTANT Account \* the account of the seed in the device

Decrypt(p) ==
    IF p.wrapper = "short" THEN "CiphertextTooShort"
    ELSE IF p.wrapper = "damaged" \/ p.sealedBy # Account THEN "BadAuth"
    ELSE "None"

(* one_time_key: the first candidate whose spend key is the one of the
   declared subaddress. *)

(* Mutant: the additional key of the position is never tried. *)
DerivationsTxKeyOnly(out) ==
    {Derivation(ViewSecret(Account), txKey) : txKey \in {out.txKey} \ {NotAPoint}}

Derivations(out) ==
    {Derivation(ViewSecret(Account), txKey) :
        txKey \in {Candidates(out.txKey, out.additional, out.position)[c] :
                      c \in 1 .. Len(Candidates(out.txKey, out.additional, out.position))}
                  \ {NotAPoint}}

Matching(out) ==
    {d \in Derivations(out) :
        SpendCandidate(out.pubkey, d, out.position) = SpendPublic(Account, out.index)}

Secret(out) ==
    OneTimeSecret(Account, CHOOSE d \in Matching(out) : TRUE, out.position, out.index)

OneTimeKeyError(out) ==
    IF out.pubkey = InvalidKey THEN "Malformed"
    ELSE IF Matching(out) = {} THEN "KeyMismatch"
    ELSE IF PublicOf(Secret(out)) # out.pubkey THEN "KeyMismatch"
    ELSE "None"

SignKeyImage(out) ==
    LET image == KeyImageOf(Secret(out), out.pubkey)
    IN  [image |-> image,
         signature |-> RingSignature(image, PublicOf(Secret(out)), Secret(out))]
=============================================================================
