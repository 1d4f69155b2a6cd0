--------------------------- MODULE KeyImageService ---------------------------
(***************************************************************************)
(* What the signer promises about an outputs export, in one step: a blob   *)
(* it can open, for its own account, in the layout it knows, in which      *)
(* every output is the account's at the index the export declares, is      *)
(* answered with the true key image of every output, in order and at the   *)
(* export's offset.  Anything else is refused as a whole, for its first    *)
(* output that is not the account's when there is one: a key mismatch      *)
(* names that output, a key that is no point is only called malformed.     *)
(***************************************************************************)
EXTENDS StealthKeys

CONSTANTS
    Account,       \* the account of the seed in the device
    Payloads,      \* the blobs that may be shown to the device
    OffsetModulus  \* 2^32, the width of the offset in the reply

VARIABLES payload, outcome

Pending == [status |-> "pending"]

Refused(error) == [status |-> "refused", error |-> error]

(* The one error that carries an index_in_export, counted from 0. *)
KeyMismatch(at) == [status |-> "refused", error |-> "KeyMismatch", at |-> at]

Replied(offset, images) ==
    [status |-> "replied",
     offset |-> offset % OffsetModulus,
     spendPublic |-> SpendPublic(Account, Primary),
     viewPublic |-> ViewKey(Account),
     images |-> images]

(* The account can spend the output: it was made with the account's view
   key and the spend key of the declared subaddress, from the transaction
   key or from the additional key of its position. *)
Owned(out) ==
    /\ out.pubkey # InvalidKey
    /\ \E c \in 1 .. Len(Candidates(out.txKey, out.additional, out.position)) :
          LET txKey == Candidates(out.txKey, out.additional, out.position)[c]
          IN  /\ txKey # NotAPoint
              /\ out.pubkey =
                    OneTimePublic(Derivation(ViewSecret(Account), txKey),
                                  out.position, SpendPublic(Account, out.index))

SignedTrueImage(out) ==
    [image |-> TrueImage(out.pubkey),
     signature |-> RingSignature(TrueImage(out.pubkey), out.pubkey, out.pubkey)]

(* The reason a blob is not an export for this account, None when it is. *)
Unreadable(p) ==
    CASE p.magic # "Monero output export" -> "BadMagic"
      [] p.magic = "Monero output export" /\ p.wrapper = "short" -> "CiphertextTooShort"
      [] /\ p.magic = "Monero output export"
         /\ p.wrapper # "short"
         /\ (p.wrapper = "damaged" \/ p.sealedBy # Account) -> "BadAuth"
      [] OTHER ->
         IF p.spendPublic # SpendPublic(Account, Primary) \/ p.viewPublic # ViewKey(Account)
         THEN "WrongAccount"
         ELSE IF p.layout # "known" THEN "Malformed" ELSE "None"

FirstForeign(outputs, at) ==
    /\ ~Owned(outputs[at])
    /\ \A before \in 1 .. at - 1 : Owned(outputs[before])

-----------------------------------------------------------------------------

Init == payload \in Payloads /\ outcome = Pending

RefuseBlob ==
    /\ outcome = Pending
    /\ Unreadable(payload) # "None"
    /\ outcome' = Refused(Unreadable(payload))
    /\ UNCHANGED payload

RefuseOutput ==
    /\ outcome = Pending
    /\ Unreadable(payload) = "None"
    /\ \E at \in 1 .. Len(payload.outputs) :
          /\ FirstForeign(payload.outputs, at)
          /\ \/ /\ payload.outputs[at].pubkey = InvalidKey
                /\ outcome' = Refused("Malformed")
             \/ /\ payload.outputs[at].pubkey # InvalidKey
                /\ outcome' = KeyMismatch(at - 1)
    /\ UNCHANGED payload

Reply ==
    /\ outcome = Pending
    /\ Unreadable(payload) = "None"
    /\ \A at \in 1 .. Len(payload.outputs) : Owned(payload.outputs[at])
    /\ outcome' =
          Replied(payload.offset,
                  [at \in 1 .. Len(payload.outputs) |->
                      SignedTrueImage(payload.outputs[at])])
    /\ UNCHANGED payload

Next == RefuseBlob \/ RefuseOutput \/ Reply

Spec == Init /\ [][Next]_<<payload, outcome>>
=============================================================================
