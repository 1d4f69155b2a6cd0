----------------------------- MODULE KeyImages -----------------------------
(***************************************************************************)
(* The key image half of the signer, one run of `xmr-signer keyimages`:    *)
(* OutputsExport::parse opens and reads the blob, sign_key_images derives  *)
(* the one-time key of each output in turn and stops at the first that is  *)
(* not the account's, export_blob builds the reply.                        *)
(*                                                                         *)
(* A blob is a payload record                                              *)
(*   [magic, wrapper, sealedBy, spendPublic, viewPublic, layout, offset,   *)
(*    outputs].                                                            *)
(***************************************************************************)
EXTENDS OneTimeKeys

CONSTANTS Payloads, OffsetModulus

ASSUME OffsetAssumption == OffsetModulus \in Nat \ {0}

ASSUME PayloadAssumption ==
    \A p \in Payloads :
        /\ p.offset \in Nat
        /\ p.outputs \in Seq({p.outputs[i] : i \in 1 .. Len(p.outputs)})
        /\ \A i \in 1 .. Len(p.outputs) :
              LET out == p.outputs[i]
              IN  out.pubkey = OneTimePublic(out.pubkey.derivation, out.pubkey.position,
                                             out.pubkey.spend)

VARIABLES
    pc,      \* "parse", "derive" or "done"
    payload, \* the blob read from the input file
    images,  \* the signed key images derived so far
    outcome  \* the reply or the error

vars == <<pc, payload, images, outcome>>

Service == INSTANCE KeyImageService

-----------------------------------------------------------------------------
(* OutputsExport::parse: the checks in their order. *)

(* Mutant: the account in the export's header is not compared. *)
ParseErrorAnyAccount(p) ==
    IF p.magic # "Monero output export" THEN "BadMagic"
    ELSE IF Decrypt(p) # "None" THEN Decrypt(p)
    ELSE IF p.layout # "known" THEN "Malformed"
    ELSE "None"

ParseError(p) ==
    IF p.magic # "Monero output export" THEN "BadMagic"
    ELSE IF Decrypt(p) # "None" THEN Decrypt(p)
    ELSE IF \/ p.spendPublic # SpendPublic(Account, Primary)
            \/ p.viewPublic # ViewKey(Account) THEN "WrongAccount"
    ELSE IF p.layout # "known" THEN "Malformed"
    ELSE "None"

-----------------------------------------------------------------------------
(* export_blob *)

ExportBlob(offset, signed) ==
    [status |-> "replied",
     offset |-> offset % OffsetModulus,
     spendPublic |-> SpendPublic(Account, Primary),
     viewPublic |-> ViewKey(Account),
     images |-> signed]

-----------------------------------------------------------------------------

Init ==
    /\ pc = "parse"
    /\ payload \in Payloads
    /\ images = <<>>
    /\ outcome = Service!Pending

ParseFails ==
    /\ pc = "parse"
    /\ ParseError(payload) # "None"
    /\ pc' = "done"
    /\ outcome' = Service!Refused(ParseError(payload))
    /\ UNCHANGED <<payload, images>>

ParseSucceeds ==
    /\ pc = "parse"
    /\ ParseError(payload) = "None"
    /\ pc' = "derive"
    /\ UNCHANGED <<payload, images, outcome>>

Current == payload.outputs[Len(images) + 1]

(* SignerError of one_time_key: only a mismatch carries index_in_export. *)
OutputRefusal(error, index_in_export) ==
    IF error = "KeyMismatch" THEN Service!KeyMismatch(index_in_export)
                             ELSE Service!Refused(error)

(* Mutant: each new image goes in front. *)
DeriveNextReversed ==
    /\ pc = "derive"
    /\ Len(images) < Len(payload.outputs)
    /\ OneTimeKeyError(Current) = "None"
    /\ images' = <<SignKeyImage(Current)>> \o images
    /\ UNCHANGED <<pc, payload, outcome>>

DeriveNext ==
    /\ pc = "derive"
    /\ Len(images) < Len(payload.outputs)
    /\ OneTimeKeyError(Current) = "None"
    /\ images' = Append(images, SignKeyImage(Current))
    /\ UNCHANGED <<pc, payload, outcome>>

(* Mutant: outputs are numbered from one. *)
DeriveFailsFromOne ==
    /\ pc = "derive"
    /\ Len(images) < Len(payload.outputs)
    /\ OneTimeKeyError(Current) # "None"
    /\ pc' = "done"
    /\ outcome' = OutputRefusal(OneTimeKeyError(Current), Len(images) + 1)
    /\ UNCHANGED <<payload, images>>

DeriveFails ==
    /\ pc = "derive"
    /\ Len(images) < Len(payload.outputs)
    /\ OneTimeKeyError(Current) # "None"
    /\ pc' = "done"
    /\ outcome' = OutputRefusal(OneTimeKeyError(Current), Len(images))
    /\ UNCHANGED <<payload, images>>

Export ==
    /\ pc = "derive"
    /\ Len(images) = Len(payload.outputs)
    /\ pc' = "done"
    /\ outcome' = ExportBlob(payload.offset, images)
    /\ UNCHANGED <<payload, images>>

Next == ParseFails \/ ParseSucceeds \/ DeriveNext \/ DeriveFails \/ Export

Spec == Init /\ [][Next]_vars

-----------------------------------------------------------------------------
(* Properties *)

(* The run is parsing, deriving or done; what it derived are signed images,
   never more of them than there are outputs. *)
TypeOK ==
    /\ pc \in {"parse", "derive", "done"}
    /\ payload \in Payloads
    /\ images \in Seq({SignKeyImage(payload.outputs[i]) : i \in 1 .. Len(images)})
    /\ Len(images) <= Len(payload.outputs)
    /\ outcome = Service!Pending <=> pc # "done"

(* FORMATS.md, xmr-keyimage: the reply has one image for each exported
   output, in the export's order, and carries the export's offset when that
   fits its 32 bits; each is the image the chain will demand for that output
   and its signature verifies against the output's own key, which is how
   import_key_images matches them. *)
ReplyAnswersExport ==
    outcome.status = "replied" =>
        /\ payload.offset < OffsetModulus => outcome.offset = payload.offset
        /\ Len(outcome.images) = Len(payload.outputs)
        /\ \A i \in 1 .. Len(payload.outputs) :
              LET reply == outcome.images[i]
                  key == payload.outputs[i].pubkey
              IN  /\ reply.image = TrueImage(key)
                  /\ CheckRingSignature(reply.image, key, reply.image, reply.signature)

(* An output refused for its key is the first one that is not the account's:
   all before it were derived, and it could not have been, with any of its
   keys. *)
RefusalNamesFirst ==
    /\ outcome.status = "refused"
    /\ outcome.error = "KeyMismatch"
    => /\ outcome.at + 1 \in 1 .. Len(payload.outputs)
       /\ ~Service!Owned(payload.outputs[outcome.at + 1])
       /\ \A i \in 1 .. outcome.at : Service!Owned(payload.outputs[i])

(* A wallet made the output for the declared address of the account, and the
   key it published, r*G for the primary address or r*D for a subaddress, is
   one of those exported with the output. *)
SenderKey(secret, index) ==
    IF index = Primary THEN StandardKey(secret)
                       ELSE SubaddressKey(secret, SpendPublic(Account, index))

SentToAccount(out) ==
    \E secret \in out.pubkey.derivation :
        /\ out.pubkey = SentTo(secret, AddressView(Account, out.index), out.position,
                               SpendPublic(Account, out.index))
        /\ SenderKey(secret, out.index) # NotAPoint
        /\ \E c \in 1 .. Len(Candidates(out.txKey, out.additional, out.position)) :
              Candidates(out.txKey, out.additional, out.position)[c] = SenderKey(secret, out.index)

(* An export of outputs that were all sent to the account, sealed whole for
   it, is never refused: the owner's side of the algebra finds whatever the
   sender's side made. *)
OwnExportsAnswered ==
    /\ payload.magic = "Monero output export"
    /\ payload.wrapper = "whole" /\ payload.sealedBy = Account /\ payload.layout = "known"
    /\ payload.spendPublic = SpendPublic(Account, Primary)
    /\ payload.viewPublic = ViewKey(Account)
    /\ \A i \in 1 .. Len(payload.outputs) : SentToAccount(payload.outputs[i])
    => outcome.status # "refused"

(* The run implements the one-step service: reply to the whole export, or
   refuse it for the first reason the service has, by the number of the
   output where the code gives one. *)
ImplementsService == Service!Spec
=============================================================================
