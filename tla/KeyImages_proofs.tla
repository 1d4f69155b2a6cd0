-------------------------- MODULE KeyImages_proofs --------------------------
(***************************************************************************)
(* Proofs about a key image run, for every account, every blob and every   *)
(* number of outputs; about the signatures it takes for granted, for every *)
(* group and all hash functions: what the signer signs passes the check,   *)
(* and what it seals opens (completeness, not security); and about the     *)
(* subaddress table in which it looks for the keys it can spend with.      *)
(***************************************************************************)
EXTENDS SubaddressTable, KeyImages, Signatures, TLAPS

-----------------------------------------------------------------------------
(* The algebra: what one_time_key computes is what ownership means. *)

(* No address has the stray point for its spend key. *)
LEMMA SpendKeyNotStray ==
    ASSUME NEW index
    PROVE  SpendPublic(Account, index) # Stray
<1>1. SpendSecret(Account, index)[1] = "spend"
  BY DEF SpendSecret
<1>2. SpendSecret(Account, index) # <<"stray">>
  BY <1>1
<1>3. QED
  BY <1>2 DEF SpendPublic, Mul, BasePoint, Stray

(* Taking s*G off an output key leaves the spend key of an address only when
   the derivation and the position are the ones the output was made with. *)
LEMMA CandidateExact ==
    ASSUME NEW key, NEW derivation, NEW position, NEW index,
           key = OneTimePublic(key.derivation, key.position, key.spend)
    PROVE  SpendCandidate(key, derivation, position) = SpendPublic(Account, index)
             <=> key = OneTimePublic(derivation, position, SpendPublic(Account, index))
BY SpendKeyNotStray DEF SpendCandidate, OneTimePublic

(* The service computes with the same algebra as the run. *)
LEMMA SameAlgebra ==
    /\ Service!NotAPoint = NotAPoint
    /\ Service!InvalidKey = InvalidKey
    /\ \A t, a, p : Service!Candidates(t, a, p) = Candidates(t, a, p)
    /\ \A d, p, s : Service!OneTimePublic(d, p, s) = OneTimePublic(d, p, s)
    /\ \A s, p : Service!Derivation(s, p) = Derivation(s, p)
    /\ \A a : Service!ViewSecret(a) = ViewSecret(a)
    /\ \A a : Service!ViewKey(a) = ViewKey(a)
    /\ \A a, i : Service!SpendPublic(a, i) = SpendPublic(a, i)
    /\ \A k : Service!TrueImage(k) = KeyImageOf(k, k)
    /\ \A p, k, s : Service!RingSignature(p, k, s) = RingSignature(p, k, s)
    /\ Service!Primary = Primary
<1>1. /\ Service!NotAPoint = NotAPoint
      /\ Service!InvalidKey = InvalidKey
      /\ \A t, a, p : Service!Candidates(t, a, p) = Candidates(t, a, p)
      /\ \A d, p, s : Service!OneTimePublic(d, p, s) = OneTimePublic(d, p, s)
      /\ \A a : Service!ViewSecret(a) = ViewSecret(a)
      /\ \A p, k, s : Service!RingSignature(p, k, s) = RingSignature(p, k, s)
      /\ \A k : Service!TrueImage(k) = KeyImageOf(k, k)
      /\ Service!Primary = Primary
  BY DEF Service!NotAPoint, NotAPoint, Service!InvalidKey, InvalidKey, Service!Candidates,
         Candidates, Service!OneTimePublic, OneTimePublic, Service!ViewSecret, ViewSecret,
         Service!RingSignature, RingSignature, Service!TrueImage, Service!KeyImageOf,
         KeyImageOf, Service!Primary, Primary
<1>2. \A s, p : Service!Mul(s, p) = Mul(s, p)
  BY DEF Service!Mul, Mul
<1>3. \A a, i : Service!SpendSecret(a, i) = SpendSecret(a, i)
  BY DEF Service!SpendSecret, SpendSecret, Service!Primary, Primary
<1>4. Service!BasePoint = BasePoint
  BY DEF Service!BasePoint, BasePoint
<1>5. QED
  BY <1>1, <1>2, <1>3, <1>4
     DEF Service!Derivation, Derivation, Service!SpendPublic, SpendPublic,
         Service!ViewKey, ViewKey

(* one_time_key succeeds exactly on the outputs the account owns at the
   declared index, and then rebuilds the secret of the output key itself. *)
LEMMA OneTimeKeyExact ==
    ASSUME NEW out,
           out.pubkey = OneTimePublic(out.pubkey.derivation, out.pubkey.position, out.pubkey.spend)
    PROVE  /\ OneTimeKeyError(out) = "None" <=> Service!Owned(out)
           /\ OneTimeKeyError(out) = "None" => SignKeyImage(out) = Service!SignedTrueImage(out)
           /\ OneTimeKeyError(out) \in {"None", "KeyMismatch", "Malformed"}
<1> DEFINE candidates == Candidates(out.txKey, out.additional, out.position)
           made(d) == OneTimePublic(d, out.position, SpendPublic(Account, out.index))
<1>1. \A d : d \in Matching(out) <=> d \in Derivations(out) /\ out.pubkey = made(d)
  BY CandidateExact DEF Matching
<1>2. \A d : d \in Derivations(out) <=>
        \E c \in 1 .. Len(candidates) :
            /\ candidates[c] # NotAPoint
            /\ d = Derivation(ViewSecret(Account), candidates[c])
  BY DEF Derivations
<1>3. Matching(out) # {} <=>
        \E c \in 1 .. Len(candidates) :
            /\ candidates[c] # NotAPoint
            /\ out.pubkey = made(Derivation(ViewSecret(Account), candidates[c]))
  BY <1>1, <1>2
<1>4. ASSUME Matching(out) # {}
      PROVE  Secret(out) = out.pubkey
  <2>1. PICK d : d = (CHOOSE e \in Matching(out) : TRUE)
    OBVIOUS
  <2>2. d \in Matching(out)
    BY <1>4, <2>1
  <2>3. QED
    BY <1>1, <2>1, <2>2 DEF Secret, OneTimeSecret
<1>5. OneTimeKeyError(out) = "None" <=> out.pubkey # InvalidKey /\ Matching(out) # {}
  BY <1>4 DEF OneTimeKeyError, PublicOf
<1>6. Service!Owned(out) <=>
        /\ out.pubkey # InvalidKey
        /\ \E c \in 1 .. Len(candidates) :
              /\ candidates[c] # NotAPoint
              /\ out.pubkey = made(Derivation(ViewSecret(Account), candidates[c]))
  BY SameAlgebra DEF Service!Owned
<1>7. OneTimeKeyError(out) = "None" => SignKeyImage(out) = Service!SignedTrueImage(out)
  <2>1. Matching(out) # {} => SignKeyImage(out) = Service!SignedTrueImage(out)
    BY <1>4, SameAlgebra DEF SignKeyImage, Service!SignedTrueImage, PublicOf
  <2>2. QED
    BY <1>5, <2>1
<1>8. OneTimeKeyError(out) \in {"None", "KeyMismatch", "Malformed"}
  BY DEF OneTimeKeyError
<1>9. QED
  BY <1>3, <1>5, <1>6, <1>7, <1>8

-----------------------------------------------------------------------------
(* The strengthening: what is derived so far are the signed images of a
   prefix of the export, all of it the account's, and the outcome is one of
   the three the run can end with. *)

PrefixSigned ==
    /\ Len(images) \in Nat
    /\ Len(images) <= Len(payload.outputs)
    /\ images = [i \in 1 .. Len(images) |-> SignKeyImage(payload.outputs[i])]
    /\ \A i \in 1 .. Len(images) : OneTimeKeyError(payload.outputs[i]) = "None"

RefusedBlob ==
    /\ ParseError(payload) # "None"
    /\ outcome = Service!Refused(ParseError(payload))

RefusedOutput ==
    /\ ParseError(payload) = "None"
    /\ Len(images) < Len(payload.outputs)
    /\ OneTimeKeyError(Current) # "None"
    /\ outcome = OutputRefusal(OneTimeKeyError(Current), Len(images))

RepliedWhole ==
    /\ ParseError(payload) = "None"
    /\ Len(images) = Len(payload.outputs)
    /\ outcome = ExportBlob(payload.offset, images)

IInv ==
    /\ pc \in {"parse", "derive", "done"}
    /\ payload \in Payloads
    /\ PrefixSigned
    /\ pc = "parse" => images = <<>>
    /\ pc = "derive" => ParseError(payload) = "None"
    /\ pc # "done" => outcome = Service!Pending
    /\ pc = "done" => RefusedBlob \/ RefusedOutput \/ RepliedWhole

-----------------------------------------------------------------------------
(* Facts about the data the steps use *)

LEMMA OutputsSeq ==
    ASSUME payload \in Payloads
    PROVE  /\ Len(payload.outputs) \in Nat
           /\ \A i \in 1 .. Len(payload.outputs) :
                 LET key == payload.outputs[i].pubkey
                 IN  key = OneTimePublic(key.derivation, key.position, key.spend)
<1>1. \A S : payload.outputs \in Seq(S) => Len(payload.outputs) \in Nat
  OBVIOUS
<1>2. QED
  BY <1>1, PayloadAssumption

LEMMA OutputExact ==
    ASSUME payload \in Payloads, NEW i \in 1 .. Len(payload.outputs)
    PROVE  LET out == payload.outputs[i]
           IN  /\ OneTimeKeyError(out) = "None" <=> Service!Owned(out)
               /\ OneTimeKeyError(out) = "None" => SignKeyImage(out) = Service!SignedTrueImage(out)
               /\ OneTimeKeyError(out) \in {"None", "KeyMismatch", "Malformed"}
BY OutputsSeq, OneTimeKeyExact

(* The order of the checks is the service's. *)
LEMMA ParseExact ==
    /\ ParseError(payload) = Service!Unreadable(payload)
    /\ ParseError(payload) # "KeyMismatch"
<1>1. ParseError(payload) = Service!Unreadable(payload)
  BY SameAlgebra DEF ParseError, Decrypt, Service!Unreadable
<1>2. ParseError(payload) # "KeyMismatch"
  BY DEF ParseError, Decrypt
<1>3. QED
  BY <1>1, <1>2

-----------------------------------------------------------------------------
(* The invariant *)

LEMMA InitInv == Init => IInv
<1> SUFFICES ASSUME Init PROVE IInv
  OBVIOUS
<1>1. PrefixSigned
  BY OutputsSeq DEF Init, PrefixSigned
<1>2. QED
  BY <1>1 DEF Init, IInv

LEMMA ParseFailsInv == IInv /\ ParseFails => IInv'
BY DEF IInv, ParseFails, PrefixSigned, RefusedBlob, RefusedOutput, RepliedWhole,
       Current, Service!Refused

LEMMA ParseSucceedsInv == IInv /\ ParseSucceeds => IInv'
BY DEF IInv, ParseSucceeds, PrefixSigned, RefusedBlob, RefusedOutput, RepliedWhole, Current

LEMMA DeriveNextInv == IInv /\ DeriveNext => IInv'
<1> SUFFICES ASSUME IInv, DeriveNext PROVE IInv'
  OBVIOUS
<1> USE DEF IInv
<1>1. Len(payload.outputs) \in Nat
  BY OutputsSeq
<1>2. PrefixSigned'
  <2> DEFINE S == {SignKeyImage(payload.outputs[i]) : i \in 1 .. Len(payload.outputs)}
  <2>1. images \in Seq(S)
    <3>1. \A i \in 1 .. Len(images) : i \in 1 .. Len(payload.outputs)
      BY <1>1 DEF PrefixSigned
    <3>2. images \in [1 .. Len(images) -> S]
      BY <3>1 DEF PrefixSigned
    <3>3. QED
      BY <3>2 DEF PrefixSigned
  <2>2. SignKeyImage(Current) \in S
    BY <1>1 DEF DeriveNext, Current, PrefixSigned
  <2>3. /\ Len(images') = Len(images) + 1
        /\ \A i \in 1 .. Len(images) : images'[i] = images[i]
        /\ images'[Len(images) + 1] = SignKeyImage(Current)
        /\ images' \in Seq(S)
    BY <2>1, <2>2 DEF DeriveNext
  <2>4. ASSUME NEW i \in 1 .. Len(images')
        PROVE  images'[i] = SignKeyImage(payload.outputs[i])
    <3>1. CASE i \in 1 .. Len(images)
      <4>1. images[i] = SignKeyImage(payload.outputs[i])
        BY <3>1 DEF PrefixSigned
      <4>2. QED
        BY <2>3, <3>1, <4>1
    <3>2. CASE i = Len(images) + 1
      BY <2>3, <3>2 DEF Current
    <3>3. Len(images) \in Nat
      BY DEF PrefixSigned
    <3>4. QED
      BY <2>3, <3>1, <3>2, <3>3
  <2>5. images' = [i \in 1 .. Len(images') |-> SignKeyImage(payload.outputs[i])]
    BY <2>3, <2>4
  <2>6. \A i \in 1 .. Len(images') : OneTimeKeyError(payload.outputs[i]) = "None"
    BY <2>3 DEF PrefixSigned, DeriveNext, Current
  <2>7. QED
    BY <1>1, <2>3, <2>5, <2>6 DEF DeriveNext, PrefixSigned
<1>3. QED
  BY <1>2 DEF DeriveNext

LEMMA DeriveFailsInv == IInv /\ DeriveFails => IInv'
BY DEF IInv, DeriveFails, PrefixSigned, RefusedBlob, RefusedOutput, RepliedWhole, Current

LEMMA ExportInv == IInv /\ Export => IInv'
BY DEF IInv, Export, PrefixSigned, RefusedBlob, RefusedOutput, RepliedWhole, Current

LEMMA NextInv == IInv /\ [Next]_vars => IInv'
<1>1. IInv /\ UNCHANGED vars => IInv'
  BY DEF IInv, vars, PrefixSigned, RefusedBlob, RefusedOutput, RepliedWhole, Current
<1>2. QED
  BY <1>1, ParseFailsInv, ParseSucceedsInv, DeriveNextInv, DeriveFailsInv, ExportInv DEF Next

LEMMA Invariance == Spec => []IInv
BY InitInv, NextInv, PTL DEF Spec

-----------------------------------------------------------------------------
(* Theorems *)

(* The run's state is well formed whatever blob it is given. *)
THEOREM TypeCorrect == Spec => []TypeOK
<1>1. IInv => TypeOK
  <2> SUFFICES ASSUME IInv PROVE TypeOK
    OBVIOUS
  <2>1. images \in Seq({SignKeyImage(payload.outputs[i]) : i \in 1 .. Len(images)})
    BY DEF IInv, PrefixSigned
  <2>2. outcome = Service!Pending <=> pc # "done"
    BY DEF IInv, RefusedBlob, RefusedOutput, RepliedWhole, Service!Pending,
           OutputRefusal, Service!KeyMismatch, Service!Refused, ExportBlob
  <2>3. QED
    BY <2>1, <2>2 DEF IInv, PrefixSigned, TypeOK
<1>2. QED
  BY <1>1, Invariance, PTL

(* A reply answers the whole export in its order, at its offset when that
   fits the reply's width, with the
   images the chain demands and signatures the hot wallet can verify. *)
THEOREM ReplyCorrect == Spec => []ReplyAnswersExport
<1>1. IInv => ReplyAnswersExport
  <2> SUFFICES ASSUME IInv, outcome.status = "replied"
               PROVE  /\ payload.offset < OffsetModulus => outcome.offset = payload.offset
                      /\ Len(outcome.images) = Len(payload.outputs)
                      /\ \A i \in 1 .. Len(payload.outputs) :
                            LET reply == outcome.images[i]
                                key == payload.outputs[i].pubkey
                            IN  /\ reply.image = TrueImage(key)
                                /\ CheckRingSignature(reply.image, key, reply.image, reply.signature)
    BY DEF ReplyAnswersExport
  <2>1. RepliedWhole
    BY DEF IInv, RefusedBlob, RefusedOutput, OutputRefusal, Service!KeyMismatch,
           Service!Pending, Service!Refused
  <2>2. /\ payload.offset < OffsetModulus => outcome.offset = payload.offset
        /\ outcome.images = images
        /\ Len(images) = Len(payload.outputs)
    <3>1. payload.offset \in Nat /\ OffsetModulus \in Nat \ {0}
      BY PayloadAssumption, OffsetAssumption DEF IInv
    <3>2. outcome.offset = payload.offset % OffsetModulus
      BY <2>1 DEF RepliedWhole, ExportBlob
    <3>3. payload.offset < OffsetModulus => payload.offset % OffsetModulus = payload.offset
      BY <3>1
    <3>4. QED
      BY <2>1, <3>2, <3>3 DEF RepliedWhole, ExportBlob
  <2>3. ASSUME NEW i \in 1 .. Len(payload.outputs)
        PROVE  LET reply == outcome.images[i]
                   key == payload.outputs[i].pubkey
               IN  /\ reply.image = TrueImage(key)
                   /\ CheckRingSignature(reply.image, key, reply.image, reply.signature)
    <3>1. outcome.images[i] = Service!SignedTrueImage(payload.outputs[i])
      BY <2>2, OutputExact DEF IInv, PrefixSigned
    <3>2. QED
      BY <3>1 DEF Service!SignedTrueImage, CheckRingSignature, PublicOf, TrueImage, KeyImageOf,
                  Service!TrueImage, Service!KeyImageOf, Service!RingSignature
  <2>4. QED
    BY <2>2, <2>3
<1>2. QED
  BY <1>1, Invariance, PTL

(* An output refused for its key is the first the account does not own. *)
THEOREM RefusalCorrect == Spec => []RefusalNamesFirst
<1>1. IInv => RefusalNamesFirst
  <2> SUFFICES ASSUME IInv, outcome.status = "refused", outcome.error = "KeyMismatch"
               PROVE  /\ outcome.at + 1 \in 1 .. Len(payload.outputs)
                      /\ ~Service!Owned(payload.outputs[outcome.at + 1])
                      /\ \A i \in 1 .. outcome.at : Service!Owned(payload.outputs[i])
    BY DEF RefusalNamesFirst
  <2>1. RefusedOutput
    BY ParseExact DEF IInv, RefusedBlob, RepliedWhole, Service!Pending, Service!Refused, ExportBlob
  <2>2. outcome.at = Len(images)
    BY <2>1 DEF RefusedOutput, OutputRefusal, Service!KeyMismatch, Service!Refused
  <2>3. Len(payload.outputs) \in Nat /\ Len(images) + 1 \in 1 .. Len(payload.outputs)
    BY <2>1, OutputsSeq DEF IInv, PrefixSigned, RefusedOutput
  <2>4. ~Service!Owned(payload.outputs[Len(images) + 1])
    BY <2>1, <2>3, OutputExact DEF IInv, RefusedOutput, Current
  <2>5. \A i \in 1 .. Len(images) : Service!Owned(payload.outputs[i])
    BY <2>3, OutputExact DEF IInv, PrefixSigned
  <2>6. QED
    BY <2>2, <2>3, <2>4, <2>5
<1>2. QED
  BY <1>1, Invariance, PTL

-----------------------------------------------------------------------------
(* Refinement of the one-step service *)

LEMMA ExportIsReply == IInv /\ Export => Service!Reply
<1> SUFFICES ASSUME IInv, Export PROVE Service!Reply
  OBVIOUS
<1>1. \A at \in 1 .. Len(payload.outputs) :
        /\ Service!Owned(payload.outputs[at])
        /\ SignKeyImage(payload.outputs[at]) = Service!SignedTrueImage(payload.outputs[at])
  BY OutputExact DEF IInv, PrefixSigned, Export
<1>2. images = [at \in 1 .. Len(payload.outputs) |->
                   Service!SignedTrueImage(payload.outputs[at])]
  BY <1>1 DEF IInv, PrefixSigned, Export
<1>3. outcome' = Service!Replied(payload.offset, images)
  BY SameAlgebra DEF Export, ExportBlob, Service!Replied
<1>4. Service!Unreadable(payload) = "None"
  BY ParseExact DEF IInv, Export
<1>5. QED
  BY <1>1, <1>2, <1>3, <1>4 DEF IInv, Export, Service!Reply

LEMMA DeriveFailsIsRefusal == IInv /\ DeriveFails => Service!RefuseOutput
<1> SUFFICES ASSUME IInv, DeriveFails PROVE Service!RefuseOutput
  OBVIOUS
<1> DEFINE at == Len(images) + 1
<1>1. /\ Len(payload.outputs) \in Nat
      /\ Len(images) \in Nat
      /\ at \in 1 .. Len(payload.outputs)
      /\ at - 1 = Len(images)
  BY OutputsSeq DEF IInv, PrefixSigned, DeriveFails
<1>2. Service!FirstForeign(payload.outputs, at)
  BY <1>1, OutputExact DEF IInv, PrefixSigned, DeriveFails, Current, Service!FirstForeign
<1>3. \/ /\ payload.outputs[at].pubkey = Service!InvalidKey
         /\ outcome' = Service!Refused("Malformed")
      \/ /\ payload.outputs[at].pubkey # Service!InvalidKey
         /\ outcome' = Service!KeyMismatch(at - 1)
  <2>1. OneTimeKeyError(Current) # "None" /\ Current = payload.outputs[at]
    BY DEF DeriveFails, Current
  <2>2. outcome' = OutputRefusal(OneTimeKeyError(Current), at - 1)
    BY <1>1 DEF DeriveFails
  <2>3. Service!InvalidKey = InvalidKey
    BY DEF Service!InvalidKey, InvalidKey, Service!NotAPoint, NotAPoint,
           Service!OneTimePublic, OneTimePublic
  <2>4. CASE Current.pubkey = InvalidKey
    BY <2>1, <2>2, <2>3, <2>4 DEF OneTimeKeyError, OutputRefusal
  <2>5. CASE Current.pubkey # InvalidKey
    BY <2>1, <2>2, <2>3, <2>5 DEF OneTimeKeyError, OutputRefusal
  <2>6. QED
    BY <2>4, <2>5
<1>4. Service!Unreadable(payload) = "None"
  BY ParseExact DEF IInv, DeriveFails
<1>5. QED
  BY <1>1, <1>2, <1>3, <1>4 DEF IInv, DeriveFails, Service!RefuseOutput

(* A key image run implements the one-step service: it never replies to part
   of an export, nor with anything an attentive owner would not compute. *)
THEOREM RefinesService == Spec => ImplementsService
<1>1. Init => Service!Init
  BY DEF Init, Service!Init
<1>2. IInv /\ [Next]_vars => [Service!Next]_<<payload, outcome>>
  <2> SUFFICES ASSUME IInv, [Next]_vars
               PROVE  Service!Next \/ UNCHANGED <<payload, outcome>>
    OBVIOUS
  <2>1. CASE ParseFails
    BY <2>1, ParseExact DEF IInv, ParseFails, Service!RefuseBlob, Service!Next
  <2>2. CASE ParseSucceeds
    BY <2>2 DEF ParseSucceeds
  <2>3. CASE DeriveNext
    BY <2>3 DEF DeriveNext
  <2>4. CASE DeriveFails
    BY <2>4, DeriveFailsIsRefusal DEF Service!Next
  <2>5. CASE Export
    BY <2>5, ExportIsReply DEF Service!Next
  <2>6. CASE UNCHANGED vars
    BY <2>6 DEF vars
  <2>7. QED
    BY <2>1, <2>2, <2>3, <2>4, <2>5, <2>6 DEF Next
<1>3. QED
  BY <1>1, <1>2, Invariance, PTL DEF Spec, ImplementsService, Service!Spec

-----------------------------------------------------------------------------
(* What the sender's side makes, the owner's side finds. *)

LEMMA SentIsOwned ==
    ASSUME NEW out, SentToAccount(out)
    PROVE  Service!Owned(out)
<1> DEFINE candidates == Candidates(out.txKey, out.additional, out.position)
<1>1. PICK secret \in out.pubkey.derivation, c \in 1 .. Len(candidates) :
          /\ out.pubkey = SentTo(secret, AddressView(Account, out.index), out.position,
                                 SpendPublic(Account, out.index))
          /\ candidates[c] # NotAPoint
          /\ candidates[c] = SenderKey(secret, out.index)
  BY DEF SentToAccount
<1>2. Derivation(secret, AddressView(Account, out.index))
        = Derivation(ViewSecret(Account), SenderKey(secret, out.index))
  BY DEF Derivation, AddressView, SenderKey, StandardKey, SubaddressKey, ViewKey, Mul, BasePoint
<1>3. out.pubkey = OneTimePublic(Derivation(ViewSecret(Account), candidates[c]), out.position,
                                 SpendPublic(Account, out.index))
  BY <1>1, <1>2 DEF SentTo
<1>4. out.pubkey # InvalidKey
  <2>1. SpendPublic(Account, out.index) # NotAPoint
    <3>1. SpendSecret(Account, out.index)[1] = "spend"
      BY DEF SpendSecret
    <3>2. <<"not a point">>[1] = "not a point" /\ "not a point" # "spend"
      OBVIOUS
    <3>3. SpendSecret(Account, out.index) # <<"not a point">>
      BY <3>1, <3>2
    <3> QED
      BY <3>3 DEF SpendPublic, Mul, BasePoint, NotAPoint
  <2> QED
    BY <1>3, <2>1 DEF OneTimePublic, InvalidKey
<1> QED
  BY <1>1, <1>3, <1>4, SameAlgebra DEF Service!Owned

LEMMA RefusedIsForeign ==
    ASSUME IInv, outcome.status = "refused"
    PROVE  \/ ParseError(payload) # "None"
           \/ \E i \in 1 .. Len(payload.outputs) : ~Service!Owned(payload.outputs[i])
<1>1. RefusedBlob \/ RefusedOutput
  BY DEF IInv, RepliedWhole, Service!Pending, ExportBlob
<1>2. ASSUME RefusedOutput
      PROVE  \E i \in 1 .. Len(payload.outputs) : ~Service!Owned(payload.outputs[i])
  <2>1. Len(payload.outputs) \in Nat /\ Len(images) + 1 \in 1 .. Len(payload.outputs)
    BY <1>2, OutputsSeq DEF IInv, PrefixSigned, RefusedOutput
  <2>2. ~Service!Owned(payload.outputs[Len(images) + 1])
    BY <1>2, <2>1, OutputExact DEF IInv, RefusedOutput, Current
  <2> QED
    BY <2>1, <2>2
<1> QED
  BY <1>1, <1>2 DEF RefusedBlob

(* Whatever was sent to the account, to its primary address or to a
   subaddress, with the transaction key or an additional one, is answered. *)
THEOREM OwnAnswered == Spec => []OwnExportsAnswered
<1>1. IInv => OwnExportsAnswered
  BY RefusedIsForeign, SentIsOwned DEF OwnExportsAnswered, ParseError, Decrypt
<1> QED
  BY <1>1, Invariance, PTL

-----------------------------------------------------------------------------
(* The signatures.  The arithmetic is Cancel: multiplied out, the secret's
   part of r is what the checker adds. *)

(* No multiple of q but zero is smaller than q. *)
LEMMA Product ==
    ASSUME NEW q \in Nat \ {0}, NEW e \in Int, e # 0
    PROVE  q * e >= q \/ q * e <= -q
<1>1. CASE e >= 1
  <2>1. PICK f \in Nat : e = f + 1
    BY <1>1
  <2>2. q * e = q * f + q /\ q * f >= 0
    BY <2>1
  <2> QED
    BY <2>2
<1>2. CASE e <= -1
  <2>1. PICK f \in Nat : e = -f - 1
    BY <1>2
  <2>2. q * e = -(q * f) - q /\ q * f >= 0
    BY <2>1
  <2> QED
    BY <2>2
<1> QED
  BY <1>1, <1>2

(* There is one remainder. *)
LEMMA Remainder ==
    ASSUME NEW q \in Nat \ {0}, NEW a \in Int, NEW e \in Int, NEW t \in 0 .. q - 1, a = q * e + t
    PROVE  a % q = t
<1> DEFINE d == a \div q
           m == a % q
<1>1. d \in Int /\ m \in 0 .. q - 1 /\ a = q * d + m
  OBVIOUS
<1> HIDE DEF d, m
<1>2. q * (e - d) = q * e - q * d
  BY <1>1
<1>3. q * (e - d) = m - t
  BY <1>1, <1>2
<1>4. e - d = 0
  BY <1>1, <1>3, Product
<1>5. q * (e - d) = 0
  BY <1>4
<1>6. m = t
  BY <1>1, <1>3, <1>5
<1> QED
  BY <1>6 DEF m

(* With y = c * secret: what is taken from k and reduced is made good. *)
LEMMA Cancel ==
    ASSUME NEW q \in Nat \ {0}, NEW k \in Int, NEW y \in Int, NEW h \in Int
    PROVE  (y * h + ((k - y) % q) * h) % q = (k * h) % q
<1> DEFINE d == (k - y) \div q
           m == (k - y) % q
           e == (k * h) \div q
           t == (k * h) % q
<1>1. d \in Int /\ m \in 0 .. q - 1 /\ k - y = q * d + m
  OBVIOUS
<1>2. e \in Int /\ t \in 0 .. q - 1 /\ k * h = q * e + t
  <2>1. k * h \in Int
    OBVIOUS
  <2> QED
    BY <2>1
<1> HIDE DEF d, m, e, t
<1>3. y + m = k - q * d
  BY <1>1
<1>4. y * h + m * h = (y + m) * h
  BY <1>1
<1>5. (k - q * d) * h = k * h - q * (d * h)
  BY <1>1
<1>6. q * e - q * (d * h) = q * (e - d * h)
  BY <1>1, <1>2
<1>7. y * h + m * h = q * (e - d * h) + t
  BY <1>1, <1>2, <1>3, <1>4, <1>5, <1>6
<1>8. y * h + m * h \in Int /\ e - d * h \in Int
  BY <1>1, <1>2
<1>9. (y * h + m * h) % q = t
  BY <1>2, <1>7, <1>8, Remainder
<1> QED
  BY <1>9 DEF m, t

LEMMA Moved ==
    ASSUME NEW p \in Int, NEW u \in Int, NEW v \in Int, NEW w \in Int, NEW t \in Int, NEW z \in Int,
           p = u + v, p + z = w + t
    PROVE  v + z = (w - u) + t
  OBVIOUS

(* Kept unexpanded where Reduced is used. *)
Affine(a, b, z) == a * b + z

(* What is multiplied by a reduced product is as if it were not reduced. *)
LEMMA Reduced ==
    ASSUME NEW q \in Nat \ {0}, NEW a \in Int, NEW b \in Int, NEW z \in Int
    PROVE  Affine(a, b % q, z) % q = Affine(a, b, z) % q
<1> DEFINE d == b \div q
           m == b % q
           e == (a * b + z) \div q
           t == (a * b + z) % q
<1>1. d \in Int /\ m \in 0 .. q - 1 /\ b = q * d + m
  OBVIOUS
<1>2. e \in Int /\ t \in 0 .. q - 1 /\ a * b + z = q * e + t
  <2>1. a * b + z \in Int
    OBVIOUS
  <2> QED
    BY <2>1
<1> HIDE DEF d, m, e, t
<1>3. a * b = q * (a * d) + a * m
  BY <1>1
<1>4. q * (e - a * d) = q * e - q * (a * d)
  BY <1>1, <1>2
<1>5. a * m + z \in Int /\ e - a * d \in Int /\ a * m \in Int /\ a * b \in Int
      /\ q * (a * d) \in Int /\ q * e \in Int
  BY <1>1, <1>2
<1>6. a * m + z = q * (e - a * d) + t
  <2>1. a * m + z = (q * e - q * (a * d)) + t
    <3> DEFINE p == a * b
               u == q * (a * d)
               v == a * m
               w == q * e
    <3>1. p \in Int /\ u \in Int /\ v \in Int /\ w \in Int /\ t \in Int
      BY <1>2, <1>5
    <3>2. p = u + v /\ p + z = w + t
      BY <1>2, <1>3
    <3> HIDE DEF p, u, v, w
    <3>3. v + z = (w - u) + t
      BY <3>1, <3>2, Moved
    <3> QED
      BY <3>3 DEF p, u, v, w
  <2> QED
    BY <2>1, <1>4
<1>7. (a * m + z) % q = t
  BY <1>2, <1>5, <1>6, Remainder
<1> QED
  BY <1>7 DEF m, t, Affine

(* The commitment the checker rebuilds is the one that was signed. *)
LEMMA Rebuilt ==
    ASSUME NEW c \in Int, NEW k \in Int, NEW x \in Int, NEW h \in Int
    PROVE  (c * ((x * h) % Order) + ((k - c * x) % Order) * h) % Order = (k * h) % Order
<1> DEFINE m == (k - c * x) % Order
<1>1. Order \in Nat \ {0} /\ m \in Int /\ c * x \in Int /\ x * h \in Int
  <2>1. k - c * x \in Int
    OBVIOUS
  <2> QED
    BY <2>1, OrderAssumption
<1>2. (c * x * h + m * h) % Order = (k * h) % Order
  BY <1>1, Cancel
<1> HIDE DEF m
<1>3. m * h \in Int /\ c * (x * h) = c * x * h
  BY <1>1
<1>4. (c * ((x * h) % Order) + m * h) % Order = (c * (x * h) + m * h) % Order
  <2>1. \A u, v \in Int : Affine(c, u % Order, v) % Order = Affine(c, u, v) % Order
    <3>1. ASSUME NEW q \in Nat \ {0}
          PROVE  \A u, v \in Int : Affine(c, u % q, v) % q = Affine(c, u, v) % q
      BY Reduced
    <3> QED
      BY <3>1, OrderAssumption
  <2> QED
    BY <1>1, <1>3, <2>1 DEF Affine
<1> QED
  BY <1>2, <1>3, <1>4 DEF m

(* generate_signature and check_signature of crypt.rs: whatever is signed
   passes, unless the nonce was zero, whose commitment is the identity. *)
THEOREM SignaturesAccepted ==
    ASSUME \A buf : Hash(buf) \in Nat,
           NEW prefix, NEW secret \in Scalar, NEW nonces \in SUBSET (Scalar \ {0}),
           NEW s \in Generated(prefix, Public(secret), secret, nonces)
    PROVE  CheckSignature(prefix, Public(secret), s)
<1> DEFINE C(k) == HashToScalar(<<prefix, Public(secret), k % Order>>)
<1>1. PICK k \in nonces : s = Turn(C(k), k, secret)
  BY DEF Generated
<1>2. Usable(s)
  BY DEF Generated
<1>3. k \in Int /\ k % Order = k /\ k # 0 /\ secret \in Int /\ C(k) \in Int
  BY OrderAssumption DEF Scalar, HashToScalar
<1> HIDE DEF C
<1>4. s.c = C(k) /\ s.r = (k - C(k) * secret) % Order
  BY <1>1 DEF Turn
<1>5. s.r \in Int
  <2>1. k - C(k) * secret \in Int
    BY <1>3
  <2> QED
    BY <1>4, <2>1, OrderAssumption
<1>6. (s.c * Public(secret) + s.r) % Order = k
  <2>1. (C(k) * ((secret * 1) % Order) + ((k - C(k) * secret) % Order) * 1) % Order = (k * 1) % Order
    BY <1>3, Rebuilt
  <2>2. secret * 1 = secret /\ k * 1 = k /\ s.r * 1 = s.r
    BY <1>3, <1>5
  <2> QED
    BY <1>3, <1>4, <2>1, <2>2 DEF Public
<1> QED
  BY <1>2, <1>3, <1>4, <1>6 DEF CheckSignature, Usable, C

(* ring_signature_1 and check_ring_signature_1 of keyimage.rs: the hot wallet
   accepts the signature of every key image of an output that is the
   account's. *)
THEOREM RingSignaturesAccepted ==
    ASSUME \A buf : Hash(buf) \in Nat, \A key : HashPoint(key) \in Scalar,
           NEW prefix, NEW secret \in Scalar, NEW nonces \in SUBSET Scalar,
           NEW s \in RingGenerated(prefix, Public(secret), secret, nonces)
    PROVE  CheckRing(prefix, Public(secret), KeyImage(Public(secret), secret), s)
<1> DEFINE h == HashPoint(Public(secret))
           C(k) == HashToScalar(<<prefix, k % Order, (k * h) % Order>>)
<1>1. PICK k \in nonces : s = Turn(C(k), k, secret)
  BY DEF RingGenerated
<1>2. k \in Int /\ secret \in Int /\ C(k) \in Int /\ h \in Int
  BY OrderAssumption DEF Scalar, HashToScalar
<1>3. KeyImage(Public(secret), secret) = (secret * h) % Order
  BY DEF KeyImage
<1> HIDE DEF C, h
<1>4. s.c = C(k) /\ s.r = (k - C(k) * secret) % Order
  BY <1>1 DEF Turn
<1>5. s.r \in Int
  <2>1. k - C(k) * secret \in Int
    BY <1>2
  <2> QED
    BY <1>4, <2>1, OrderAssumption
<1>6. (s.c * Public(secret) + s.r) % Order = k % Order
  <2>1. (C(k) * ((secret * 1) % Order) + ((k - C(k) * secret) % Order) * 1) % Order = (k * 1) % Order
    BY <1>2, Rebuilt
  <2>2. secret * 1 = secret /\ k * 1 = k /\ s.r * 1 = s.r
    BY <1>2, <1>5
  <2> QED
    BY <1>4, <2>1, <2>2 DEF Public
<1>7. (s.c * KeyImage(Public(secret), secret) + s.r * h) % Order = (k * h) % Order
  BY <1>2, <1>3, <1>4, Rebuilt
<1> QED
  BY <1>4, <1>6, <1>7 DEF CheckRing, C, h

(* encrypt and decrypt of crypt.rs: a payload sealed with a view key opens
   with it, and has the plaintext in it. *)
THEOREM SealedOpens ==
    ASSUME \A buf : Hash(buf) \in Nat,
           \A key, iv, bytes : Cipher(key, iv, Cipher(key, iv, bytes)) = bytes,
           NEW secret \in Scalar, NEW iv, NEW plain, NEW nonces \in SUBSET (Scalar \ {0}),
           NEW sealed \in Encrypted(secret, iv, plain, nonces)
    PROVE  Opens(secret, sealed) /\ Decrypted(secret, sealed) = plain
<1> DEFINE body == Cipher(ChaChaKey(secret), iv, plain)
           prefix == Hash(<<iv, body>>)
<1>1. PICK s \in Generated(prefix, Public(secret), secret, nonces) :
          sealed = [iv |-> iv, body |-> body, signature |-> s]
  BY DEF Encrypted
<1>2. CheckSignature(prefix, Public(secret), s)
  BY SignaturesAccepted
<1>3. Canonical(s)
  <2>1. PICK k \in nonces :
            s = Turn(HashToScalar(<<prefix, Public(secret), k % Order>>), k, secret)
    BY DEF Generated
  <2> DEFINE c == HashToScalar(<<prefix, Public(secret), k % Order>>)
  <2>2. c \in Scalar
    BY OrderAssumption DEF Scalar, HashToScalar
  <2> HIDE DEF c
  <2>3. k - c * secret \in Int
    BY <2>2, OrderAssumption DEF Scalar
  <2>4. (k - c * secret) % Order \in Scalar
    BY <2>3, OrderAssumption DEF Scalar
  <2> QED
    BY <2>1, <2>2, <2>4 DEF Turn, Canonical, c
<1> QED
  BY <1>1, <1>2, <1>3 DEF Opens, Decrypted

-----------------------------------------------------------------------------
(* The subaddress table.  The strengthening: every entry is true, the table holds at least the
   primary and the listed addresses, and the whole window once expanded. *)

EntriesTrue ==
    \A key \in Key :
        known[key] # NoIndex =>
            known[key] \in Eager!Reachable /\ SpendKeyOf[known[key]] = key

BaseKnown ==
    \A i \in {PrimaryIndex} \cup Listed : known[SpendKeyOf[i]] # NoIndex

WindowKnown ==
    expanded => \A i \in Eager!Window : known[SpendKeyOf[i]] # NoIndex

AnswersResolved ==
    \A key \in Key : answers[key] \in {Unasked, Eager!Resolve(key)}

TableInv ==
    /\ TableTypeOK
    /\ EntriesTrue
    /\ BaseKnown
    /\ WindowKnown
    /\ AnswersResolved

-----------------------------------------------------------------------------

(* Every reachable index is an index, so its spend key is a key. *)
LEMMA ReachableIndex == Eager!Reachable \subseteq Index /\ Eager!Window \subseteq Index
BY IndexAssumption DEF Eager!Reachable, Eager!Window

(* Resolve is right: the index at which the key was derived when there is
   one, None when there is none. *)
LEMMA ResolveCorrect ==
    ASSUME NEW key \in Key
    PROVE  /\ Eager!Resolve(key) \in Index \cup {NoIndex}
           /\ Eager!Resolve(key) # NoIndex =>
                 /\ Eager!Resolve(key) \in Eager!Reachable
                 /\ SpendKeyOf[Eager!Resolve(key)] = key
           /\ Eager!Resolve(key) = NoIndex =>
                 \A i \in Eager!Reachable : SpendKeyOf[i] # key
<1>1. CASE \E i \in Eager!Reachable : SpendKeyOf[i] = key
  <2>1. /\ Eager!Resolve(key) \in Eager!Reachable
        /\ SpendKeyOf[Eager!Resolve(key)] = key
    BY <1>1 DEF Eager!Resolve
  <2>2. Eager!Resolve(key) \in Index
    BY <2>1, ReachableIndex
  <2>3. QED
    BY <2>1, <2>2, SentinelAssumption
<1>2. CASE ~ \E i \in Eager!Reachable : SpendKeyOf[i] = key
  BY <1>2 DEF Eager!Resolve
<1>3. QED
  BY <1>1, <1>2

(* Two indices with one spend key are one index: what the table holds for a
   reachable key is what Resolve answers. *)
LEMMA ResolveUnique ==
    ASSUME NEW key \in Key, NEW i \in Eager!Reachable, SpendKeyOf[i] = key
    PROVE  Eager!Resolve(key) = i
<1>1. Eager!Resolve(key) # NoIndex
  BY ResolveCorrect
<1>2. /\ Eager!Resolve(key) \in Eager!Reachable
      /\ SpendKeyOf[Eager!Resolve(key)] = key
  BY <1>1, ResolveCorrect
<1>3. QED
  BY <1>2, ReachableIndex, KeyAssumption

-----------------------------------------------------------------------------
(* The two ways the map is filled keep it true and complete. *)

LEMMA NewTrue ==
    /\ New \in [Key -> Index \cup {NoIndex}]
    /\ \A key \in Key :
          New[key] # NoIndex =>
              New[key] \in Eager!Reachable /\ SpendKeyOf[New[key]] = key
    /\ \A i \in {PrimaryIndex} \cup Listed : New[SpendKeyOf[i]] # NoIndex
<1> DEFINE Base == {PrimaryIndex} \cup Listed
<1>1. /\ Base \subseteq Index
      /\ Base \subseteq Eager!Reachable
      /\ NoIndex \notin Base
  BY IndexAssumption, SentinelAssumption DEF Eager!Reachable
<1>2. ASSUME NEW key \in Key
      PROVE  /\ New[key] \in Base \cup {NoIndex}
             /\ New[key] # NoIndex => SpendKeyOf[New[key]] = key
             /\ (\E i \in Base : SpendKeyOf[i] = key) => New[key] # NoIndex
  <2>1. CASE \E i \in Base : SpendKeyOf[i] = key
    <3>1. New[key] = CHOOSE i \in Base : SpendKeyOf[i] = key
      BY <2>1 DEF New
    <3>2. QED
      BY <1>1, <2>1, <3>1
  <2>2. CASE ~ \E i \in Base : SpendKeyOf[i] = key
    BY <2>2 DEF New
  <2>3. QED
    BY <2>1, <2>2
<1>3. New \in [Key -> Index \cup {NoIndex}]
  BY <1>1, <1>2 DEF New
<1>4. ASSUME NEW i \in Base
      PROVE  SpendKeyOf[i] \in Key
  BY <1>1, KeyAssumption
<1>5. QED
  BY <1>1, <1>2, <1>3, <1>4

LEMMA ExpandedTrue ==
    ASSUME TableTypeOK, EntriesTrue, BaseKnown
    PROVE  /\ Expanded(known) \in [Key -> Index \cup {NoIndex}]
           /\ \A key \in Key :
                 /\ known[key] # NoIndex => Expanded(known)[key] = known[key]
                 /\ Expanded(known)[key] # NoIndex =>
                       /\ Expanded(known)[key] \in Eager!Reachable
                       /\ SpendKeyOf[Expanded(known)[key]] = key
           /\ \A i \in Eager!Window : Expanded(known)[SpendKeyOf[i]] # NoIndex
<1>1. /\ Eager!Window \subseteq Index
      /\ Eager!Window \subseteq Eager!Reachable
      /\ NoIndex \notin Eager!Window
  BY ReachableIndex, SentinelAssumption DEF Eager!Reachable
<1>2. ASSUME NEW key \in Key
      PROVE  /\ Expanded(known)[key] \in Index \cup {NoIndex}
             /\ known[key] # NoIndex => Expanded(known)[key] = known[key]
             /\ Expanded(known)[key] # NoIndex =>
                   /\ Expanded(known)[key] \in Eager!Reachable
                   /\ SpendKeyOf[Expanded(known)[key]] = key
             /\ (\E i \in Eager!Window : SpendKeyOf[i] = key)
                   => Expanded(known)[key] # NoIndex
  <2>1. CASE known[key] = NoIndex /\ \E i \in Eager!Window : SpendKeyOf[i] = key
    <3>1. Expanded(known)[key] = CHOOSE i \in Eager!Window : SpendKeyOf[i] = key
      BY <2>1 DEF Expanded
    <3>2. QED
      BY <1>1, <2>1, <3>1
  <2>2. CASE ~(known[key] = NoIndex /\ \E i \in Eager!Window : SpendKeyOf[i] = key)
    <3>1. Expanded(known)[key] = known[key]
      BY <2>2 DEF Expanded
    <3>2. QED
      BY <2>2, <3>1 DEF TableTypeOK, EntriesTrue
  <2>3. QED
    BY <2>1, <2>2
<1>3. Expanded(known) \in [Key -> Index \cup {NoIndex}]
  BY <1>2 DEF Expanded
<1>4. ASSUME NEW i \in Eager!Window
      PROVE  SpendKeyOf[i] \in Key
  BY <1>1, KeyAssumption
<1>5. QED
  BY <1>2, <1>3, <1>4

-----------------------------------------------------------------------------
(* The invariant *)

(* An entry of the table is what Resolve answers for its key. *)
LEMMA HitResolves ==
    ASSUME EntriesTrue, NEW key \in Key, known[key] # NoIndex
    PROVE  known[key] = Eager!Resolve(key)
BY ResolveUnique DEF EntriesTrue

(* A key missing from the expanded table is the key of no reachable index. *)
LEMMA MissResolves ==
    ASSUME BaseKnown, WindowKnown, expanded,
           NEW key \in Key, known[key] = NoIndex
    PROVE  Eager!Resolve(key) = NoIndex
<1>1. \A i \in Eager!Reachable : SpendKeyOf[i] # key
  BY DEF BaseKnown, WindowKnown, Eager!Reachable
<1>2. QED
  BY <1>1, ResolveCorrect

LEMMA TableInitInv == TableInit => TableInv
<1> SUFFICES ASSUME TableInit PROVE TableInv
  OBVIOUS
<1>1. TableTypeOK
  BY NewTrue DEF TableInit, TableTypeOK
<1>2. EntriesTrue /\ BaseKnown
  BY NewTrue DEF TableInit, EntriesTrue, BaseKnown
<1>3. WindowKnown /\ AnswersResolved
  BY DEF TableInit, WindowKnown, AnswersResolved
<1>4. QED
  BY <1>1, <1>2, <1>3 DEF TableInv

(* Every lookup preserves the invariant and answers with Resolve. *)
LEMMA LookupInv ==
    ASSUME TableInv, NEW key \in Key, Lookup(key)
    PROVE  TableInv' /\ Eager!Ask(key)
<1> USE DEF TableInv
<1>1. CASE LookupHit(key)
  <2>1. answers' = [answers EXCEPT ![key] = Eager!Resolve(key)]
    BY <1>1, HitResolves DEF LookupHit
  <2>2. AnswersResolved'
    BY <2>1, <1>1 DEF AnswersResolved, TableTypeOK
  <2>3. TableTypeOK'
    BY <1>1, <2>1, ResolveCorrect DEF LookupHit, TableTypeOK
  <2>4. (EntriesTrue /\ BaseKnown /\ WindowKnown)'
    BY <1>1 DEF LookupHit, EntriesTrue, BaseKnown, WindowKnown
  <2>5. QED
    BY <2>1, <2>2, <2>3, <2>4 DEF Eager!Ask
<1>2. CASE LookupExpand(key)
  <2>1. known' \in [Key -> Index \cup {NoIndex}]
    BY <1>2, ExpandedTrue DEF LookupExpand
  <2>2. EntriesTrue'
    BY <1>2, ExpandedTrue DEF LookupExpand, EntriesTrue
  <2>3. BaseKnown'
    <3>1. ASSUME NEW i \in {PrimaryIndex} \cup Listed
          PROVE  SpendKeyOf[i] \in Key
      BY IndexAssumption, KeyAssumption
    <3>2. QED
      BY <1>2, <3>1, ExpandedTrue DEF LookupExpand, BaseKnown
  <2>4. WindowKnown'
    BY <1>2, ExpandedTrue DEF LookupExpand, WindowKnown
  <2>5. known'[key] = Eager!Resolve(key)
    <3>1. CASE known'[key] = NoIndex
      <4>1. \A i \in Eager!Reachable : SpendKeyOf[i] # key
        BY <1>2, <2>3, <2>4, <3>1
           DEF LookupExpand, BaseKnown, WindowKnown, Eager!Reachable
      <4>2. QED
        BY <3>1, <4>1, ResolveCorrect
    <3>2. CASE known'[key] # NoIndex
      BY <2>2, <3>2, ResolveUnique DEF EntriesTrue
    <3>3. QED
      BY <3>1, <3>2
  <2>6. answers' = [answers EXCEPT ![key] = Eager!Resolve(key)]
    BY <1>2, <2>5 DEF LookupExpand
  <2>7. TableTypeOK'
    <3>1. answers' \in [Key -> Index \cup {NoIndex, Unasked}]
      BY <2>6, ResolveCorrect DEF TableTypeOK
    <3>2. expanded' = TRUE
      BY <1>2 DEF LookupExpand
    <3>3. QED
      BY <2>1, <3>1, <3>2 DEF TableTypeOK
  <2>8. AnswersResolved'
    BY <2>6 DEF AnswersResolved, TableTypeOK
  <2>9. QED
    BY <2>2, <2>3, <2>4, <2>6, <2>7, <2>8 DEF Eager!Ask
<1>3. CASE LookupMiss(key)
  <2>1. answers' = [answers EXCEPT ![key] = Eager!Resolve(key)]
    BY <1>3, MissResolves DEF LookupMiss
  <2>2. AnswersResolved'
    BY <2>1 DEF AnswersResolved, TableTypeOK
  <2>3. TableTypeOK'
    BY <1>3, <2>1, ResolveCorrect DEF LookupMiss, TableTypeOK
  <2>4. (EntriesTrue /\ BaseKnown /\ WindowKnown)'
    BY <1>3 DEF LookupMiss, EntriesTrue, BaseKnown, WindowKnown
  <2>5. QED
    BY <2>1, <2>2, <2>3, <2>4 DEF Eager!Ask
<1>4. QED
  BY <1>1, <1>2, <1>3 DEF Lookup

LEMMA TableStutterInv ==
    ASSUME TableInv, UNCHANGED tableVars
    PROVE  TableInv' /\ UNCHANGED answers
BY DEF TableInv, tableVars, TableTypeOK, EntriesTrue, BaseKnown, WindowKnown, AnswersResolved

LEMMA TableNextInv == TableInv /\ [TableNext]_tableVars => TableInv'
BY LookupInv, TableStutterInv DEF TableNext

LEMMA TableHolds == TableSpec => []TableInv
BY TableInitInv, TableNextInv, PTL DEF TableSpec

-----------------------------------------------------------------------------
(* Theorems *)

(* The table, the expanded flag and the answers always have their types,
   whatever is looked up (sign.rs, SubaddressTable). *)
THEOREM TableTypeCorrect == TableSpec => []TableTypeOK
<1>1. TableInv => TableTypeOK
  BY DEF TableInv
<1>2. QED
  BY <1>1, TableHolds, PTL

(* SubaddressTable::lookup answers every key of a listed or windowed address
   with its index and no other key, in whatever order keys are asked for. *)
THEOREM LookupExact == TableSpec => []AnswersExact
<1>1. TableInv => AnswersExact
  <2> SUFFICES ASSUME TableInv, NEW key \in Key, answers[key] # Unasked
               PROVE  /\ answers[key] \in Index =>
                            /\ answers[key] \in Eager!Reachable
                            /\ SpendKeyOf[answers[key]] = key
                      /\ answers[key] = NoIndex =>
                            \A i \in Eager!Reachable : SpendKeyOf[i] # key
    BY SentinelAssumption DEF AnswersExact
  <2>1. answers[key] = Eager!Resolve(key)
    BY DEF TableInv, AnswersResolved
  <2>2. QED
    BY <2>1, ResolveCorrect, SentinelAssumption
<1>2. QED
  BY <1>1, TableHolds, PTL

(* The lazily expanded table is indistinguishable from one that holds every
   address from the start. *)
THEOREM RefinesEager == TableSpec => ImplementsEager
<1>1. TableInit => Eager!Init
  BY DEF TableInit, Eager!Init
<1>2. TableInv /\ [TableNext]_tableVars => [Eager!Next]_answers
  BY LookupInv, TableStutterInv DEF TableNext, Eager!Next
<1>3. QED
  BY <1>1, <1>2, TableHolds, PTL DEF TableSpec, ImplementsEager, Eager!Spec
=============================================================================
